--------------------------- MODULE WorkflowEngine ---------------------------
(***************************************************************************)
(* Sequential workflows: workflow_engine.py over the entry files, the       *)
(* status tables of workflow_gate.py, the agents' task queues              *)
(* (agent_store.py), the HTTP handlers that call them                      *)
(* (api_orchestration.py) and the conductor coroutine (conductor.py).      *)
(*                                                                         *)
(* Handlers declared "async def" (the PATCH of a task's status) and the    *)
(* conductor's coroutines run on the one event loop; handlers declared     *)
(* "def" (next-task, decision, cancel, enqueue, assign, create) run on     *)
(* threads of a pool, beside the loop.  Nothing locks the files.  A        *)
(* handler is cut where it writes: a step either reads and decides, or     *)
(* performs one write (one call of _update_entry_frontmatter,              *)
(* _write_entry or a method of AgentStore that rewrites agents.json, each  *)
(* taken as one instant).  Timeline lines and events are left out.         *)
(***************************************************************************)
EXTENDS Naturals, Sequences, FiniteSets

CONSTANTS
    Workflows,      \* workflow ids
    Tasks,          \* task ids, drawn from uuid4 when a task is created
    Agents,         \* agents registered in agents.json
    WfOf,           \* the workflow whose "wf-id:" tag a task carries
    Rank,           \* place in task_names at creation; 0: only insert_task makes it
    Pool,           \* threads of the server's pool
    Loop,           \* the event loop
    NoTask, NoAgent,
    Exclusive,      \* TRUE: a request is sent only when no other is in flight
    MaxQueue,       \* bound: tasks in an agent's queue
    MaxJobs,        \* bound: conductor coroutines alive at once
    MaxCrashes      \* bound: how often the server is killed and restarted

ASSUME SortAssumption ==
    /\ WfOf \in [Tasks -> Workflows]
    /\ Rank \in [Tasks -> Nat]
    /\ Loop \notin Pool
    /\ NoTask \notin Tasks
    /\ NoAgent \notin Agents
    /\ Exclusive \in BOOLEAN
    /\ MaxQueue \in Nat
    /\ MaxJobs \in Nat
    /\ MaxCrashes \in Nat

VARIABLES
    task,       \* status field of every task file
    order,      \* order field: only its comparisons matter
    assigned,   \* assigned_agent field
    wf,         \* status field of every workflow file
    queue,      \* agents.json: the task queue of every agent
    proc,       \* what each thread and the loop are in the middle of
    jobs,       \* conductor coroutines suspended at an await
    crashes

files == <<task, order, assigned, wf, queue>>
vars == <<task, order, assigned, wf, queue, proc, jobs, crashes>>

Procs == Pool \cup {Loop}

TaskStatus == {"absent", "pending", "in_progress", "done", "blocked", "escalated"}
WfStatus == {"absent", "active", "completed", "escalated", "cancelled"}

(***************************************************************************)
(* workflow_gate.py: the tables, and a transition to the same status is an *)
(* idempotent retry.                                                       *)
(***************************************************************************)
TaskTransitions(s) ==
    CASE s = "pending"     -> {"in_progress"}
      [] s = "in_progress" -> {"done", "blocked", "escalated"}
      [] s = "blocked"     -> {"in_progress"}
      [] OTHER             -> {}

ValidTask(s, new) == s = new \/ new \in TaskTransitions(s)

WfTransitions(s) ==
    IF s = "active" THEN {"completed", "escalated", "cancelled"} ELSE {}

ValidWf(s, new) == s = new \/ new \in WfTransitions(s)

(***************************************************************************)
(* list_tasks and what the handlers ask of it.                             *)
(***************************************************************************)
Listed(w) == {t \in Tasks : WfOf[t] = w /\ task[t] # "absent"}

Busy(w) == \E t \in Listed(w) : task[t] = "in_progress"

Pending(w) == {t \in Listed(w) : task[t] = "pending"}

FirstPending(w) == {t \in Pending(w) : \A u \in Pending(w) : order[t] <= order[u]}

AllDone(w) == \A t \in Listed(w) : task[t] = "done"

(***************************************************************************)
(* A request in flight: the request it serves (op), where it is (pc), the  *)
(* task it writes next, the status it writes, the agent whose queue it     *)
(* walks and what is left of that queue, and for a coroutine the task it   *)
(* had picked before it was suspended.                                     *)
(***************************************************************************)
Idle == [op |-> "none", pc |-> "idle", wf |-> NoTask, task |-> NoTask,
         new |-> "none", agent |-> NoAgent, todo |-> <<>>, pick |-> NoTask]

MayBegin(p) ==
    /\ proc[p].pc = "idle"
    /\ Exclusive => \A q \in Procs : proc[q].pc = "idle"

Goto(p, r) == proc' = [proc EXCEPT ![p] = r]

(***************************************************************************)
(* The request is answered; a completed task spawns the conductor's        *)
(* coroutine.                                                              *)
(***************************************************************************)
Finish(p) ==
    /\ Goto(p, Idle)
    /\ jobs' = IF proc[p].op = "done"
               THEN jobs \cup {[wf |-> proc[p].wf, pick |-> NoTask]} ELSE jobs

Continue(p, r) == Goto(p, r) /\ UNCHANGED jobs

-----------------------------------------------------------------------------
(***************************************************************************)
(* create_workflow: the task files first, with the agents the request may  *)
(* give them, the workflow file last.                                      *)
(***************************************************************************)
CreateRequest(p, w) ==
    /\ p \in Pool /\ MayBegin(p)
    /\ wf[w] = "absent"
    /\ \A t \in Tasks : WfOf[t] = w => task[t] = "absent"
    /\ \A q \in Procs : proc[q].wf # w
    /\ Continue(p, [Idle EXCEPT !.op = "create", !.pc = "tasks", !.wf = w])
    /\ UNCHANGED <<files, crashes>>

CreateTasks(p) ==
    LET made == {t \in Tasks : WfOf[t] = proc[p].wf /\ Rank[t] > 0}
    IN /\ proc[p].pc = "tasks"
       /\ task' = [t \in Tasks |-> IF t \in made THEN "pending" ELSE task[t]]
       /\ order' = [t \in Tasks |-> IF WfOf[t] = proc[p].wf THEN Rank[t] ELSE order[t]]
       /\ \E given \in [made -> Agents \cup {NoAgent}] :
            assigned' = [t \in Tasks |-> IF t \in made THEN given[t] ELSE assigned[t]]
       /\ Continue(p, [proc[p] EXCEPT !.pc = "entry"])
       /\ UNCHANGED <<wf, queue, crashes>>

CreateEntry(p) ==
    /\ proc[p].pc = "entry"
    /\ wf' = [wf EXCEPT ![proc[p].wf] = "active"]
    /\ Finish(p)
    /\ UNCHANGED <<task, order, assigned, queue, crashes>>

(***************************************************************************)
(* start_next_task and _start_task: list, refuse while a task is in        *)
(* progress, take the first pending task; the write comes later.  Called   *)
(* by the PATCH to in_progress on the loop and by an approving decision on *)
(* a pool thread.                                                          *)
(***************************************************************************)
StartRequestWhileBusy(p, w) ==      \* mutant: the sequential check is dropped
    /\ MayBegin(p) /\ wf[w] # "absent"
    /\ \E t \in FirstPending(w) :
         Continue(p, [Idle EXCEPT !.op = "start", !.pc = "start", !.wf = w, !.task = t])
    /\ UNCHANGED <<files, crashes>>

StartRequest(p, w) ==
    /\ MayBegin(p)
    /\ wf[w] # "absent" /\ ~Busy(w)
    /\ \E t \in FirstPending(w) :
         Continue(p, [Idle EXCEPT !.op = "start", !.pc = "start", !.wf = w, !.task = t])
    /\ UNCHANGED <<files, crashes>>

StartWrite(p) ==
    /\ proc[p].pc = "start"
    /\ task' = [task EXCEPT ![proc[p].task] = "in_progress"]
    /\ \/ /\ proc[p].agent # NoAgent
          /\ Continue(p, [proc[p] EXCEPT !.pc = "dequeue", !.todo = <<>>])
       \/ /\ proc[p].agent = NoAgent /\ proc[p].op = "job"
          /\ Continue(p, [proc[p] EXCEPT !.pc = "dispatch"])
       \/ /\ proc[p].agent = NoAgent /\ proc[p].op # "job"
          /\ Finish(p)
    /\ UNCHANGED <<order, assigned, wf, queue, crashes>>

(***************************************************************************)
(* The walk over an agent's queue in next_task_from_queue and in           *)
(* complete_task: items whose workflow is busy are passed over, an item    *)
(* that is no longer pending is dequeued, the first other one is started.  *)
(***************************************************************************)
WalkDropsBusy(p) ==          \* mutant: an item of a busy workflow leaves the queue
    LET todo == proc[p].todo
    IN /\ proc[p].pc = "walk"
       /\ \/ todo = <<>> /\ Finish(p)
          \/ /\ todo # <<>>
             /\ Continue(p, [proc[p] EXCEPT
                    !.pc = IF task[Head(todo)] = "pending" /\ ~Busy(WfOf[Head(todo)])
                           THEN "start" ELSE "dequeue",
                    !.task = Head(todo), !.todo = Tail(todo)])
       /\ UNCHANGED <<files, crashes>>

Walk(p) ==
    LET todo == proc[p].todo
        stop == {i \in DOMAIN todo :
                   ~(task[todo[i]] = "pending" /\ Busy(WfOf[todo[i]]))}
    IN /\ proc[p].pc = "walk"
       /\ \/ /\ stop = {}
             /\ Finish(p)
          \/ \E i \in stop :
               /\ \A j \in stop : i <= j
               /\ Continue(p, [proc[p] EXCEPT
                      !.pc = IF task[todo[i]] = "pending" THEN "start" ELSE "dequeue",
                      !.task = todo[i],
                      !.todo = SubSeq(todo, i + 1, Len(todo))])
       /\ UNCHANGED <<files, crashes>>

(***************************************************************************)
(* dequeue_task.  After a start the walk is over (todo was emptied); after *)
(* a stale item it goes on.                                                *)
(***************************************************************************)
Dequeue(p) ==
    LET a == proc[p].agent
    IN /\ proc[p].pc = "dequeue"
       /\ \/ /\ \A i \in DOMAIN queue[a] : queue[a][i] # proc[p].task
             /\ UNCHANGED queue
          \/ \E i \in DOMAIN queue[a] :
               /\ queue[a][i] = proc[p].task
               /\ queue' = [queue EXCEPT ![a] =
                              SubSeq(@, 1, i - 1) \o SubSeq(@, i + 1, Len(@))]
       /\ Continue(p, [proc[p] EXCEPT !.pc = "walk"])
       /\ UNCHANGED <<task, order, assigned, wf, crashes>>

NextTaskRequest(p, a) ==
    /\ p \in Pool /\ MayBegin(p)
    /\ queue[a] # <<>>
    /\ Continue(p, [Idle EXCEPT !.op = "next", !.pc = "walk",
                                !.agent = a, !.todo = queue[a]])
    /\ UNCHANGED <<files, crashes>>

(***************************************************************************)
(* PATCH of a task to done, blocked or escalated: complete_task,           *)
(* block_task and escalate_task, all on the loop.                          *)
(***************************************************************************)
MarkRequest(t, new) ==
    /\ MayBegin(Loop)
    /\ wf[WfOf[t]] # "absent" /\ task[t] # "absent"
    /\ ValidTask(task[t], new)
    /\ new = "done" => Cardinality(jobs) < MaxJobs
    /\ Continue(Loop, [Idle EXCEPT !.op = new, !.pc = "mark", !.wf = WfOf[t],
                          !.task = t, !.new = new,
                          !.agent = IF new = "done" THEN assigned[t] ELSE NoAgent])
    /\ UNCHANGED <<files, crashes>>

MarkWrite(p) ==
    /\ proc[p].pc = "mark"
    /\ task' = [task EXCEPT ![proc[p].task] = proc[p].new]
    /\ Continue(p, [proc[p] EXCEPT !.pc = "marked"])
    /\ UNCHANGED <<order, assigned, wf, queue, crashes>>

(***************************************************************************)
(* What follows the write.  The workflow's status is validated as if it    *)
(* were "active", whatever it is: the check always passes.                 *)
(***************************************************************************)
MarkedNothingPending(p) ==   \* mutant: blocked and escalated tasks are forgotten
    /\ proc[p].pc = "marked"
    /\ \/ /\ proc[p].new = "done" /\ Pending(proc[p].wf) = {}
          /\ Continue(p, [proc[p] EXCEPT !.pc = "close", !.new = "completed"])
       \/ /\ proc[p].new = "done" /\ Pending(proc[p].wf) # {}
          /\ Continue(p, [proc[p] EXCEPT !.pc = "advance"])
       \/ /\ proc[p].new = "escalated"
          /\ Continue(p, [proc[p] EXCEPT !.pc = "close"])
       \/ /\ proc[p].new = "blocked"
          /\ Finish(p)
    /\ UNCHANGED <<files, crashes>>

MarkedAdvancesFirst(p) ==    \* mutant: an agent's task goes on before the workflow is closed
    /\ proc[p].pc = "marked"
    /\ \/ /\ proc[p].new = "done"
          /\ Continue(p, [proc[p] EXCEPT
                 !.pc = IF AllDone(proc[p].wf) /\ proc[p].agent = NoAgent
                        THEN "close" ELSE "advance",
                 !.new = IF AllDone(proc[p].wf) THEN "completed" ELSE @])
       \/ /\ proc[p].new = "escalated"
          /\ Continue(p, [proc[p] EXCEPT !.pc = "close"])
       \/ /\ proc[p].new = "blocked"
          /\ Finish(p)
    /\ UNCHANGED <<files, crashes>>

Marked(p) ==
    /\ proc[p].pc = "marked"
    /\ \/ /\ proc[p].new = "done" /\ AllDone(proc[p].wf) /\ ValidWf("active", "completed")
          /\ Continue(p, [proc[p] EXCEPT !.pc = "close", !.new = "completed"])
       \/ /\ proc[p].new = "done" /\ ~AllDone(proc[p].wf)
          /\ Continue(p, [proc[p] EXCEPT !.pc = "advance"])
       \/ /\ proc[p].new = "escalated" /\ ValidWf("active", "escalated")
          /\ Continue(p, [proc[p] EXCEPT !.pc = "close"])
       \/ /\ proc[p].new = "blocked"
          /\ Finish(p)
    /\ UNCHANGED <<files, crashes>>

CloseWriteStatus(p) ==       \* mutant: the task's new status is written, not the workflow's
    /\ proc[p].pc = "close"
    /\ wf' = [wf EXCEPT ![proc[p].wf] = proc[p].op]
    /\ Finish(p)
    /\ UNCHANGED <<task, order, assigned, queue, crashes>>

CloseWrite(p) ==
    /\ proc[p].pc = "close"
    /\ wf' = [wf EXCEPT ![proc[p].wf] = proc[p].new]
    /\ IF proc[p].op = "done"
       THEN Continue(p, [proc[p] EXCEPT !.pc = "advance"])
       ELSE Finish(p)
    /\ UNCHANGED <<task, order, assigned, queue, crashes>>

(***************************************************************************)
(* complete_task's auto-advance, only for a task that had an agent.        *)
(***************************************************************************)
Advance(p) ==
    /\ proc[p].pc = "advance"
    /\ IF proc[p].agent = NoAgent
       THEN Finish(p)
       ELSE Continue(p, [proc[p] EXCEPT !.pc = "walk", !.todo = queue[proc[p].agent]])
    /\ UNCHANGED <<files, crashes>>

(***************************************************************************)
(* cancel_workflow: the one place that looks at the workflow's own status. *)
(***************************************************************************)
CancelAnything(p, w) ==      \* mutant: the workflow's status is not looked at
    /\ p \in Pool /\ MayBegin(p)
    /\ wf[w] # "absent"
    /\ Continue(p, [Idle EXCEPT !.op = "cancel", !.pc = "close",
                                !.wf = w, !.new = "cancelled"])
    /\ UNCHANGED <<files, crashes>>

CancelRequest(p, w) ==
    /\ p \in Pool /\ MayBegin(p)
    /\ wf[w] # "absent" /\ ValidWf(wf[w], "cancelled")
    /\ Continue(p, [Idle EXCEPT !.op = "cancel", !.pc = "close",
                                !.wf = w, !.new = "cancelled"])
    /\ UNCHANGED <<files, crashes>>

(***************************************************************************)
(* insert_task, reached from a "request_fix" decision: whatever the        *)
(* workflow's status, a pending task is placed right after the reviewed    *)
(* one (the order is the mean of its neighbours').  The implementer is the *)
(* agent of the task before the reviewed one.  The file is a new one, so   *)
(* the list it is placed in and the write are taken as one instant.        *)
(***************************************************************************)
InsertTask(p, after, t) ==
    LET w == WfOf[after]
        earlier == {u \in Listed(w) : order[u] < order[after]}
        impl == {u \in earlier : \A v \in earlier : order[v] <= order[u]}
    IN /\ p \in Pool /\ MayBegin(p)
       /\ after \in Listed(w)
       /\ WfOf[t] = w /\ task[t] = "absent" /\ Rank[t] = 0
       /\ task' = [task EXCEPT ![t] = "pending"]
       /\ order' = [u \in Tasks |->
                      IF u = t THEN order[after] + 1
                      ELSE IF u \in Listed(w) /\ order[u] > order[after]
                           THEN order[u] + 1 ELSE order[u]]
       /\ \/ impl = {} /\ assigned' = [assigned EXCEPT ![t] = NoAgent]
          \/ \E u \in impl : assigned' = [assigned EXCEPT ![t] = assigned[u]]
       /\ UNCHANGED <<wf, queue, proc, jobs, crashes>>

(***************************************************************************)
(* assign_agent, and enqueue_task behind POST /api/agents/{name}/queue:    *)
(* one write each.                                                         *)
(***************************************************************************)
AssignRequest(p, t, a) ==
    /\ p \in Pool /\ MayBegin(p)
    /\ wf[WfOf[t]] # "absent" /\ task[t] # "absent"
    /\ assigned' = [assigned EXCEPT ![t] = a]
    /\ UNCHANGED <<task, order, wf, queue, proc, jobs, crashes>>

EnqueueRequest(p, a, t) ==
    /\ p \in Pool /\ MayBegin(p)
    /\ task[t] # "absent"
    /\ \A i \in DOMAIN queue[a] : queue[a][i] # t
    /\ Len(queue[a]) < MaxQueue
    /\ queue' = [queue EXCEPT ![a] = Append(@, t)]
    /\ UNCHANGED <<task, order, assigned, wf, proc, jobs, crashes>>

(***************************************************************************)
(* ConductorLoop.on_task_completed.  First segment: pick the first pending *)
(* task, give up if it has no agent, then await the conductor agent's      *)
(* terminal.  Second segment: start_next_task, whose result is ignored,    *)
(* then the pick goes to its agent's terminal.                             *)
(***************************************************************************)
ConductorPick(j) ==
    /\ j \in jobs /\ MayBegin(Loop) /\ j.pick = NoTask
    /\ \/ /\ FirstPending(j.wf) = {}
          /\ jobs' = jobs \ {j}
       \/ \E t \in FirstPending(j.wf) :
            jobs' = IF assigned[t] = NoAgent THEN jobs \ {j}
                    ELSE (jobs \ {j}) \cup {[j EXCEPT !.pick = t]}
    /\ UNCHANGED <<files, proc, crashes>>

ConductorResumeOnlyTells(j) ==   \* mutant: the pick is dispatched and nothing is started
    /\ j \in jobs /\ MayBegin(Loop) /\ j.pick # NoTask
    /\ jobs' = jobs \ {j}
    /\ Goto(Loop, [Idle EXCEPT !.op = "job", !.wf = j.wf, !.pick = j.pick,
                               !.pc = "dispatch"])
    /\ UNCHANGED <<files, crashes>>

ConductorResume(j) ==
    LET coroutine == [Idle EXCEPT !.op = "job", !.wf = j.wf, !.pick = j.pick]
    IN /\ j \in jobs /\ MayBegin(Loop) /\ j.pick # NoTask
       /\ jobs' = jobs \ {j}
       /\ \/ /\ Busy(j.wf) \/ FirstPending(j.wf) = {}
             /\ Goto(Loop, [coroutine EXCEPT !.pc = "dispatch"])
          \/ /\ ~Busy(j.wf)
             /\ \E t \in FirstPending(j.wf) :
                  Goto(Loop, [coroutine EXCEPT !.pc = "start", !.task = t])
       /\ UNCHANGED <<files, crashes>>

(***************************************************************************)
(* _dispatch_to_terminal: the pick's name goes to its agent's terminal,    *)
(* and the coroutine ends.                                                 *)
(***************************************************************************)
Dispatch(p) ==
    /\ proc[p].pc = "dispatch"
    /\ Finish(p)
    /\ UNCHANGED <<files, crashes>>

(***************************************************************************)
(* The server is killed: requests and coroutines are gone, files stay.     *)
(***************************************************************************)
Crash ==
    /\ crashes < MaxCrashes
    /\ crashes' = crashes + 1
    /\ proc' = [p \in Procs |-> Idle]
    /\ jobs' = {}
    /\ UNCHANGED files

-----------------------------------------------------------------------------
Init ==
    /\ task = [t \in Tasks |-> "absent"]
    /\ order = [t \in Tasks |-> 0]
    /\ assigned = [t \in Tasks |-> NoAgent]
    /\ wf = [w \in Workflows |-> "absent"]
    /\ queue = [a \in Agents |-> <<>>]
    /\ proc = [p \in Procs |-> Idle]
    /\ jobs = {}
    /\ crashes = 0

Request(p) ==
    \/ \E w \in Workflows : CreateRequest(p, w) \/ StartRequest(p, w) \/ CancelRequest(p, w)
    \/ \E a \in Agents : NextTaskRequest(p, a)
    \/ \E t, u \in Tasks : InsertTask(p, t, u)
    \/ \E t \in Tasks, a \in Agents \cup {NoAgent} : AssignRequest(p, t, a)
    \/ \E t \in Tasks, a \in Agents : EnqueueRequest(p, a, t)

Step(p) ==
    \/ CreateTasks(p) \/ CreateEntry(p)
    \/ StartWrite(p) \/ Walk(p) \/ Dequeue(p)
    \/ MarkWrite(p) \/ Marked(p) \/ CloseWrite(p) \/ Advance(p) \/ Dispatch(p)

Next ==
    \/ \E p \in Procs : Request(p) \/ Step(p)
    \/ \E t \in Tasks, new \in {"done", "blocked", "escalated"} : MarkRequest(t, new)
    \/ \E j \in jobs : ConductorPick(j) \/ ConductorResume(j)
    \/ Crash

Spec == Init /\ [][Next]_vars

(***************************************************************************)
(* A thread or the loop goes on with the handler it is in, and asyncio's   *)
(* ready queue is first in, first out: a coroutine whose await is over is  *)
(* resumed although other requests keep coming.                            *)
(***************************************************************************)
Coroutines == [wf : Workflows, pick : Tasks \cup {NoTask}]

Fairness ==
    /\ \A p \in Procs : WF_vars(Step(p))
    /\ \A j \in Coroutines : SF_vars(ConductorPick(j) \/ ConductorResume(j))

FairSpec == Spec /\ Fairness

-----------------------------------------------------------------------------
Pcs == {"idle", "tasks", "entry", "start", "walk", "dequeue", "mark", "marked",
        "close", "advance", "dispatch"}

(***************************************************************************)
(* Every variable has its type.                                            *)
(***************************************************************************)
ProcType ==
    [op : {"none", "create", "start", "next", "done", "blocked", "escalated",
           "cancel", "job"},
     pc : Pcs, wf : Workflows \cup {NoTask}, task : Tasks \cup {NoTask},
     new : {"none", "done", "blocked", "escalated", "completed", "cancelled"},
     agent : Agents \cup {NoAgent}, todo : Seq(Tasks), pick : Tasks \cup {NoTask}]

TypeOK ==
    /\ task \in [Tasks -> TaskStatus]
    /\ order \in [Tasks -> Nat]
    /\ assigned \in [Tasks -> Agents \cup {NoAgent}]
    /\ wf \in [Workflows -> WfStatus]
    /\ queue \in [Agents -> Seq(Tasks)]
    /\ proc \in [Procs -> ProcType]
    /\ jobs \subseteq [wf : Workflows \cup {NoTask}, pick : Tasks \cup {NoTask}]
    /\ crashes \in 0 .. MaxCrashes

Quiet == \A p \in Procs : proc[p].pc = "idle"

(***************************************************************************)
(* At most one task of a workflow is in progress: "Orchestrates sequential *)
(* workflow execution", "sequential: only if no task is in_progress".      *)
(***************************************************************************)
Sequential ==
    \A t, u \in Tasks :
        WfOf[t] = WfOf[u] /\ task[t] = "in_progress" /\ task[u] = "in_progress" => t = u

(***************************************************************************)
(* A task is handed out once: whoever is about to write that it starts a   *)
(* task finds it still pending, so no other caller was told the same.      *)
(***************************************************************************)
StartIsFresh ==
    \A p \in Procs : proc[p].pc = "start" => task[proc[p].task] = "pending"

(***************************************************************************)
(* A workflow becomes completed only in a state where all its tasks are    *)
(* done.                                                                   *)
(***************************************************************************)
CompletesWhenDone ==
    [][\A w \in Workflows : wf[w] # "completed" /\ wf'[w] = "completed" => AllDone(w)]_vars

(***************************************************************************)
(* complete_task goes on to the agent's queue only after the workflow's    *)
(* own record says that it is completed, also when the call repeats one    *)
(* that a restart cut short: the retry repairs what the crash left.        *)
(***************************************************************************)
AdvanceRecorded ==
    \A p \in Procs :
        proc[p].pc = "advance" /\ AllDone(proc[p].wf) => wf[proc[p].wf] = "completed"

(***************************************************************************)
(* The walk takes a task out of an agent's queue only if it is no longer   *)
(* pending: work that nobody started is never lost from a queue.           *)
(***************************************************************************)
InQueue(a, t) == \E i \in DOMAIN queue[a] : queue[a][i] = t

QueueLosesOnlyStarted ==
    [][\A a \in Agents, t \in Tasks :
         InQueue(a, t) /\ ~InQueue(a, t)' => task[t] # "pending"]_vars

(***************************************************************************)
(* A workflow whose next task was picked is not forgotten: the coroutine   *)
(* of the pick stays, and starts the first task that is pending by then,   *)
(* whatever is started, completed, inserted or cancelled while it is       *)
(* suspended (on_task_completed); only a restart drops it.                 *)
(***************************************************************************)
HandedOn(w) ==
    \/ \E j \in jobs : j.wf = w /\ j.pick # NoTask
    \/ \E p \in Procs : proc[p].op = "job" /\ proc[p].pc = "start" /\ proc[p].wf = w

PickStands ==
    \A w \in Workflows :
        HandedOn(w) => \/ HandedOn(w)' \/ Busy(w)'
                       \/ Busy(w) \/ Pending(w) = {}
                       \/ crashes' # crashes

(***************************************************************************)
(* Once the conductor has picked a task to hand on, its workflow does not  *)
(* stay idle with work waiting (after the last restart: a restart forgets  *)
(* the coroutine).                                                         *)
(***************************************************************************)
PickLeadsToWork ==
    /\ [][PickStands]_vars
    /\ \A w \in Workflows :
          (crashes = MaxCrashes /\ \E j \in jobs : j.wf = w /\ j.pick # NoTask)
              ~> (Busy(w) \/ Pending(w) = {})

(***************************************************************************)
(* The declared table: completed, escalated and cancelled are terminal.    *)
(***************************************************************************)
TerminalWorkflow ==
    [][\A w \in Workflows :
         wf[w] \notin {"absent", "active"} => wf'[w] = wf[w]]_vars

-----------------------------------------------------------------------------
(***************************************************************************)
(* How the engine's files show the abstract work: the tasks of a workflow  *)
(* are seen when its own file is there, and between the write of a task    *)
(* and the write of its workflow the report counts as taken in already.    *)
(***************************************************************************)
SeenWork == [t \in Tasks |-> IF wf[WfOf[t]] = "absent" THEN "absent" ELSE task[t]]

Closing(w, op) ==
    \E p \in Procs : proc[p].pc \in {"marked", "close"} /\ proc[p].op = op /\ proc[p].wf = w

SeenStatus ==
    [w \in Workflows |->
        IF Closing(w, "done") /\ AllDone(w) THEN "completed"
        ELSE IF Closing(w, "escalated") THEN "escalated" ELSE wf[w]]

Work == INSTANCE SequentialWork WITH work <- SeenWork, status <- SeenStatus

(***************************************************************************)
(* The engine implements the abstract work: with its writes cut apart,     *)
(* queues walked and coroutines in between, what clients can see is a      *)
(* workflow whose tasks go one at a time and whose reports are atomic.     *)
(***************************************************************************)
ImplementsSequentialWork == Work!WorkSpec
=============================================================================
