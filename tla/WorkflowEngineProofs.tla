------------------------ MODULE WorkflowEngineProofs ------------------------
(***************************************************************************)
(* Proofs about WorkflowEngine, for every number of workflows, tasks,      *)
(* agents and pool threads and every bound.  The last part: where requests *)
(* do not overlap and the server is not killed in between, the engine      *)
(* implements the abstract work of SequentialWork.                         *)
(***************************************************************************)
EXTENDS WorkflowEngine, SequenceTheorems, WellFoundedInduction, TLAPS

(***************************************************************************)
(* What a program point says of the request that is at it.                 *)
(***************************************************************************)
Shape(r) ==
    /\ r \in ProcType
    /\ r.pc \in {"tasks", "entry", "marked", "close", "advance"} => r.wf \in Workflows
    /\ r.pc \in {"start", "dequeue", "mark"} => r.task \in Tasks
    /\ r.pc \in {"walk", "dequeue"} => r.agent \in Agents
    /\ r.pc \in {"mark", "marked"} => r.new \in {"done", "blocked", "escalated"}
    /\ r.pc = "mark" => r.wf \in Workflows
    /\ r.pc = "close" => r.new \in {"completed", "escalated", "cancelled"}

TypeInv == TypeOK /\ \A p \in Procs : Shape(proc[p])

(***************************************************************************)
(* One step of a handler writes the record of its own process only.        *)
(***************************************************************************)
LEMMA GotoShape ==
    ASSUME TypeInv, NEW p \in Procs, NEW r, Shape(r), Goto(p, r)
    PROVE  /\ proc' \in [Procs -> ProcType]
           /\ \A q \in Procs : Shape(proc'[q])
BY DEF TypeInv, TypeOK, Goto, Shape

\* The walk of a request that has none.
LEMMA EmptyTodo == <<>> \in Seq(Tasks)
OBVIOUS

\* The idle request has the shape of one.
LEMMA IdleShape == Shape(Idle)
BY EmptyTodo DEF Shape, Idle, ProcType, Pcs

(***************************************************************************)
(* A tail of a queue is a queue.                                           *)
(***************************************************************************)
LEMMA SubSeqTasks ==
    ASSUME NEW s \in Seq(Tasks), NEW i \in DOMAIN s
    PROVE  /\ SubSeq(s, 1, i - 1) \in Seq(Tasks)
           /\ SubSeq(s, i + 1, Len(s)) \in Seq(Tasks)
           /\ s[i] \in Tasks
           /\ SubSeq(s, 1, i - 1) \o SubSeq(s, i + 1, Len(s)) \in Seq(Tasks)
<1>1. SubSeq(s, 1, i - 1) \in Seq(Tasks)
  OBVIOUS
<1>2. SubSeq(s, i + 1, Len(s)) \in Seq(Tasks)
  OBVIOUS
<1>3. s[i] \in Tasks
  OBVIOUS
<1>4. SubSeq(s, 1, i - 1) \o SubSeq(s, i + 1, Len(s)) \in Seq(Tasks)
  BY <1>1, <1>2
<1>5. QED
  BY <1>1, <1>2, <1>3, <1>4

\* Which tasks stand before a place, and which after it.
LEMMA SubSeqSides ==
    ASSUME NEW s \in Seq(Tasks), NEW i \in 1 .. Len(s)
    PROVE  /\ Len(SubSeq(s, 1, i - 1)) = i - 1
           /\ \A n \in 1 .. (i - 1) : SubSeq(s, 1, i - 1)[n] = s[n]
           /\ Len(SubSeq(s, i + 1, Len(s))) = Len(s) - i
           /\ \A n \in 1 .. (Len(s) - i) : SubSeq(s, i + 1, Len(s))[n] = s[i + n]
<1>1. Len(s) \in Nat /\ \A n \in 1 .. Len(s) : s[n] \in Tasks
  OBVIOUS
<1>2. PICK len \in Nat : len = Len(s)
  BY <1>1
<1>3. i \in Int /\ 1 <= i /\ i <= len /\ i + 1 \in Int /\ i - 1 \in Int /\ len \in Int
  BY <1>2
<1>4. (\A n \in 1 .. (i - 1) : s[n] \in Tasks) /\ (\A n \in (i + 1) .. len : s[n] \in Tasks)
  BY <1>1, <1>2, <1>3
<1>5. /\ Len(SubSeq(s, 1, i - 1)) = IF 1 <= i - 1 THEN (i - 1) - 1 + 1 ELSE 0
      /\ \A n \in 1 .. ((i - 1) - 1 + 1) : SubSeq(s, 1, i - 1)[n] = s[1 + n - 1]
  BY <1>3, <1>4, SubSeqProperties
<1>6. /\ Len(SubSeq(s, i + 1, len)) = IF i + 1 <= len THEN len - (i + 1) + 1 ELSE 0
      /\ \A n \in 1 .. (len - (i + 1) + 1) : SubSeq(s, i + 1, len)[n] = s[(i + 1) + n - 1]
  BY <1>3, <1>4, SubSeqProperties
<1>7. /\ (IF 1 <= i - 1 THEN (i - 1) - 1 + 1 ELSE 0) = i - 1 /\ (i - 1) - 1 + 1 = i - 1
      /\ (IF i + 1 <= len THEN len - (i + 1) + 1 ELSE 0) = len - i /\ len - (i + 1) + 1 = len - i
      /\ \A n \in Int : 1 + n - 1 = n /\ (i + 1) + n - 1 = i + n
  BY <1>3
<1>8. /\ \A n \in 1 .. (i - 1) : SubSeq(s, 1, i - 1)[n] = s[n]
      /\ \A n \in 1 .. (len - i) : SubSeq(s, i + 1, len)[n] = s[i + n]
  <2>1. \A n \in 1 .. (i - 1) : n \in Int /\ n \in 1 .. ((i - 1) - 1 + 1)
    BY <1>3
  <2>2. \A n \in 1 .. (len - i) : n \in Int /\ n \in 1 .. (len - (i + 1) + 1)
    BY <1>3
  <2>3. QED
    BY <1>5, <1>6, <1>7, <2>1, <2>2
<1>9. QED
  BY <1>2, <1>5, <1>6, <1>7, <1>8

\* What stands after a place stood in the whole.
LEMMA TailItems ==
    ASSUME NEW s \in Seq(Tasks), NEW i \in 1 .. Len(s)
    PROVE  \A j \in DOMAIN SubSeq(s, i + 1, Len(s)) :
               \E k \in DOMAIN s : SubSeq(s, i + 1, Len(s))[j] = s[k]
<1>1. PICK rest : rest = SubSeq(s, i + 1, Len(s))
  OBVIOUS
<1>2. PICK len \in Nat : len = Len(s) /\ DOMAIN s = 1 .. len
  OBVIOUS
<1>3. rest \in Seq(Tasks) /\ Len(rest) = len - i /\ \A n \in 1 .. (len - i) : rest[n] = s[i + n]
  <2>1. i \in DOMAIN s
    BY <1>2
  <2>2. rest \in Seq(Tasks)
    BY <1>1, <2>1, SubSeqTasks
  <2>3. QED
    BY <1>1, <1>2, <2>2, SubSeqSides
<1>4. DOMAIN rest = 1 .. (len - i)
  BY <1>3
<1>5. \A n \in 1 .. (len - i) : i + n \in 1 .. len
  BY <1>2
<1>6. \A j \in DOMAIN rest : \E k \in DOMAIN s : rest[j] = s[k]
  BY <1>2, <1>3, <1>4, <1>5
<1>7. QED
  BY <1>1, <1>6

-----------------------------------------------------------------------------
(***************************************************************************)
(* What the actions share: a request's answer and its next program point   *)
(* keep the processes and the coroutines well-formed.                      *)
(***************************************************************************)
JobType == [wf : Workflows \cup {NoTask}, pick : Tasks \cup {NoTask}]

\* Going on keeps the types.
LEMMA ContinueType ==
    ASSUME TypeInv, NEW p \in Procs, NEW r, Shape(r), Continue(p, r)
    PROVE  /\ proc' \in [Procs -> ProcType]
           /\ \A q \in Procs : Shape(proc'[q])
           /\ jobs' \subseteq JobType
BY GotoShape DEF Continue, TypeInv, TypeOK, JobType

\* Answering keeps the types.
LEMMA FinishType ==
    ASSUME TypeInv, NEW p \in Procs, Finish(p)
    PROVE  /\ proc' \in [Procs -> ProcType]
           /\ \A q \in Procs : Shape(proc'[q])
           /\ jobs' \subseteq JobType
<1>1. proc[p].wf \in Workflows \cup {NoTask}
  BY DEF TypeInv, TypeOK, ProcType
<1>2. jobs \subseteq JobType
  BY DEF TypeInv, TypeOK, JobType
<1>3. [wf |-> proc[p].wf, pick |-> NoTask] \in JobType
  BY <1>1 DEF JobType
<1>4. jobs' \subseteq JobType
  BY <1>2, <1>3 DEF Finish
<1>5. QED
  BY <1>4, GotoShape, IdleShape DEF Finish

\* The types hold at the start.
LEMMA TypeInit == Init => TypeInv
BY IdleShape, SortAssumption
   DEF Init, TypeInv, TypeOK, TaskStatus, WfStatus, Shape

(***************************************************************************)
(* Every action preserves the type invariant and the shapes.               *)
(***************************************************************************)
LEMMA TypeRequest ==
    ASSUME TypeInv, NEW p \in Procs, Request(p)
    PROVE  TypeInv'
<1> USE DEF files, TaskStatus, WfStatus
<1>0. /\ task \in [Tasks -> TaskStatus]
      /\ order \in [Tasks -> Nat]
      /\ assigned \in [Tasks -> Agents \cup {NoAgent}]
      /\ wf \in [Workflows -> WfStatus]
      /\ queue \in [Agents -> Seq(Tasks)]
      /\ jobs \subseteq JobType
      /\ crashes \in 0 .. MaxCrashes
      /\ proc \in [Procs -> ProcType]
      /\ \A q \in Procs : Shape(proc[q])
  BY DEF TypeInv, TypeOK, JobType
<1>1. ASSUME NEW w \in Workflows, CreateRequest(p, w) PROVE TypeInv'
  <2> DEFINE r == [Idle EXCEPT !.op = "create", !.pc = "tasks", !.wf = w]
  <2>1. Shape(r)
    BY EmptyTodo DEF Shape, Idle, ProcType, Pcs
  <2>2. Continue(p, r) /\ UNCHANGED <<files, crashes>>
    BY <1>1 DEF CreateRequest
  <2> HIDE DEF r
  <2>3. QED
    BY <1>0, <2>1, <2>2, ContinueType DEF TypeInv, TypeOK, JobType
<1>2. ASSUME NEW w \in Workflows, StartRequest(p, w) PROVE TypeInv'
  <2>1. PICK t \in FirstPending(w) :
          Continue(p, [Idle EXCEPT !.op = "start", !.pc = "start", !.wf = w, !.task = t])
    BY <1>2 DEF StartRequest
  <2> DEFINE r == [Idle EXCEPT !.op = "start", !.pc = "start", !.wf = w, !.task = t]
  <2>2. Shape(r)
    BY EmptyTodo, <2>1 DEF Shape, Idle, ProcType, Pcs, FirstPending, Pending, Listed
  <2>3. Continue(p, r) /\ UNCHANGED <<files, crashes>>
    BY <1>2, <2>1 DEF StartRequest
  <2> HIDE DEF r
  <2>4. QED
    BY <1>0, <2>2, <2>3, ContinueType DEF TypeInv, TypeOK, JobType
<1>3. ASSUME NEW w \in Workflows, CancelRequest(p, w) PROVE TypeInv'
  <2> DEFINE r == [Idle EXCEPT !.op = "cancel", !.pc = "close",
                               !.wf = w, !.new = "cancelled"]
  <2>1. Shape(r)
    BY EmptyTodo DEF Shape, Idle, ProcType, Pcs
  <2>2. Continue(p, r) /\ UNCHANGED <<files, crashes>>
    BY <1>3 DEF CancelRequest
  <2> HIDE DEF r
  <2>3. QED
    BY <1>0, <2>1, <2>2, ContinueType DEF TypeInv, TypeOK, JobType
<1>4. ASSUME NEW a \in Agents, NextTaskRequest(p, a) PROVE TypeInv'
  <2> DEFINE r == [Idle EXCEPT !.op = "next", !.pc = "walk",
                               !.agent = a, !.todo = queue[a]]
  <2>1. Shape(r)
    BY <1>0 DEF Shape, Idle, ProcType, Pcs
  <2>2. Continue(p, r) /\ UNCHANGED <<files, crashes>>
    BY <1>4 DEF NextTaskRequest
  <2> HIDE DEF r
  <2>3. QED
    BY <1>0, <2>1, <2>2, ContinueType DEF TypeInv, TypeOK, JobType
<1>5. ASSUME NEW after \in Tasks, NEW t \in Tasks, InsertTask(p, after, t) PROVE TypeInv'
  <2>1. task' \in [Tasks -> TaskStatus] /\ order' \in [Tasks -> Nat]
    BY <1>0, <1>5 DEF InsertTask
  <2>2. assigned' \in [Tasks -> Agents \cup {NoAgent}]
    BY <1>0, <1>5 DEF InsertTask, Listed
  <2>3. UNCHANGED <<wf, queue, proc, jobs, crashes>>
    BY <1>5 DEF InsertTask
  <2>4. QED
    BY <1>0, <2>1, <2>2, <2>3 DEF TypeInv, TypeOK, JobType
<1>6. ASSUME NEW t \in Tasks, NEW a \in Agents \cup {NoAgent}, AssignRequest(p, t, a)
      PROVE  TypeInv'
  BY <1>0, <1>6 DEF AssignRequest, TypeInv, TypeOK, JobType
<1>7. ASSUME NEW t \in Tasks, NEW a \in Agents, EnqueueRequest(p, a, t) PROVE TypeInv'
  <2>1. Append(queue[a], t) \in Seq(Tasks)
    BY <1>0
  <2>2. queue' \in [Agents -> Seq(Tasks)]
    BY <1>0, <1>7, <2>1 DEF EnqueueRequest
  <2>3. UNCHANGED <<task, order, assigned, wf, proc, jobs, crashes>>
    BY <1>7 DEF EnqueueRequest
  <2>4. QED
    BY <1>0, <2>2, <2>3 DEF TypeInv, TypeOK, JobType
<1>8. QED
  BY <1>1, <1>2, <1>3, <1>4, <1>5, <1>6, <1>7 DEF Request

\* Every step of a handler keeps the types.
LEMMA TypeStep ==
    ASSUME TypeInv, NEW p \in Procs, Step(p)
    PROVE  TypeInv'
<1> USE DEF files, TaskStatus, WfStatus
<1>0. /\ task \in [Tasks -> TaskStatus]
      /\ order \in [Tasks -> Nat]
      /\ assigned \in [Tasks -> Agents \cup {NoAgent}]
      /\ wf \in [Workflows -> WfStatus]
      /\ queue \in [Agents -> Seq(Tasks)]
      /\ jobs \subseteq JobType
      /\ crashes \in 0 .. MaxCrashes
      /\ proc \in [Procs -> ProcType]
      /\ \A q \in Procs : Shape(proc[q])
      /\ proc[p] \in ProcType
      /\ Shape(proc[p])
  BY DEF TypeInv, TypeOK, JobType
<1> DEFINE Moved == /\ proc' \in [Procs -> ProcType]
                    /\ \A q \in Procs : Shape(proc'[q])
                    /\ jobs' \subseteq JobType
<1>1. CASE CreateTasks(p)
  <2> DEFINE r == [proc[p] EXCEPT !.pc = "entry"]
  <2>1. Shape(r)
    BY <1>0, <1>1 DEF CreateTasks, Shape, ProcType, Pcs
  <2>2. Continue(p, r) /\ UNCHANGED <<wf, queue, crashes>>
    BY <1>1 DEF CreateTasks
  <2>3. task' \in [Tasks -> TaskStatus] /\ order' \in [Tasks -> Nat]
    BY <1>0, <1>1, SortAssumption DEF CreateTasks
  <2>4. assigned' \in [Tasks -> Agents \cup {NoAgent}]
    BY <1>0, <1>1 DEF CreateTasks
  <2> HIDE DEF r
  <2>5. Moved
    BY <2>1, <2>2, ContinueType
  <2>6. QED
    BY <1>0, <2>2, <2>3, <2>4, <2>5 DEF TypeInv, TypeOK, JobType
<1>2. CASE CreateEntry(p)
  <2>1. Moved
    BY <1>2, FinishType DEF CreateEntry
  <2>2. wf' \in [Workflows -> WfStatus]
    BY <1>0, <1>2 DEF CreateEntry
  <2>3. QED
    BY <1>0, <1>2, <2>1, <2>2 DEF CreateEntry, TypeInv, TypeOK, JobType
<1>3. CASE StartWrite(p)
  <2>1. Shape([proc[p] EXCEPT !.pc = "dequeue", !.todo = <<>>]) \/ proc[p].agent = NoAgent
    BY <1>0, <1>3, EmptyTodo DEF StartWrite, Shape, ProcType, Pcs
  <2>2. Shape([proc[p] EXCEPT !.pc = "dispatch"])
    <3>1. [proc[p] EXCEPT !.pc = "dispatch"] \in ProcType
      BY <1>0 DEF ProcType, Pcs
    <3>2. [proc[p] EXCEPT !.pc = "dispatch"].pc = "dispatch"
      BY <1>0 DEF ProcType
    <3>3. QED
      BY <3>1, <3>2 DEF Shape
  <2>3. Moved
    <3>1. CASE proc[p].agent # NoAgent
      <4>1. Continue(p, [proc[p] EXCEPT !.pc = "dequeue", !.todo = <<>>])
        BY <1>3, <3>1 DEF StartWrite
      <4>2. QED
        BY <2>1, <3>1, <4>1, ContinueType
    <3>2. CASE proc[p].agent = NoAgent /\ proc[p].op = "job"
      <4>1. Continue(p, [proc[p] EXCEPT !.pc = "dispatch"])
        BY <1>3, <3>2 DEF StartWrite
      <4>2. QED
        BY <2>2, <4>1, ContinueType
    <3>3. CASE proc[p].agent = NoAgent /\ proc[p].op # "job"
      <4>1. Finish(p)
        BY <1>3, <3>3 DEF StartWrite
      <4>2. QED
        BY <4>1, FinishType
    <3>4. QED
      BY <3>1, <3>2, <3>3
  <2>4. task' \in [Tasks -> TaskStatus]
    BY <1>0, <1>3 DEF StartWrite
  <2>5. UNCHANGED <<order, assigned, wf, queue, crashes>>
    BY <1>3 DEF StartWrite
  <2>6. QED
    BY <1>0, <2>3, <2>4, <2>5 DEF TypeInv, TypeOK, JobType
<1>4. CASE Walk(p)
  <2> DEFINE todo == proc[p].todo
             stop == {i \in DOMAIN todo :
                        ~(task[todo[i]] = "pending" /\ Busy(WfOf[todo[i]]))}
  <2>1. Moved
    <3>1. CASE stop = {} /\ Finish(p)
      BY <3>1, FinishType
    <3>2. ASSUME NEW i \in stop,
                 Continue(p, [proc[p] EXCEPT
                      !.pc = IF task[todo[i]] = "pending" THEN "start" ELSE "dequeue",
                      !.task = todo[i],
                      !.todo = SubSeq(todo, i + 1, Len(todo))])
          PROVE  Moved
      <4> DEFINE r == [proc[p] EXCEPT
                      !.pc = IF task[todo[i]] = "pending" THEN "start" ELSE "dequeue",
                      !.task = todo[i],
                      !.todo = SubSeq(todo, i + 1, Len(todo))]
      <4>1. todo \in Seq(Tasks)
        BY <1>0 DEF ProcType
      <4>2. todo[i] \in Tasks /\ SubSeq(todo, i + 1, Len(todo)) \in Seq(Tasks)
        BY <4>1, SubSeqTasks
      <4>3. proc[p].agent \in Agents
        BY <1>0, <1>4 DEF Walk, Shape
      <4>4. Shape(r)
        <5>1. r \in ProcType
          BY <1>0, <4>2 DEF ProcType, Pcs
        <5>2. /\ r.pc \in {"start", "dequeue"}
              /\ r.task = todo[i]
              /\ r.agent = proc[p].agent
          BY <1>0 DEF ProcType
        <5>3. QED
          BY <5>1, <5>2, <4>2, <4>3 DEF Shape
      <4> HIDE DEF r
      <4>5. QED
        BY <3>2, <4>4, ContinueType DEF r
    <3>3. QED
      BY <1>4, <3>1, <3>2 DEF Walk
  <2>2. QED
    BY <1>0, <1>4, <2>1 DEF Walk, TypeInv, TypeOK, JobType
<1>5. CASE Dequeue(p)
  <2> DEFINE a == proc[p].agent
             r == [proc[p] EXCEPT !.pc = "walk"]
  <2>1. a \in Agents
    BY <1>0, <1>5 DEF Dequeue, Shape
  <2>2. Shape(r)
    BY <1>0, <1>5, <2>1 DEF Shape, ProcType, Pcs
  <2>3. Continue(p, r) /\ UNCHANGED <<task, order, assigned, wf, crashes>>
    BY <1>5 DEF Dequeue
  <2>4. queue[a] \in Seq(Tasks)
    BY <1>0, <2>1
  <2>5. queue' \in [Agents -> Seq(Tasks)]
    <3>1. CASE UNCHANGED queue
      BY <1>0, <3>1
    <3>2. ASSUME NEW i \in DOMAIN queue[a],
                 queue' = [queue EXCEPT ![a] =
                              SubSeq(@, 1, i - 1) \o SubSeq(@, i + 1, Len(@))]
          PROVE  queue' \in [Agents -> Seq(Tasks)]
      <4>1. SubSeq(queue[a], 1, i - 1) \o SubSeq(queue[a], i + 1, Len(queue[a])) \in Seq(Tasks)
        BY <2>4, SubSeqTasks
      <4>2. QED
        BY <1>0, <2>1, <3>2, <4>1
    <3>3. QED
      BY <1>5, <3>1, <3>2 DEF Dequeue
  <2> HIDE DEF r
  <2>6. Moved
    BY <2>2, <2>3, ContinueType
  <2>7. QED
    BY <1>0, <2>3, <2>5, <2>6 DEF TypeInv, TypeOK, JobType
<1>6. CASE MarkWrite(p)
  <2> DEFINE r == [proc[p] EXCEPT !.pc = "marked"]
  <2>1. Shape(r)
    BY <1>0, <1>6 DEF MarkWrite, Shape, ProcType, Pcs
  <2>2. Continue(p, r) /\ UNCHANGED <<order, assigned, wf, queue, crashes>>
    BY <1>6 DEF MarkWrite
  <2>3. task' \in [Tasks -> TaskStatus]
    BY <1>0, <1>6 DEF MarkWrite, Shape
  <2> HIDE DEF r
  <2>4. Moved
    BY <2>1, <2>2, ContinueType
  <2>5. QED
    BY <1>0, <2>2, <2>3, <2>4 DEF TypeInv, TypeOK, JobType
<1>7. CASE Marked(p)
  <2>0. proc[p].wf \in Workflows /\ proc[p].pc = "marked"
    BY <1>0, <1>7 DEF Marked, Shape
  <2>1. Shape([proc[p] EXCEPT !.pc = "close", !.new = "completed"])
    BY <1>0, <2>0 DEF Shape, ProcType, Pcs
  <2>2. Shape([proc[p] EXCEPT !.pc = "advance"])
    BY <1>0, <2>0 DEF Shape, ProcType, Pcs
  <2>3. proc[p].new = "escalated" => Shape([proc[p] EXCEPT !.pc = "close"])
    BY <1>0, <2>0 DEF Shape, ProcType, Pcs
  <2>4. Moved
    <3>1. CASE Continue(p, [proc[p] EXCEPT !.pc = "close", !.new = "completed"])
      BY <3>1, <2>1, ContinueType
    <3>2. CASE Continue(p, [proc[p] EXCEPT !.pc = "advance"])
      BY <3>2, <2>2, ContinueType
    <3>3. CASE proc[p].new = "escalated" /\ Continue(p, [proc[p] EXCEPT !.pc = "close"])
      BY <3>3, <2>3, ContinueType
    <3>4. CASE Finish(p)
      BY <3>4, FinishType
    <3>5. QED
      BY <1>7, <3>1, <3>2, <3>3, <3>4 DEF Marked
  <2>5. QED
    BY <1>0, <1>7, <2>4 DEF Marked, TypeInv, TypeOK, JobType
<1>8. CASE CloseWrite(p)
  <2>0. proc[p].wf \in Workflows /\ proc[p].pc = "close"
    BY <1>0, <1>8 DEF CloseWrite, Shape
  <2>1. Shape([proc[p] EXCEPT !.pc = "advance"])
    BY <1>0, <2>0 DEF Shape, ProcType, Pcs
  <2>2. Moved
    <3>1. CASE Continue(p, [proc[p] EXCEPT !.pc = "advance"])
      BY <3>1, <2>1, ContinueType
    <3>2. CASE Finish(p)
      BY <3>2, FinishType
    <3>3. QED
      BY <1>8, <3>1, <3>2 DEF CloseWrite
  <2>3. wf' \in [Workflows -> WfStatus]
    BY <1>0, <1>8 DEF CloseWrite, Shape
  <2>4. QED
    BY <1>0, <1>8, <2>2, <2>3 DEF CloseWrite, TypeInv, TypeOK, JobType
<1>9. CASE Advance(p)
  <2>1. proc[p].agent # NoAgent =>
          Shape([proc[p] EXCEPT !.pc = "walk", !.todo = queue[proc[p].agent]])
    BY <1>0 DEF Shape, ProcType, Pcs
  <2>2. Moved
    <3>1. CASE proc[p].agent # NoAgent
      <4>1. Continue(p, [proc[p] EXCEPT !.pc = "walk", !.todo = queue[proc[p].agent]])
        BY <1>9, <3>1 DEF Advance
      <4>2. QED
        BY <2>1, <3>1, <4>1, ContinueType
    <3>2. CASE proc[p].agent = NoAgent
      BY <1>9, <3>2, FinishType DEF Advance
    <3>3. QED
      BY <3>1, <3>2
  <2>3. QED
    BY <1>0, <1>9, <2>2 DEF Advance, TypeInv, TypeOK, JobType
<1>10. CASE Dispatch(p)
  <2>1. Moved
    BY <1>10, FinishType DEF Dispatch
  <2>2. QED
    BY <1>0, <1>10, <2>1 DEF Dispatch, TypeInv, TypeOK, JobType
<1>11. QED
  BY <1>1, <1>2, <1>3, <1>4, <1>5, <1>6, <1>7, <1>8, <1>9, <1>10 DEF Step

\* So do the conductor, the PATCH and a crash.
LEMMA TypeOthers ==
    ASSUME TypeInv
    PROVE  /\ \A t \in Tasks, new \in {"done", "blocked", "escalated"} :
                MarkRequest(t, new) => TypeInv'
           /\ \A j \in jobs : ConductorPick(j) \/ ConductorResume(j) => TypeInv'
           /\ Crash => TypeInv'
<1> USE DEF files, TaskStatus, WfStatus
<1>0. /\ task \in [Tasks -> TaskStatus]
      /\ order \in [Tasks -> Nat]
      /\ assigned \in [Tasks -> Agents \cup {NoAgent}]
      /\ wf \in [Workflows -> WfStatus]
      /\ queue \in [Agents -> Seq(Tasks)]
      /\ jobs \subseteq JobType
      /\ crashes \in 0 .. MaxCrashes
      /\ proc \in [Procs -> ProcType]
      /\ \A q \in Procs : Shape(proc[q])
      /\ Loop \in Procs
  BY DEF TypeInv, TypeOK, JobType, Procs
<1>1. ASSUME NEW t \in Tasks, NEW new \in {"done", "blocked", "escalated"},
             MarkRequest(t, new)
      PROVE  TypeInv'
  <2> DEFINE r == [Idle EXCEPT !.op = new, !.pc = "mark", !.wf = WfOf[t],
                          !.task = t, !.new = new,
                          !.agent = IF new = "done" THEN assigned[t] ELSE NoAgent]
  <2>a. WfOf[t] \in Workflows /\ assigned[t] \in Agents \cup {NoAgent}
    BY <1>0, SortAssumption
  <2>1. Shape(r)
    BY <2>a, EmptyTodo DEF Shape, Idle, ProcType, Pcs
  <2>2. Continue(Loop, r) /\ UNCHANGED <<files, crashes>>
    BY <1>1 DEF MarkRequest
  <2> HIDE DEF r
  <2>3. QED
    BY <1>0, <2>1, <2>2, ContinueType DEF TypeInv, TypeOK, JobType
<1>2. ASSUME NEW j \in jobs, ConductorPick(j) PROVE TypeInv'
  <2>1. j \in JobType
    BY <1>0
  <2>2. \A t \in Tasks : [j EXCEPT !.pick = t] \in JobType
    BY <2>1 DEF JobType
  <2>3. jobs' \subseteq JobType
    BY <1>0, <1>2, <2>2 DEF ConductorPick, FirstPending, Pending, Listed
  <2>4. QED
    BY <1>0, <1>2, <2>3 DEF ConductorPick, TypeInv, TypeOK, JobType
<1>3. ASSUME NEW j \in jobs, ConductorResume(j) PROVE TypeInv'
  <2> DEFINE coroutine == [Idle EXCEPT !.op = "job", !.wf = j.wf, !.pick = j.pick]
  <2>1. j.wf \in Workflows \cup {NoTask} /\ j.pick \in Tasks \cup {NoTask}
    BY <1>0 DEF JobType
  <2>2. Shape([coroutine EXCEPT !.pc = "dispatch"])
    BY <2>1, EmptyTodo DEF Shape, Idle, ProcType, Pcs
  <2>3. \A t \in Tasks : Shape([coroutine EXCEPT !.pc = "start", !.task = t])
    BY <2>1, EmptyTodo DEF Shape, Idle, ProcType, Pcs
  <2>4. \E r : Shape(r) /\ Goto(Loop, r)
    BY <1>3, <2>2, <2>3 DEF ConductorResume, FirstPending, Pending, Listed
  <2>5. proc' \in [Procs -> ProcType] /\ \A q \in Procs : Shape(proc'[q])
    BY <1>0, <2>4, GotoShape
  <2>6. jobs' \subseteq JobType
    BY <1>0, <1>3 DEF ConductorResume
  <2>7. QED
    BY <1>0, <1>3, <2>5, <2>6 DEF ConductorResume, TypeInv, TypeOK, JobType
<1>4. ASSUME Crash PROVE TypeInv'
  <2>1. proc' \in [Procs -> ProcType] /\ \A q \in Procs : Shape(proc'[q])
    BY <1>4, IdleShape DEF Crash, Shape
  <2>2. QED
    BY <1>0, <1>4, <2>1, SortAssumption DEF Crash, TypeInv, TypeOK, JobType
<1>5. QED
  BY <1>1, <1>2, <1>3, <1>4

\* Every step keeps the types.
LEMMA TypeNext == TypeInv /\ [Next]_vars => TypeInv'
<1> SUFFICES ASSUME TypeInv, [Next]_vars PROVE TypeInv'
  OBVIOUS
<1>1. CASE UNCHANGED vars
  BY <1>1 DEF vars, TypeInv, TypeOK
<1>2. CASE Next
  BY <1>2, TypeRequest, TypeStep, TypeOthers DEF Next
<1>3. QED
  BY <1>1, <1>2

(***************************************************************************)
(* The files, the processes and the coroutines keep their types, for every *)
(* interleaving of requests and any number of crashes.                     *)
(***************************************************************************)
THEOREM TypeCorrect == Spec => []TypeOK
<1>1. Spec => []TypeInv
  BY TypeInit, TypeNext, PTL DEF Spec
<1>2. TypeInv => TypeOK
  BY DEF TypeInv
<1>3. QED
  BY <1>1, <1>2, PTL

-----------------------------------------------------------------------------
(***************************************************************************)
(* One request at a time.  Sequential is not inductive by itself: the      *)
(* write of a start relies on what its earlier read saw, so the invariant  *)
(* says that only one process is under way and that its read still holds.  *)
(***************************************************************************)
Alone(p) == \A q \in Procs : q # p => proc[q].pc = "idle"

ReadHolds(r) ==
    /\ r.pc = "start" => task[r.task] = "pending" /\ ~Busy(WfOf[r.task])
    /\ r.pc = "close" /\ r.new = "completed" => AllDone(r.wf)

(***************************************************************************)
(* The same of the files after the step, for a record r of before it.      *)
(***************************************************************************)
HoldsNext(r) ==
    /\ r.pc = "start" =>
         /\ task'[r.task] = "pending"
         /\ \A u \in Tasks : WfOf[u] = WfOf[r.task] => task'[u] # "in_progress"
    /\ r.pc = "close" /\ r.new = "completed" =>
         \A u \in Tasks : WfOf[u] = r.wf => task'[u] \in {"absent", "done"}

SerialInv ==
    /\ \A p \in Procs : proc[p].pc = "idle" \/ Alone(p)
    /\ \A p \in Procs : ReadHolds(proc[p])
    /\ Sequential

\* Without overlap, whoever begins is alone.
LEMMA BeginsAlone ==
    ASSUME Exclusive, NEW p \in Procs, MayBegin(p)
    PROVE  Alone(p)
BY DEF Alone, MayBegin

(***************************************************************************)
(* The process under way moves to r, and r's read holds afterwards.        *)
(***************************************************************************)
LEMMA SerialMove ==
    ASSUME TypeInv, NEW p \in Procs, Alone(p),
           NEW r, Goto(p, r), HoldsNext(r), Sequential'
    PROVE  SerialInv'
<1>1. proc' = [proc EXCEPT ![p] = r] /\ proc \in [Procs -> ProcType]
  BY DEF Goto, TypeInv, TypeOK
<1>2. \A q \in Procs : q # p => proc'[q] = proc[q] /\ proc'[q].pc = "idle"
  BY <1>1 DEF Alone
<1>3. proc'[p] = r
  BY <1>1
<1>4. Alone(p)'
  BY <1>2 DEF Alone
<1>5. \A q \in Procs : proc'[q].pc = "idle" \/ Alone(q)'
  BY <1>2, <1>4
<1>6. \A q \in Procs : ReadHolds(proc[q])'
  <2>1. ReadHolds(proc[p])'
    BY <1>3 DEF ReadHolds, HoldsNext, AllDone, Busy, Listed
  <2>2. ASSUME NEW q \in Procs, q # p PROVE ReadHolds(proc[q])'
    BY <1>2, <2>2 DEF ReadHolds
  <2>3. QED
    BY <2>1, <2>2
<1>7. QED
  BY <1>5, <1>6 DEF SerialInv

(***************************************************************************)
(* A write that puts no task in progress cannot break the order of work.   *)
(***************************************************************************)
LEMMA NoStartSequential ==
    ASSUME Sequential,
           \A t \in Tasks : task'[t] = "in_progress" => task[t] = "in_progress"
    PROVE  Sequential'
BY DEF Sequential

\* It holds at the start.
LEMMA SerialInit == Init => SerialInv
BY DEF Init, SerialInv, ReadHolds, Sequential, Idle

\* A state in which nobody is about to write has nothing to hold.
LEMMA NothingRead ==
    ASSUME NEW r, r.pc \notin {"start", "close"}
    PROVE  HoldsNext(r)
BY DEF HoldsNext

\* Answering a request keeps it.
LEMMA FinishSerial ==
    ASSUME TypeInv, NEW p \in Procs, Alone(p), Finish(p), Sequential'
    PROVE  SerialInv'
<1>1. HoldsNext(Idle)
  BY NothingRead DEF Idle
<1>2. Goto(p, Idle)
  BY DEF Finish
<1>3. QED
  BY <1>1, <1>2, SerialMove

(***************************************************************************)
(* A request only reads, or writes no status but "pending".                *)
(***************************************************************************)
LEMMA SerialRequest ==
    ASSUME Exclusive, TypeInv, SerialInv, NEW p \in Procs, Request(p)
    PROVE  SerialInv'
<1> USE DEF files
<1>0. Sequential /\ (UNCHANGED task => Sequential')
  BY DEF SerialInv, Sequential
<1>1. ASSUME NEW w \in Workflows, CreateRequest(p, w) PROVE SerialInv'
  <2> DEFINE r == [Idle EXCEPT !.op = "create", !.pc = "tasks", !.wf = w]
  <2>1. Goto(p, r) /\ UNCHANGED task /\ MayBegin(p)
    BY <1>1 DEF CreateRequest, Continue
  <2>2. r.pc = "tasks"
    BY DEF Idle
  <2> HIDE DEF r
  <2>3. QED
    BY <1>0, <2>1, <2>2, NothingRead, BeginsAlone, SerialMove
<1>2. ASSUME NEW w \in Workflows, StartRequest(p, w) PROVE SerialInv'
  <2>1. PICK t \in FirstPending(w) :
          Continue(p, [Idle EXCEPT !.op = "start", !.pc = "start", !.wf = w, !.task = t])
    BY <1>2 DEF StartRequest
  <2> DEFINE r == [Idle EXCEPT !.op = "start", !.pc = "start", !.wf = w, !.task = t]
  <2>2. Goto(p, r) /\ UNCHANGED task /\ MayBegin(p) /\ ~Busy(w)
    BY <1>2, <2>1 DEF StartRequest, Continue
  <2>3. r.pc = "start" /\ r.task = t
    BY DEF Idle
  <2>4. t \in Tasks /\ task[t] = "pending" /\ WfOf[t] = w
    BY <2>1 DEF FirstPending, Pending, Listed
  <2>5. \A u \in Tasks : WfOf[u] = w => task[u] # "in_progress"
    BY <2>2 DEF Busy, Listed
  <2> HIDE DEF r
  <2>6. HoldsNext(r)
    BY <2>2, <2>3, <2>4, <2>5 DEF HoldsNext
  <2>7. QED
    BY <1>0, <2>2, <2>6, BeginsAlone, SerialMove
<1>3. ASSUME NEW w \in Workflows, CancelRequest(p, w) PROVE SerialInv'
  <2> DEFINE r == [Idle EXCEPT !.op = "cancel", !.pc = "close",
                               !.wf = w, !.new = "cancelled"]
  <2>1. Goto(p, r) /\ UNCHANGED task /\ MayBegin(p)
    BY <1>3 DEF CancelRequest, Continue
  <2>2. r.pc = "close" /\ r.new = "cancelled"
    BY DEF Idle
  <2> HIDE DEF r
  <2>3. HoldsNext(r)
    BY <2>2 DEF HoldsNext
  <2>4. QED
    BY <1>0, <2>1, <2>3, BeginsAlone, SerialMove
<1>4. ASSUME NEW a \in Agents, NextTaskRequest(p, a) PROVE SerialInv'
  <2> DEFINE r == [Idle EXCEPT !.op = "next", !.pc = "walk",
                               !.agent = a, !.todo = queue[a]]
  <2>1. Goto(p, r) /\ UNCHANGED task /\ MayBegin(p)
    BY <1>4 DEF NextTaskRequest, Continue
  <2>2. r.pc = "walk"
    BY DEF Idle
  <2> HIDE DEF r
  <2>3. QED
    BY <1>0, <2>1, <2>2, NothingRead, BeginsAlone, SerialMove
<1>5. ASSUME NEW after \in Tasks, NEW t \in Tasks, InsertTask(p, after, t)
      PROVE  SerialInv'
  <2>1. \A q \in Procs : proc'[q] = proc[q] /\ proc[q].pc = "idle"
    BY <1>5 DEF InsertTask, MayBegin
  <2>2. task' = [task EXCEPT ![t] = "pending"] /\ task \in [Tasks -> TaskStatus]
    BY <1>5 DEF InsertTask, TypeInv, TypeOK
  <2>3. Sequential'
    BY <1>0, <2>2, NoStartSequential
  <2>4. QED
    BY <2>1, <2>3 DEF SerialInv, ReadHolds, Alone
<1>6. ASSUME UNCHANGED <<task, proc>> PROVE SerialInv'
  BY <1>0, <1>6 DEF SerialInv, Alone, ReadHolds, Busy, AllDone, Listed
<1>7. QED
  BY <1>1, <1>2, <1>3, <1>4, <1>5, <1>6 DEF Request, AssignRequest, EnqueueRequest

(***************************************************************************)
(* A step is taken by the one process under way.  Its write of             *)
(* "in_progress" meets the files as its read left them.                    *)
(***************************************************************************)
LEMMA SerialStep ==
    ASSUME TypeInv, SerialInv, NEW p \in Procs, Step(p)
    PROVE  SerialInv'
<1> USE DEF files
<1>0. /\ Sequential /\ (UNCHANGED task => Sequential')
      /\ task \in [Tasks -> TaskStatus]
      /\ proc[p] \in ProcType /\ Shape(proc[p]) /\ ReadHolds(proc[p])
  BY DEF SerialInv, Sequential, TypeInv, TypeOK
<1>a. Alone(p)
  <2>1. proc[p].pc # "idle"
    BY DEF Step, CreateTasks, CreateEntry, StartWrite, Walk, Dequeue,
           MarkWrite, Marked, CloseWrite, Advance, Dispatch
  <2>2. QED
    BY <2>1 DEF SerialInv
<1>b. ASSUME NEW r, Goto(p, r), r.pc \notin {"start", "close"}, Sequential'
      PROVE  SerialInv'
  BY <1>a, <1>b, NothingRead, SerialMove
<1>1. CASE CreateTasks(p)
  <2>1. \A t \in Tasks : task'[t] = "in_progress" => task[t] = "in_progress"
    BY <1>1 DEF CreateTasks
  <2> DEFINE r == [proc[p] EXCEPT !.pc = "entry"]
  <2>2. Goto(p, r)
    BY <1>1 DEF CreateTasks, Continue
  <2>3. r.pc = "entry"
    BY <1>0 DEF ProcType
  <2> HIDE DEF r
  <2>4. QED
    BY <1>0, <1>b, <2>1, <2>2, <2>3, NoStartSequential
<1>2. CASE CreateEntry(p)
  BY <1>0, <1>a, <1>2, FinishSerial DEF CreateEntry
<1>3. CASE StartWrite(p)
  <2>1. /\ proc[p].task \in Tasks
        /\ task[proc[p].task] = "pending"
        /\ ~Busy(WfOf[proc[p].task])
    BY <1>0, <1>3 DEF StartWrite, Shape, ReadHolds
  <2>2. \A u \in Tasks : WfOf[u] = WfOf[proc[p].task] => task[u] # "in_progress"
    BY <2>1 DEF Busy, Listed
  <2>3. task' = [task EXCEPT ![proc[p].task] = "in_progress"]
    BY <1>3 DEF StartWrite
  <2>4. Sequential'
    BY <1>0, <2>1, <2>2, <2>3 DEF Sequential
  <2>5. CASE Finish(p)
    BY <1>a, <2>4, <2>5, FinishSerial
  <2>6. CASE Continue(p, [proc[p] EXCEPT !.pc = "dispatch"])
    <3> DEFINE r == [proc[p] EXCEPT !.pc = "dispatch"]
    <3>1. Goto(p, r) /\ r.pc = "dispatch"
      BY <1>0, <2>6 DEF Continue, ProcType
    <3> HIDE DEF r
    <3>2. QED
      BY <1>b, <2>4, <3>1
  <2>7. CASE Continue(p, [proc[p] EXCEPT !.pc = "dequeue", !.todo = <<>>])
    <3> DEFINE r == [proc[p] EXCEPT !.pc = "dequeue", !.todo = <<>>]
    <3>1. Goto(p, r) /\ r.pc = "dequeue"
      BY <1>0, <2>7 DEF Continue, ProcType
    <3> HIDE DEF r
    <3>2. QED
      BY <1>b, <2>4, <3>1
  <2>8. QED
    BY <1>3, <2>5, <2>6, <2>7 DEF StartWrite
<1>4. CASE Walk(p)
  <2> DEFINE todo == proc[p].todo
             stop == {i \in DOMAIN todo :
                        ~(task[todo[i]] = "pending" /\ Busy(WfOf[todo[i]]))}
  <2>1. UNCHANGED task
    BY <1>4 DEF Walk
  <2>2. CASE Finish(p)
    BY <1>0, <1>a, <2>1, <2>2, FinishSerial
  <2>3. ASSUME NEW i \in stop,
               Continue(p, [proc[p] EXCEPT
                    !.pc = IF task[todo[i]] = "pending" THEN "start" ELSE "dequeue",
                    !.task = todo[i],
                    !.todo = SubSeq(todo, i + 1, Len(todo))])
        PROVE  SerialInv'
    <3> DEFINE r == [proc[p] EXCEPT
                    !.pc = IF task[todo[i]] = "pending" THEN "start" ELSE "dequeue",
                    !.task = todo[i],
                    !.todo = SubSeq(todo, i + 1, Len(todo))]
    <3>1. todo \in Seq(Tasks)
      BY <1>0 DEF ProcType
    <3>2. todo[i] \in Tasks
      BY <3>1, SubSeqTasks
    <3>3. Goto(p, r)
      BY <2>3 DEF Continue
    <3>4. /\ r.pc = IF task[todo[i]] = "pending" THEN "start" ELSE "dequeue"
          /\ r.task = todo[i]
      BY <1>0 DEF ProcType
    <3>5. task[todo[i]] = "pending" =>
            \A u \in Tasks : WfOf[u] = WfOf[todo[i]] => task[u] # "in_progress"
      BY DEF Busy, Listed
    <3> HIDE DEF r
    <3>6. HoldsNext(r)
      BY <2>1, <3>4, <3>5 DEF HoldsNext
    <3>7. QED
      BY <1>0, <1>a, <2>1, <3>3, <3>6, SerialMove
  <2>4. QED
    BY <1>4, <2>2, <2>3 DEF Walk
<1>5. CASE Dequeue(p)
  <2> DEFINE r == [proc[p] EXCEPT !.pc = "walk"]
  <2>1. Goto(p, r) /\ r.pc = "walk" /\ UNCHANGED task
    BY <1>0, <1>5 DEF Dequeue, Continue, ProcType
  <2> HIDE DEF r
  <2>2. QED
    BY <1>0, <1>b, <2>1
<1>6. CASE MarkWrite(p)
  <2>1. \A t \in Tasks : task'[t] = "in_progress" => task[t] = "in_progress"
    BY <1>0, <1>6 DEF MarkWrite, Shape
  <2> DEFINE r == [proc[p] EXCEPT !.pc = "marked"]
  <2>2. Goto(p, r) /\ r.pc = "marked"
    BY <1>0, <1>6 DEF MarkWrite, Continue, ProcType
  <2> HIDE DEF r
  <2>3. QED
    BY <1>0, <1>b, <2>1, <2>2, NoStartSequential
<1>7. CASE Marked(p)
  <2>0. UNCHANGED task
    BY <1>7 DEF Marked
  <2>1. CASE /\ AllDone(proc[p].wf)
             /\ Continue(p, [proc[p] EXCEPT !.pc = "close", !.new = "completed"])
    <3> DEFINE r == [proc[p] EXCEPT !.pc = "close", !.new = "completed"]
    <3>1. Goto(p, r) /\ r.pc = "close" /\ r.wf = proc[p].wf
      BY <1>0, <2>1 DEF Continue, ProcType
    <3>2. \A u \in Tasks : WfOf[u] = proc[p].wf => task[u] \in {"absent", "done"}
      BY <2>1 DEF AllDone, Listed
    <3> HIDE DEF r
    <3>3. HoldsNext(r)
      BY <2>0, <3>1, <3>2 DEF HoldsNext
    <3>4. QED
      BY <1>0, <1>a, <2>0, <3>1, <3>3, SerialMove
  <2>2. CASE Continue(p, [proc[p] EXCEPT !.pc = "advance"])
    <3> DEFINE r == [proc[p] EXCEPT !.pc = "advance"]
    <3>1. Goto(p, r) /\ r.pc = "advance"
      BY <1>0, <2>2 DEF Continue, ProcType
    <3> HIDE DEF r
    <3>2. QED
      BY <1>0, <1>b, <2>0, <3>1
  <2>3. CASE proc[p].new = "escalated" /\ Continue(p, [proc[p] EXCEPT !.pc = "close"])
    <3> DEFINE r == [proc[p] EXCEPT !.pc = "close"]
    <3>1. Goto(p, r) /\ r.new = "escalated"
      BY <1>0, <2>3 DEF Continue, ProcType
    <3> HIDE DEF r
    <3>2. HoldsNext(r)
      <4>1. r.pc = "close"
        BY <1>0 DEF r, ProcType
      <4>2. QED
        BY <3>1, <4>1 DEF HoldsNext
    <3>3. QED
      BY <1>0, <1>a, <2>0, <3>1, <3>2, SerialMove
  <2>4. CASE Finish(p)
    BY <1>0, <1>a, <2>0, <2>4, FinishSerial
  <2>5. QED
    BY <1>7, <2>1, <2>2, <2>3, <2>4 DEF Marked
<1>8. CASE CloseWrite(p)
  <2>0. UNCHANGED task
    BY <1>8 DEF CloseWrite
  <2>1. CASE Continue(p, [proc[p] EXCEPT !.pc = "advance"])
    <3> DEFINE r == [proc[p] EXCEPT !.pc = "advance"]
    <3>1. Goto(p, r) /\ r.pc = "advance"
      BY <1>0, <2>1 DEF Continue, ProcType
    <3> HIDE DEF r
    <3>2. QED
      BY <1>0, <1>b, <2>0, <3>1
  <2>2. CASE Finish(p)
    BY <1>0, <1>a, <2>0, <2>2, FinishSerial
  <2>3. QED
    BY <1>8, <2>1, <2>2 DEF CloseWrite
<1>9. CASE Advance(p)
  <2>0. UNCHANGED task
    BY <1>9 DEF Advance
  <2>1. CASE Continue(p, [proc[p] EXCEPT !.pc = "walk", !.todo = queue[proc[p].agent]])
    <3> DEFINE r == [proc[p] EXCEPT !.pc = "walk", !.todo = queue[proc[p].agent]]
    <3>1. Goto(p, r) /\ r.pc = "walk"
      BY <1>0, <2>1 DEF Continue, ProcType
    <3> HIDE DEF r
    <3>2. QED
      BY <1>0, <1>b, <2>0, <3>1
  <2>2. CASE Finish(p)
    BY <1>0, <1>a, <2>0, <2>2, FinishSerial
  <2>3. QED
    BY <1>9, <2>1, <2>2 DEF Advance
<1>10. CASE Dispatch(p)
  BY <1>0, <1>a, <1>10, FinishSerial DEF Dispatch
<1>11. QED
  BY <1>1, <1>2, <1>3, <1>4, <1>5, <1>6, <1>7, <1>8, <1>9, <1>10 DEF Step

\* So do the conductor, the PATCH and a crash.
LEMMA SerialOthers ==
    ASSUME Exclusive, TypeInv, SerialInv
    PROVE  /\ \A t \in Tasks, new \in {"done", "blocked", "escalated"} :
                MarkRequest(t, new) => SerialInv'
           /\ \A j \in jobs : ConductorPick(j) \/ ConductorResume(j) => SerialInv'
           /\ Crash => SerialInv'
<1> USE DEF files
<1>0. Sequential /\ (UNCHANGED task => Sequential') /\ Loop \in Procs
  BY DEF SerialInv, Sequential, Procs
<1>1. ASSUME NEW t \in Tasks, NEW new \in {"done", "blocked", "escalated"},
             MarkRequest(t, new)
      PROVE  SerialInv'
  <2> DEFINE r == [Idle EXCEPT !.op = new, !.pc = "mark", !.wf = WfOf[t],
                          !.task = t, !.new = new,
                          !.agent = IF new = "done" THEN assigned[t] ELSE NoAgent]
  <2>1. Goto(Loop, r) /\ r.pc = "mark" /\ UNCHANGED task /\ MayBegin(Loop)
    BY <1>1 DEF MarkRequest, Continue, Idle
  <2> HIDE DEF r
  <2>2. QED
    BY <1>0, <2>1, NothingRead, BeginsAlone, SerialMove
<1>2. ASSUME NEW j \in jobs, ConductorPick(j) PROVE SerialInv'
  BY <1>0, <1>2 DEF ConductorPick, SerialInv, Alone, ReadHolds, Busy, AllDone, Listed
<1>3. ASSUME NEW j \in jobs, ConductorResume(j) PROVE SerialInv'
  <2> DEFINE coroutine == [Idle EXCEPT !.op = "job", !.wf = j.wf, !.pick = j.pick]
  <2>1. UNCHANGED task /\ MayBegin(Loop)
    BY <1>3 DEF ConductorResume
  <2>2. CASE Goto(Loop, [coroutine EXCEPT !.pc = "dispatch"])
    <3> DEFINE r == [coroutine EXCEPT !.pc = "dispatch"]
    <3>1. Goto(Loop, r) /\ r.pc = "dispatch"
      BY <2>2 DEF Idle
    <3> HIDE DEF r
    <3>2. QED
      BY <1>0, <2>1, <3>1, NothingRead, BeginsAlone, SerialMove
  <2>3. ASSUME ~Busy(j.wf), NEW t \in FirstPending(j.wf),
               Goto(Loop, [coroutine EXCEPT !.pc = "start", !.task = t])
        PROVE  SerialInv'
    <3> DEFINE r == [coroutine EXCEPT !.pc = "start", !.task = t]
    <3>1. Goto(Loop, r) /\ r.pc = "start" /\ r.task = t
      BY <2>3 DEF Idle
    <3>2. t \in Tasks /\ task[t] = "pending" /\ WfOf[t] = j.wf
      BY DEF FirstPending, Pending, Listed
    <3>3. \A u \in Tasks : WfOf[u] = j.wf => task[u] # "in_progress"
      BY <2>3 DEF Busy, Listed
    <3> HIDE DEF r
    <3>4. HoldsNext(r)
      BY <2>1, <3>1, <3>2, <3>3 DEF HoldsNext
    <3>5. QED
      BY <1>0, <2>1, <3>1, <3>4, BeginsAlone, SerialMove
  <2>4. QED
    BY <1>3, <2>2, <2>3 DEF ConductorResume
<1>4. ASSUME Crash PROVE SerialInv'
  <2>1. UNCHANGED task /\ \A q \in Procs : proc'[q] = Idle
    BY <1>4 DEF Crash
  <2>2. QED
    BY <1>0, <2>1 DEF SerialInv, ReadHolds, Idle
<1>5. QED
  BY <1>1, <1>2, <1>3, <1>4

\* Every step keeps it when requests do not overlap.
LEMMA SerialNext == Exclusive /\ TypeInv /\ SerialInv /\ [Next]_vars => SerialInv'
<1> SUFFICES ASSUME Exclusive, TypeInv, SerialInv, [Next]_vars PROVE SerialInv'
  OBVIOUS
<1>1. CASE UNCHANGED vars
  BY <1>1 DEF vars, SerialInv, Alone, ReadHolds, Busy, AllDone, Listed, Sequential
<1>2. CASE Next
  BY <1>2, SerialRequest, SerialStep, SerialOthers DEF Next
<1>3. QED
  BY <1>1, <1>2

(***************************************************************************)
(* With one request at a time the engine is sequential: at most one task   *)
(* of a workflow is in progress, and a task is handed out once, whatever   *)
(* the conductor's coroutines do in between and however often the server   *)
(* dies.                                                                   *)
(***************************************************************************)
THEOREM SerialSequential ==
    ASSUME Exclusive
    PROVE  Spec => [](Sequential /\ StartIsFresh)
<1>1. Init => TypeInv /\ SerialInv
  BY TypeInit, SerialInit
<1>2. TypeInv /\ SerialInv /\ [Next]_vars => (TypeInv /\ SerialInv)'
  BY TypeNext, SerialNext
<1>3. SerialInv => Sequential /\ StartIsFresh
  BY DEF SerialInv, StartIsFresh, ReadHolds
<1>4. QED
  BY <1>1, <1>2, <1>3, PTL DEF Spec

(***************************************************************************)
(* Only the write of a closing handler makes a workflow completed, and its *)
(* read of the task list still holds then.                                 *)
(***************************************************************************)
LEMMA CompletingStep ==
    ASSUME TypeInv, SerialInv, [Next]_vars,
           NEW w \in Workflows, wf[w] # "completed", wf'[w] = "completed"
    PROVE  AllDone(w)
<1>1. wf \in [Workflows -> WfStatus]
  BY DEF TypeInv, TypeOK
<1>2. \/ \E p \in Procs : CreateEntry(p) \/ CloseWrite(p)
      \/ UNCHANGED wf
  <2>1. ASSUME NEW p \in Procs, Request(p)
        PROVE  UNCHANGED wf
    BY <2>1 DEF files, Request, CreateRequest, StartRequest, CancelRequest,
           NextTaskRequest, InsertTask, AssignRequest, EnqueueRequest
  <2>2. ASSUME NEW p \in Procs, Step(p)
        PROVE  CreateEntry(p) \/ CloseWrite(p) \/ UNCHANGED wf
    BY <2>2 DEF files, Step, CreateTasks, StartWrite, Walk, Dequeue, MarkWrite, Marked,
           Advance, Dispatch
  <2>3. ASSUME NEW t \in Tasks, NEW new \in {"done", "blocked", "escalated"}, MarkRequest(t, new)
        PROVE  UNCHANGED wf
    BY <2>3 DEF files, MarkRequest
  <2>4. ASSUME NEW j \in jobs, ConductorPick(j) \/ ConductorResume(j)
        PROVE  UNCHANGED wf
    BY <2>4 DEF files, ConductorPick, ConductorResume
  <2>5. Crash => UNCHANGED wf
    BY DEF files, Crash
  <2>6. UNCHANGED vars => UNCHANGED wf
    BY DEF vars, files
  <2>7. QED
    BY <2>1, <2>2, <2>3, <2>4, <2>5, <2>6 DEF Next
<1>3. PICK p \in Procs : CreateEntry(p) \/ CloseWrite(p)
  BY <1>2
<1>4. CloseWrite(p)
  BY <1>1, <1>3 DEF CreateEntry
<1>5. proc[p].wf = w /\ proc[p].new = "completed" /\ proc[p].pc = "close"
  BY <1>1, <1>4 DEF CloseWrite
<1>6. QED
  BY <1>5 DEF SerialInv, ReadHolds

(***************************************************************************)
(* With one request at a time a workflow becomes completed only in a state *)
(* where all its tasks are done.                                           *)
(***************************************************************************)
THEOREM SerialCompletion ==
    ASSUME Exclusive
    PROVE  Spec => CompletesWhenDone
<1>1. Init => TypeInv /\ SerialInv
  BY TypeInit, SerialInit
<1>2. TypeInv /\ SerialInv /\ [Next]_vars => (TypeInv /\ SerialInv)'
  BY TypeNext, SerialNext
<1>3. TypeInv /\ SerialInv /\ [Next]_vars =>
        [\A w \in Workflows : wf[w] # "completed" /\ wf'[w] = "completed" => AllDone(w)]_vars
  BY CompletingStep
<1>4. QED
  BY <1>1, <1>2, <1>3, PTL DEF Spec, CompletesWhenDone

-----------------------------------------------------------------------------
(***************************************************************************)
(* Every interleaving.  A queued task exists, and whoever is about to take *)
(* one out of a queue has seen that it was started; no status goes back.   *)
(***************************************************************************)
Known(r) ==
    /\ \A i \in DOMAIN r.todo : task[r.todo[i]] # "absent"
    /\ r.pc \in {"start", "mark"} => task[r.task] # "absent"
    /\ r.pc = "dequeue" => task[r.task] \notin {"absent", "pending"}
    /\ r.pc = "tasks" => \A t \in Tasks : WfOf[t] = r.wf => task[t] = "absent"

QueueInv ==
    /\ \A a \in Agents : \A i \in DOMAIN queue[a] : task[queue[a][i]] # "absent"
    /\ \A p \in Procs : Known(proc[p])
    /\ \A p, q \in Procs :
          proc[p].pc = "tasks" /\ proc[q].pc = "tasks" /\ proc[p].wf = proc[q].wf => p = q

\* No task file goes away, and no started task is pending again.
Forward ==
    \A t \in Tasks :
        /\ task[t] # "absent" => task'[t] # "absent"
        /\ task[t] \notin {"absent", "pending"} => task'[t] \notin {"absent", "pending"}

\* Nobody but p is creating the workflow of a task that appears.
OwnBirths(p) ==
    \A t \in Tasks : task[t] = "absent" /\ task'[t] # "absent" =>
        \A q \in Procs : proc[q].pc = "tasks" /\ proc[q].wf = WfOf[t] => q = p

KnownNext(r) ==
    /\ \A i \in DOMAIN r.todo : task'[r.todo[i]] # "absent"
    /\ r.pc \in {"start", "mark"} => task'[r.task] # "absent"
    /\ r.pc = "dequeue" => task'[r.task] \notin {"absent", "pending"}
    /\ r.pc = "tasks" => \A t \in Tasks : WfOf[t] = r.wf => task'[t] = "absent"

(***************************************************************************)
(* One process moves to r, and nobody else's view of the files is hurt.    *)
(***************************************************************************)
LEMMA KnownMove ==
    ASSUME TypeInv, QueueInv, NEW p \in Procs, NEW r, Goto(p, r), KnownNext(r),
           Forward, OwnBirths(p),
           r.pc = "tasks" => \A q \in Procs : proc[q].wf # r.wf,
           \A a \in Agents : \A i \in DOMAIN queue'[a] : task'[queue'[a][i]] # "absent"
    PROVE  QueueInv'
<1>1. proc' = [proc EXCEPT ![p] = r] /\ proc \in [Procs -> ProcType]
  BY DEF Goto, TypeInv, TypeOK
<1>2. \A q \in Procs : q # p => proc'[q] = proc[q]
  BY <1>1
<1>3. proc'[p] = r
  BY <1>1
<1>4. Known(proc[p])'
  BY <1>3 DEF Known, KnownNext
<1>5. ASSUME NEW q \in Procs, q # p PROVE Known(proc[q])'
  <2>1. Known(proc[q]) /\ proc[q] \in ProcType /\ Shape(proc[q])
    BY DEF QueueInv, TypeInv, TypeOK
  <2>2. proc'[q] = proc[q]
    BY <1>2, <1>5
  <2>3. \A i \in DOMAIN proc[q].todo : task'[proc[q].todo[i]] # "absent"
    <3>1. \A i \in DOMAIN proc[q].todo : proc[q].todo[i] \in Tasks
      BY <2>1 DEF ProcType
    <3>2. QED
      BY <2>1, <3>1 DEF Known, Forward
  <2>4. proc[q].pc \in {"start", "mark"} => task'[proc[q].task] # "absent"
    BY <2>1 DEF Known, Forward, Shape
  <2>5. proc[q].pc = "dequeue" => task'[proc[q].task] \notin {"absent", "pending"}
    BY <2>1 DEF Known, Forward, Shape
  <2>6. proc[q].pc = "tasks" => \A t \in Tasks : WfOf[t] = proc[q].wf => task'[t] = "absent"
    BY <1>5, <2>1 DEF Known, OwnBirths
  <2>7. QED
    BY <2>2, <2>3, <2>4, <2>5, <2>6 DEF Known
<1>6. \A q1, q2 \in Procs :
        proc'[q1].pc = "tasks" /\ proc'[q2].pc = "tasks" /\ proc'[q1].wf = proc'[q2].wf => q1 = q2
  BY <1>2, <1>3 DEF QueueInv
<1>7. QED
  BY <1>4, <1>5, <1>6 DEF QueueInv

\* Where no file of a task changes, every status stays.
LEMMA SameForward ==
    ASSUME UNCHANGED task
    PROVE  Forward /\ \A p \in Procs : OwnBirths(p)
BY DEF Forward, OwnBirths

\* The walk of an idle request is over.
LEMMA IdleKnown == KnownNext(Idle)
BY DEF KnownNext, Idle

\* Where neither task nor queue files change, the queues' items still exist.
LEMMA SameQueues ==
    ASSUME QueueInv, UNCHANGED <<task, queue>>
    PROVE  \A a \in Agents : \A i \in DOMAIN queue'[a] : task'[queue'[a][i]] # "absent"
BY DEF QueueInv

\* It holds at the start.
LEMMA QueueInit == Init => QueueInv
BY DEF Init, QueueInv, Known, Idle

(***************************************************************************)
(* Taking one item out of a queue leaves only items of it.                 *)
(***************************************************************************)
LEMMA SubSeqItems ==
    ASSUME NEW s \in Seq(Tasks), NEW i \in DOMAIN s
    PROVE  LET left == SubSeq(s, 1, i - 1) \o SubSeq(s, i + 1, Len(s))
           IN  \A k \in DOMAIN left : \E m \in DOMAIN s : left[k] = s[m]
<1> DEFINE one == SubSeq(s, 1, i - 1)
           two == SubSeq(s, i + 1, Len(s))
<1>1. Len(s) \in Nat /\ DOMAIN s = 1 .. Len(s) /\ i \in 1 .. Len(s)
  OBVIOUS
<1>2. one \in Seq(Tasks) /\ two \in Seq(Tasks)
  BY SubSeqTasks
<1>3. Len(one) = i - 1 /\ Len(two) = Len(s) - i
  BY <1>1, SubSeqSides
<1>a. \A k \in 1 .. (i - 1) : one[k] = s[k]
  BY <1>1, SubSeqSides
<1>b. \A k \in 1 .. (Len(s) - i) : two[k] = s[i + k]
  BY <1>1, SubSeqSides
<1> HIDE DEF one, two
<1>4. DOMAIN (one \o two) = 1 .. (Len(s) - 1)
  <2>1. one \o two \in Seq(Tasks) /\ Len(one \o two) = Len(one) + Len(two)
    BY <1>2
  <2>2. Len(one) + Len(two) = Len(s) - 1
    BY <1>1, <1>3
  <2>3. QED
    BY <2>1, <2>2
<1>5. ASSUME NEW k \in 1 .. (Len(s) - 1) PROVE \E m \in DOMAIN s : (one \o two)[k] = s[m]
  <2>0. k \in Nat /\ i \in Nat /\ Len(s) \in Nat /\ i <= Len(s) /\ k <= Len(s) - 1 /\ 1 <= k
    BY <1>1
  <2>1. CASE k <= i - 1
    <3>1. (one \o two)[k] = one[k] /\ k \in 1 .. (i - 1)
      BY <2>0, <1>2, <1>3, <2>1
    <3>2. one[k] = s[k]
      BY <1>a, <3>1
    <3>3. k \in DOMAIN s
      BY <1>1, <2>0
    <3>4. QED
      BY <3>1, <3>2, <3>3
  <2>2. CASE k > i - 1
    <3>1. k - (i - 1) \in 1 .. (Len(s) - i) /\ i + (k - (i - 1)) = k + 1
      BY <2>0, <2>2
    <3>2. (one \o two)[k] = two[k - (i - 1)]
      <4>1. k > Len(one) /\ k <= Len(one) + Len(two) /\ k - Len(one) = k - (i - 1)
        BY <2>0, <1>3, <2>2
      <4>2. k \in Nat /\ Len(one) \in Nat /\ Len(two) \in Nat
        BY <2>0, <1>2
      <4>3. (one \o two)[k] = two[k - Len(one)]
        BY <1>2, <4>1, <4>2
      <4>4. QED
        BY <4>1, <4>3
    <3>3. k + 1 \in DOMAIN s
      BY <1>1, <2>0
    <3>4. two[k - (i - 1)] = s[k + 1]
      BY <1>b, <3>1
    <3>5. QED
      BY <3>2, <3>3, <3>4
  <2>3. k <= i - 1 \/ k > i - 1
    BY <2>0
  <2>4. QED
    BY <2>1, <2>2, <2>3
<1>6. QED
  BY <1>4, <1>5 DEF one, two

(***************************************************************************)
(* A request.                                                              *)
(***************************************************************************)
LEMMA QueueRequest ==
    ASSUME TypeInv, QueueInv, NEW p \in Procs, Request(p)
    PROVE  QueueInv'
<1> USE DEF files
<1>0. /\ task \in [Tasks -> TaskStatus]
      /\ queue \in [Agents -> Seq(Tasks)]
      /\ proc \in [Procs -> ProcType]
  BY DEF TypeInv, TypeOK
<1>a. ASSUME NEW r, Goto(p, r), UNCHANGED <<task, queue>>, KnownNext(r),
             r.pc = "tasks" => \A q \in Procs : proc[q].wf # r.wf
      PROVE  QueueInv'
  BY <1>a, SameForward, SameQueues, KnownMove
<1>1. ASSUME NEW w \in Workflows, CreateRequest(p, w) PROVE QueueInv'
  <2> DEFINE r == [Idle EXCEPT !.op = "create", !.pc = "tasks", !.wf = w]
  <2>1. r.pc = "tasks" /\ r.wf = w /\ r.todo = <<>>
    BY DEF Idle
  <2>2. Goto(p, r) /\ UNCHANGED <<task, queue>>
    BY <1>1 DEF CreateRequest, Continue
  <2>3. KnownNext(r)
    BY <1>1, <2>1 DEF KnownNext, CreateRequest
  <2>4. \A q \in Procs : proc[q].wf # r.wf
    BY <1>1, <2>1 DEF CreateRequest
  <2> HIDE DEF r
  <2>5. QED
    BY <1>a, <2>2, <2>3, <2>4
<1>2. ASSUME NEW w \in Workflows, StartRequest(p, w) PROVE QueueInv'
  <2>1. PICK t \in FirstPending(w) :
          Continue(p, [Idle EXCEPT !.op = "start", !.pc = "start", !.wf = w, !.task = t])
    BY <1>2 DEF StartRequest
  <2> DEFINE r == [Idle EXCEPT !.op = "start", !.pc = "start", !.wf = w, !.task = t]
  <2>2. r.pc = "start" /\ r.task = t /\ r.todo = <<>>
    BY DEF Idle
  <2>3. Goto(p, r) /\ UNCHANGED <<task, queue>>
    BY <1>2, <2>1 DEF StartRequest, Continue
  <2>4. task[t] = "pending"
    BY DEF FirstPending, Pending
  <2>5. KnownNext(r)
    BY <1>2, <2>2, <2>4 DEF KnownNext, StartRequest
  <2> HIDE DEF r
  <2>6. QED
    BY <1>a, <2>2, <2>3, <2>5
<1>3. ASSUME NEW w \in Workflows, CancelRequest(p, w) PROVE QueueInv'
  <2> DEFINE r == [Idle EXCEPT !.op = "cancel", !.pc = "close",
                               !.wf = w, !.new = "cancelled"]
  <2>1. r.pc = "close" /\ r.todo = <<>>
    BY DEF Idle
  <2>2. Goto(p, r) /\ UNCHANGED <<task, queue>>
    BY <1>3 DEF CancelRequest, Continue
  <2>3. KnownNext(r)
    BY <2>1 DEF KnownNext
  <2> HIDE DEF r
  <2>4. QED
    BY <1>a, <2>1, <2>2, <2>3
<1>4. ASSUME NEW a \in Agents, NextTaskRequest(p, a) PROVE QueueInv'
  <2> DEFINE r == [Idle EXCEPT !.op = "next", !.pc = "walk",
                               !.agent = a, !.todo = queue[a]]
  <2>1. r.pc = "walk" /\ r.todo = queue[a]
    BY DEF Idle
  <2>2. Goto(p, r) /\ UNCHANGED <<task, queue>>
    BY <1>4 DEF NextTaskRequest, Continue
  <2>3. KnownNext(r)
    BY <2>1, <2>2 DEF KnownNext, QueueInv
  <2> HIDE DEF r
  <2>4. QED
    BY <1>a, <2>1, <2>2, <2>3
<1>5. ASSUME NEW after \in Tasks, NEW t \in Tasks, InsertTask(p, after, t)
      PROVE  QueueInv'
  <2>1. /\ task' = [task EXCEPT ![t] = "pending"] /\ UNCHANGED <<queue, proc>>
        /\ task[t] = "absent" /\ task[after] # "absent" /\ WfOf[t] = WfOf[after]
    BY <1>5 DEF InsertTask, Listed
  <2>2. Forward
    BY <1>0, <2>1 DEF Forward
  <2>3. \A q \in Procs : ~(proc[q].pc = "tasks" /\ proc[q].wf = WfOf[t])
    BY <2>1 DEF QueueInv, Known
  <2>4. OwnBirths(p)
    BY <1>0, <2>1, <2>3 DEF OwnBirths
  <2>5. \A a \in Agents : \A i \in DOMAIN queue'[a] : task'[queue'[a][i]] # "absent"
    BY <1>0, <2>1 DEF QueueInv
  <2>6. Goto(p, proc[p])
    BY <1>0, <2>1 DEF Goto
  <2>7. \A q \in Procs : Known(proc[q]) /\ proc[q] \in ProcType /\ Shape(proc[q])
    BY DEF QueueInv, TypeInv, TypeOK
  <2>8. ASSUME NEW q \in Procs PROVE Known(proc[q])'
    <3>1. \A i \in DOMAIN proc[q].todo : proc[q].todo[i] \in Tasks
      BY <2>7 DEF ProcType
    <3>2. \A i \in DOMAIN proc[q].todo : task'[proc[q].todo[i]] # "absent"
      BY <2>2, <2>7, <3>1 DEF Known, Forward
    <3>3. proc[q].pc \in {"start", "mark"} => task'[proc[q].task] # "absent"
      BY <2>2, <2>7 DEF Known, Forward, Shape
    <3>4. proc[q].pc = "dequeue" => task'[proc[q].task] \notin {"absent", "pending"}
      BY <2>2, <2>7 DEF Known, Forward, Shape
    <3>5. proc[q].pc = "tasks" => \A u \in Tasks : WfOf[u] = proc[q].wf => task'[u] = "absent"
      BY <1>0, <2>1, <2>3, <2>7 DEF Known
    <3>6. QED
      BY <2>1, <3>2, <3>3, <3>4, <3>5 DEF Known
  <2>9. QED
    BY <2>1, <2>5, <2>8 DEF QueueInv
<1>6. ASSUME NEW t \in Tasks, NEW a \in Agents \cup {NoAgent}, AssignRequest(p, t, a)
      PROVE  QueueInv'
  BY <1>6 DEF AssignRequest, QueueInv, Known
<1>7. ASSUME NEW t \in Tasks, NEW a \in Agents, EnqueueRequest(p, a, t) PROVE QueueInv'
  <2>1. /\ queue' = [queue EXCEPT ![a] = Append(@, t)] /\ UNCHANGED <<task, proc>>
        /\ task[t] # "absent"
    BY <1>7 DEF EnqueueRequest
  <2>2. \A b \in Agents : \A i \in DOMAIN queue'[b] : task[queue'[b][i]] # "absent"
    BY <1>0, <2>1 DEF QueueInv
  <2>3. QED
    BY <2>1, <2>2 DEF QueueInv, Known
<1>8. QED
  BY <1>1, <1>2, <1>3, <1>4, <1>5, <1>6, <1>7 DEF Request

(***************************************************************************)
(* A step of a handler.                                                    *)
(***************************************************************************)
LEMMA QueueStep ==
    ASSUME TypeInv, QueueInv, NEW p \in Procs, Step(p)
    PROVE  QueueInv' /\ Forward
<1> USE DEF files
<1>0. /\ task \in [Tasks -> TaskStatus]
      /\ queue \in [Agents -> Seq(Tasks)]
      /\ proc \in [Procs -> ProcType] /\ proc[p] \in ProcType
      /\ Known(proc[p]) /\ Shape(proc[p])
  BY DEF TypeInv, TypeOK, QueueInv
<1>a. ASSUME NEW r, Goto(p, r), UNCHANGED <<task, queue>>, KnownNext(r), r.pc # "tasks"
      PROVE  QueueInv' /\ Forward
  BY <1>a, SameForward, SameQueues, KnownMove
<1>b. ASSUME Finish(p), UNCHANGED <<task, queue>>
      PROVE  QueueInv' /\ Forward
  <2>1. Idle.pc # "tasks" /\ Goto(p, Idle)
    BY <1>b DEF Idle, Finish
  <2>2. QED
    BY <1>a, <1>b, <2>1, IdleKnown
<1>c. ASSUME Forward, UNCHANGED queue
      PROVE  /\ \A a \in Agents : \A i \in DOMAIN queue'[a] : task'[queue'[a][i]] # "absent"
             /\ \A i \in DOMAIN proc[p].todo : task'[proc[p].todo[i]] # "absent"
  <2>1. \A a \in Agents : \A i \in DOMAIN queue[a] : queue[a][i] \in Tasks
    BY <1>0
  <2>2. \A i \in DOMAIN proc[p].todo : proc[p].todo[i] \in Tasks
    BY <1>0 DEF ProcType
  <2>3. QED
    BY <1>0, <1>c, <2>1, <2>2 DEF Forward, QueueInv, Known
<1>1. CASE CreateTasks(p)
  <2> DEFINE r == [proc[p] EXCEPT !.pc = "entry"]
  <2>1. r.pc = "entry" /\ r.todo = proc[p].todo
    BY <1>0 DEF ProcType
  <2>2. Goto(p, r) /\ UNCHANGED queue /\ proc[p].pc = "tasks"
    BY <1>1 DEF CreateTasks, Continue
  <2>3. task' = [t \in Tasks |-> IF WfOf[t] = proc[p].wf /\ Rank[t] > 0 THEN "pending" ELSE task[t]]
    BY <1>1 DEF CreateTasks
  <2>4. \A t \in Tasks : WfOf[t] = proc[p].wf => task[t] = "absent"
    BY <1>0, <2>2 DEF Known
  <2>5. Forward
    BY <2>3, <2>4 DEF Forward
  <2>6. OwnBirths(p)
    BY <2>2, <2>3 DEF OwnBirths, QueueInv
  <2> HIDE DEF r
  <2>7. KnownNext(r)
    BY <1>c, <2>1, <2>2, <2>5 DEF KnownNext
  <2>8. QED
    BY <1>c, <2>1, <2>2, <2>5, <2>6, <2>7, KnownMove
<1>2. CASE CreateEntry(p)
  BY <1>b, <1>2 DEF CreateEntry
<1>3. CASE StartWrite(p)
  <2>1. proc[p].pc = "start" /\ proc[p].task \in Tasks /\ task[proc[p].task] # "absent"
    BY <1>0, <1>3 DEF StartWrite, Shape, Known
  <2>2. task' = [task EXCEPT ![proc[p].task] = "in_progress"] /\ UNCHANGED queue
    BY <1>3 DEF StartWrite
  <2>3. Forward /\ OwnBirths(p)
    BY <1>0, <2>1, <2>2 DEF Forward, OwnBirths
  <2>4. ASSUME NEW r, Goto(p, r), KnownNext(r), r.pc # "tasks"
        PROVE  QueueInv' /\ Forward
    BY <1>c, <2>2, <2>3, <2>4, KnownMove
  <2>5. CASE Continue(p, [proc[p] EXCEPT !.pc = "dequeue", !.todo = <<>>])
    <3> DEFINE r == [proc[p] EXCEPT !.pc = "dequeue", !.todo = <<>>]
    <3>1. r.pc = "dequeue" /\ r.todo = <<>> /\ r.task = proc[p].task /\ Goto(p, r)
      BY <1>0, <2>5 DEF ProcType, Continue
    <3>2. task'[proc[p].task] = "in_progress"
      BY <1>0, <2>1, <2>2
    <3> HIDE DEF r
    <3>3. KnownNext(r)
      BY <3>1, <3>2 DEF KnownNext
    <3>4. QED
      BY <2>4, <3>1, <3>3
  <2>6. CASE Continue(p, [proc[p] EXCEPT !.pc = "dispatch"])
    <3> DEFINE r == [proc[p] EXCEPT !.pc = "dispatch"]
    <3>1. r.pc = "dispatch" /\ r.todo = proc[p].todo /\ Goto(p, r)
      BY <1>0, <2>6 DEF ProcType, Continue
    <3> HIDE DEF r
    <3>2. KnownNext(r)
      BY <1>c, <2>2, <2>3, <3>1 DEF KnownNext
    <3>3. QED
      BY <2>4, <3>1, <3>2
  <2>7. CASE Finish(p)
    BY <2>4, <2>7, IdleKnown DEF Finish, Idle
  <2>8. QED
    BY <1>3, <2>5, <2>6, <2>7 DEF StartWrite
<1>4. CASE Walk(p)
  <2> DEFINE todo == proc[p].todo
             stop == {i \in DOMAIN todo :
                        ~(task[todo[i]] = "pending" /\ Busy(WfOf[todo[i]]))}
  <2>1. UNCHANGED <<task, queue>>
    BY <1>4 DEF Walk
  <2>2. CASE Finish(p)
    BY <1>b, <2>1, <2>2
  <2>3. ASSUME NEW i \in stop,
               Continue(p, [proc[p] EXCEPT
                    !.pc = IF task[todo[i]] = "pending" THEN "start" ELSE "dequeue",
                    !.task = todo[i],
                    !.todo = SubSeq(todo, i + 1, Len(todo))])
        PROVE  QueueInv' /\ Forward
    <3> DEFINE rest == SubSeq(todo, i + 1, Len(todo))
               r == [proc[p] EXCEPT
                    !.pc = IF task[todo[i]] = "pending" THEN "start" ELSE "dequeue",
                    !.task = todo[i], !.todo = rest]
    <3>1. todo \in Seq(Tasks)
      BY <1>0 DEF ProcType
    <3>2. todo[i] \in Tasks /\ i \in 1 .. Len(todo)
      BY <3>1, SubSeqTasks
    <3>3. Goto(p, r)
      BY <2>3 DEF Continue
    <3>4. /\ r.pc = IF task[todo[i]] = "pending" THEN "start" ELSE "dequeue"
          /\ r.task = todo[i] /\ r.todo = rest
      BY <1>0 DEF ProcType
    <3>5. \A j \in DOMAIN rest : \E k \in DOMAIN todo : rest[j] = todo[k]
      BY <3>1, <3>2, TailItems
    <3>6. \A k \in DOMAIN todo : task[todo[k]] # "absent"
      BY <1>0 DEF Known
    <3> HIDE DEF r
    <3>7. KnownNext(r)
      BY <2>1, <3>2, <3>4, <3>5, <3>6 DEF KnownNext
    <3>8. QED
      BY <1>a, <2>1, <3>3, <3>4, <3>7
  <2>4. QED
    BY <1>4, <2>2, <2>3 DEF Walk
<1>5. CASE Dequeue(p)
  <2> DEFINE r == [proc[p] EXCEPT !.pc = "walk"]
             a == proc[p].agent
  <2>1. r.pc = "walk" /\ r.todo = proc[p].todo /\ a \in Agents
    BY <1>0, <1>5 DEF ProcType, Dequeue, Shape
  <2>2. Goto(p, r) /\ UNCHANGED task
    BY <1>5 DEF Dequeue, Continue
  <2> HIDE DEF r
  <2>3. KnownNext(r)
    BY <1>0, <2>1, <2>2 DEF KnownNext, Known
  <2>4. \A b \in Agents : \A i \in DOMAIN queue'[b] : task'[queue'[b][i]] # "absent"
    <3>1. CASE UNCHANGED queue
      BY <2>2, <3>1 DEF QueueInv
    <3>2. ASSUME NEW i \in DOMAIN queue[a],
                 queue' = [queue EXCEPT ![a] = SubSeq(@, 1, i - 1) \o SubSeq(@, i + 1, Len(@))]
          PROVE  \A b \in Agents : \A k \in DOMAIN queue'[b] : task'[queue'[b][k]] # "absent"
      <4> DEFINE s == queue[a]
                 left == SubSeq(s, 1, i - 1) \o SubSeq(s, i + 1, Len(s))
      <4>1. s \in Seq(Tasks)
        BY <1>0, <2>1
      <4>2. \A k \in DOMAIN left : \E m \in DOMAIN s : left[k] = s[m]
        BY <4>1, SubSeqItems
      <4>3. \A k \in DOMAIN left : task[left[k]] # "absent"
        BY <2>1, <4>2 DEF QueueInv
      <4>4. queue' = [queue EXCEPT ![a] = left]
        BY <3>2
      <4> HIDE DEF left
      <4>5. QED
        BY <1>0, <2>1, <2>2, <4>3, <4>4 DEF QueueInv
    <3>3. QED
      BY <1>5, <3>1, <3>2 DEF Dequeue
  <2>5. Forward /\ OwnBirths(p)
    BY <2>2, SameForward
  <2>6. QED
    BY <2>1, <2>2, <2>3, <2>4, <2>5, KnownMove
<1>6. CASE MarkWrite(p)
  <2> DEFINE r == [proc[p] EXCEPT !.pc = "marked"]
  <2>1. /\ r.pc = "marked" /\ r.todo = proc[p].todo
        /\ proc[p].task \in Tasks /\ task[proc[p].task] # "absent"
        /\ proc[p].new \in {"done", "blocked", "escalated"}
    BY <1>0, <1>6 DEF ProcType, MarkWrite, Shape, Known
  <2>2. Goto(p, r) /\ task' = [task EXCEPT ![proc[p].task] = proc[p].new] /\ UNCHANGED queue
    BY <1>6 DEF MarkWrite, Continue
  <2>3. Forward /\ OwnBirths(p)
    BY <1>0, <2>1, <2>2 DEF Forward, OwnBirths
  <2> HIDE DEF r
  <2>4. KnownNext(r)
    BY <1>c, <2>1, <2>2, <2>3 DEF KnownNext
  <2>5. QED
    BY <1>c, <2>1, <2>2, <2>3, <2>4, KnownMove
<1>7. CASE Marked(p)
  <2>0. UNCHANGED <<task, queue>>
    BY <1>7 DEF Marked
  <2>1. ASSUME NEW r, Goto(p, r), r.todo = proc[p].todo, r.pc \in {"close", "advance"}
        PROVE  QueueInv' /\ Forward
    BY <1>0, <1>a, <2>0, <2>1 DEF KnownNext, Known
  <2>2. CASE Continue(p, [proc[p] EXCEPT !.pc = "close", !.new = "completed"])
    BY <1>0, <2>1, <2>2 DEF Continue, ProcType
  <2>3. CASE Continue(p, [proc[p] EXCEPT !.pc = "advance"])
    BY <1>0, <2>1, <2>3 DEF Continue, ProcType
  <2>4. CASE Continue(p, [proc[p] EXCEPT !.pc = "close"])
    BY <1>0, <2>1, <2>4 DEF Continue, ProcType
  <2>5. CASE Finish(p)
    BY <1>b, <2>0, <2>5
  <2>6. QED
    BY <1>7, <2>2, <2>3, <2>4, <2>5 DEF Marked
<1>8. CASE CloseWrite(p)
  <2>0. UNCHANGED <<task, queue>>
    BY <1>8 DEF CloseWrite
  <2>1. CASE Continue(p, [proc[p] EXCEPT !.pc = "advance"])
    <3> DEFINE r == [proc[p] EXCEPT !.pc = "advance"]
    <3>1. r.pc = "advance" /\ r.todo = proc[p].todo /\ Goto(p, r)
      BY <1>0, <2>1 DEF Continue, ProcType
    <3> HIDE DEF r
    <3>2. QED
      BY <1>0, <1>a, <2>0, <3>1 DEF KnownNext, Known
  <2>2. CASE Finish(p)
    BY <1>b, <2>0, <2>2
  <2>3. QED
    BY <1>8, <2>1, <2>2 DEF CloseWrite
<1>9. CASE Advance(p)
  <2>0. UNCHANGED <<task, queue>>
    BY <1>9 DEF Advance
  <2>1. CASE /\ proc[p].agent # NoAgent
             /\ Continue(p, [proc[p] EXCEPT !.pc = "walk", !.todo = queue[proc[p].agent]])
    <3> DEFINE r == [proc[p] EXCEPT !.pc = "walk", !.todo = queue[proc[p].agent]]
    <3>1. r.pc = "walk" /\ r.todo = queue[proc[p].agent] /\ proc[p].agent \in Agents /\ Goto(p, r)
      BY <1>0, <2>1 DEF Continue, ProcType
    <3> HIDE DEF r
    <3>2. KnownNext(r)
      BY <2>0, <3>1 DEF KnownNext, QueueInv
    <3>3. QED
      BY <1>a, <2>0, <3>1, <3>2
  <2>2. CASE Finish(p)
    BY <1>b, <2>0, <2>2
  <2>3. QED
    BY <1>9, <2>1, <2>2 DEF Advance
<1>10. CASE Dispatch(p)
  BY <1>b, <1>10 DEF Dispatch
<1>11. QED
  BY <1>1, <1>2, <1>3, <1>4, <1>5, <1>6, <1>7, <1>8, <1>9, <1>10 DEF Step

\* So do the conductor, the PATCH and a crash.
LEMMA QueueOthers ==
    ASSUME TypeInv, QueueInv
    PROVE  /\ \A t \in Tasks, new \in {"done", "blocked", "escalated"} :
                MarkRequest(t, new) => QueueInv'
           /\ \A j \in jobs : ConductorPick(j) \/ ConductorResume(j) => QueueInv'
           /\ Crash => QueueInv'
<1> USE DEF files
<1>0. Loop \in Procs
  BY DEF Procs
<1>a. ASSUME NEW r, Goto(Loop, r), UNCHANGED <<task, queue>>, KnownNext(r), r.pc # "tasks"
      PROVE  QueueInv'
  BY <1>0, <1>a, SameForward, SameQueues, KnownMove
<1>1. ASSUME NEW t \in Tasks, NEW new \in {"done", "blocked", "escalated"},
             MarkRequest(t, new)
      PROVE  QueueInv'
  <2> DEFINE r == [Idle EXCEPT !.op = new, !.pc = "mark", !.wf = WfOf[t],
                          !.task = t, !.new = new,
                          !.agent = IF new = "done" THEN assigned[t] ELSE NoAgent]
  <2>1. r.pc = "mark" /\ r.task = t /\ r.todo = <<>>
    BY DEF Idle
  <2>2. Goto(Loop, r) /\ UNCHANGED <<task, queue>> /\ task[t] # "absent"
    BY <1>1 DEF MarkRequest, Continue
  <2> HIDE DEF r
  <2>3. KnownNext(r)
    BY <2>1, <2>2 DEF KnownNext
  <2>4. QED
    BY <1>a, <2>1, <2>2, <2>3
<1>2. ASSUME NEW j \in jobs, ConductorPick(j) PROVE QueueInv'
  BY <1>2 DEF ConductorPick, QueueInv, Known
<1>3. ASSUME NEW j \in jobs, ConductorResume(j) PROVE QueueInv'
  <2> DEFINE coroutine == [Idle EXCEPT !.op = "job", !.wf = j.wf, !.pick = j.pick]
  <2>1. UNCHANGED <<task, queue>>
    BY <1>3 DEF ConductorResume
  <2>2. CASE Goto(Loop, [coroutine EXCEPT !.pc = "dispatch"])
    <3> DEFINE r == [coroutine EXCEPT !.pc = "dispatch"]
    <3>1. r.pc = "dispatch" /\ r.todo = <<>> /\ Goto(Loop, r)
      BY <2>2 DEF Idle
    <3> HIDE DEF r
    <3>2. KnownNext(r)
      BY <3>1 DEF KnownNext
    <3>3. QED
      BY <1>a, <2>1, <3>1, <3>2
  <2>3. ASSUME NEW t \in FirstPending(j.wf),
               Goto(Loop, [coroutine EXCEPT !.pc = "start", !.task = t])
        PROVE  QueueInv'
    <3> DEFINE r == [coroutine EXCEPT !.pc = "start", !.task = t]
    <3>1. r.pc = "start" /\ r.todo = <<>> /\ r.task = t /\ Goto(Loop, r)
      BY <2>3 DEF Idle
    <3>2. task'[t] = "pending"
      BY <2>1 DEF FirstPending, Pending
    <3> HIDE DEF r
    <3>3. KnownNext(r)
      BY <3>1, <3>2 DEF KnownNext
    <3>4. QED
      BY <1>a, <2>1, <3>1, <3>3
  <2>4. QED
    BY <1>3, <2>2, <2>3 DEF ConductorResume
<1>4. ASSUME Crash PROVE QueueInv'
  <2>1. UNCHANGED <<task, queue>> /\ proc' = [q \in Procs |-> Idle]
    BY <1>4 DEF Crash
  <2>2. Idle.pc = "idle" /\ Idle.todo = <<>>
    BY DEF Idle
  <2>3. QED
    BY <2>1, <2>2 DEF QueueInv, Known
<1>5. QED
  BY <1>1, <1>2, <1>3, <1>4

\* Every step keeps it, whatever the other processes do.
LEMMA QueueNext == TypeInv /\ QueueInv /\ [Next]_vars => QueueInv'
<1> SUFFICES ASSUME TypeInv, QueueInv, [Next]_vars PROVE QueueInv'
  OBVIOUS
<1>1. CASE UNCHANGED vars
  BY <1>1 DEF vars, QueueInv, Known
<1>2. CASE Next
  BY <1>2, QueueRequest, QueueStep, QueueOthers DEF Next
<1>3. QED
  BY <1>1, <1>2

(***************************************************************************)
(* Taking one item out of a queue keeps every other one.                   *)
(***************************************************************************)
LEMMA SubSeqKeeps ==
    ASSUME NEW s \in Seq(Tasks), NEW i \in DOMAIN s, NEW k \in DOMAIN s, k # i
    PROVE  LET left == SubSeq(s, 1, i - 1) \o SubSeq(s, i + 1, Len(s))
           IN  \E m \in DOMAIN left : left[m] = s[k]
<1> DEFINE one == SubSeq(s, 1, i - 1)
           two == SubSeq(s, i + 1, Len(s))
<1>1. /\ Len(s) \in Nat /\ i \in Nat /\ k \in Nat
      /\ 1 <= i /\ i <= Len(s) /\ 1 <= k /\ k <= Len(s)
  OBVIOUS
<1>2. one \in Seq(Tasks) /\ two \in Seq(Tasks)
  BY SubSeqTasks
<1>3. Len(one) = i - 1 /\ Len(two) = Len(s) - i
  BY <1>1, SubSeqSides
<1>a. \A n \in 1 .. (i - 1) : one[n] = s[n]
  BY <1>1, SubSeqSides
<1>b. \A n \in 1 .. (Len(s) - i) : two[n] = s[i + n]
  BY <1>1, SubSeqSides
<1> HIDE DEF one, two
<1>4. one \o two \in Seq(Tasks) /\ Len(one \o two) = Len(one) + Len(two)
  BY <1>2
<1>5. CASE k < i
  <2>1. k \in 1 .. (i - 1) /\ k <= Len(one) + Len(two) /\ k <= Len(one)
    BY <1>1, <1>3, <1>5
  <2>2. (one \o two)[k] = one[k] /\ k \in DOMAIN (one \o two)
    BY <1>1, <1>2, <1>4, <2>1
  <2>3. one[k] = s[k]
    BY <1>a, <2>1
  <2>4. QED
    BY <2>2, <2>3 DEF one, two
<1>6. CASE k > i
  <2>1. /\ k - i \in 1 .. (Len(s) - i) /\ k - 1 \in Nat
        /\ k - 1 > Len(one) /\ k - 1 <= Len(one) + Len(two)
        /\ (k - 1) - Len(one) = k - i /\ i + (k - i) = k
    BY <1>1, <1>3, <1>6
  <2>2. (one \o two)[k - 1] = two[(k - 1) - Len(one)] /\ k - 1 \in DOMAIN (one \o two)
    <3> DEFINE n == k - 1
    <3>1. n \in Nat /\ n > Len(one) /\ n <= Len(one) + Len(two)
      BY <2>1
    <3> HIDE DEF n
    <3>2. Len(one) \in Nat /\ Len(two) \in Nat
      BY <1>2
    <3>3. (one \o two)[n] = two[n - Len(one)]
      BY <1>2, <3>1, <3>2
    <3>4. n \in DOMAIN (one \o two)
      BY <1>4, <3>1, <3>2
    <3>5. QED
      BY <3>3, <3>4 DEF n
  <2>3. two[k - i] = s[k]
    BY <1>b, <2>1
  <2>4. (one \o two)[k - 1] = s[k]
    BY <2>1, <2>2, <2>3
  <2>5. QED
    BY <2>2, <2>4 DEF one, two
<1>7. k < i \/ k > i
  BY <1>1
<1>8. QED
  BY <1>5, <1>6, <1>7

(***************************************************************************)
(* Only enqueue_task and dequeue_task write a queue.                       *)
(***************************************************************************)
LEMMA QueueWriters ==
    ASSUME [Next]_vars
    PROVE  \/ UNCHANGED queue
           \/ \E p \in Procs : Dequeue(p)
           \/ \E p \in Procs, t \in Tasks, a \in Agents : EnqueueRequest(p, a, t)
<1>1. ASSUME NEW p \in Procs, Request(p)
      PROVE  UNCHANGED queue \/ \E t \in Tasks, a \in Agents : EnqueueRequest(p, a, t)
  BY <1>1 DEF files, Request, CreateRequest, StartRequest, CancelRequest,
         NextTaskRequest, InsertTask, AssignRequest
<1>2. ASSUME NEW p \in Procs, Step(p)
      PROVE  UNCHANGED queue \/ Dequeue(p)
  BY <1>2 DEF files, Step, CreateTasks, CreateEntry, StartWrite, Walk, MarkWrite, Marked,
         CloseWrite, Advance, Dispatch
<1>3. ASSUME NEW t \in Tasks, NEW new \in {"done", "blocked", "escalated"}, MarkRequest(t, new)
      PROVE  UNCHANGED queue
  BY <1>3 DEF files, MarkRequest
<1>4. ASSUME NEW j \in jobs, ConductorPick(j) \/ ConductorResume(j)
      PROVE  UNCHANGED queue
  BY <1>4 DEF files, ConductorPick, ConductorResume
<1>5. Crash => UNCHANGED queue
  BY DEF files, Crash
<1>6. UNCHANGED vars => UNCHANGED queue
  BY DEF vars
<1>7. QED
  BY <1>1, <1>2, <1>3, <1>4, <1>5, <1>6 DEF Next

(***************************************************************************)
(* An item that leaves a queue is the one its walker had seen started.     *)
(***************************************************************************)
LEMMA LeavingItem ==
    ASSUME TypeInv, QueueInv, [Next]_vars, NEW a \in Agents, NEW t \in Tasks,
           InQueue(a, t), ~InQueue(a, t)'
    PROVE  task[t] # "pending"
<1>0. queue \in [Agents -> Seq(Tasks)] /\ queue[a] \in Seq(Tasks)
  BY DEF TypeInv, TypeOK
<1>1. PICK k \in DOMAIN queue[a] : queue[a][k] = t
  BY DEF InQueue
<1>2. \A m \in DOMAIN queue'[a] : queue'[a][m] # t
  BY DEF InQueue
<1>3. ~UNCHANGED queue
  BY <1>1, <1>2
<1>4. ASSUME NEW u \in Tasks, NEW b \in Agents, NEW p \in Procs, EnqueueRequest(p, b, u)
      PROVE  FALSE
  <2>1. queue' = [queue EXCEPT ![b] = Append(@, u)]
    BY <1>4 DEF EnqueueRequest
  <2>2. CASE a # b
    BY <1>0, <1>1, <1>2, <2>1, <2>2
  <2>3. CASE a = b
    <3>1. queue'[a] = Append(queue[a], u)
      BY <1>0, <2>1, <2>3
    <3>2. k \in DOMAIN Append(queue[a], u) /\ Append(queue[a], u)[k] = queue[a][k]
      BY <1>0, <1>1
    <3>3. QED
      BY <1>1, <1>2, <3>1, <3>2
  <2>4. QED
    BY <2>2, <2>3
<1>5. PICK p \in Procs : Dequeue(p)
  BY <1>3, <1>4, QueueWriters
<1> DEFINE b == proc[p].agent
<1>6. PICK i \in DOMAIN queue[b] :
        /\ queue[b][i] = proc[p].task
        /\ queue' = [queue EXCEPT ![b] = SubSeq(@, 1, i - 1) \o SubSeq(@, i + 1, Len(@))]
  BY <1>3, <1>5 DEF Dequeue
<1>7. a = b
  BY <1>0, <1>1, <1>2, <1>6
<1>8. queue'[a] = SubSeq(queue[a], 1, i - 1) \o SubSeq(queue[a], i + 1, Len(queue[a]))
  BY <1>0, <1>6, <1>7
<1>9. k = i
  <2>1. SUFFICES ASSUME k # i PROVE FALSE
    OBVIOUS
  <2>2. PICK m \in DOMAIN queue'[a] : queue'[a][m] = queue[a][k]
    BY <1>0, <1>1, <1>6, <1>7, <1>8, <2>1, SubSeqKeeps
  <2>3. QED
    BY <1>1, <1>2, <2>2
<1>10. proc[p].task = t /\ proc[p].pc = "dequeue"
  BY <1>1, <1>5, <1>6, <1>7, <1>9 DEF Dequeue
<1>11. QED
  BY <1>10 DEF QueueInv, Known

(***************************************************************************)
(* Whatever runs beside the walk of a queue, and however often the server  *)
(* dies, an item that leaves a queue is no longer pending.                 *)
(***************************************************************************)
THEOREM QueueKeepsPending == Spec => QueueLosesOnlyStarted
<1>1. Init => TypeInv /\ QueueInv
  BY TypeInit, QueueInit
<1>2. TypeInv /\ QueueInv /\ [Next]_vars => (TypeInv /\ QueueInv)'
  BY TypeNext, QueueNext
<1>3. TypeInv /\ QueueInv /\ [Next]_vars =>
        [\A a \in Agents, t \in Tasks :
           InQueue(a, t) /\ ~InQueue(a, t)' => task[t] # "pending"]_vars
  BY LeavingItem
<1>4. QED
  BY <1>1, <1>2, <1>3, PTL DEF Spec, QueueLosesOnlyStarted

-----------------------------------------------------------------------------
(***************************************************************************)
(* The conductor's picks, with any requests in between.  Only a coroutine  *)
(* is a job, and it has no agent whose queue it would walk.                *)
(***************************************************************************)
JobOk(r) ==
    r.op = "job" => /\ r.pc \in {"start", "dispatch"} /\ r.agent = NoAgent
                    /\ r.pc = "start" => r.task \in Tasks /\ WfOf[r.task] = r.wf

JobInv == \A p \in Procs : JobOk(proc[p])

\* A process that goes on as a job, or as none, leaves the others what they are.
LEMMA JobMove ==
    ASSUME TypeInv, JobInv, NEW p \in Procs, NEW r, Goto(p, r), JobOk(r)
    PROVE  JobInv'
<1>1. proc' = [proc EXCEPT ![p] = r] /\ proc \in [Procs -> ProcType]
  BY DEF Goto, TypeInv, TypeOK
<1>2. proc'[p] = r /\ \A q \in Procs : q # p => proc'[q] = proc[q]
  BY <1>1
<1>3. QED
  BY <1>2 DEF JobInv, JobOk

\* A handler stays what it is, or ends.
LEMMA OpStays ==
    ASSUME TypeInv, NEW p \in Procs, Step(p)
    PROVE  \E r : Goto(p, r) /\ r.op \in {proc[p].op, "none"}
<1> USE DEF Continue
<1>1. proc[p] \in ProcType /\ DOMAIN proc[p] = DOMAIN Idle
  BY DEF TypeInv, TypeOK, ProcType, Idle
<1>2. CASE Finish(p)
  BY <1>2 DEF Finish, Idle
<1>3. CASE \E x : Goto(p, [proc[p] EXCEPT !.pc = x])
  BY <1>1, <1>3 DEF ProcType
<1>4. CASE \E x, y : \/ Goto(p, [proc[p] EXCEPT !.pc = x, !.todo = y])
                     \/ Goto(p, [proc[p] EXCEPT !.pc = x, !.new = y])
  <2>1. PICK x, y : \/ Goto(p, [proc[p] EXCEPT !.pc = x, !.todo = y])
                    \/ Goto(p, [proc[p] EXCEPT !.pc = x, !.new = y])
    BY <1>4
  <2>2. /\ [proc[p] EXCEPT !.pc = x, !.todo = y].op = proc[p].op
        /\ [proc[p] EXCEPT !.pc = x, !.new = y].op = proc[p].op
    BY <1>1 DEF ProcType
  <2>3. QED
    BY <2>1, <2>2
<1>5. CASE \E x, y, z : Goto(p, [proc[p] EXCEPT !.pc = x, !.task = y, !.todo = z])
  <2>1. PICK x, y, z : Goto(p, [proc[p] EXCEPT !.pc = x, !.task = y, !.todo = z])
    BY <1>5
  <2>2. [proc[p] EXCEPT !.pc = x, !.task = y, !.todo = z].op = proc[p].op
    BY <1>1 DEF ProcType
  <2>3. QED
    BY <2>1, <2>2
<1>6. CASE CreateTasks(p) \/ CreateEntry(p) \/ Dispatch(p) \/ MarkWrite(p) \/ Dequeue(p)
  BY <1>2, <1>3, <1>6 DEF CreateTasks, CreateEntry, Dispatch, MarkWrite, Dequeue
<1>7. CASE StartWrite(p) \/ Advance(p) \/ CloseWrite(p)
  BY <1>2, <1>3, <1>4, <1>7 DEF StartWrite, Advance, CloseWrite
<1>8. CASE Marked(p)
  BY <1>2, <1>3, <1>4, <1>8 DEF Marked
<1>9. CASE Walk(p)
  BY <1>2, <1>5, <1>9 DEF Walk
<1>10. QED
  BY <1>6, <1>7, <1>8, <1>9 DEF Step

\* So a step makes no job, and a job tells its agent when it has started the task.
LEMMA JobStep ==
    ASSUME TypeInv, JobInv, NEW p \in Procs, Step(p)
    PROVE  JobInv'
<1>1. JobOk(proc[p]) /\ proc[p] \in ProcType
  BY DEF JobInv, TypeInv, TypeOK
<1>2. CASE proc[p].op # "job"
  <2>1. PICK r : Goto(p, r) /\ r.op \in {proc[p].op, "none"}
    BY OpStays
  <2>2. JobOk(r)
    BY <1>2, <2>1 DEF JobOk
  <2>3. QED
    BY <2>1, <2>2, JobMove
<1>3. CASE proc[p].op = "job"
  <2>1. proc[p].pc \in {"start", "dispatch"} /\ proc[p].agent = NoAgent
    BY <1>1, <1>3 DEF JobOk
  <2>2. StartWrite(p) \/ Dispatch(p)
    BY <2>1 DEF Step, CreateTasks, CreateEntry, Walk, Dequeue, MarkWrite, Marked, CloseWrite, Advance
  <2>3. CASE StartWrite(p)
    <3> DEFINE r == [proc[p] EXCEPT !.pc = "dispatch"]
    <3>1. Goto(p, r)
      BY <1>3, <2>1, <2>3 DEF StartWrite, Continue
    <3>2. r.pc = "dispatch" /\ r.agent = NoAgent
      BY <1>1, <2>1 DEF ProcType
    <3> HIDE DEF r
    <3>3. JobOk(r)
      BY <3>2 DEF JobOk
    <3>4. QED
      BY <3>1, <3>3, JobMove
  <2>4. CASE Dispatch(p)
    BY <2>4, JobMove DEF Dispatch, Finish, JobOk, Idle
  <2>5. QED
    BY <2>2, <2>3, <2>4
<1>4. QED
  BY <1>2, <1>3

\* A request is no job.
LEMMA JobRequest ==
    ASSUME TypeInv, JobInv, NEW p \in Procs, Request(p)
    PROVE  JobInv'
<1> USE DEF Continue
<1>1. CASE UNCHANGED proc
  BY <1>1 DEF JobInv, JobOk
<1>2. ASSUME NEW r, Goto(p, r), r.op # "job" PROVE JobInv'
  BY <1>2, JobMove DEF JobOk
<1>3. ASSUME NEW w \in Workflows, CreateRequest(p, w) PROVE JobInv'
  BY <1>2, <1>3 DEF CreateRequest, Idle
<1>4. ASSUME NEW w \in Workflows, StartRequest(p, w) PROVE JobInv'
  BY <1>2, <1>4 DEF StartRequest, Idle
<1>5. ASSUME NEW w \in Workflows, CancelRequest(p, w) PROVE JobInv'
  BY <1>2, <1>5 DEF CancelRequest, Idle
<1>6. ASSUME NEW a \in Agents, NextTaskRequest(p, a) PROVE JobInv'
  BY <1>2, <1>6 DEF NextTaskRequest, Idle
<1>7. CASE \/ \E t \in Tasks, u \in Tasks : InsertTask(p, t, u)
           \/ \E t \in Tasks, a \in Agents \cup {NoAgent} : AssignRequest(p, t, a)
           \/ \E t \in Tasks, a \in Agents : EnqueueRequest(p, a, t)
  BY <1>1, <1>7 DEF InsertTask, AssignRequest, EnqueueRequest
<1>8. QED
  BY <1>3, <1>4, <1>5, <1>6, <1>7 DEF Request

\* A coroutine that is resumed is one, of the workflow of its task.
LEMMA JobResumes ==
    ASSUME TypeInv, JobInv, NEW j \in jobs, ConductorResume(j)
    PROVE  /\ JobInv'
           /\ \/ Busy(j.wf) \/ FirstPending(j.wf) = {}
              \/ HandedOn(j.wf)'
<1> DEFINE coroutine == [Idle EXCEPT !.op = "job", !.wf = j.wf, !.pick = j.pick]
<1>0. Loop \in Procs /\ proc \in [Procs -> ProcType]
  BY DEF Procs, TypeInv, TypeOK
<1>1. ASSUME Goto(Loop, [coroutine EXCEPT !.pc = "dispatch"]) PROVE JobInv'
  <2> DEFINE r == [coroutine EXCEPT !.pc = "dispatch"]
  <2>1. r.pc = "dispatch" /\ r.agent = NoAgent
    BY DEF Idle
  <2>2. Goto(Loop, r)
    BY <1>1
  <2> HIDE DEF r
  <2>3. JobOk(r)
    BY <2>1 DEF JobOk
  <2>4. QED
    BY <1>0, <2>2, <2>3, JobMove
<1>2. ASSUME NEW t \in FirstPending(j.wf), Goto(Loop, [coroutine EXCEPT !.pc = "start", !.task = t])
      PROVE  JobInv' /\ HandedOn(j.wf)'
  <2> DEFINE r == [coroutine EXCEPT !.pc = "start", !.task = t]
  <2>1. r.op = "job" /\ r.pc = "start" /\ r.agent = NoAgent /\ r.task = t /\ r.wf = j.wf
    BY DEF Idle
  <2>2. Goto(Loop, r)
    BY <1>2
  <2>3. t \in Tasks /\ WfOf[t] = j.wf
    BY DEF FirstPending, Pending, Listed
  <2> HIDE DEF r
  <2>4. JobOk(r)
    BY <2>1, <2>3 DEF JobOk
  <2>5. proc'[Loop] = r
    BY <1>0, <2>2 DEF Goto
  <2>6. HandedOn(j.wf)'
    BY <1>0, <2>1, <2>5 DEF HandedOn
  <2>7. QED
    BY <1>0, <2>2, <2>4, <2>6, JobMove
<1>3. QED
  BY <1>1, <1>2 DEF ConductorResume

\* Nor is what begins on the loop otherwise, and a kill leaves nothing.
LEMMA JobOthers ==
    ASSUME TypeInv, JobInv,
           \/ \E t \in Tasks, new \in {"done", "blocked", "escalated"} : MarkRequest(t, new)
           \/ \E j \in jobs : ConductorPick(j)
           \/ Crash \/ UNCHANGED vars
    PROVE  JobInv'
<1>1. ASSUME NEW t \in Tasks, NEW new \in {"done", "blocked", "escalated"}, MarkRequest(t, new)
      PROVE  JobInv'
  <2> DEFINE r == [Idle EXCEPT !.op = new, !.pc = "mark", !.wf = WfOf[t], !.task = t, !.new = new,
                               !.agent = IF new = "done" THEN assigned[t] ELSE NoAgent]
  <2>1. r.op # "job"
    BY DEF Idle
  <2>2. Goto(Loop, r) /\ Loop \in Procs
    BY <1>1 DEF MarkRequest, Continue, Procs
  <2> HIDE DEF r
  <2>3. QED
    BY <2>1, <2>2, JobMove DEF JobOk
<1>2. CASE UNCHANGED proc
  BY <1>2 DEF JobInv, JobOk
<1>3. CASE Crash
  BY <1>3 DEF Crash, JobInv, JobOk, Idle
<1>4. QED
  BY <1>1, <1>2, <1>3 DEF ConductorPick, vars

\* Every step keeps the jobs what they are.
LEMMA JobNext == TypeInv /\ JobInv /\ [Next]_vars => JobInv'
BY JobStep, JobRequest, JobResumes, JobOthers DEF Next

\* Of tasks that are pending, one is the first.
LEMMA SomeFirst ==
    ASSUME TypeInv, NEW w, FirstPending(w) = {}
    PROVE  Pending(w) = {}
<1> DEFINE B == {order[t] : t \in Pending(w)}
<1>1. SUFFICES ASSUME Pending(w) # {} PROVE FALSE
  OBVIOUS
<1>2. Pending(w) \subseteq Tasks /\ order \in [Tasks -> Nat]
  BY DEF Pending, Listed, TypeInv, TypeOK
<1>3. B \subseteq Nat /\ B # {}
  BY <1>1, <1>2
<1>4. PICK m \in B : \A k \in B : <<k, m>> \notin OpToRel(<, Nat)
  BY <1>3, NatLessThanWellFounded, WFMin
<1>5. \A k \in B : m <= k
  <2>1. \A k \in B : ~(k < m)
    BY <1>4, <1>3 DEF OpToRel
  <2>2. \A k \in B : k \in Nat /\ m \in Nat
    BY <1>3, <1>4
  <2>3. QED
    BY <2>1, <2>2
<1>6. PICK t \in Pending(w) : m = order[t]
  BY <1>4
<1>7. \A u \in Pending(w) : order[t] <= order[u]
  BY <1>5, <1>6
<1>8. t \in FirstPending(w)
  BY <1>6, <1>7 DEF FirstPending
<1>9. QED
  BY <1>8

\* A coroutine that waits with its pick is there until it is resumed.
LEMMA PickWaits ==
    ASSUME Next, NEW j \in jobs, j.pick # NoTask
    PROVE  j \in jobs' \/ ConductorResume(j) \/ crashes' # crashes
<1>1. CASE jobs \subseteq jobs'
  BY <1>1
<1>2. ASSUME NEW p \in Procs, Request(p) PROVE jobs \subseteq jobs'
  BY <1>2 DEF Request, CreateRequest, StartRequest, CancelRequest, NextTaskRequest, InsertTask,
              AssignRequest, EnqueueRequest, Continue
<1>3. ASSUME NEW p \in Procs, Step(p) PROVE jobs \subseteq jobs'
  BY <1>3 DEF Step, CreateTasks, CreateEntry, StartWrite, Walk, Dequeue, MarkWrite, Marked,
              CloseWrite, Advance, Dispatch, Finish, Continue
<1>4. ASSUME NEW t \in Tasks, NEW new \in {"done", "blocked", "escalated"}, MarkRequest(t, new)
      PROVE  jobs \subseteq jobs'
  BY <1>4 DEF MarkRequest, Continue
<1>5. ASSUME NEW k \in jobs, ConductorPick(k) PROVE j \in jobs'
  BY <1>5 DEF ConductorPick
<1>6. ASSUME NEW k \in jobs, ConductorResume(k) PROVE j \in jobs' \/ ConductorResume(j)
  BY <1>6 DEF ConductorResume
<1>7. CASE Crash
  BY <1>7 DEF Crash
<1>8. QED
  BY <1>1, <1>2, <1>3, <1>4, <1>5, <1>6, <1>7 DEF Next

\* A handler that is about to start a task is there until it has started it.
LEMMA StartWaits ==
    ASSUME TypeInv, Next, NEW p \in Procs, proc[p].pc = "start"
    PROVE  proc'[p] = proc[p] \/ StartWrite(p) \/ crashes' # crashes
<1> USE DEF Continue
<1>0. proc \in [Procs -> ProcType] /\ ~MayBegin(p) /\ Loop \in Procs
  BY DEF TypeInv, TypeOK, MayBegin, Procs
<1>1. ASSUME NEW q \in Procs, q # p, UNCHANGED proc \/ \E r : Goto(q, r)
      PROVE  proc'[p] = proc[p]
  BY <1>0, <1>1 DEF Goto
<1>2. ASSUME NEW q \in Procs, Request(q) PROVE proc'[p] = proc[p]
  <2>1. MayBegin(q)
    BY <1>2 DEF Request, CreateRequest, StartRequest, CancelRequest, NextTaskRequest, InsertTask,
                AssignRequest, EnqueueRequest
  <2>2. UNCHANGED proc \/ \E r : Goto(q, r)
    BY <1>2 DEF Request, CreateRequest, StartRequest, CancelRequest, NextTaskRequest, InsertTask,
                AssignRequest, EnqueueRequest
  <2>3. QED
    BY <1>0, <1>1, <2>1, <2>2
<1>3. ASSUME NEW q \in Procs, Step(q) PROVE proc'[p] = proc[p] \/ StartWrite(p)
  <2>1. CASE q = p
    BY <1>3, <2>1 DEF Step, CreateTasks, CreateEntry, Walk, Dequeue, MarkWrite, Marked, CloseWrite,
                      Advance, Dispatch
  <2>2. CASE q # p
    BY <1>1, <1>3, <2>2, OpStays
  <2>3. QED
    BY <2>1, <2>2
<1>4. ASSUME NEW t \in Tasks, NEW new \in {"done", "blocked", "escalated"}, MarkRequest(t, new)
      PROVE  proc'[p] = proc[p]
  BY <1>0, <1>1, <1>4 DEF MarkRequest
<1>5. ASSUME NEW k \in jobs, ConductorPick(k) \/ ConductorResume(k) PROVE proc'[p] = proc[p]
  BY <1>0, <1>1, <1>5 DEF ConductorPick, ConductorResume
<1>6. CASE Crash
  <2>1. crashes' = crashes + 1 /\ crashes \in Nat
    BY <1>6, SortAssumption DEF Crash, TypeInv, TypeOK
  <2>2. QED
    BY <2>1
<1>7. QED
  BY <1>2, <1>3, <1>4, <1>5, <1>6 DEF Next

\* Every step leaves a pick standing.
LEMMA PickStep == TypeInv /\ JobInv /\ [Next]_vars => PickStands
<1> SUFFICES ASSUME TypeInv, JobInv, [Next]_vars, NEW w \in Workflows, HandedOn(w),
                    ~Busy(w), Pending(w) # {}, crashes' = crashes
             PROVE  HandedOn(w)' \/ Busy(w)'
  BY DEF PickStands
<1>1. CASE UNCHANGED vars
  BY <1>1 DEF vars, HandedOn
<1>2. ASSUME Next, NEW j \in jobs, j.wf = w, j.pick # NoTask PROVE HandedOn(w)'
  <2>1. CASE j \in jobs'
    BY <1>2, <2>1 DEF HandedOn
  <2>2. CASE ConductorResume(j)
    BY <1>2, <2>2, JobResumes, SomeFirst
  <2>3. QED
    BY <1>2, <2>1, <2>2, PickWaits
<1>3. ASSUME Next, NEW p \in Procs, proc[p].op = "job", proc[p].pc = "start", proc[p].wf = w
      PROVE  HandedOn(w)' \/ Busy(w)'
  <2>1. CASE proc'[p] = proc[p]
    BY <1>3, <2>1 DEF HandedOn
  <2>2. CASE StartWrite(p)
    <3> DEFINE t == proc[p].task
    <3>1. t \in Tasks /\ WfOf[t] = w
      BY <1>3 DEF JobInv, JobOk
    <3>2. task'[t] = "in_progress"
      BY <2>2, <3>1 DEF StartWrite, TypeInv, TypeOK
    <3>3. QED
      BY <3>1, <3>2 DEF Busy, Listed
  <2>3. QED
    BY <1>3, <2>1, <2>2, StartWaits
<1>4. QED
  BY <1>1, <1>2, <1>3 DEF HandedOn

(***************************************************************************)
(* The safety half of PickLeadsToWork: only a restart drops what the       *)
(* conductor picked, whatever requests come while its coroutine is         *)
(* suspended, on however many threads.                                     *)
(***************************************************************************)
THEOREM PicksStand == Spec => [][PickStands]_vars
<1>1. Init => JobInv
  BY DEF Init, JobInv, JobOk, Idle
<1>2. QED
  BY <1>1, TypeInit, TypeNext, JobNext, PickStep, PTL DEF Spec

-----------------------------------------------------------------------------
(***************************************************************************)
(* One request at a time: what a handler knows at each of its points.  It  *)
(* is alone, so whatever it read or wrote before still holds.              *)
(***************************************************************************)
PointHolds(r) ==
    /\ r.pc \in {"tasks", "entry"} => wf[r.wf] = "absent"
    /\ r.pc = "entry" => \A t \in Tasks : WfOf[t] = r.wf => task[t] \in {"absent", "pending"}
    /\ r.pc = "mark" => /\ r.wf = WfOf[r.task] /\ wf[r.wf] # "absent"
                        /\ r.op = r.new /\ ValidTask(task[r.task], r.new)
    /\ r.pc = "marked" => r.op = r.new /\ wf[r.wf] # "absent"
    /\ r.pc = "close" =>
          /\ wf[r.wf] # "absent"
          /\ \/ r.op = "done" /\ r.new = "completed"
             \/ r.op = "escalated" /\ r.new = "escalated"
             \/ r.op = "cancel" /\ r.new = "cancelled" /\ wf[r.wf] \in {"active", "cancelled"}
    /\ r.pc = "advance" /\ AllDone(r.wf) => wf[r.wf] = "completed"

PointInv == \A p \in Procs : PointHolds(proc[p])

(***************************************************************************)
(* The same of the files after the step, for a record r of before it.      *)
(***************************************************************************)
PointNext(r) ==
    /\ r.pc \in {"tasks", "entry"} => wf'[r.wf] = "absent"
    /\ r.pc = "entry" => \A t \in Tasks : WfOf[t] = r.wf => task'[t] \in {"absent", "pending"}
    /\ r.pc = "mark" => /\ r.wf = WfOf[r.task] /\ wf'[r.wf] # "absent"
                        /\ r.op = r.new /\ ValidTask(task'[r.task], r.new)
    /\ r.pc = "marked" => r.op = r.new /\ wf'[r.wf] # "absent"
    /\ r.pc = "close" =>
          /\ wf'[r.wf] # "absent"
          /\ \/ r.op = "done" /\ r.new = "completed"
             \/ r.op = "escalated" /\ r.new = "escalated"
             \/ r.op = "cancel" /\ r.new = "cancelled" /\ wf'[r.wf] \in {"active", "cancelled"}
    /\ r.pc = "advance" /\ (\A t \in Tasks : WfOf[t] = r.wf => task'[t] \in {"absent", "done"})
          => wf'[r.wf] = "completed"

\* A request that has no such point knows nothing.
LEMMA NoPoint ==
    ASSUME NEW r, r.pc \notin {"tasks", "entry", "mark", "marked", "close", "advance"}
    PROVE  PointNext(r)
BY DEF PointNext

\* The one handler under way moves to r.
LEMMA PointMove ==
    ASSUME TypeInv, NEW p \in Procs, Alone(p), NEW r, Goto(p, r), PointNext(r)
    PROVE  PointInv'
<1>1. proc' = [proc EXCEPT ![p] = r] /\ proc \in [Procs -> ProcType]
  BY DEF Goto, TypeInv, TypeOK
<1>2. proc'[p] = r
  BY <1>1
<1>3. AllDone(proc[p].wf)' <=> \A t \in Tasks : WfOf[t] = r.wf => task'[t] \in {"absent", "done"}
  BY <1>2 DEF AllDone, Listed
<1>4. PointHolds(proc[p])'
  BY <1>2, <1>3 DEF PointHolds, PointNext
<1>5. ASSUME NEW q \in Procs, q # p PROVE PointHolds(proc[q])'
  <2>1. proc'[q].pc = "idle"
    BY <1>1, <1>5 DEF Alone
  <2>2. QED
    BY <2>1 DEF PointHolds
<1>6. QED
  BY <1>4, <1>5 DEF PointInv

\* Answering is such a move.
LEMMA PointFinish ==
    ASSUME TypeInv, NEW p \in Procs, Alone(p), Finish(p)
    PROVE  PointInv'
<1>1. PointNext(Idle)
  BY NoPoint DEF Idle
<1>2. QED
  BY <1>1, PointMove DEF Finish

\* It holds at the start.
LEMMA PointInit == Init => PointInv
BY DEF Init, PointInv, PointHolds, Idle

\* Where everyone is idle nobody knows anything.
LEMMA PointQuiet ==
    ASSUME \A p \in Procs : proc'[p].pc = "idle"
    PROVE  PointInv'
BY DEF PointInv, PointHolds

(***************************************************************************)
(* A request that may begin meets an engine at rest.                       *)
(***************************************************************************)
LEMMA PointRequest ==
    ASSUME Exclusive, TypeInv, NEW p \in Procs, Request(p)
    PROVE  PointInv'
<1> USE DEF files
<1>a. ASSUME NEW r, Goto(p, r), MayBegin(p), PointNext(r) PROVE PointInv'
  BY <1>a, BeginsAlone, PointMove
<1>1. ASSUME NEW w \in Workflows, CreateRequest(p, w) PROVE PointInv'
  <2> DEFINE r == [Idle EXCEPT !.op = "create", !.pc = "tasks", !.wf = w]
  <2>1. r.pc = "tasks" /\ r.wf = w
    BY DEF Idle
  <2>2. Goto(p, r) /\ MayBegin(p) /\ wf'[w] = "absent"
    BY <1>1 DEF CreateRequest, Continue
  <2> HIDE DEF r
  <2>3. PointNext(r)
    BY <2>1, <2>2 DEF PointNext
  <2>4. QED
    BY <1>a, <2>2, <2>3
<1>2. ASSUME NEW w \in Workflows, StartRequest(p, w) PROVE PointInv'
  <2>1. PICK t \in FirstPending(w) :
          Continue(p, [Idle EXCEPT !.op = "start", !.pc = "start", !.wf = w, !.task = t])
    BY <1>2 DEF StartRequest
  <2> DEFINE r == [Idle EXCEPT !.op = "start", !.pc = "start", !.wf = w, !.task = t]
  <2>2. r.pc = "start" /\ Goto(p, r) /\ MayBegin(p)
    BY <1>2, <2>1 DEF StartRequest, Continue, Idle
  <2> HIDE DEF r
  <2>3. QED
    BY <1>a, <2>2, NoPoint
<1>3. ASSUME NEW w \in Workflows, CancelRequest(p, w) PROVE PointInv'
  <2> DEFINE r == [Idle EXCEPT !.op = "cancel", !.pc = "close",
                               !.wf = w, !.new = "cancelled"]
  <2>1. r.pc = "close" /\ r.op = "cancel" /\ r.wf = w /\ r.new = "cancelled"
    BY DEF Idle
  <2>2. /\ Goto(p, r) /\ MayBegin(p) /\ UNCHANGED wf
        /\ wf[w] # "absent" /\ ValidWf(wf[w], "cancelled")
    BY <1>3 DEF CancelRequest, Continue
  <2>3. wf[w] \in {"active", "cancelled"}
    BY <2>2 DEF ValidWf, WfTransitions
  <2> HIDE DEF r
  <2>4. PointNext(r)
    BY <2>1, <2>2, <2>3 DEF PointNext
  <2>5. QED
    BY <1>a, <2>2, <2>4
<1>4. ASSUME NEW a \in Agents, NextTaskRequest(p, a) PROVE PointInv'
  <2> DEFINE r == [Idle EXCEPT !.op = "next", !.pc = "walk",
                               !.agent = a, !.todo = queue[a]]
  <2>1. r.pc = "walk" /\ Goto(p, r) /\ MayBegin(p)
    BY <1>4 DEF NextTaskRequest, Continue, Idle
  <2> HIDE DEF r
  <2>2. QED
    BY <1>a, <2>1, NoPoint
<1>5. ASSUME UNCHANGED proc, MayBegin(p) PROVE PointInv'
  BY <1>5, PointQuiet DEF MayBegin
<1>6. QED
  BY <1>1, <1>2, <1>3, <1>4, <1>5
     DEF Request, InsertTask, AssignRequest, EnqueueRequest

\* The step of the handler under way keeps it.
LEMMA PointStep ==
    ASSUME TypeInv, SerialInv, QueueInv, PointInv, NEW p \in Procs, Step(p)
    PROVE  PointInv'
<1> USE DEF files
<1>0. /\ task \in [Tasks -> TaskStatus]
      /\ wf \in [Workflows -> WfStatus]
      /\ proc[p] \in ProcType /\ Shape(proc[p])
      /\ PointHolds(proc[p]) /\ Known(proc[p])
  BY DEF TypeInv, TypeOK, PointInv, QueueInv
<1>a. Alone(p)
  <2>1. proc[p].pc # "idle"
    BY DEF Step, CreateTasks, CreateEntry, StartWrite, Walk, Dequeue,
           MarkWrite, Marked, CloseWrite, Advance, Dispatch
  <2>2. QED
    BY <2>1 DEF SerialInv
<1>b. ASSUME NEW r, Goto(p, r), PointNext(r) PROVE PointInv'
  BY <1>a, <1>b, PointMove
<1>c. Finish(p) => PointInv'
  BY <1>a, PointFinish
<1>1. CASE CreateTasks(p)
  <2> DEFINE r == [proc[p] EXCEPT !.pc = "entry"]
  <2>1. r.pc = "entry" /\ r.wf = proc[p].wf
    BY <1>0 DEF ProcType
  <2>2. Goto(p, r) /\ UNCHANGED wf /\ wf[proc[p].wf] = "absent"
    BY <1>0, <1>1 DEF CreateTasks, Continue, PointHolds
  <2>3. \A t \in Tasks : WfOf[t] = proc[p].wf => task'[t] \in {"absent", "pending"}
    BY <1>0, <1>1 DEF CreateTasks, Known
  <2> HIDE DEF r
  <2>4. PointNext(r)
    BY <2>1, <2>2, <2>3 DEF PointNext
  <2>5. QED
    BY <1>b, <2>2, <2>4
<1>2. CASE CreateEntry(p) \/ Dispatch(p)
  BY <1>c, <1>2 DEF CreateEntry, Dispatch
<1>3. CASE StartWrite(p)
  <2>1. CASE Continue(p, [proc[p] EXCEPT !.pc = "dequeue", !.todo = <<>>])
    <3>1. [proc[p] EXCEPT !.pc = "dequeue", !.todo = <<>>].pc = "dequeue"
      BY <1>0 DEF ProcType
    <3>2. QED
      BY <1>b, <2>1, <3>1, NoPoint DEF Continue
  <2>2. CASE Continue(p, [proc[p] EXCEPT !.pc = "dispatch"])
    <3>1. [proc[p] EXCEPT !.pc = "dispatch"].pc = "dispatch"
      BY <1>0 DEF ProcType
    <3>2. QED
      BY <1>b, <2>2, <3>1, NoPoint DEF Continue
  <2>3. QED
    BY <1>3, <1>c, <2>1, <2>2 DEF StartWrite
<1>4. CASE Walk(p)
  <2> DEFINE todo == proc[p].todo
  <2>1. ASSUME NEW i \in DOMAIN todo,
               Continue(p, [proc[p] EXCEPT
                    !.pc = IF task[todo[i]] = "pending" THEN "start" ELSE "dequeue",
                    !.task = todo[i],
                    !.todo = SubSeq(todo, i + 1, Len(todo))])
        PROVE  PointInv'
    <3> DEFINE r == [proc[p] EXCEPT
                    !.pc = IF task[todo[i]] = "pending" THEN "start" ELSE "dequeue",
                    !.task = todo[i],
                    !.todo = SubSeq(todo, i + 1, Len(todo))]
    <3>1. r.pc \in {"start", "dequeue"} /\ Goto(p, r)
      BY <1>0, <2>1 DEF ProcType, Continue
    <3> HIDE DEF r
    <3>2. QED
      BY <1>b, <3>1, NoPoint
  <2>2. QED
    BY <1>4, <1>c, <2>1 DEF Walk
<1>5. CASE Dequeue(p)
  <2>1. [proc[p] EXCEPT !.pc = "walk"].pc = "walk"
    BY <1>0 DEF ProcType
  <2>2. QED
    BY <1>5, <1>b, <2>1, NoPoint DEF Dequeue, Continue
<1>6. CASE MarkWrite(p)
  <2> DEFINE r == [proc[p] EXCEPT !.pc = "marked"]
  <2>1. r.pc = "marked" /\ r.wf = proc[p].wf /\ r.op = proc[p].op /\ r.new = proc[p].new
    BY <1>0 DEF ProcType
  <2>2. /\ Goto(p, r) /\ UNCHANGED wf
        /\ proc[p].op = proc[p].new /\ wf[proc[p].wf] # "absent"
    BY <1>0, <1>6 DEF MarkWrite, Continue, PointHolds
  <2> HIDE DEF r
  <2>3. PointNext(r)
    BY <2>1, <2>2 DEF PointNext
  <2>4. QED
    BY <1>b, <2>2, <2>3
<1>7. CASE Marked(p)
  <2>0. /\ UNCHANGED <<task, wf>>
        /\ proc[p].op = proc[p].new /\ wf[proc[p].wf] # "absent"
    BY <1>0, <1>7 DEF Marked, PointHolds
  <2>1. CASE /\ proc[p].new = "done"
             /\ Continue(p, [proc[p] EXCEPT !.pc = "close", !.new = "completed"])
    <3> DEFINE r == [proc[p] EXCEPT !.pc = "close", !.new = "completed"]
    <3>1. /\ r.pc = "close" /\ r.wf = proc[p].wf /\ r.op = "done" /\ r.new = "completed"
          /\ Goto(p, r)
      BY <1>0, <2>0, <2>1 DEF ProcType, Continue
    <3> HIDE DEF r
    <3>2. PointNext(r)
      BY <2>0, <3>1 DEF PointNext
    <3>3. QED
      BY <1>b, <3>1, <3>2
  <2>2. CASE /\ ~AllDone(proc[p].wf)
             /\ Continue(p, [proc[p] EXCEPT !.pc = "advance"])
    <3> DEFINE r == [proc[p] EXCEPT !.pc = "advance"]
    <3>1. r.pc = "advance" /\ r.wf = proc[p].wf /\ Goto(p, r)
      BY <1>0, <2>2 DEF ProcType, Continue
    <3>2. ~\A t \in Tasks : WfOf[t] = proc[p].wf => task'[t] \in {"absent", "done"}
      BY <2>0, <2>2 DEF AllDone, Listed
    <3> HIDE DEF r
    <3>3. PointNext(r)
      BY <3>1, <3>2 DEF PointNext
    <3>4. QED
      BY <1>b, <3>1, <3>3
  <2>3. CASE /\ proc[p].new = "escalated"
             /\ Continue(p, [proc[p] EXCEPT !.pc = "close"])
    <3> DEFINE r == [proc[p] EXCEPT !.pc = "close"]
    <3>1. /\ r.pc = "close" /\ r.wf = proc[p].wf
          /\ r.op = "escalated" /\ r.new = "escalated" /\ Goto(p, r)
      BY <1>0, <2>0, <2>3 DEF ProcType, Continue
    <3> HIDE DEF r
    <3>2. PointNext(r)
      BY <2>0, <3>1 DEF PointNext
    <3>3. QED
      BY <1>b, <3>1, <3>2
  <2>4. QED
    BY <1>7, <1>c, <2>1, <2>2, <2>3 DEF Marked
<1>8. CASE CloseWrite(p)
  <2>1. CASE /\ proc[p].op = "done"
             /\ Continue(p, [proc[p] EXCEPT !.pc = "advance"])
    <3> DEFINE r == [proc[p] EXCEPT !.pc = "advance"]
    <3>1. r.pc = "advance" /\ r.wf = proc[p].wf /\ Goto(p, r)
      BY <1>0, <2>1 DEF ProcType, Continue
    <3>2. wf'[proc[p].wf] = "completed"
      BY <1>0, <1>8, <2>1 DEF CloseWrite, PointHolds, Shape
    <3> HIDE DEF r
    <3>3. PointNext(r)
      BY <3>1, <3>2 DEF PointNext
    <3>4. QED
      BY <1>b, <3>1, <3>3
  <2>2. QED
    BY <1>8, <1>c, <2>1 DEF CloseWrite
<1>9. CASE Advance(p)
  <2>1. [proc[p] EXCEPT !.pc = "walk", !.todo = queue[proc[p].agent]].pc = "walk"
    BY <1>0 DEF ProcType
  <2>2. QED
    BY <1>9, <1>b, <1>c, <2>1, NoPoint DEF Advance, Continue
<1>10. QED
  BY <1>1, <1>2, <1>3, <1>4, <1>5, <1>6, <1>7, <1>8, <1>9 DEF Step

\* So do the conductor, the PATCH and a crash.
LEMMA PointOthers ==
    ASSUME Exclusive, TypeInv
    PROVE  /\ \A t \in Tasks, new \in {"done", "blocked", "escalated"} :
                MarkRequest(t, new) => PointInv'
           /\ \A j \in jobs : ConductorPick(j) \/ ConductorResume(j) => PointInv'
           /\ Crash => PointInv'
<1> USE DEF files
<1>0. Loop \in Procs
  BY DEF Procs
<1>a. ASSUME NEW r, Goto(Loop, r), MayBegin(Loop), PointNext(r) PROVE PointInv'
  BY <1>0, <1>a, BeginsAlone, PointMove
<1>1. ASSUME NEW t \in Tasks, NEW new \in {"done", "blocked", "escalated"},
             MarkRequest(t, new)
      PROVE  PointInv'
  <2> DEFINE r == [Idle EXCEPT !.op = new, !.pc = "mark", !.wf = WfOf[t],
                          !.task = t, !.new = new,
                          !.agent = IF new = "done" THEN assigned[t] ELSE NoAgent]
  <2>1. r.pc = "mark" /\ r.wf = WfOf[t] /\ r.task = t /\ r.op = new /\ r.new = new
    BY DEF Idle
  <2>2. /\ Goto(Loop, r) /\ MayBegin(Loop) /\ UNCHANGED <<task, wf>>
        /\ wf[WfOf[t]] # "absent" /\ ValidTask(task[t], new)
    BY <1>1 DEF MarkRequest, Continue
  <2> HIDE DEF r
  <2>3. PointNext(r)
    BY <2>1, <2>2 DEF PointNext
  <2>4. QED
    BY <1>a, <2>2, <2>3
<1>2. ASSUME NEW j \in jobs, ConductorPick(j) PROVE PointInv'
  BY <1>2, PointQuiet DEF ConductorPick, MayBegin
<1>3. ASSUME NEW j \in jobs, ConductorResume(j) PROVE PointInv'
  <2> DEFINE coroutine == [Idle EXCEPT !.op = "job", !.wf = j.wf, !.pick = j.pick]
  <2>1. [coroutine EXCEPT !.pc = "dispatch"].pc = "dispatch"
    BY DEF Idle
  <2>2. \A t : [coroutine EXCEPT !.pc = "start", !.task = t].pc = "start"
    BY DEF Idle
  <2>3. MayBegin(Loop)
    BY <1>3 DEF ConductorResume
  <2>4. CASE Goto(Loop, [coroutine EXCEPT !.pc = "dispatch"])
    BY <1>a, <2>1, <2>3, <2>4, NoPoint
  <2>5. ASSUME NEW t \in FirstPending(j.wf),
               Goto(Loop, [coroutine EXCEPT !.pc = "start", !.task = t])
        PROVE  PointInv'
    BY <1>a, <2>2, <2>3, <2>5, NoPoint
  <2>6. QED
    BY <1>3, <2>4, <2>5 DEF ConductorResume
<1>4. ASSUME Crash PROVE PointInv'
  BY <1>4, PointQuiet DEF Crash, Idle
<1>5. QED
  BY <1>1, <1>2, <1>3, <1>4

\* Every step keeps it when requests do not overlap.
LEMMA PointNextStep ==
    Exclusive /\ TypeInv /\ SerialInv /\ QueueInv /\ PointInv /\ [Next]_vars => PointInv'
<1> SUFFICES ASSUME Exclusive, TypeInv, SerialInv, QueueInv, PointInv, [Next]_vars
             PROVE  PointInv'
  OBVIOUS
<1>1. CASE UNCHANGED vars
  BY <1>1 DEF vars, PointInv, PointHolds, AllDone, Listed
<1>2. CASE Next
  BY <1>2, PointRequest, PointStep, PointOthers DEF Next
<1>3. QED
  BY <1>1, <1>2

(***************************************************************************)
(* complete_task never goes on to the agent's queue before the workflow's  *)
(* own record says that it is completed, also after a restart.             *)
(***************************************************************************)
THEOREM SerialRecord ==
    ASSUME Exclusive
    PROVE  Spec => []AdvanceRecorded
<1> DEFINE Inv == TypeInv /\ SerialInv /\ QueueInv /\ PointInv
<1>1. Init => Inv
  BY TypeInit, SerialInit, QueueInit, PointInit
<1>2. Inv /\ [Next]_vars => Inv'
  BY TypeNext, SerialNext, QueueNext, PointNextStep
<1>3. Inv => AdvanceRecorded
  BY DEF PointInv, PointHolds, AdvanceRecorded
<1>4. QED
  BY <1>1, <1>2, <1>3, PTL DEF Spec

-----------------------------------------------------------------------------
(***************************************************************************)
(* The refinement.  A task file whose workflow has no file yet belongs to  *)
(* a creation under way; that is why tasks become visible together.        *)
(***************************************************************************)
SeenInv ==
    \A t \in Tasks : task[t] # "absent" /\ wf[WfOf[t]] = "absent" =>
        \E p \in Procs : proc[p].pc = "entry" /\ proc[p].wf = WfOf[t]

\* Where no file appears but a workflow's, and a creation goes on, it stays.
LEMMA SeenMove ==
    ASSUME SeenInv,
           \A t \in Tasks : task'[t] # "absent" => task[t] # "absent",
           \A w \in Workflows : wf'[w] = "absent" => wf[w] = "absent",
           \A p \in Procs : proc[p].pc = "entry" => proc'[p] = proc[p]
    PROVE  SeenInv'
<1>1. ASSUME NEW t \in Tasks, task'[t] # "absent", wf'[WfOf[t]] = "absent"
      PROVE  \E p \in Procs : proc'[p].pc = "entry" /\ proc'[p].wf = WfOf[t]
  <2>1. WfOf[t] \in Workflows
    BY SortAssumption
  <2>2. task[t] # "absent" /\ wf[WfOf[t]] = "absent"
    BY <1>1, <2>1
  <2>3. PICK p \in Procs : proc[p].pc = "entry" /\ proc[p].wf = WfOf[t]
    BY <2>2 DEF SeenInv
  <2>4. QED
    BY <2>3
<1>2. QED
  BY <1>1 DEF SeenInv

\* It holds at the start.
LEMMA SeenInit == Init => SeenInv
BY DEF Init, SeenInv

(***************************************************************************)
(* A request meets an engine at rest, so every task's workflow is there,   *)
(* the one of an inserted task too.                                        *)
(***************************************************************************)
LEMMA SeenRequest ==
    ASSUME Exclusive, TypeInv, SeenInv, NEW p \in Procs, Request(p)
    PROVE  SeenInv'
<1> USE DEF files
<1>0. \A q \in Procs : proc[q].pc = "idle"
  BY DEF Request, CreateRequest, StartRequest, CancelRequest, NextTaskRequest, InsertTask,
         AssignRequest, EnqueueRequest, MayBegin
<1>1. ASSUME UNCHANGED <<task, wf>> PROVE SeenInv'
  BY <1>0, <1>1, SeenMove
<1>2. ASSUME NEW after \in Tasks, NEW t \in Tasks, InsertTask(p, after, t)
      PROVE  SeenInv'
  <2>1. wf[WfOf[t]] # "absent" /\ UNCHANGED wf
    BY <1>0, <1>2 DEF InsertTask, Listed, SeenInv
  <2>2. task' = [task EXCEPT ![t] = "pending"] /\ task \in [Tasks -> TaskStatus]
    BY <1>2 DEF InsertTask, TypeInv, TypeOK
  <2>3. QED
    BY <1>0, <2>1, <2>2 DEF SeenInv
<1>3. QED
  BY <1>1, <1>2 DEF Request, CreateRequest, StartRequest, CancelRequest, NextTaskRequest,
                    AssignRequest, EnqueueRequest

\* A step creates task files only where the workflow's follows.
LEMMA SeenStep ==
    ASSUME TypeInv, SerialInv, QueueInv, PointInv, SeenInv, NEW p \in Procs, Step(p)
    PROVE  SeenInv'
<1> USE DEF files
<1>0. /\ task \in [Tasks -> TaskStatus] /\ wf \in [Workflows -> WfStatus]
      /\ proc \in [Procs -> ProcType]
      /\ proc[p] \in ProcType /\ Shape(proc[p]) /\ Known(proc[p]) /\ PointHolds(proc[p])
  BY DEF TypeInv, TypeOK, QueueInv, PointInv
<1>a. \A q \in Procs : q # p => proc[q].pc = "idle"
  BY DEF SerialInv, Alone, Step, CreateTasks, CreateEntry, StartWrite, Walk, Dequeue,
         MarkWrite, Marked, CloseWrite, Advance, Dispatch
<1>b. ASSUME proc[p].pc # "entry",
             \A t \in Tasks : task'[t] # "absent" => task[t] # "absent",
             \A w \in Workflows : wf'[w] = "absent" => wf[w] = "absent"
      PROVE  SeenInv'
  BY <1>a, <1>b, SeenMove
<1>1. CASE CreateTasks(p)
  <2>1. /\ proc'[p].pc = "entry" /\ proc'[p].wf = proc[p].wf /\ UNCHANGED wf
        /\ proc[p].pc = "tasks"
    BY <1>0, <1>1 DEF CreateTasks, Continue, Goto, ProcType
  <2>2. \A t \in Tasks : task'[t] # "absent" => task[t] # "absent" \/ WfOf[t] = proc[p].wf
    BY <1>1 DEF CreateTasks
  <2>3. ASSUME NEW t \in Tasks, task'[t] # "absent", wf'[WfOf[t]] = "absent"
        PROVE  WfOf[t] = proc[p].wf
    BY <1>a, <2>1, <2>2, <2>3 DEF SeenInv
  <2>4. QED
    BY <2>1, <2>3 DEF SeenInv
<1>2. CASE CreateEntry(p)
  <2>1. wf' = [wf EXCEPT ![proc[p].wf] = "active"] /\ UNCHANGED task /\ proc[p].pc = "entry"
    BY <1>2 DEF CreateEntry
  <2>2. ASSUME NEW t \in Tasks, task'[t] # "absent", wf'[WfOf[t]] = "absent"
        PROVE  FALSE
    <3>1. wf[WfOf[t]] = "absent" /\ WfOf[t] # proc[p].wf
      BY <1>0, <2>1, <2>2, SortAssumption
    <3>2. QED
      BY <1>a, <2>1, <2>2, <3>1 DEF SeenInv
  <2>3. QED
    BY <2>2 DEF SeenInv
<1>3. CASE StartWrite(p)
  <2>1. task[proc[p].task] # "absent" /\ proc[p].pc = "start"
    BY <1>0, <1>3 DEF StartWrite, Known
  <2>2. task' = [task EXCEPT ![proc[p].task] = "in_progress"] /\ UNCHANGED wf
    BY <1>3 DEF StartWrite
  <2>3. QED
    BY <1>0, <1>b, <2>1, <2>2
<1>4. CASE MarkWrite(p)
  <2>1. task[proc[p].task] # "absent" /\ proc[p].pc = "mark"
    BY <1>0, <1>4 DEF MarkWrite, Known
  <2>2. task' = [task EXCEPT ![proc[p].task] = proc[p].new] /\ UNCHANGED wf
    BY <1>4 DEF MarkWrite
  <2>3. QED
    BY <1>0, <1>b, <2>1, <2>2
<1>5. CASE CloseWrite(p)
  <2>1. wf' = [wf EXCEPT ![proc[p].wf] = proc[p].new] /\ UNCHANGED task /\ proc[p].pc = "close"
    BY <1>5 DEF CloseWrite
  <2>2. \A w \in Workflows : wf'[w] = "absent" => wf[w] = "absent"
    BY <1>0, <2>1 DEF Shape
  <2>3. QED
    BY <1>b, <2>1, <2>2
<1>6. CASE Walk(p) \/ Dequeue(p) \/ Marked(p) \/ Advance(p) \/ Dispatch(p)
  <2>1. UNCHANGED <<task, wf>> /\ proc[p].pc # "entry"
    BY <1>6 DEF Walk, Dequeue, Marked, Advance, Dispatch
  <2>2. QED
    BY <1>b, <2>1
<1>7. QED
  BY <1>1, <1>2, <1>3, <1>4, <1>5, <1>6 DEF Step

\* Every step keeps it when requests do not overlap and the server lives on.
LEMMA SeenNext ==
    ASSUME Exclusive, MaxCrashes = 0
    PROVE  TypeInv /\ SerialInv /\ QueueInv /\ PointInv /\ SeenInv /\ [Next]_vars => SeenInv'
<1> SUFFICES ASSUME TypeInv, SerialInv, QueueInv, PointInv, SeenInv, [Next]_vars
             PROVE  SeenInv'
  OBVIOUS
<1> USE DEF files
<1>0. Loop \in Procs
  BY DEF Procs
<1>a. ASSUME \A q \in Procs : proc[q].pc = "idle", UNCHANGED <<task, wf>> PROVE SeenInv'
  BY <1>a, SeenMove
<1>1. CASE UNCHANGED vars
  BY <1>1 DEF vars, SeenInv
<1>2. ASSUME NEW p \in Procs, Request(p) \/ Step(p) PROVE SeenInv'
  BY <1>2, SeenRequest, SeenStep
<1>3. ASSUME NEW t \in Tasks, NEW new \in {"done", "blocked", "escalated"},
             MarkRequest(t, new)
      PROVE  SeenInv'
  BY <1>0, <1>3, <1>a DEF MarkRequest, MayBegin
<1>4. ASSUME NEW j \in jobs, ConductorPick(j) \/ ConductorResume(j) PROVE SeenInv'
  BY <1>0, <1>4, <1>a DEF ConductorPick, ConductorResume, MayBegin
<1>5. ~Crash
  BY DEF Crash, TypeInv, TypeOK
<1>6. QED
  BY <1>1, <1>2, <1>3, <1>4, <1>5 DEF Next

-----------------------------------------------------------------------------
(***************************************************************************)
(* What clients see of the workflows while one process is under way: its   *)
(* report counts as taken in once the task is written.                     *)
(***************************************************************************)
Shown(r) ==
    IF r.pc \in {"marked", "close"} /\ r.op = "done" /\ AllDone(r.wf)
    THEN [wf EXCEPT ![r.wf] = "completed"]
    ELSE IF r.pc \in {"marked", "close"} /\ r.op = "escalated"
    THEN [wf EXCEPT ![r.wf] = "escalated"]
    ELSE wf

\* Before a step,
LEMMA ShownStatus == \A p \in Procs : TypeInv /\ Alone(p) => SeenStatus = Shown(proc[p])
<1> SUFFICES ASSUME NEW p \in Procs, TypeInv, Alone(p) PROVE SeenStatus = Shown(proc[p])
  OBVIOUS
<1>0. /\ wf \in [Workflows -> WfStatus]
      /\ proc[p].pc \in {"marked", "close"} => proc[p].wf \in Workflows
  BY DEF TypeInv, TypeOK, Shape
<1>1. \A w \in Workflows, op \in {"done", "escalated"} :
        Closing(w, op) <=>
          proc[p].pc \in {"marked", "close"} /\ proc[p].op = op /\ proc[p].wf = w
  BY DEF Closing, Alone
<1>2. CASE proc[p].pc \in {"marked", "close"} /\ proc[p].op = "done" /\ AllDone(proc[p].wf)
  BY <1>0, <1>1, <1>2 DEF SeenStatus, Shown
<1>3. CASE proc[p].pc \in {"marked", "close"} /\ proc[p].op = "escalated"
  BY <1>0, <1>1, <1>3 DEF SeenStatus, Shown
<1>4. CASE /\ ~(proc[p].pc \in {"marked", "close"} /\ proc[p].op = "escalated")
           /\ ~(proc[p].pc \in {"marked", "close"} /\ proc[p].op = "done" /\ AllDone(proc[p].wf))
  <2>1. \A w \in Workflows : ~Closing(w, "escalated") /\ ~(Closing(w, "done") /\ AllDone(w))
    BY <1>1, <1>4
  <2>2. SeenStatus = [w \in Workflows |-> wf[w]]
    BY <2>1 DEF SeenStatus
  <2>3. QED
    BY <1>0, <1>4, <2>2 DEF Shown
<1>5. QED
  BY <1>2, <1>3, <1>4

\* and after it.
LEMMA ShownStatusNext ==
    \A p \in Procs : TypeInv' /\ Alone(p)' => SeenStatus' = Shown(proc[p])'
<1>1. (\A p \in Procs : TypeInv /\ Alone(p) => SeenStatus = Shown(proc[p]))'
  BY ShownStatus, PTL
<1>2. QED
  BY <1>1

\* A step of p leaves the others idle.
LEMMA AloneNext ==
    ASSUME TypeInv, NEW p \in Procs, Alone(p), NEW r, Goto(p, r)
    PROVE  Alone(p)' /\ proc'[p] = r
BY DEF Goto, TypeInv, TypeOK, Alone

\* What is not written, and reported by nobody, is seen as before.
LEMMA Unseen ==
    ASSUME UNCHANGED <<task, wf>>, SeenStatus = wf, SeenStatus' = wf'
    PROVE  UNCHANGED Work!workVars
<1>1. SeenWork' = SeenWork
  BY DEF SeenWork
<1>2. QED
  BY <1>1 DEF Work!workVars

\* At rest, and after a handler that reports nothing, the files are seen.
LEMMA ShownPlain ==
    ASSUME NEW r, r.pc \notin {"marked", "close"} \/ r.op \notin {"done", "escalated"}
    PROVE  Shown(r) = wf
BY DEF Shown

\* The same after the step.
LEMMA ShownPlainNext ==
    ASSUME NEW p \in Procs, TypeInv', Alone(p)',
           \/ proc'[p].pc \notin {"marked", "close"}
           \/ proc'[p].op \notin {"done", "escalated"}
    PROVE  SeenStatus' = wf'
<1>1. SeenStatus' = Shown(proc[p])'
  BY ShownStatusNext
<1>2. QED
  BY <1>1 DEF Shown

(***************************************************************************)
(* The write of a status that is reported.                                 *)
(***************************************************************************)
LEMMA MarkIsReport ==
    ASSUME TypeInv, TypeInv', SerialInv, QueueInv, PointInv, SeenInv,
           NEW p \in Procs, MarkWrite(p)
    PROVE  [Work!WorkNext]_(Work!workVars)
<1> DEFINE t == proc[p].task
           w == WfOf[t]
           new == proc[p].new
           r == [proc[p] EXCEPT !.pc = "marked"]
<1>0. /\ task \in [Tasks -> TaskStatus] /\ wf \in [Workflows -> WfStatus]
      /\ proc[p] \in ProcType /\ proc[p].pc = "mark"
      /\ t \in Tasks /\ w \in Workflows /\ new \in {"done", "blocked", "escalated"}
  BY SortAssumption DEF TypeInv, TypeOK, Shape, MarkWrite
<1>1. /\ proc[p].wf = w /\ wf[w] # "absent" /\ proc[p].op = new
      /\ ValidTask(task[t], new) /\ task[t] # "absent"
  BY <1>0 DEF PointInv, PointHolds, QueueInv, Known
<1>2. task' = [task EXCEPT ![t] = new] /\ UNCHANGED wf /\ Goto(p, r)
  BY DEF MarkWrite, Continue
<1>3. r.pc = "marked" /\ r.op = new /\ r.wf = w
  BY <1>0, <1>1 DEF ProcType
<1>a. Alone(p)
  BY <1>0 DEF SerialInv
<1> HIDE DEF r
<1>4. Alone(p)' /\ proc'[p] = r
  BY <1>2, <1>a, AloneNext
<1>5. SeenStatus = wf
  BY <1>0, <1>a, ShownStatus, ShownPlain
<1>6. SeenStatus' = Shown(proc[p])'
  BY <1>4, ShownStatusNext
<1> HIDE DEF t, w, new
<1>7. SeenWork' = [SeenWork EXCEPT ![t] = new] /\ SeenWork[t] = task[t]
  BY <1>0, <1>1, <1>2 DEF SeenWork, w
<1>8. CASE new = "blocked"
  <2>1. SeenStatus' = SeenStatus
    BY <1>2, <1>3, <1>4, <1>5, <1>6, <1>8 DEF Shown
  <2>2. task[t] \in {"in_progress", "blocked"}
    BY <1>1, <1>8 DEF ValidTask, TaskTransitions
  <2>3. CASE task[t] = "in_progress"
    <3>1. Work!Blocked(t)
      BY <1>7, <1>8, <2>1, <2>3 DEF Work!Blocked
    <3>2. QED
      BY <1>0, <3>1 DEF Work!WorkNext
  <2>4. CASE task[t] = "blocked"
    <3>1. SeenWork' = SeenWork
      BY <1>7, <1>8, <2>4 DEF SeenWork
    <3>2. QED
      BY <2>1, <3>1 DEF Work!workVars
  <2>5. QED
    BY <2>2, <2>3, <2>4
<1>9. CASE new = "escalated"
  <2>1. SeenStatus' = [wf EXCEPT ![w] = "escalated"]
    BY <1>2, <1>3, <1>4, <1>6, <1>9 DEF Shown
  <2>2. task[t] \in {"in_progress", "escalated"}
    BY <1>1, <1>9 DEF ValidTask, TaskTransitions
  <2>3. Work!Escalated(t)
    BY <1>5, <1>7, <1>9, <2>1, <2>2 DEF Work!Escalated, w
  <2>4. QED
    BY <1>0, <2>3 DEF Work!WorkNext
<1>10. CASE new = "done"
  <2>1. task[t] \in {"in_progress", "done"}
    BY <1>1, <1>10 DEF ValidTask, TaskTransitions
  <2>2. AllDone(proc[p].wf)' <=> \A u \in Work!TasksOf(w) \ {t} : SeenWork[u] = "done"
    <3>1. AllDone(proc[p].wf)' <=> \A u \in Tasks : WfOf[u] = w => task'[u] \in {"absent", "done"}
      BY <1>3, <1>4 DEF AllDone, Listed
    <3>2. \A u \in Tasks : WfOf[u] = w => SeenWork[u] = task[u]
      BY <1>1 DEF SeenWork
    <3>3. \A u \in Tasks : u # t => task'[u] = task[u]
      BY <1>0, <1>2
    <3>4. task'[t] = "done"
      BY <1>0, <1>2, <1>10
    <3>5. \A u \in Tasks : u \in Work!TasksOf(w) <=> WfOf[u] = w /\ task[u] # "absent"
      BY <3>2 DEF Work!TasksOf
    <3>6. Work!TasksOf(w) \subseteq Tasks
      BY DEF Work!TasksOf
    <3>7. (\A u \in Work!TasksOf(w) \ {t} : SeenWork[u] = "done") <=>
            \A u \in Tasks \ {t} : WfOf[u] = w => task[u] \in {"absent", "done"}
      BY <3>2, <3>5, <3>6
    <3>8. QED
      BY <3>1, <3>3, <3>4, <3>7
  <2>3. SeenStatus' = IF \A u \in Work!TasksOf(w) \ {t} : SeenWork[u] = "done"
                      THEN [SeenStatus EXCEPT ![w] = "completed"] ELSE SeenStatus
    BY <1>2, <1>3, <1>4, <1>5, <1>6, <1>10, <2>2 DEF Shown
  <2>4. SeenWork' = [SeenWork EXCEPT ![t] = "done"] /\ SeenWork[t] \in {"in_progress", "done"}
    BY <1>7, <1>10, <2>1
  <2>5. Work!Completed(t)
    <3>1. w = WfOf[t]
      BY DEF w
    <3>2. QED
      BY <2>3, <2>4, <3>1 DEF Work!Completed
  <2>6. QED
    BY <1>0, <2>5 DEF Work!WorkNext
<1>11. QED
  BY <1>0, <1>8, <1>9, <1>10

(***************************************************************************)
(* Every step of a handler is a step of the abstract work, or none.        *)
(***************************************************************************)
LEMMA StepIsWork ==
    ASSUME TypeInv, TypeInv', SerialInv, QueueInv, PointInv, SeenInv,
           NEW p \in Procs, Step(p)
    PROVE  [Work!WorkNext]_(Work!workVars)
<1> USE DEF files
<1>0. /\ task \in [Tasks -> TaskStatus] /\ wf \in [Workflows -> WfStatus]
      /\ proc[p] \in ProcType /\ Shape(proc[p])
      /\ Known(proc[p]) /\ PointHolds(proc[p]) /\ ReadHolds(proc[p])
  BY DEF TypeInv, TypeOK, QueueInv, PointInv, SerialInv
<1>a. Alone(p)
  BY DEF SerialInv, Step, CreateTasks, CreateEntry, StartWrite, Walk, Dequeue,
         MarkWrite, Marked, CloseWrite, Advance, Dispatch
<1>b. proc[p].pc \notin {"marked", "close"} => SeenStatus = wf
  BY <1>a, ShownStatus, ShownPlain
<1>c. ASSUME NEW r, Goto(p, r), r.pc \notin {"marked", "close"} PROVE SeenStatus' = wf'
  BY <1>a, <1>c, AloneNext, ShownPlainNext
<1>d. Finish(p) => SeenStatus' = wf'
  BY <1>c DEF Finish, Idle
<1>1. CASE CreateTasks(p)
  <2> DEFINE r == [proc[p] EXCEPT !.pc = "entry"]
  <2>1. r.pc = "entry" /\ Goto(p, r) /\ UNCHANGED wf /\ proc[p].pc = "tasks"
    BY <1>0, <1>1 DEF CreateTasks, Continue, ProcType
  <2> HIDE DEF r
  <2>2. SeenStatus' = SeenStatus
    BY <1>b, <1>c, <2>1
  <2>3. \A t \in Tasks : task'[t] # task[t] => wf[WfOf[t]] = "absent"
    BY <1>0, <1>1, <2>1 DEF CreateTasks, PointHolds
  <2>4. SeenWork' = SeenWork
    BY <2>1, <2>3 DEF SeenWork
  <2>5. QED
    BY <2>2, <2>4 DEF Work!workVars
<1>2. CASE CreateEntry(p)
  <2> DEFINE w == proc[p].wf
             first == {t \in Tasks : WfOf[t] = w /\ task[t] = "pending"}
  <2>1. /\ proc[p].pc = "entry" /\ w \in Workflows /\ wf[w] = "absent"
        /\ \A t \in Tasks : WfOf[t] = w => task[t] \in {"absent", "pending"}
    BY <1>0, <1>2 DEF CreateEntry, Shape, PointHolds
  <2>2. wf' = [wf EXCEPT ![w] = "active"] /\ UNCHANGED task /\ Finish(p)
    BY <1>2 DEF CreateEntry
  <2>3. SeenStatus = wf /\ SeenStatus' = wf'
    BY <1>b, <1>d, <2>1, <2>2
  <2> HIDE DEF w
  <2>4. SeenWork' = [t \in Tasks |-> IF t \in first THEN "pending" ELSE SeenWork[t]]
    <3>1. ASSUME NEW t \in Tasks
          PROVE  SeenWork'[t] = IF t \in first THEN "pending" ELSE SeenWork[t]
      <4>1. SeenWork'[t] = IF wf'[WfOf[t]] = "absent" THEN "absent" ELSE task[t]
        BY <2>2 DEF SeenWork
      <4>2. SeenWork[t] = IF wf[WfOf[t]] = "absent" THEN "absent" ELSE task[t]
        BY DEF SeenWork
      <4>3. CASE WfOf[t] = w
        BY <1>0, <2>1, <2>2, <4>1, <4>2, <4>3
      <4>4. CASE WfOf[t] # w
        BY <1>0, <2>2, <4>1, <4>2, <4>4
      <4>5. QED
        BY <4>3, <4>4
    <3>2. SeenWork' = [t \in Tasks |-> SeenWork'[t]]
      BY DEF SeenWork
    <3>3. QED
      BY <3>1, <3>2
  <2>5. first \in SUBSET {t \in Tasks : WfOf[t] = w}
    OBVIOUS
  <2> HIDE DEF first
  <2>6. Work!Create(w)
    BY <2>1, <2>2, <2>3, <2>4, <2>5 DEF Work!Create
  <2>7. QED
    BY <2>1, <2>6 DEF Work!WorkNext
<1>3. CASE StartWrite(p)
  <2> DEFINE t == proc[p].task
  <2>1. /\ proc[p].pc = "start" /\ t \in Tasks
        /\ task[t] = "pending" /\ ~Busy(WfOf[t])
    BY <1>0, <1>3 DEF StartWrite, Shape, ReadHolds
  <2>2. task' = [task EXCEPT ![t] = "in_progress"] /\ UNCHANGED wf
    BY <1>3 DEF StartWrite
  <2>3. wf[WfOf[t]] # "absent"
    BY <1>a, <2>1 DEF SeenInv, Alone
  <2>4. SeenStatus' = wf'
    <3>1. CASE Continue(p, [proc[p] EXCEPT !.pc = "dequeue", !.todo = <<>>])
      <4>1. [proc[p] EXCEPT !.pc = "dequeue", !.todo = <<>>].pc = "dequeue"
        BY <1>0 DEF ProcType
      <4>2. QED
        BY <1>c, <3>1, <4>1 DEF Continue
    <3>2. CASE Continue(p, [proc[p] EXCEPT !.pc = "dispatch"])
      <4>1. [proc[p] EXCEPT !.pc = "dispatch"].pc = "dispatch"
        BY <1>0 DEF ProcType
      <4>2. QED
        BY <1>c, <3>2, <4>1 DEF Continue
    <3>3. QED
      BY <1>3, <1>d, <3>1, <3>2 DEF StartWrite
  <2>5. SeenStatus' = SeenStatus
    BY <1>b, <2>1, <2>2, <2>4
  <2> HIDE DEF t
  <2>6. SeenWork[t] = "pending" /\ SeenWork' = [SeenWork EXCEPT ![t] = "in_progress"]
    BY <1>0, <2>1, <2>2, <2>3 DEF SeenWork
  <2>7. \A u \in Work!TasksOf(WfOf[t]) : SeenWork[u] # "in_progress"
    BY <2>1, <2>3 DEF Work!TasksOf, SeenWork, Busy, Listed
  <2>8. Work!Start(t)
    BY <2>5, <2>6, <2>7 DEF Work!Start
  <2>9. QED
    BY <2>1, <2>8 DEF Work!WorkNext
<1>4. CASE Walk(p)
  <2> DEFINE todo == proc[p].todo
  <2>1. UNCHANGED <<task, wf>> /\ proc[p].pc = "walk"
    BY <1>4 DEF Walk
  <2>2. ASSUME NEW i \in DOMAIN todo,
               Continue(p, [proc[p] EXCEPT
                    !.pc = IF task[todo[i]] = "pending" THEN "start" ELSE "dequeue",
                    !.task = todo[i],
                    !.todo = SubSeq(todo, i + 1, Len(todo))])
        PROVE  SeenStatus' = wf'
    <3> DEFINE r == [proc[p] EXCEPT
                    !.pc = IF task[todo[i]] = "pending" THEN "start" ELSE "dequeue",
                    !.task = todo[i],
                    !.todo = SubSeq(todo, i + 1, Len(todo))]
    <3>1. r.pc \in {"start", "dequeue"} /\ Goto(p, r)
      BY <1>0, <2>2 DEF ProcType, Continue
    <3> HIDE DEF r
    <3>2. QED
      BY <1>c, <3>1
  <2>3. SeenStatus' = wf'
    BY <1>4, <1>d, <2>2 DEF Walk
  <2>4. QED
    BY <1>b, <2>1, <2>3, Unseen
<1>5. CASE Dequeue(p)
  <2>1. [proc[p] EXCEPT !.pc = "walk"].pc = "walk"
    BY <1>0 DEF ProcType
  <2>2. SeenStatus' = wf' /\ UNCHANGED <<task, wf>> /\ proc[p].pc = "dequeue"
    BY <1>5, <1>c, <2>1 DEF Dequeue, Continue
  <2>3. QED
    BY <1>b, <2>2, Unseen
<1>6. CASE MarkWrite(p)
  BY <1>6, MarkIsReport
<1>7. CASE Marked(p)
  <2>0. /\ UNCHANGED <<task, wf>> /\ proc[p].pc = "marked"
        /\ proc[p].op = proc[p].new
    BY <1>0, <1>7 DEF Marked, PointHolds
  <2>a. SeenWork' = SeenWork /\ SeenStatus = Shown(proc[p])
    BY <1>a, <2>0, ShownStatus DEF SeenWork
  <2>b. AllDone(proc[p].wf) <=>
          \A t \in Tasks : WfOf[t] = proc[p].wf => task'[t] \in {"absent", "done"}
    BY <2>0 DEF AllDone, Listed
  <2>1. ASSUME NEW r, Goto(p, r), r.pc = "close", r.op = proc[p].op, r.wf = proc[p].wf
        PROVE  SeenStatus' = SeenStatus
    <3>1. Alone(p)' /\ proc'[p] = r
      BY <1>a, <2>1, AloneNext
    <3>2. SeenStatus' = Shown(proc[p])'
      BY <3>1, ShownStatusNext
    <3>3. AllDone(proc[p].wf)' <=> AllDone(proc[p].wf)
      BY <2>1, <2>b, <3>1 DEF AllDone, Listed
    <3>4. QED
      BY <2>0, <2>1, <2>a, <3>1, <3>2, <3>3 DEF Shown
  <2>2. CASE Continue(p, [proc[p] EXCEPT !.pc = "close", !.new = "completed"])
    <3> DEFINE r == [proc[p] EXCEPT !.pc = "close", !.new = "completed"]
    <3>1. Goto(p, r) /\ r.pc = "close" /\ r.op = proc[p].op /\ r.wf = proc[p].wf
      BY <1>0, <2>2 DEF ProcType, Continue
    <3> HIDE DEF r
    <3>2. QED
      BY <2>1, <2>a, <3>1 DEF Work!workVars
  <2>3. CASE /\ proc[p].new = "done" /\ ~AllDone(proc[p].wf)
             /\ Continue(p, [proc[p] EXCEPT !.pc = "advance"])
    <3> DEFINE r == [proc[p] EXCEPT !.pc = "advance"]
    <3>1. Goto(p, r) /\ r.pc = "advance"
      BY <1>0, <2>3 DEF ProcType, Continue
    <3> HIDE DEF r
    <3>2. SeenStatus' = wf'
      BY <1>c, <3>1
    <3>3. SeenStatus = wf
      BY <2>0, <2>3, <2>a DEF Shown
    <3>4. QED
      BY <2>0, <3>2, <3>3, Unseen
  <2>4. CASE Continue(p, [proc[p] EXCEPT !.pc = "close"])
    <3> DEFINE r == [proc[p] EXCEPT !.pc = "close"]
    <3>1. Goto(p, r) /\ r.pc = "close" /\ r.op = proc[p].op /\ r.wf = proc[p].wf
      BY <1>0, <2>4 DEF ProcType, Continue
    <3> HIDE DEF r
    <3>2. QED
      BY <2>1, <2>a, <3>1 DEF Work!workVars
  <2>5. CASE proc[p].new = "blocked" /\ Finish(p)
    <3>1. SeenStatus = wf
      BY <2>0, <2>5, <2>a DEF Shown
    <3>2. QED
      BY <1>d, <2>0, <2>5, <3>1, Unseen
  <2>6. QED
    BY <1>7, <2>2, <2>3, <2>4, <2>5 DEF Marked
<1>8. CASE CloseWrite(p)
  <2> DEFINE w == proc[p].wf
  <2>1. /\ proc[p].pc = "close" /\ w \in Workflows /\ wf[w] # "absent"
        /\ \/ proc[p].op = "done" /\ proc[p].new = "completed"
           \/ proc[p].op = "escalated" /\ proc[p].new = "escalated"
           \/ /\ proc[p].op = "cancel" /\ proc[p].new = "cancelled"
              /\ wf[w] \in {"active", "cancelled"}
    BY <1>0, <1>8 DEF CloseWrite, Shape, PointHolds
  <2>2. wf' = [wf EXCEPT ![w] = proc[p].new] /\ UNCHANGED task
    BY <1>8 DEF CloseWrite
  <2>3. SeenStatus' = wf'
    <3>1. CASE Continue(p, [proc[p] EXCEPT !.pc = "advance"])
      <4>1. [proc[p] EXCEPT !.pc = "advance"].pc = "advance"
        BY <1>0 DEF ProcType
      <4>2. QED
        BY <1>c, <3>1, <4>1 DEF Continue
    <3>2. QED
      BY <1>8, <1>d, <3>1 DEF CloseWrite
  <2>4. SeenStatus = Shown(proc[p])
    BY <1>a, ShownStatus
  <2>5. proc[p].new # "absent" /\ SeenWork' = SeenWork
    BY <1>0, <2>1, <2>2, SortAssumption DEF SeenWork
  <2>6. CASE proc[p].op = "done"
    <3>1. AllDone(w)
      BY <1>0, <2>1, <2>6 DEF ReadHolds
    <3>2. SeenStatus = [wf EXCEPT ![w] = "completed"]
      BY <2>1, <2>4, <2>6, <3>1 DEF Shown
    <3>3. QED
      BY <2>1, <2>2, <2>3, <2>5, <2>6, <3>2 DEF Work!workVars
  <2>7. CASE proc[p].op = "escalated"
    BY <2>1, <2>2, <2>3, <2>4, <2>5, <2>7 DEF Work!workVars, Shown
  <2>8. CASE proc[p].op = "cancel"
    <3>1. SeenStatus = wf /\ SeenStatus' = [wf EXCEPT ![w] = "cancelled"]
      BY <2>1, <2>2, <2>3, <2>4, <2>8 DEF Shown
    <3>2. CASE wf[w] = "active"
      <4>1. Work!Cancel(w)
        BY <2>5, <3>1, <3>2 DEF Work!Cancel
      <4>2. QED
        BY <2>1, <4>1 DEF Work!WorkNext
    <3>3. CASE wf[w] = "cancelled"
      BY <1>0, <2>5, <3>1, <3>3 DEF Work!workVars
    <3>4. QED
      BY <2>1, <2>8, <3>2, <3>3
  <2>9. QED
    BY <2>1, <2>6, <2>7, <2>8
<1>9. CASE Advance(p)
  <2>1. [proc[p] EXCEPT !.pc = "walk", !.todo = queue[proc[p].agent]].pc = "walk"
    BY <1>0 DEF ProcType
  <2>2. SeenStatus' = wf' /\ UNCHANGED <<task, wf>> /\ proc[p].pc = "advance"
    BY <1>9, <1>c, <1>d, <2>1 DEF Advance, Continue
  <2>3. QED
    BY <1>b, <2>2, Unseen
<1>10. CASE Dispatch(p)
  <2>1. SeenStatus' = wf' /\ UNCHANGED <<task, wf>> /\ proc[p].pc = "dispatch"
    BY <1>10, <1>d DEF Dispatch
  <2>2. QED
    BY <1>b, <2>1, Unseen
<1>11. QED
  BY <1>1, <1>2, <1>3, <1>4, <1>5, <1>6, <1>7, <1>8, <1>9, <1>10 DEF Step

(***************************************************************************)
(* A request that begins is not seen, except that it may insert a task.    *)
(***************************************************************************)
LEMMA BeginUnseen ==
    ASSUME Exclusive, TypeInv, TypeInv', NEW p \in Procs, MayBegin(p),
           NEW r, Goto(p, r), UNCHANGED <<task, wf>>,
           r.pc \notin {"marked", "close"} \/ r.op = "cancel"
    PROVE  UNCHANGED Work!workVars
<1>1. Alone(p) /\ proc[p].pc = "idle"
  BY BeginsAlone DEF MayBegin
<1>2. SeenStatus = wf
  BY <1>1, ShownStatus, ShownPlain
<1>3. SeenStatus' = wf'
  BY <1>1, AloneNext, ShownPlainNext
<1>4. QED
  BY <1>2, <1>3, Unseen

\* A step that writes neither tasks nor workflows, at rest, is not seen.
LEMMA RestUnseen ==
    ASSUME Exclusive, TypeInv, TypeInv', NEW p \in Procs, MayBegin(p), UNCHANGED proc
    PROVE  /\ SeenStatus = wf /\ SeenStatus' = wf'
           /\ UNCHANGED <<task, wf>> => UNCHANGED Work!workVars
<1>1. Alone(p) /\ Alone(p)' /\ proc[p].pc = "idle" /\ proc'[p].pc = "idle"
  BY BeginsAlone DEF MayBegin, Alone
<1>2. SeenStatus = wf
  BY <1>1, ShownStatus, ShownPlain
<1>3. SeenStatus' = wf'
  BY <1>1, ShownPlainNext
<1>4. QED
  BY <1>2, <1>3, Unseen

\* A fix asked for appears in a workflow that can be seen.
LEMMA InsertIsWork ==
    ASSUME Exclusive, TypeInv, TypeInv', SeenInv, NEW p \in Procs,
           NEW after \in Tasks, NEW t \in Tasks, InsertTask(p, after, t)
    PROVE  Work!WorkNext
<1>1. /\ task' = [task EXCEPT ![t] = "pending"] /\ UNCHANGED <<wf, proc>> /\ MayBegin(p)
      /\ task[t] = "absent" /\ task[after] # "absent" /\ WfOf[t] = WfOf[after]
  BY DEF InsertTask, Listed
<1>2. /\ \A q \in Procs : proc[q].pc = "idle"
      /\ task \in [Tasks -> TaskStatus] /\ wf \in [Workflows -> WfStatus]
  BY <1>1 DEF MayBegin, TypeInv, TypeOK
<1>3. wf[WfOf[t]] # "absent"
  BY <1>1, <1>2 DEF SeenInv
<1>4. SeenStatus = wf /\ SeenStatus' = SeenStatus
  BY <1>1, RestUnseen
<1>5. SeenWork[t] = "absent" /\ SeenWork' = [SeenWork EXCEPT ![t] = "pending"]
  BY <1>1, <1>2, <1>3 DEF SeenWork
<1>6. Work!Insert(t)
  BY <1>3, <1>4, <1>5 DEF Work!Insert
<1>7. QED
  BY <1>6 DEF Work!WorkNext

\* Every request is a step of the abstract work, or none.
LEMMA RequestIsWork ==
    ASSUME Exclusive, TypeInv, TypeInv', SeenInv, NEW p \in Procs, Request(p)
    PROVE  [Work!WorkNext]_(Work!workVars)
<1> USE DEF files
<1>1. ASSUME NEW w \in Workflows, CreateRequest(p, w) PROVE UNCHANGED Work!workVars
  <2> DEFINE r == [Idle EXCEPT !.op = "create", !.pc = "tasks", !.wf = w]
  <2>1. r.pc = "tasks" /\ Goto(p, r) /\ MayBegin(p) /\ UNCHANGED <<task, wf>>
    BY <1>1 DEF CreateRequest, Continue, Idle
  <2> HIDE DEF r
  <2>2. QED
    BY <2>1, BeginUnseen
<1>2. ASSUME NEW w \in Workflows, StartRequest(p, w) PROVE UNCHANGED Work!workVars
  <2>1. PICK t \in FirstPending(w) :
          Continue(p, [Idle EXCEPT !.op = "start", !.pc = "start", !.wf = w, !.task = t])
    BY <1>2 DEF StartRequest
  <2> DEFINE r == [Idle EXCEPT !.op = "start", !.pc = "start", !.wf = w, !.task = t]
  <2>2. r.pc = "start" /\ Goto(p, r) /\ MayBegin(p) /\ UNCHANGED <<task, wf>>
    BY <1>2, <2>1 DEF StartRequest, Continue, Idle
  <2> HIDE DEF r
  <2>3. QED
    BY <2>2, BeginUnseen
<1>3. ASSUME NEW w \in Workflows, CancelRequest(p, w) PROVE UNCHANGED Work!workVars
  <2> DEFINE r == [Idle EXCEPT !.op = "cancel", !.pc = "close",
                               !.wf = w, !.new = "cancelled"]
  <2>1. r.op = "cancel" /\ Goto(p, r) /\ MayBegin(p) /\ UNCHANGED <<task, wf>>
    BY <1>3 DEF CancelRequest, Continue, Idle
  <2> HIDE DEF r
  <2>2. QED
    BY <2>1, BeginUnseen
<1>4. ASSUME NEW a \in Agents, NextTaskRequest(p, a) PROVE UNCHANGED Work!workVars
  <2> DEFINE r == [Idle EXCEPT !.op = "next", !.pc = "walk",
                               !.agent = a, !.todo = queue[a]]
  <2>1. r.pc = "walk" /\ Goto(p, r) /\ MayBegin(p) /\ UNCHANGED <<task, wf>>
    BY <1>4 DEF NextTaskRequest, Continue, Idle
  <2> HIDE DEF r
  <2>2. QED
    BY <2>1, BeginUnseen
<1>5. ASSUME NEW after \in Tasks, NEW t \in Tasks, InsertTask(p, after, t)
      PROVE  Work!WorkNext
  BY <1>5, InsertIsWork
<1>6. ASSUME UNCHANGED <<task, wf, proc>>, MayBegin(p) PROVE UNCHANGED Work!workVars
  BY <1>6, RestUnseen
<1>7. QED
  BY <1>1, <1>2, <1>3, <1>4, <1>5, <1>6 DEF Request, AssignRequest, EnqueueRequest

\* Every step of the engine is a step of the abstract work, or none.
LEMMA NextIsWork ==
    ASSUME Exclusive, MaxCrashes = 0
    PROVE  /\ TypeInv /\ SerialInv /\ QueueInv /\ PointInv /\ SeenInv
           /\ TypeInv'
           /\ [Next]_vars
           => [Work!WorkNext]_(Work!workVars)
<1> SUFFICES ASSUME TypeInv, SerialInv, QueueInv, PointInv, SeenInv, TypeInv', [Next]_vars
             PROVE  [Work!WorkNext]_(Work!workVars)
  OBVIOUS
<1> USE DEF files
<1>0. Loop \in Procs
  BY DEF Procs
<1>1. CASE UNCHANGED vars
  <2>1. UNCHANGED SeenWork /\ UNCHANGED SeenStatus
    BY <1>1 DEF vars, SeenWork, SeenStatus, Closing, AllDone, Listed
  <2>2. QED
    BY <2>1 DEF Work!workVars
<1>2. ASSUME NEW p \in Procs, Request(p) \/ Step(p)
      PROVE  [Work!WorkNext]_(Work!workVars)
  BY <1>2, RequestIsWork, StepIsWork
<1>3. ASSUME NEW t \in Tasks, NEW new \in {"done", "blocked", "escalated"},
             MarkRequest(t, new)
      PROVE  UNCHANGED Work!workVars
  <2> DEFINE r == [Idle EXCEPT !.op = new, !.pc = "mark", !.wf = WfOf[t],
                          !.task = t, !.new = new,
                          !.agent = IF new = "done" THEN assigned[t] ELSE NoAgent]
  <2>1. r.pc = "mark" /\ Goto(Loop, r) /\ MayBegin(Loop) /\ UNCHANGED <<task, wf>>
    BY <1>3 DEF MarkRequest, Continue, Idle
  <2> HIDE DEF r
  <2>2. QED
    BY <1>0, <2>1, BeginUnseen
<1>4. ASSUME NEW j \in jobs, ConductorPick(j) PROVE UNCHANGED Work!workVars
  BY <1>0, <1>4, RestUnseen DEF ConductorPick
<1>5. ASSUME NEW j \in jobs, ConductorResume(j) PROVE UNCHANGED Work!workVars
  <2> DEFINE coroutine == [Idle EXCEPT !.op = "job", !.wf = j.wf, !.pick = j.pick]
  <2>1. [coroutine EXCEPT !.pc = "dispatch"].pc = "dispatch"
    BY DEF Idle
  <2>2. \A t : [coroutine EXCEPT !.pc = "start", !.task = t].pc = "start"
    BY DEF Idle
  <2>3. MayBegin(Loop) /\ UNCHANGED <<task, wf>>
    BY <1>5 DEF ConductorResume
  <2>4. CASE Goto(Loop, [coroutine EXCEPT !.pc = "dispatch"])
    BY <1>0, <2>1, <2>3, <2>4, BeginUnseen
  <2>5. ASSUME NEW t \in FirstPending(j.wf),
               Goto(Loop, [coroutine EXCEPT !.pc = "start", !.task = t])
        PROVE  UNCHANGED Work!workVars
    BY <1>0, <2>2, <2>3, <2>5, BeginUnseen
  <2>6. QED
    BY <1>5, <2>4, <2>5 DEF ConductorResume
<1>6. ~Crash
  BY DEF Crash, TypeInv, TypeOK
<1>7. QED
  BY <1>1, <1>2, <1>3, <1>4, <1>5, <1>6 DEF Next

\* Nothing can be seen at the start.
LEMMA InitIsWork == Init => Work!WorkInit
<1> SUFFICES ASSUME Init PROVE Work!WorkInit
  OBVIOUS
<1>1. SeenWork = [t \in Tasks |-> "absent"]
  BY SortAssumption DEF Init, SeenWork
<1>2. \A w \in Workflows, op \in {"done", "escalated"} : ~Closing(w, op)
  BY DEF Init, Closing, Idle
<1>3. SeenStatus = [w \in Workflows |-> "absent"]
  BY <1>2 DEF Init, SeenStatus
<1>4. QED
  BY <1>1, <1>3 DEF Work!WorkInit

(***************************************************************************)
(* With one request at a time and no crash, the engine implements the      *)
(* abstract work: however its writes are cut apart, clients see tasks that *)
(* go one at a time and reports that are atomic.                           *)
(***************************************************************************)
THEOREM SerialRefinement ==
    ASSUME Exclusive, MaxCrashes = 0
    PROVE  Spec => ImplementsSequentialWork
<1> DEFINE Inv == TypeInv /\ SerialInv /\ QueueInv /\ PointInv /\ SeenInv
<1>1. Init => Inv
  BY TypeInit, SerialInit, QueueInit, PointInit, SeenInit
<1>2. Inv /\ [Next]_vars => Inv'
  BY TypeNext, SerialNext, QueueNext, PointNextStep, SeenNext
<1>3. Inv /\ Inv' /\ [Next]_vars => [Work!WorkNext]_(Work!workVars)
  BY NextIsWork
<1>4. QED
  BY <1>1, <1>2, <1>3, InitIsWork, PTL DEF Spec, ImplementsSequentialWork, Work!WorkSpec
=============================================================================
