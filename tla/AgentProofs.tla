----------------------------- MODULE AgentProofs -----------------------------
(***************************************************************************)
(* Proofs about the agents: the relay of a thread's messages, its turns,   *)
(* its close and the recoveries of its sessions (AgentRuntime), and the    *)
(* desk with its conductor (AgentDesk).                                    *)
(***************************************************************************)
EXTENDS AgentRuntime, AgentDesk, FiniteSetTheorems, WellFoundedInduction, SequenceTheorems,
        TLAPS

-----------------------------------------------------------------------------
(***************************************************************************)
(* What the coroutines are.  The number of a transport is left open: no    *)
(* argument needs it.                                                      *)
(***************************************************************************)
TaskFields == {"pc", "kind", "agent", "gen", "rest", "msg", "turn", "ok", "depth", "ad"}

IsTask(r) == DOMAIN r = TaskFields /\ r = [x \in TaskFields |-> r[x]]

TaskShape == task = [s \in Slots |-> task[s]] /\ \A s \in Slots : IsTask(task[s])

\* The coroutine in slot s goes on as r, all others stay.
Becomes(s, r) ==
    /\ TaskShape' /\ task'[s] = r /\ IsTask(r)
    /\ \A q \in Slots \ {s} : task'[q] = task[q]

\* What a coroutine keeps while it goes on: the message, its targets and its session.
Like(x, y) == x.kind = y.kind /\ x.msg = y.msg /\ x.rest = y.rest /\ x.agent = y.agent /\ x.gen = y.gen

\* A slot that is free has a coroutine of the shape too.
LEMMA NoTaskIsTask == IsTask(NoTask)
BY DEF IsTask, NoTask, TaskFields

\* Going on as r is all that happens to the coroutines.
LEMMA GoesOn ==
    ASSUME TaskShape, NEW s \in Slots, NEW r, IsTask(r), Goto(s, r)
    PROVE  Becomes(s, r)
BY DEF TaskShape, Goto, Becomes

\* Editing where a coroutine is, and its transport, leaves it alike.
LEMMA Edited2 ==
    ASSUME NEW r, IsTask(r), NEW p, NEW n
    PROVE  /\ IsTask([r EXCEPT !.pc = p]) /\ Like([r EXCEPT !.pc = p], r)
           /\ [r EXCEPT !.pc = p].pc = p
           /\ IsTask([r EXCEPT !.pc = p, !.ad = n]) /\ Like([r EXCEPT !.pc = p, !.ad = n], r)
           /\ [r EXCEPT !.pc = p, !.ad = n].pc = p
<1>1. IsTask([r EXCEPT !.pc = p]) /\ Like([r EXCEPT !.pc = p], r) /\ [r EXCEPT !.pc = p].pc = p
  BY DEF IsTask, TaskFields, Like
<1>2. IsTask([r EXCEPT !.pc = p, !.ad = n]) /\ [r EXCEPT !.pc = p, !.ad = n].pc = p
  BY DEF IsTask, TaskFields
<1>3. Like([r EXCEPT !.pc = p, !.ad = n], r)
  BY DEF IsTask, TaskFields, Like
<1>4. QED
  BY <1>1, <1>2, <1>3

\* A transport that is used again, or started, is all a coroutine gets by connecting.
LEMMA Connecting ==
    ASSUME TaskShape, NEW s \in Slots, NEW r, IsTask(r), NEW well, NEW down, Connect(s, r, well, down)
    PROVE  \E x : Becomes(s, x) /\ Like(x, r) /\ x.pc \in {well, down}
<1>1. CASE Healthy(r.agent)
  <2> DEFINE x == [r EXCEPT !.pc = well, !.ad = adapter[r.agent]]
  <2>1. Goto(s, x)
    BY <1>1 DEF Connect
  <2>2. IsTask(x) /\ Like(x, r) /\ x.pc = well
    BY Edited2
  <2>3. QED
    BY <2>1, <2>2, GoesOn
<1>2. CASE ~Healthy(r.agent)
  <2> DEFINE x == [r EXCEPT !.pc = down, !.ad = NewAdapter(r.agent)]
  <2>1. Goto(s, x)
    BY <1>2 DEF Connect
  <2>2. IsTask(x) /\ Like(x, r) /\ x.pc = down
    BY Edited2
  <2>3. QED
    BY <2>1, <2>2, GoesOn
<1>3. QED
  BY <1>1, <1>2

\* Entering a turn.
LEMMA Entering ==
    ASSUME TaskShape, NEW s \in Slots, NEW r, IsTask(r), NEW z, Enter(s, r, z)
    PROVE  \E x : Becomes(s, x) /\ Like(x, r) /\ x.pc \in InTurn
<1>1. CASE Attempted(z) = "live"
  <2>1. Connect(s, r, "read", "start")
    BY <1>1 DEF Enter
  <2>2. QED
    BY <2>1, Connecting DEF InTurn
<1>2. CASE Attempted(z) # "live"
  <2>1. Goto(s, [r EXCEPT !.pc = "sub"])
    BY <1>2 DEF Enter
  <2>2. /\ IsTask([r EXCEPT !.pc = "sub"]) /\ Like([r EXCEPT !.pc = "sub"], r)
        /\ [r EXCEPT !.pc = "sub"].pc = "sub"
    BY Edited2
  <2>3. QED
    BY <2>1, <2>2, GoesOn DEF InTurn
<1>3. QED
  BY <1>1, <1>2

\* r with another session.
SameJob(x, r) == x.kind = r.kind /\ x.msg = r.msg /\ x.rest = r.rest /\ x.agent = r.agent

\* An invocation waits for the lock of the session, or nobody else is in a turn of it.
LEMMA Invoking ==
    ASSUME TaskShape, NEW s \in Slots, NEW r, IsTask(r), NEW said, Invoke(s, r, said)
    PROVE  \E x : /\ Becomes(s, x) /\ SameJob(x, r)
                  /\ x.pc = "lock" \/ (x.pc \in InTurn /\ ~Locked(x.agent, x.gen))
<1> DEFINE a == r.agent
           z == IF session[a] = NoSession THEN NewSession(a, FALSE) ELSE session[a]
           y == [r EXCEPT !.gen = z.gen]
<1>1. IF Locked(a, z.gen) \/ Awaited(a, z.gen)
      THEN Goto(s, [r EXCEPT !.gen = z.gen, !.pc = "lock"]) ELSE Enter(s, y, z)
  BY DEF Invoke
<1> HIDE DEF z
<1>2. IsTask(y) /\ SameJob(y, r) /\ y.gen = z.gen
  BY DEF IsTask, TaskFields, SameJob
<1>3. CASE Locked(a, z.gen) \/ Awaited(a, z.gen)
  <2> DEFINE x == [y EXCEPT !.pc = "lock"]
  <2>1. Goto(s, x)
    BY <1>1, <1>3
  <2>2. IsTask(x) /\ Like(x, y) /\ x.pc = "lock"
    BY <1>2, Edited2
  <2>3. QED
    BY <1>2, <2>1, <2>2, GoesOn DEF SameJob, Like
<1>4. CASE ~(Locked(a, z.gen) \/ Awaited(a, z.gen))
  <2>1. PICK x : Becomes(s, x) /\ Like(x, y) /\ x.pc \in InTurn
    <3>1. Enter(s, y, z)
      BY <1>1, <1>4
    <3> HIDE DEF y
    <3>2. QED
      BY <1>2, <3>1, Entering
  <2>2. SameJob(x, r) /\ x.gen = z.gen
    BY <1>2, <2>1 DEF SameJob, Like
  <2>3. ~Locked(x.agent, x.gen)
    BY <1>4, <2>2 DEF SameJob
  <2>4. QED
    BY <2>1, <2>2, <2>3
<1>5. QED
  BY <1>3, <1>4

-----------------------------------------------------------------------------
(***************************************************************************)
(* What each step does to the coroutine it is of: it keeps its message and *)
(* its targets, and begins a turn of a session only when nobody is in one. *)
(***************************************************************************)
TurnIsFree(s, x) ==
    \/ x.pc \notin InTurn
    \/ task[s].pc \in InTurn /\ x.agent = task[s].agent /\ x.gen = task[s].gen
    \/ ~Locked(x.agent, x.gen)

JobStays(s, x) ==
    \/ x.kind # "message"
    \/ x.kind = task[s].kind /\ x.msg = task[s].msg /\ x.rest = task[s].rest

GoesAlong(s) == \E x : Becomes(s, x) /\ TurnIsFree(s, x) /\ JobStays(s, x)

\* A coroutine that ends.
LEMMA EndsAlong ==
    ASSUME TaskShape, NEW s \in Slots, Goto(s, NoTask)
    PROVE  GoesAlong(s)
<1>1. Becomes(s, NoTask)
  BY NoTaskIsTask, GoesOn
<1>2. NoTask.pc \notin InTurn /\ NoTask.kind # "message"
  BY DEF NoTask, InTurn
<1>3. QED
  BY <1>1, <1>2 DEF GoesAlong, TurnIsFree, JobStays

\* A coroutine that is, after the step, where it is in no turn, or in the turn it was in.
LEMMA StaysAlong ==
    ASSUME TaskShape, NEW s \in Slots, NEW x, Becomes(s, x), Like(x, task[s]),
           x.pc \notin InTurn \/ task[s].pc \in InTurn
    PROVE  GoesAlong(s)
BY DEF GoesAlong, TurnIsFree, JobStays, Like

\* An edit of where it is does it.
LEMMA MovesAlong ==
    ASSUME TaskShape, NEW s \in Slots, NEW p, p \notin InTurn \/ task[s].pc \in InTurn,
           \/ Goto(s, [task[s] EXCEPT !.pc = p])
           \/ \E n : Goto(s, [task[s] EXCEPT !.pc = p, !.ad = n])
    PROVE  GoesAlong(s)
<1>1. IsTask(task[s])
  BY DEF TaskShape
<1>2. CASE Goto(s, [task[s] EXCEPT !.pc = p])
  <2> DEFINE x == [task[s] EXCEPT !.pc = p]
  <2>1. IsTask(x) /\ Like(x, task[s]) /\ x.pc = p
    BY <1>1, Edited2
  <2>2. Becomes(s, x)
    BY <1>2, <2>1, GoesOn
  <2> HIDE DEF x
  <2>3. QED
    BY <2>1, <2>2, StaysAlong
<1>3. CASE \E n : Goto(s, [task[s] EXCEPT !.pc = p, !.ad = n])
  <2>1. PICK n : Goto(s, [task[s] EXCEPT !.pc = p, !.ad = n])
    BY <1>3
  <2> DEFINE x == [task[s] EXCEPT !.pc = p, !.ad = n]
  <2>2. IsTask(x) /\ Like(x, task[s]) /\ x.pc = p
    BY <1>1, Edited2
  <2>3. Becomes(s, x)
    BY <2>1, <2>2, GoesOn
  <2> HIDE DEF x
  <2>4. QED
    BY <2>2, <2>3, StaysAlong
<1>4. QED
  BY <1>2, <1>3

\* The end of a turn.
LEMMA TurnEnds ==
    ASSUME TaskShape, NEW s \in Slots, NEW ok, EndTurn(s, ok)
    PROVE  GoesAlong(s)
<1> DEFINE x == [task[s] EXCEPT !.pc = "ended", !.ok = ok, !.ad = 0]
<1>1. Goto(s, x)
  BY DEF EndTurn
<1>2. IsTask(task[s])
  BY DEF TaskShape
<1>3. IsTask(x) /\ x.pc = "ended"
  BY <1>2 DEF IsTask, TaskFields
<1>4. Like(x, task[s])
  BY <1>2 DEF IsTask, TaskFields, Like
<1>5. Becomes(s, x)
  BY <1>1, <1>3, GoesOn
<1> HIDE DEF x
<1>6. QED
  BY <1>3, <1>4, <1>5, StaysAlong DEF InTurn

\* A lock that is given to one that waits for it.
LEMMA AcquireAlong ==
    ASSUME TaskShape, NEW s \in Slots, Acquire(s)
    PROVE  GoesAlong(s)
<1>1. IsTask(task[s])
  BY DEF TaskShape
<1>2. ~Locked(task[s].agent, task[s].gen)
  BY DEF Acquire
<1>3. PICK z \in Held(task[s].agent, task[s].gen) : Enter(s, task[s], z)
  BY DEF Acquire
<1>4. PICK x : Becomes(s, x) /\ Like(x, task[s]) /\ x.pc \in InTurn
  BY <1>1, <1>3, Entering
<1>5. QED
  BY <1>2, <1>4 DEF GoesAlong, TurnIsFree, JobStays, Like

\* An invocation that is of no message, or keeps the coroutine's message and targets.
LEMMA InvokeAlong ==
    ASSUME TaskShape, NEW s \in Slots, NEW r, IsTask(r), NEW said, Invoke(s, r, said),
           r.kind # "message" \/ (r.kind = task[s].kind /\ r.msg = task[s].msg /\ r.rest = task[s].rest)
    PROVE  GoesAlong(s)
<1>1. PICK x : /\ Becomes(s, x) /\ SameJob(x, r)
               /\ x.pc = "lock" \/ (x.pc \in InTurn /\ ~Locked(x.agent, x.gen))
  BY Invoking
<1>2. TurnIsFree(s, x)
  BY <1>1 DEF TurnIsFree, InTurn
<1>3. JobStays(s, x)
  BY <1>1 DEF JobStays, SameJob
<1>4. QED
  BY <1>1, <1>2, <1>3 DEF GoesAlong

\* A phase change and a spawn begin coroutines of their own.
LEMMA BeginAlong ==
    ASSUME TaskShape, NEW s \in Slots, BeginPhase(s) \/ BeginSpawn(s)
    PROVE  GoesAlong(s)
<1>1. CASE BeginPhase(s)
  <2>1. PICK order : Goto(s, [NoTask EXCEPT !.pc = "target", !.kind = "phase", !.rest = order])
    BY <1>1 DEF BeginPhase
  <2> DEFINE x == [NoTask EXCEPT !.pc = "target", !.kind = "phase", !.rest = order]
  <2>2. IsTask(x) /\ x.pc = "target" /\ x.kind = "phase"
    BY DEF IsTask, NoTask, TaskFields
  <2>3. Becomes(s, x)
    BY <2>1, <2>2, GoesOn
  <2> HIDE DEF x
  <2>4. QED
    BY <2>2, <2>3 DEF GoesAlong, TurnIsFree, JobStays, InTurn
<1>2. CASE BeginSpawn(s)
  <2> DEFINE a == Head(ready).agent
             z == session[a]
             r == [NoTask EXCEPT !.kind = "spawn", !.agent = a, !.gen = z.gen, !.depth = 1]
  <2>1. IsTask(r) /\ r.kind = "spawn"
    BY DEF IsTask, NoTask, TaskFields
  <2>2. Connect(s, r, "connected", "connect") \/ Invoke(s, r, <<>>)
    BY <1>2 DEF BeginSpawn
  <2> HIDE DEF r
  <2>3. CASE Connect(s, r, "connected", "connect")
    <3>1. PICK x : Becomes(s, x) /\ Like(x, r) /\ x.pc \in {"connected", "connect"}
      BY <2>1, <2>3, Connecting
    <3>2. TurnIsFree(s, x) /\ JobStays(s, x)
      BY <2>1, <3>1 DEF TurnIsFree, JobStays, InTurn, Like
    <3>3. QED
      BY <3>1, <3>2 DEF GoesAlong
  <2>4. CASE Invoke(s, r, <<>>)
    BY <2>1, <2>4, InvokeAlong
  <2>5. QED
    BY <2>2, <2>3, <2>4
<1>3. QED
  BY <1>1, <1>2

\* The outcomes of turns.
LEMMA OutcomeAlong ==
    ASSUME TaskShape, NEW s \in Slots, Outcome(s)
    PROVE  GoesAlong(s)
<1>1. CASE Started(s)
  <2>1. CASE task[s].pc = "start" /\ Goto(s, [task[s] EXCEPT !.pc = "read"])
    BY <2>1, MovesAlong DEF InTurn
  <2>2. CASE Goto(s, [task[s] EXCEPT !.pc = "connected"])
    BY <2>2, MovesAlong DEF InTurn
  <2>3. QED
    BY <1>1, <2>1, <2>2 DEF Started
<1>2. CASE ConnectFails(s)
  BY <1>2, EndsAlong DEF ConnectFails
<1>3. CASE ReadOk(s)
  BY <1>3, TurnEnds DEF ReadOk
<1>4. CASE LiveFails(s)
  <2>1. CASE task[s].pc \in InTurn /\ Goto(s, [task[s] EXCEPT !.pc = "sub", !.ad = 0])
    BY <2>1, MovesAlong
  <2>2. CASE EndTurn(s, FALSE)
    BY <2>2, TurnEnds
  <2>3. QED
    BY <1>4, <2>1, <2>2 DEF LiveFails, Suspended, InTurn
<1>5. CASE SubprocessOk(s)
  BY <1>5, TurnEnds DEF SubprocessOk
<1>6. CASE SubprocessFails(s)
  <2>1. CASE task[s].pc \in InTurn /\ Goto(s, [task[s] EXCEPT !.pc = "fresh"])
    BY <2>1, MovesAlong
  <2>2. CASE EndTurn(s, FALSE)
    BY <2>2, TurnEnds
  <2>3. QED
    BY <1>6, <2>1, <2>2 DEF SubprocessFails, Suspended, InTurn
<1>7. CASE SubprocessTimesOut(s)
  BY <1>7, EndsAlong DEF SubprocessTimesOut
<1>8. QED
  BY <1>1, <1>2, <1>3, <1>4, <1>5, <1>6, <1>7 DEF Outcome

\* The steps after a turn, and the next agent of a phase change.
LEMMA ContinueAlong ==
    ASSUME TaskShape, NEW s \in Slots,
           PhaseTarget(s) \/ NoTargetLeft(s) \/ Connected(s) \/ Resume(s) \/ Drain(s)
    PROVE  GoesAlong(s)
<1>1. CASE PhaseTarget(s)
  <2> DEFINE r == [task[s] EXCEPT !.rest = Tail(@), !.agent = Head(task[s].rest)]
  <2>1. Invoke(s, r, <<>>) /\ task[s].kind = "phase"
    BY <1>1 DEF PhaseTarget
  <2>2. IsTask(r) /\ r.kind = task[s].kind
    BY DEF TaskShape, IsTask, TaskFields
  <2> HIDE DEF r
  <2>3. QED
    BY <2>1, <2>2, InvokeAlong
<1>2. CASE NoTargetLeft(s)
  BY <1>2, EndsAlong DEF NoTargetLeft, Finish
<1>3. CASE Connected(s)
  <2>1. Goto(s, [task[s] EXCEPT !.pc = "drain", !.ad = 0])
    BY <1>3 DEF Connected
  <2>2. QED
    BY <2>1, MovesAlong DEF InTurn
<1>4. CASE Resume(s)
  <2>1. \/ Goto(s, [task[s] EXCEPT !.pc = "drain"])
        \/ Goto(s, NoTask)
        \/ Goto(s, [task[s] EXCEPT !.pc = "target"])
    BY <1>4 DEF Resume, Finish
  <2>2. QED
    BY <2>1, EndsAlong, MovesAlong DEF InTurn
<1>5. CASE Drain(s)
  <2> DEFINE r == [task[s] EXCEPT !.turn = "drain"]
  <2>1. Goto(s, [task[s] EXCEPT !.pc = "target"]) \/ \E said : Invoke(s, r, said)
    BY <1>5 DEF Drain
  <2>2. IsTask(r) /\ Like(r, task[s])
    BY DEF TaskShape, IsTask, TaskFields, Like
  <2> HIDE DEF r
  <2>3. CASE Goto(s, [task[s] EXCEPT !.pc = "target"])
    BY <2>3, MovesAlong DEF InTurn
  <2>4. CASE \E said : Invoke(s, r, said)
    BY <2>2, <2>4, InvokeAlong DEF Like
  <2>5. QED
    BY <2>1, <2>3, <2>4
<1>6. QED
  BY <1>1, <1>2, <1>3, <1>4, <1>5

\* A message that is begun is relayed to its targets in some order.
BeginsMessage(s) ==
    \E x : /\ Becomes(s, x) /\ x.pc = "target"
           /\ x.kind = "message" /\ x.msg = Head(ready).msg
           /\ x.rest \in SetToSeqs(Targets(mail[Head(ready).msg]))

\* A message that is begun has no targets, or goes over to a coroutine.
LEMMA MessageBegins ==
    ASSUME TaskShape, NEW s \in Slots, BeginMessage(s)
    PROVE  \/ UNCHANGED task
           \/ Targets(mail[Head(ready).msg]) # {} /\ BeginsMessage(s)
<1> DEFINE to == Targets(mail[Head(ready).msg])
<1>1. CASE to = {}
  BY <1>1 DEF BeginMessage
<1>2. CASE to # {}
  <2>1. PICK order \in SetToSeqs(to) :
           Goto(s, [NoTask EXCEPT !.pc = "target", !.kind = "message", !.rest = order,
                                  !.msg = Head(ready).msg, !.depth = mail[Head(ready).msg].depth])
    BY <1>2 DEF BeginMessage
  <2> DEFINE x == [NoTask EXCEPT !.pc = "target", !.kind = "message", !.rest = order,
                                 !.msg = Head(ready).msg, !.depth = mail[Head(ready).msg].depth]
  <2>2. IsTask(x) /\ x.pc = "target" /\ x.kind = "message"
    BY DEF IsTask, NoTask, TaskFields
  <2>3. x.msg = Head(ready).msg /\ x.rest = order
    BY DEF NoTask
  <2>4. Becomes(s, x)
    BY <2>1, <2>2, GoesOn
  <2> HIDE DEF x
  <2>5. QED
    BY <1>2, <2>2, <2>3, <2>4 DEF BeginsMessage
<1>3. QED
  BY <1>1, <1>2

\* The next target of a message: it finds the message in its inbox, or in its prompt.
TakesTarget(s) ==
    \E x : /\ Becomes(s, x) /\ TurnIsFree(s, x)
           /\ x.kind = "message" /\ x.msg = task[s].msg /\ x.rest = Tail(task[s].rest)

\* The step of a message's next target is of that kind.
LEMMA TargetTaken ==
    ASSUME TaskShape, NEW s \in Slots, Target(s)
    PROVE  TakesTarget(s)
<1> DEFINE r == task[s]
           a == Head(r.rest)
           next == [r EXCEPT !.rest = Tail(@), !.agent = a, !.turn = "main"]
<1>1. r.kind = "message" /\ IsTask(r)
  BY DEF Target, TaskShape
<1>2. IsTask(next) /\ next.kind = "message" /\ next.msg = r.msg /\ next.rest = Tail(r.rest)
  BY <1>1 DEF IsTask, TaskFields
<1>3. Goto(s, [next EXCEPT !.pc = "target"]) \/ Invoke(s, next, <<r.msg>>)
  BY DEF Target
<1> HIDE DEF next
<1>4. CASE Goto(s, [next EXCEPT !.pc = "target"])
  <2> DEFINE x == [next EXCEPT !.pc = "target"]
  <2>1. IsTask(x) /\ Like(x, next) /\ x.pc = "target"
    BY <1>2, Edited2
  <2>2. Becomes(s, x)
    BY <1>4, <2>1, GoesOn
  <2> HIDE DEF x
  <2>3. QED
    BY <1>2, <2>1, <2>2 DEF TakesTarget, TurnIsFree, InTurn, Like
<1>5. CASE Invoke(s, next, <<r.msg>>)
  <2>1. PICK x : /\ Becomes(s, x) /\ SameJob(x, next)
                 /\ x.pc = "lock" \/ (x.pc \in InTurn /\ ~Locked(x.agent, x.gen))
    BY <1>2, <1>5, Invoking
  <2>2. QED
    BY <1>2, <2>1 DEF TakesTarget, TurnIsFree, InTurn, SameJob
<1>6. QED
  BY <1>3, <1>4, <1>5

-----------------------------------------------------------------------------
(***************************************************************************)
(* The turns of a session come one after the other: a coroutine enters one *)
(* only when nobody holds the session's lock.                              *)
(***************************************************************************)
TurnInv == TaskShape /\ OneTurn

\* At the start there is no turn.
LEMMA TurnStarts == Init => TurnInv
BY NoTaskIsTask DEF Init, TurnInv, TaskShape, OneTurn, NoTask, InTurn

\* A coroutine that enters a turn only if nobody is in one leaves one turn at a time.
LEMMA TurnStep ==
    ASSUME TurnInv, NEW s \in Slots, NEW x, Becomes(s, x), TurnIsFree(s, x)
    PROVE  TurnInv'
<1>1. TaskShape'
  BY DEF Becomes
<1>2. ASSUME NEW p \in Slots, NEW q \in Slots, p # q, task'[p].pc \in InTurn, task'[q].pc \in InTurn
      PROVE  task'[p].agent # task'[q].agent \/ task'[p].gen # task'[q].gen
  <2>1. CASE p # s /\ q # s
    BY <1>2, <2>1 DEF TurnInv, OneTurn, Becomes
  <2>2. CASE p = s
    BY <1>2, <2>2 DEF TurnInv, OneTurn, Becomes, TurnIsFree, Locked
  <2>3. CASE q = s
    BY <1>2, <2>3 DEF TurnInv, OneTurn, Becomes, TurnIsFree, Locked
  <2>4. QED
    BY <2>1, <2>2, <2>3
<1>3. QED
  BY <1>1, <1>2 DEF TurnInv, OneTurn

\* Whatever a scheduled coroutine does, it does that.
LEMMA ScheduledAlong ==
    ASSUME TaskShape, NEW s \in Slots, Scheduled(s)
    PROVE  \/ UNCHANGED task
           \/ \E x : Becomes(s, x) /\ TurnIsFree(s, x)
<1>1. CASE BeginMessage(s)
  BY <1>1, MessageBegins DEF BeginsMessage, TurnIsFree, InTurn
<1>2. CASE Target(s)
  BY <1>2, TargetTaken DEF TakesTarget
<1>3. CASE BeginPhase(s) \/ BeginSpawn(s) \/ Acquire(s) \/ Outcome(s)
  BY <1>3, BeginAlong, AcquireAlong, OutcomeAlong DEF GoesAlong
<1>4. CASE PhaseTarget(s) \/ NoTargetLeft(s) \/ Connected(s) \/ Resume(s) \/ Drain(s)
  BY <1>4, ContinueAlong DEF GoesAlong
<1>5. QED
  BY <1>1, <1>2, <1>3, <1>4 DEF Scheduled, Begin, Continue

\* The requests, the close and a process that dies move no coroutine.
LEMMA OthersKeepTasks ==
    ASSUME Ask \/ HandleClose \/ ProcessDies
    PROVE  UNCHANGED task
BY DEF Ask, HandleClose, ProcessDies, UserMessage, Attach, PhaseChange, CloseThread

\* Every step keeps the turns apart.
LEMMA TurnSteps == TurnInv /\ [Next]_vars => TurnInv'
<1> SUFFICES ASSUME TurnInv, [Next]_vars PROVE TurnInv'
  OBVIOUS
<1>1. CASE UNCHANGED task
  BY <1>1 DEF TurnInv, TaskShape, OneTurn
<1>2. CASE \E s \in Slots : Scheduled(s)
  BY <1>1, <1>2, ScheduledAlong, TurnStep DEF TurnInv
<1>3. QED
  BY <1>1, <1>2, OthersKeepTasks DEF Next, vars

(***************************************************************************)
(* OneTurn: whatever is queued, spawned, recovered or timed out meanwhile, *)
(* and however many coroutines there are, no two of them are in a turn of  *)
(* one session.                                                            *)
(***************************************************************************)
THEOREM TurnsTakeTurns == Spec => []OneTurn
<1>1. TurnInv => OneTurn
  BY DEF TurnInv
<1>2. QED
  BY <1>1, TurnStarts, TurnSteps, PTL DEF Spec

-----------------------------------------------------------------------------
(***************************************************************************)
(* Lists, of which nothing is known but that they are lists.               *)
(***************************************************************************)
IsList(q) == Len(q) \in Nat /\ q = [i \in 1..Len(q) |-> q[i]]

\* A list is a sequence of what is in it.
LEMMA ListIsSeq ==
    ASSUME NEW q, IsList(q), NEW S, \A i \in 1..Len(q) : q[i] \in S
    PROVE  q \in Seq(S)
<1>1. q \in [1..Len(q) -> S]
  BY DEF IsList
<1>2. QED
  BY <1>1 DEF IsList

\* A sequence is a list.
LEMMA SeqIsList ==
    ASSUME NEW S, NEW q \in Seq(S)
    PROVE  IsList(q) /\ \A i \in 1..Len(q) : q[i] \in S
BY DEF IsList

\* One more item at the end.
LEMMA ListAppend ==
    ASSUME NEW q, IsList(q), NEW e
    PROVE  /\ IsList(Append(q, e)) /\ Len(Append(q, e)) = Len(q) + 1
           /\ DOMAIN Append(q, e) = 1..(Len(q) + 1)
           /\ \A i \in 1..Len(q) : Append(q, e)[i] = q[i]
           /\ Append(q, e)[Len(q) + 1] = e
<1> DEFINE S == {q[i] : i \in 1..Len(q)} \cup {e}
<1>1. q \in Seq(S)
  BY ListIsSeq
<1>2. e \in S
  OBVIOUS
<1> HIDE DEF S
<1>3. Append(q, e) \in Seq(S)
  BY <1>1, <1>2
<1>4. IsList(Append(q, e))
  BY <1>3, SeqIsList
<1>5. QED
  BY <1>1, <1>2, <1>4

\* The list without its first item.
LEMMA ListTail ==
    ASSUME NEW q, IsList(q), q # <<>>
    PROVE  /\ IsList(Tail(q)) /\ Len(Tail(q)) = Len(q) - 1 /\ Len(q) \in Nat \ {0}
           /\ DOMAIN Tail(q) = 1..(Len(q) - 1)
           /\ Head(q) = q[1]
           /\ \A i \in 1..(Len(q) - 1) : Tail(q)[i] = q[i + 1] /\ i + 1 \in 1..Len(q)
<1> DEFINE S == {q[i] : i \in 1..Len(q)}
<1>1. q \in Seq(S)
  BY ListIsSeq
<1> HIDE DEF S
<1>2. Tail(q) \in Seq(S) /\ Len(q) \in Nat \ {0}
  BY <1>1
<1>3. IsList(Tail(q))
  BY <1>2, SeqIsList
<1>4. QED
  BY <1>1, <1>2, <1>3

\* The positions of a list.
LEMMA ListDomain == ASSUME NEW q, IsList(q) PROVE DOMAIN q = 1..Len(q)
BY DEF IsList

\* The empty list.
LEMMA EmptyIsList == IsList(<<>>) /\ Len(<<>>) = 0
BY DEF IsList

-----------------------------------------------------------------------------
(***************************************************************************)
(* What happens to the events that wait: one more at the end, or the first *)
(* is begun.                                                               *)
(***************************************************************************)
ReadyStep ==
    \/ ready' = ready
    \/ ready # <<>> /\ ready' = Tail(ready)
    \/ \E e : ready' = Append(ready, e)

\* A spawn puts one event at the end.
LEMMA SpawnReady == ASSUME NEW a, Spawn(a) PROVE ReadyStep
BY DEF Spawn, Publish, ReadyStep

\* So does a request, if anything; the close is begun.
LEMMA AskReady == ASSUME Ask \/ HandleClose \/ ProcessDies PROVE ReadyStep
<1>1. ASSUME NEW a \in Agents, Attach(a) PROVE ReadyStep
  BY <1>1, SpawnReady DEF Attach, StartRecovery, Publish, ReadyStep
<1>2. ASSUME NEW to, UserMessage(to) PROVE ReadyStep
  BY <1>2 DEF UserMessage, Publish, ReadyStep
<1>3. CASE PhaseChange \/ CloseThread \/ HandleClose \/ ProcessDies
  BY <1>3 DEF PhaseChange, CloseThread, HandleClose, ProcessDies, Publish, ReadyStep
<1>4. QED
  BY <1>1, <1>2, <1>3 DEF Ask

\* A scheduled coroutine begins the first event or puts one at the end.
LEMMA ScheduledReady == ASSUME NEW s \in Slots, Scheduled(s) PROVE ReadyStep
<1>1. CASE Begin(s)
  BY <1>1 DEF Begin, BeginMessage, BeginPhase, BeginSpawn, ReadyStep
<1>2. CASE Target(s)
  BY <1>2, SpawnReady DEF Target, ReadyStep
<1>3. CASE Resume(s)
  BY <1>3 DEF Resume, Answered, Publish, ReadyStep
<1>4. CASE PhaseTarget(s) \/ NoTargetLeft(s) \/ Connected(s) \/ Drain(s) \/ Acquire(s)
  BY <1>4 DEF PhaseTarget, NoTargetLeft, Connected, Drain, Acquire, Unchanged, ReadyStep
<1>5. CASE Outcome(s)
  BY <1>5 DEF Outcome, Started, ConnectFails, ReadOk, LiveFails, SubprocessOk, SubprocessFails,
              SubprocessTimesOut, Unchanged, ReadyStep
<1>6. QED
  BY <1>1, <1>2, <1>3, <1>4, <1>5 DEF Scheduled, Continue

\* What waits stays a list.
LEMMA ReadyStays ==
    ASSUME IsList(ready), ReadyStep
    PROVE  IsList(ready')
<1>1. ASSUME NEW e, ready' = Append(ready, e) PROVE IsList(ready')
  BY <1>1, ListAppend
<1>2. ASSUME ready # <<>>, ready' = Tail(ready) PROVE IsList(ready')
  BY <1>2, ListTail
<1>3. QED
  BY <1>1, <1>2 DEF ReadyStep

-----------------------------------------------------------------------------
(***************************************************************************)
(* The close.  When nothing was in flight at the close and nobody attached *)
(* an agent since, no coroutine is there any more and none can come: what  *)
(* waits are messages, which find no target, and the close itself.         *)
(***************************************************************************)
CloseDue == \E i \in DOMAIN ready : ready[i].kind = "close"

Emptied == managed = {} /\ \A a \in Agents : session[a] = NoSession

Quiet ==
    /\ \A s \in Slots : task[s] = NoTask
    /\ \A i \in DOMAIN ready : ready[i].kind \in {"message", "close"}
    /\ CloseDue \/ Emptied

CloseInv == TaskShape /\ IsList(ready) /\ (thread = "closed" /\ ~late => Quiet)

\* At the start the thread is active.
LEMMA CloseStarts == Init => CloseInv
BY NoTaskIsTask, EmptyIsList DEF Init, CloseInv, TaskShape

\* Whether the thread is closed, and whether something came late, changes in two requests.
LEMMA LateStays ==
    ASSUME NEW s \in Slots, Scheduled(s)
    PROVE  UNCHANGED <<thread, late>>
<1>1. CASE Begin(s) \/ Acquire(s)
  BY <1>1 DEF Begin, BeginMessage, BeginPhase, BeginSpawn, Acquire
<1>2. CASE Continue(s)
  BY <1>2 DEF Continue, Target, PhaseTarget, NoTargetLeft, Connected, Resume, Drain, Unchanged
<1>3. CASE Outcome(s)
  BY <1>3 DEF Outcome, Started, ConnectFails, ReadOk, LiveFails, SubprocessOk, SubprocessFails,
              SubprocessTimesOut, Unchanged
<1>4. QED
  BY <1>1, <1>2, <1>3 DEF Scheduled

\* Where no coroutine is and only messages and the close wait, all a closed thread
\* can do of its own is to look at a message.
LEMMA OnlyMessagesBegin ==
    ASSUME CloseInv, thread = "closed", ~late, NEW s \in Slots, Scheduled(s)
    PROVE  /\ UNCHANGED <<task, managed, session>>
           /\ ready # <<>> /\ Head(ready).kind = "message" /\ ready' = Tail(ready)
<1>1. Quiet /\ task[s] = NoTask /\ NoTask.pc = "idle"
  BY DEF CloseInv, Quiet, NoTask
<1>2. ~Continue(s) /\ ~Acquire(s) /\ ~Outcome(s)
  BY <1>1 DEF Continue, Target, PhaseTarget, NoTargetLeft, Connected, Resume, Drain, Runs, Acquire,
              Outcome, Started, ConnectFails, ReadOk, LiveFails, SubprocessOk, SubprocessFails,
              SubprocessTimesOut, Suspended
<1>3. ready # <<>> => Head(ready).kind \in {"message", "close"}
  <2>1. ASSUME ready # <<>> PROVE Head(ready) = ready[1] /\ 1 \in DOMAIN ready
    BY <2>1, ListTail, ListDomain DEF CloseInv
  <2>2. QED
    BY <1>1, <2>1 DEF Quiet
<1>4. BeginMessage(s)
  BY <1>2, <1>3 DEF Scheduled, Begin, BeginPhase, BeginSpawn
<1>5. Targets(mail[Head(ready).msg]) = {}
  BY DEF Targets
<1>6. QED
  BY <1>3, <1>4, <1>5 DEF BeginMessage, sessions

\* A quiet runtime stays quiet while the messages that still wait are begun.
LEMMA QuietMessages ==
    ASSUME CloseInv, thread = "closed", ~late, NEW s \in Slots, Scheduled(s)
    PROVE  Quiet'
<1>1. /\ UNCHANGED <<task, managed, session>>
      /\ ready # <<>> /\ Head(ready).kind = "message" /\ ready' = Tail(ready)
  BY OnlyMessagesBegin
<1>2. Quiet
  BY DEF CloseInv
<1>3. /\ DOMAIN ready' = 1..(Len(ready) - 1) /\ DOMAIN ready = 1..Len(ready) /\ Len(ready) \in Nat \ {0}
      /\ \A i \in 1..(Len(ready) - 1) : ready'[i] = ready[i + 1] /\ i + 1 \in 1..Len(ready)
      /\ Head(ready) = ready[1]
  BY <1>1, ListTail, ListDomain DEF CloseInv
<1>4. \A i \in DOMAIN ready' : ready'[i].kind \in {"message", "close"}
  BY <1>2, <1>3 DEF Quiet
<1>5. ASSUME CloseDue PROVE CloseDue'
  <2>1. PICK i \in DOMAIN ready : ready[i].kind = "close"
    BY <1>5 DEF CloseDue
  <2>2. i # 1
    BY <1>1, <1>3, <2>1
  <2>3. i - 1 \in DOMAIN ready' /\ ready'[i - 1] = ready[i]
    BY <1>3, <2>1, <2>2
  <2>4. QED
    BY <2>1, <2>3 DEF CloseDue
<1>6. Emptied => Emptied'
  BY <1>1 DEF Emptied
<1>7. QED
  BY <1>1, <1>2, <1>4, <1>5, <1>6 DEF Quiet

\* Handling the close leaves nothing of the thread.
LEMMA QuietClosed ==
    ASSUME CloseInv, thread = "closed", ~late, HandleClose
    PROVE  Quiet'
<1>1. Quiet /\ ready # <<>> /\ ready' = Tail(ready) /\ UNCHANGED task
  BY DEF CloseInv, HandleClose
<1>2. /\ DOMAIN ready' = 1..(Len(ready) - 1) /\ DOMAIN ready = 1..Len(ready)
      /\ \A i \in 1..(Len(ready) - 1) : ready'[i] = ready[i + 1] /\ i + 1 \in 1..Len(ready)
  BY <1>1, ListTail, ListDomain DEF CloseInv
<1>3. Emptied'
  BY DEF HandleClose, Emptied
<1>4. \A i \in DOMAIN ready' : ready'[i].kind \in {"message", "close"}
  BY <1>1, <1>2 DEF Quiet
<1>5. QED
  BY <1>1, <1>3, <1>4 DEF Quiet

\* A thread that is closed with nothing in flight.
LEMMA QuietAtClose ==
    ASSUME CloseInv, CloseThread, ~late'
    PROVE  Quiet'
<1>1. \A s \in Slots : task'[s] = NoTask
  BY DEF CloseThread
<1>2. \A i \in DOMAIN ready : ready[i].kind = "message"
  BY DEF CloseThread
<1>3. ready' = Append(ready, CloseEvent)
  BY DEF CloseThread, Publish
<1>4. /\ DOMAIN ready' = 1..(Len(ready) + 1) /\ DOMAIN ready = 1..Len(ready) /\ Len(ready) \in Nat
      /\ \A i \in 1..Len(ready) : ready'[i] = ready[i]
      /\ ready'[Len(ready) + 1] = CloseEvent
  BY <1>3, ListAppend, ListDomain DEF CloseInv, IsList
<1>5. CloseEvent.kind = "close"
  BY DEF CloseEvent
<1>6. CloseDue'
  BY <1>4, <1>5 DEF CloseDue
<1>7. \A i \in DOMAIN ready' : ready'[i].kind \in {"message", "close"}
  BY <1>2, <1>4, <1>5
<1>8. QED
  BY <1>1, <1>6, <1>7 DEF Quiet

\* What a person asks for of a thread that is closed comes late.
LEMMA QuietAsk ==
    ASSUME CloseInv, Ask, thread' = "closed", ~late'
    PROVE  Quiet'
<1>1. CASE CloseThread
  BY <1>1, QuietAtClose
<1>2. ~(\E to \in Recipients : UserMessage(to)) /\ ~PhaseChange
  BY DEF UserMessage, PhaseChange
<1>3. ~(\E a \in Agents : Attach(a))
  BY DEF Attach
<1>4. QED
  BY <1>1, <1>2, <1>3 DEF Ask

\* Every step keeps a closed thread empty, or quiet until its close is begun.
LEMMA CloseSteps == CloseInv /\ [Next]_vars => CloseInv'
<1> SUFFICES ASSUME CloseInv, [Next]_vars PROVE CloseInv'
  OBVIOUS
<1>1. CASE UNCHANGED vars
  BY <1>1 DEF vars, sessions, CloseInv, TaskShape, Quiet, CloseDue, Emptied
<1>2. ASSUME NEW s \in Slots, Scheduled(s) PROVE CloseInv'
  <2>1. TaskShape'
    BY <1>2, ScheduledAlong DEF CloseInv, Becomes, TaskShape
  <2>2. IsList(ready')
    BY <1>2, ScheduledReady, ReadyStays DEF CloseInv
  <2>3. thread' = "closed" /\ ~late' => Quiet'
    BY <1>2, LateStays, QuietMessages
  <2>4. QED
    BY <2>1, <2>2, <2>3 DEF CloseInv
<1>3. CASE Ask \/ HandleClose \/ ProcessDies
  <2>1. TaskShape'
    BY <1>3, OthersKeepTasks DEF CloseInv, TaskShape
  <2>2. IsList(ready')
    BY <1>3, AskReady, ReadyStays DEF CloseInv
  <2>3. CASE Ask
    BY <2>1, <2>2, <2>3, QuietAsk DEF CloseInv
  <2>4. CASE HandleClose
    BY <2>1, <2>2, <2>4, QuietClosed DEF CloseInv, HandleClose
  <2>5. CASE ProcessDies
    BY <2>1, <2>2, <2>5 DEF CloseInv, ProcessDies, sessions, Quiet, CloseDue, Emptied
  <2>6. QED
    BY <1>3, <2>3, <2>4, <2>5
<1>4. QED
  BY <1>1, <1>2, <1>3 DEF Next

(***************************************************************************)
(* ClosedIsEmpty: messages sent before the close and begun after it do not *)
(* bring the agents back, whatever the order in which they are begun.      *)
(***************************************************************************)
THEOREM CloseEmpties == Spec => []ClosedIsEmpty
<1>1. CloseInv => ClosedIsEmpty
  BY DEF CloseInv, ClosedIsEmpty, Quiet, CloseDue, Emptied
<1>2. QED
  BY <1>1, CloseStarts, CloseSteps, PTL DEF Spec

-----------------------------------------------------------------------------
(***************************************************************************)
(* How often a message is in a list.                                       *)
(***************************************************************************)
LEMMA TimesIsNat == ASSUME NEW q, IsList(q), NEW m PROVE Times(q, m) \in Nat
<1>1. {i \in DOMAIN q : q[i] = m} \subseteq 1..Len(q) /\ Len(q) \in Nat
  BY ListDomain DEF IsList
<1>2. IsFiniteSet(1..Len(q))
  BY <1>1, FS_Interval
<1>3. IsFiniteSet({i \in DOMAIN q : q[i] = m})
  BY <1>1, <1>2, FS_Subset
<1>4. QED
  BY <1>3, FS_CardinalityType DEF Times

\* The empty list has nothing.
LEMMA TimesOfNone == ASSUME NEW m PROVE Times(<<>>, m) = 0
<1>1. {i \in DOMAIN <<>> : <<>>[i] = m} = {}
  OBVIOUS
<1>2. QED
  BY <1>1, FS_EmptySet DEF Times

\* A list of one item.
LEMMA TimesOfOne == ASSUME NEW x, NEW m PROVE Times(<<x>>, m) = IF x = m THEN 1 ELSE 0
<1>1. {i \in DOMAIN <<x>> : <<x>>[i] = m} = IF x = m THEN {1} ELSE {}
  OBVIOUS
<1>2. Cardinality({}) = 0 /\ Cardinality({1}) = 1
  BY FS_EmptySet, FS_Singleton
<1>3. QED
  BY <1>1, <1>2 DEF Times

\* An item more counts once.
LEMMA TimesAppend ==
    ASSUME NEW q, IsList(q), NEW e, NEW m
    PROVE  Times(Append(q, e), m) = Times(q, m) + IF e = m THEN 1 ELSE 0
<1> DEFINE old == {i \in DOMAIN q : q[i] = m}
           new == {i \in DOMAIN Append(q, e) : Append(q, e)[i] = m}
           n == Len(q) + 1
<1>1. old \subseteq 1..Len(q) /\ Len(q) \in Nat /\ n \notin old
  BY ListDomain DEF IsList
<1>2. IsFiniteSet(old)
  BY <1>1, FS_Interval, FS_Subset
<1>3. /\ DOMAIN Append(q, e) = 1..n /\ DOMAIN q = 1..Len(q)
      /\ \A i \in 1..Len(q) : Append(q, e)[i] = q[i]
      /\ Append(q, e)[n] = e
  BY ListAppend, ListDomain
<1>4. new = IF e = m THEN old \cup {n} ELSE old
  BY <1>1, <1>3
<1>5. Cardinality(old \cup {n}) = Cardinality(old) + 1
  BY <1>1, <1>2, FS_AddElement
<1>6. Cardinality(old) \in Nat
  BY <1>2, FS_CardinalityType
<1>7. Times(q, m) = Cardinality(old) /\ Times(Append(q, e), m) = Cardinality(new)
  BY DEF Times
<1> HIDE DEF old, new, n
<1>8. CASE e = m
  BY <1>4, <1>5, <1>6, <1>7, <1>8
<1>9. CASE e # m
  BY <1>4, <1>6, <1>7, <1>9
<1>10. QED
  BY <1>8, <1>9

-----------------------------------------------------------------------------
(***************************************************************************)
(* Where a message still is to be relayed from: it is not sent yet, its    *)
(* event waits, or a coroutine has it and the agent among its targets.     *)
(* Each message has one such place, and until it leaves it for an agent,   *)
(* the agent has no copy.                                                  *)
(***************************************************************************)
Waits(q, m) == \E i \in DOMAIN q : q[i].kind = "message" /\ q[i].msg = m

Carried(s, m) == task[s].kind = "message" /\ task[s].msg = m

Aimed(s, a) == \E k \in 1..Len(task[s].rest) : task[s].rest[k] = a

Owed(a, m) == m > Len(mail) \/ Waits(ready, m) \/ \E s \in Slots : Carried(s, m) /\ Aimed(s, a)

EventsOk ==
    /\ IsList(ready)
    /\ \A i \in DOMAIN ready : ready[i].kind = "message" => ready[i].msg \in 1..Len(mail)
    /\ \A i, j \in DOMAIN ready :
          ready[i].kind = "message" /\ ready[j].kind = "message" /\ ready[i].msg = ready[j].msg => i = j

JobsOk ==
    /\ \A s \in Slots : task[s].kind = "message" =>
          /\ task[s].msg \in 1..Len(mail) /\ ~Waits(ready, task[s].msg)
          /\ task[s].rest \in Seq(Agents)
          /\ \A i, j \in 1..Len(task[s].rest) : task[s].rest[i] = task[s].rest[j] => i = j
    /\ \A s, q \in Slots :
          task[s].kind = "message" /\ task[q].kind = "message" /\ task[s].msg = task[q].msg => s = q

BoxesOk ==
    /\ IsList(mail) /\ Len(mail) <= MaxMail /\ managed \subseteq Agents
    /\ inbox = [a \in Agents |-> inbox[a]] /\ \A a \in Agents : IsList(inbox[a])
    /\ heard \in [Agents -> [1..MaxMail -> Nat]]

Fresh == \A a \in Agents, m \in 1..MaxMail : Owed(a, m) => Copies(a, m) = 0

RelayInv == TaskShape /\ EventsOk /\ JobsOk /\ BoxesOk /\ Fresh /\ RelayedOnce

CopiesStay == \A a \in Agents, m \in 1..MaxMail : Copies(a, m) = 1 => Copies(a, m)' = 1

\* The number of copies is a number.
LEMMA CopiesAreCounted ==
    ASSUME BoxesOk, NEW a \in Agents, NEW m \in 1..MaxMail
    PROVE  Copies(a, m) \in Nat /\ heard[a][m] \in Nat /\ Times(inbox[a], m) \in Nat
<1>1. Times(inbox[a], m) \in Nat
  BY TimesIsNat DEF BoxesOk
<1>2. heard[a][m] \in Nat
  BY DEF BoxesOk
<1>3. QED
  BY <1>1, <1>2 DEF Copies

-----------------------------------------------------------------------------
(***************************************************************************)
(* Steps that relay nothing: coroutines keep or lose what they carry, and  *)
(* no message is posted.                                                   *)
(***************************************************************************)
FewerJobs ==
    \A s \in Slots : task'[s].kind = "message" =>
        task[s].kind = "message" /\ task'[s].msg = task[s].msg /\ task'[s].rest = task[s].rest

\* A coroutine that goes along carries no more than before.
LEMMA AlongIsFewer ==
    ASSUME TaskShape, NEW s \in Slots, UNCHANGED task \/ GoesAlong(s)
    PROVE  TaskShape' /\ FewerJobs
<1>1. CASE UNCHANGED task
  BY <1>1 DEF TaskShape, FewerJobs
<1>2. CASE GoesAlong(s)
  BY <1>2 DEF GoesAlong, Becomes, JobStays, FewerJobs
<1>3. QED
  BY <1>1, <1>2

NoPost ==
    \/ ready' = ready
    \/ ready # <<>> /\ ready' = Tail(ready)
    \/ \E e : e.kind # "message" /\ ready' = Append(ready, e)

\* Without a post no message's event is new.
LEMMA NoPostKeeps ==
    ASSUME EventsOk, NoPost, Len(mail') = Len(mail)
    PROVE  EventsOk' /\ \A m : Waits(ready', m) => Waits(ready, m)
<1>1. CASE ready' = ready
  BY <1>1 DEF EventsOk, Waits
<1>2. CASE ready # <<>> /\ ready' = Tail(ready)
  <2>1. /\ IsList(ready') /\ DOMAIN ready = 1..Len(ready) /\ DOMAIN ready' = 1..(Len(ready) - 1)
        /\ Len(ready) \in Nat
        /\ \A i \in 1..(Len(ready) - 1) : ready'[i] = ready[i + 1] /\ i + 1 \in 1..Len(ready)
    BY <1>2, ListTail, ListDomain DEF EventsOk
  <2>2. \A m : Waits(ready', m) => Waits(ready, m)
    BY <2>1 DEF Waits
  <2>3. \A i \in DOMAIN ready' : ready'[i].kind = "message" => ready'[i].msg \in 1..Len(mail')
    BY <2>1 DEF EventsOk
  <2>4. ASSUME NEW i \in DOMAIN ready', NEW j \in DOMAIN ready', ready'[i].kind = "message",
               ready'[j].kind = "message", ready'[i].msg = ready'[j].msg
        PROVE  i = j
    <3>1. ready'[i] = ready[i + 1] /\ ready'[j] = ready[j + 1] /\ i \in Nat /\ j \in Nat
      BY <2>1
    <3>2. i + 1 \in DOMAIN ready /\ j + 1 \in DOMAIN ready
      BY <2>1
    <3>3. i + 1 = j + 1
      BY <2>4, <3>1, <3>2 DEF EventsOk
    <3>4. QED
      BY <3>1, <3>3
  <2>5. QED
    BY <2>1, <2>2, <2>3, <2>4 DEF EventsOk
<1>3. ASSUME NEW e, e.kind # "message", ready' = Append(ready, e)
      PROVE  EventsOk' /\ \A m : Waits(ready', m) => Waits(ready, m)
  <2>1. /\ IsList(ready') /\ DOMAIN ready = 1..Len(ready) /\ DOMAIN ready' = 1..(Len(ready) + 1)
        /\ Len(ready) \in Nat
        /\ \A i \in 1..Len(ready) : ready'[i] = ready[i]
        /\ ready'[Len(ready) + 1] = e
    BY <1>3, ListAppend, ListDomain DEF EventsOk, IsList
  <2>2. \A i \in DOMAIN ready' : ready'[i].kind = "message" => i \in DOMAIN ready /\ ready'[i] = ready[i]
    BY <1>3, <2>1
  <2>3. QED
    BY <2>1, <2>2 DEF EventsOk, Waits
<1>4. QED
  BY <1>1, <1>2, <1>3 DEF NoPost

\* A step that leaves every copy where it counts keeps the relay.
LEMMA CountedStep ==
    ASSUME RelayInv, TaskShape', FewerJobs, NoPost, mail' = mail, BoxesOk',
           \A a \in Agents, m \in 1..MaxMail : Copies(a, m)' = Copies(a, m)
    PROVE  RelayInv' /\ CopiesStay
<1>1. EventsOk' /\ \A m : Waits(ready', m) => Waits(ready, m)
  BY NoPostKeeps DEF RelayInv
<1>2. JobsOk'
  BY <1>1 DEF RelayInv, JobsOk, FewerJobs
<1>3. \A a, m : Owed(a, m)' => Owed(a, m)
  BY <1>1 DEF Owed, Carried, Aimed, FewerJobs
<1>4. Fresh' /\ RelayedOnce' /\ CopiesStay
  BY <1>3 DEF RelayInv, Fresh, RelayedOnce, CopiesStay
<1>5. QED
  BY <1>1, <1>2, <1>4 DEF RelayInv

\* So does one that touches neither inboxes nor prompts.
LEMMA SilentStep ==
    ASSUME RelayInv, TaskShape', FewerJobs, NoPost, managed' \subseteq Agents,
           mail' = mail, inbox' = inbox, heard' = heard
    PROVE  RelayInv' /\ CopiesStay
<1>1. BoxesOk'
  BY DEF RelayInv, BoxesOk
<1>2. \A a, m : Copies(a, m)' = Copies(a, m)
  BY DEF Copies
<1>3. QED
  BY <1>1, <1>2, CountedStep

-----------------------------------------------------------------------------
(***************************************************************************)
(* A message that is sent: it is the last, nobody has a copy of it and     *)
(* nobody carries it.                                                      *)
(***************************************************************************)
Sends ==
    /\ Len(mail) < MaxMail /\ (\E x : mail' = Append(mail, x))
    /\ ready' = Append(ready, MessageEvent(Len(mail')))

\* The new message's event waits once.
LEMMA SendPosts ==
    ASSUME EventsOk, IsList(mail), Sends
    PROVE  /\ EventsOk' /\ IsList(mail') /\ Len(mail') = Len(mail) + 1
           /\ \A m : Waits(ready', m) => Waits(ready, m) \/ m = Len(mail')
<1>1. PICK x : mail' = Append(mail, x)
  BY DEF Sends
<1>2. IsList(mail') /\ Len(mail') = Len(mail) + 1 /\ Len(mail) \in Nat
  BY <1>1, ListAppend DEF IsList
<1> DEFINE n == Len(mail')
           e == MessageEvent(n)
<1>3. e.kind = "message" /\ e.msg = n
  BY DEF MessageEvent
<1>4. ready' = Append(ready, e)
  BY DEF Sends
<1> HIDE DEF e
<1>5. /\ IsList(ready') /\ DOMAIN ready = 1..Len(ready) /\ DOMAIN ready' = 1..(Len(ready) + 1)
      /\ Len(ready) \in Nat
      /\ \A i \in 1..Len(ready) : ready'[i] = ready[i]
      /\ ready'[Len(ready) + 1] = e
  BY <1>4, ListAppend, ListDomain DEF EventsOk, IsList
<1>6. \A i \in DOMAIN ready' :
          \/ i \in DOMAIN ready /\ ready'[i] = ready[i]
          \/ i = Len(ready) + 1 /\ ready'[i] = e
  BY <1>5
<1>7. \A i \in DOMAIN ready : ready[i].kind = "message" => ready[i].msg \in 1..Len(mail) /\ ready[i].msg # n
  BY <1>2 DEF EventsOk
<1>8. \A i \in DOMAIN ready' : ready'[i].kind = "message" => ready'[i].msg \in 1..n
  BY <1>2, <1>3, <1>6, <1>7
<1>9. ASSUME NEW i \in DOMAIN ready', NEW j \in DOMAIN ready', ready'[i].kind = "message",
             ready'[j].kind = "message", ready'[i].msg = ready'[j].msg
      PROVE  i = j
  BY <1>3, <1>6, <1>7, <1>9 DEF EventsOk
<1>10. \A m : Waits(ready', m) => Waits(ready, m) \/ m = n
  BY <1>3, <1>6 DEF Waits
<1>11. EventsOk'
  BY <1>5, <1>8, <1>9 DEF EventsOk
<1>12. QED
  BY <1>2, <1>10, <1>11

\* Sending keeps the relay: nobody has a copy of what was not sent.
LEMMA SendStep ==
    ASSUME RelayInv, TaskShape', FewerJobs, Sends, managed' \subseteq Agents,
           inbox' = inbox, heard' = heard
    PROVE  RelayInv' /\ CopiesStay
<1>1. /\ EventsOk' /\ IsList(mail') /\ Len(mail') = Len(mail) + 1
      /\ \A m : Waits(ready', m) => Waits(ready, m) \/ m = Len(mail')
  BY SendPosts DEF RelayInv, BoxesOk
<1>2. Len(mail) \in Nat /\ MaxMail \in Nat /\ Len(mail) < MaxMail
  BY RuntimeAssumption DEF RelayInv, BoxesOk, IsList, Sends
<1>3. JobsOk'
  <2>1. ASSUME NEW s \in Slots, task'[s].kind = "message"
        PROVE  /\ task'[s].msg \in 1..Len(mail') /\ ~Waits(ready', task'[s].msg)
               /\ task'[s].rest \in Seq(Agents)
               /\ \A i, j \in 1..Len(task'[s].rest) : task'[s].rest[i] = task'[s].rest[j] => i = j
    <3>1. task[s].kind = "message" /\ task'[s].msg = task[s].msg /\ task'[s].rest = task[s].rest
      BY <2>1 DEF FewerJobs
    <3>2. /\ task[s].msg \in 1..Len(mail) /\ ~Waits(ready, task[s].msg) /\ task[s].rest \in Seq(Agents)
          /\ \A i, j \in 1..Len(task[s].rest) : task[s].rest[i] = task[s].rest[j] => i = j
      BY <3>1 DEF RelayInv, JobsOk
    <3>3. QED
      BY <1>1, <1>2, <3>1, <3>2
  <2>2. \A s, q \in Slots :
            task'[s].kind = "message" /\ task'[q].kind = "message" /\ task'[s].msg = task'[q].msg => s = q
    BY DEF RelayInv, JobsOk, FewerJobs
  <2>3. QED
    BY <2>1, <2>2 DEF JobsOk
<1>4. BoxesOk'
  BY <1>1, <1>2 DEF RelayInv, BoxesOk
<1>5. \A a, m : Copies(a, m)' = Copies(a, m)
  BY DEF Copies
<1>6. \A a, m : m \in Nat /\ Owed(a, m)' => Owed(a, m)
  BY <1>1, <1>2 DEF Owed, Carried, Aimed, FewerJobs
<1>7. \A m \in 1..MaxMail : m \in Nat
  OBVIOUS
<1>8. Fresh' /\ RelayedOnce' /\ CopiesStay
  BY <1>5, <1>6, <1>7 DEF RelayInv, Fresh, RelayedOnce, CopiesStay
<1>9. QED
  BY <1>1, <1>3, <1>4, <1>8 DEF RelayInv

-----------------------------------------------------------------------------
(***************************************************************************)
(* A message whose event is begun goes over to the coroutine that relays   *)
(* it, each agent once.                                                    *)
(***************************************************************************)
LEMMA TargetsAreAgents == ASSUME managed \subseteq Agents, NEW x PROVE Targets(x) \subseteq Agents
BY DEF Targets, Everyone

\* An order of targets has each of them once.
LEMMA OrderOfTargets ==
    ASSUME NEW S, S \subseteq Agents, NEW order \in SetToSeqs(S)
    PROVE  /\ order \in Seq(Agents)
           /\ \A i, j \in 1..Len(order) : order[i] = order[j] => i = j
<1>1. IsFiniteSet(S)
  BY FS_Subset, RuntimeAssumption
<1>2. Cardinality(S) \in Nat
  BY <1>1, FS_CardinalityType
<1>3. /\ order \in [1..Cardinality(S) -> S]
      /\ \A i, j \in 1..Cardinality(S) : i # j => order[i] # order[j]
  BY DEF SetToSeqs
<1>4. order \in Seq(S) /\ Len(order) = Cardinality(S)
  BY <1>2, <1>3
<1>5. QED
  BY <1>3, <1>4

\* The message's event is gone, and a coroutine carries it instead.
LEMMA BeginStep ==
    ASSUME RelayInv, NEW s \in Slots,
           ready # <<>>, Head(ready).kind = "message", ready' = Tail(ready), BeginsMessage(s),
           managed' = managed, mail' = mail, inbox' = inbox, heard' = heard
    PROVE  RelayInv' /\ CopiesStay
<1>0. PICK m0 : m0 = Head(ready).msg
  OBVIOUS
<1>1. PICK x : /\ Becomes(s, x) /\ x.kind = "message" /\ x.msg = m0
               /\ x.rest \in SetToSeqs(Targets(mail[m0]))
  BY <1>0 DEF BeginsMessage
<1>2. /\ x.rest \in Seq(Agents)
      /\ \A i, j \in 1..Len(x.rest) : x.rest[i] = x.rest[j] => i = j
  BY <1>1, TargetsAreAgents, OrderOfTargets DEF RelayInv, BoxesOk
<1>3. EventsOk' /\ \A m : Waits(ready', m) => Waits(ready, m)
  BY NoPostKeeps DEF RelayInv, NoPost
<1>4. /\ IsList(ready) /\ DOMAIN ready = 1..Len(ready) /\ DOMAIN ready' = 1..(Len(ready) - 1)
      /\ Len(ready) \in Nat \ {0} /\ Head(ready) = ready[1]
      /\ \A i \in 1..(Len(ready) - 1) : ready'[i] = ready[i + 1] /\ i + 1 \in 1..Len(ready)
  BY ListTail, ListDomain DEF RelayInv, EventsOk
<1>5. Waits(ready, m0) /\ m0 \in 1..Len(mail) /\ ready[1].kind = "message" /\ ready[1].msg = m0
  BY <1>0, <1>4 DEF Waits, RelayInv, EventsOk
<1>6. ~Waits(ready', m0)
  <2>1. SUFFICES ASSUME NEW i \in DOMAIN ready', ready'[i].kind = "message", ready'[i].msg = m0
                 PROVE  FALSE
    BY DEF Waits
  <2>2. ready[i + 1].kind = "message" /\ ready[i + 1].msg = m0 /\ i + 1 \in DOMAIN ready
    BY <1>4, <2>1
  <2>3. i + 1 = 1 /\ i \in 1..(Len(ready) - 1)
    BY <1>4, <1>5, <2>2 DEF RelayInv, EventsOk
  <2>4. QED
    BY <2>3
<1>7. \A p \in Slots \ {s} : task'[p] = task[p]
  BY <1>1 DEF Becomes
<1>8. task'[s] = x /\ TaskShape'
  BY <1>1 DEF Becomes
<1>9. \A p \in Slots : task[p].kind = "message" => task[p].msg # m0
  BY <1>5 DEF RelayInv, JobsOk
<1>10. JobsOk'
  <2>1. ASSUME NEW p \in Slots, task'[p].kind = "message"
        PROVE  /\ task'[p].msg \in 1..Len(mail') /\ ~Waits(ready', task'[p].msg)
               /\ task'[p].rest \in Seq(Agents)
               /\ \A i, j \in 1..Len(task'[p].rest) : task'[p].rest[i] = task'[p].rest[j] => i = j
    <3>1. CASE p = s
      BY <1>1, <1>2, <1>5, <1>6, <1>8, <3>1
    <3>2. CASE p # s
      BY <1>3, <1>7, <2>1, <3>2 DEF RelayInv, JobsOk
    <3>3. QED
      BY <3>1, <3>2
  <2>2. ASSUME NEW p \in Slots, NEW q \in Slots, task'[p].kind = "message", task'[q].kind = "message",
               task'[p].msg = task'[q].msg
        PROVE  p = q
    BY <1>1, <1>7, <1>8, <1>9, <2>2 DEF RelayInv, JobsOk
  <2>3. QED
    BY <2>1, <2>2 DEF JobsOk
<1>11. BoxesOk'
  BY DEF RelayInv, BoxesOk
<1>12. \A a, m : Copies(a, m)' = Copies(a, m)
  BY DEF Copies
<1>13. ASSUME NEW a \in Agents, NEW m \in 1..MaxMail, Owed(a, m)' PROVE Owed(a, m)
  <2>1. CASE \E p \in Slots : Carried(p, m)' /\ Aimed(p, a)'
    <3>1. PICK p \in Slots : Carried(p, m)' /\ Aimed(p, a)'
      BY <2>1
    <3>2. CASE p = s
      BY <1>1, <1>5, <1>8, <3>1, <3>2 DEF Owed, Carried
    <3>3. CASE p # s
      BY <1>7, <3>1, <3>3 DEF Owed, Carried, Aimed
    <3>4. QED
      BY <3>2, <3>3
  <2>2. CASE m > Len(mail') \/ Waits(ready', m)
    BY <1>3, <2>2 DEF Owed
  <2>3. QED
    BY <1>13, <2>1, <2>2 DEF Owed
<1>14. Fresh' /\ RelayedOnce' /\ CopiesStay
  BY <1>12, <1>13 DEF RelayInv, Fresh, RelayedOnce, CopiesStay
<1>15. QED
  BY <1>3, <1>8, <1>10, <1>11, <1>14 DEF RelayInv

-----------------------------------------------------------------------------
(***************************************************************************)
(* The prompt of an invocation: its messages are heard by its agent.       *)
(***************************************************************************)
LEMMA InvokeHears ==
    ASSUME heard \in [Agents -> [1..MaxMail -> Nat]], NEW s, NEW r, NEW said, IsList(said),
           Invoke(s, r, said)
    PROVE  /\ heard' \in [Agents -> [1..MaxMail -> Nat]]
           /\ \A b \in Agents, m \in 1..MaxMail :
                 /\ b = r.agent => heard'[b][m] = heard[b][m] + Times(said, m)
                 /\ b # r.agent => heard'[b][m] = heard[b][m]
<1> DEFINE more(f) == [m \in DOMAIN f |-> f[m] + Times(said, m)]
<1>1. heard' = [heard EXCEPT ![r.agent] = more(heard[r.agent])]
  BY DEF Invoke
<1>2. ASSUME NEW f \in [1..MaxMail -> Nat]
      PROVE  /\ more(f) \in [1..MaxMail -> Nat]
             /\ \A m \in 1..MaxMail : more(f)[m] = f[m] + Times(said, m)
  <2>1. \A m : Times(said, m) \in Nat
    BY TimesIsNat
  <2>2. \A m \in 1..MaxMail : f[m] + Times(said, m) \in Nat
    BY <2>1
  <2>3. QED
    BY <2>2
<1> HIDE DEF more
<1>3. ASSUME NEW b \in Agents, b = r.agent
      PROVE  heard'[b] = more(heard[b])
  BY <1>1, <1>3
<1>4. ASSUME NEW b \in Agents, b # r.agent
      PROVE  heard'[b] = heard[b]
  BY <1>1, <1>4
<1>5. heard' \in [Agents -> [1..MaxMail -> Nat]]
  <2>1. heard' = [b \in Agents |-> heard'[b]]
    BY <1>1
  <2>2. \A b \in Agents : heard'[b] \in [1..MaxMail -> Nat]
    BY <1>2, <1>3, <1>4
  <2>3. QED
    BY <2>1, <2>2
<1>6. QED
  BY <1>2, <1>3, <1>4, <1>5

\* Functions that agree everywhere are the same.
LEMMA SameFunction ==
    ASSUME NEW S, NEW f \in [S -> Nat], NEW g \in [S -> Nat], \A x \in S : f[x] = g[x]
    PROVE  f = g
OBVIOUS

\* The same of counts of messages.
LEMMA SameCounts ==
    ASSUME NEW f \in [1..MaxMail -> Nat], NEW g \in [1..MaxMail -> Nat],
           \A m \in 1..MaxMail : f[m] = g[m]
    PROVE  f = g
BY SameFunction, Zenon

\* An invocation without messages lets nobody hear anything.
LEMMA InvokeSilent ==
    ASSUME heard \in [Agents -> [1..MaxMail -> Nat]], NEW s, NEW r, Invoke(s, r, <<>>)
    PROVE  heard' = heard
<1>1. /\ heard' \in [Agents -> [1..MaxMail -> Nat]]
      /\ \A b \in Agents, m \in 1..MaxMail :
            /\ b = r.agent => heard'[b][m] = heard[b][m] + Times(<<>>, m)
            /\ b # r.agent => heard'[b][m] = heard[b][m]
  BY EmptyIsList, InvokeHears
<1>2. \A b \in Agents : heard'[b] \in [1..MaxMail -> Nat] /\ heard[b] \in [1..MaxMail -> Nat]
  BY <1>1
<1>3. ASSUME NEW b \in Agents, NEW m \in 1..MaxMail
      PROVE  heard'[b][m] = heard[b][m]
  <2>1. heard[b][m] \in Nat /\ Times(<<>>, m) = 0
    BY TimesOfNone
  <2>2. CASE b = r.agent
    <3>1. heard'[b][m] = heard[b][m] + Times(<<>>, m)
      BY <1>1, <2>2
    <3>2. QED
      BY <2>1, <3>1
  <2>3. CASE b # r.agent
    BY <1>1, <2>3
  <2>4. QED
    BY <2>2, <2>3
<1>4. ASSUME NEW b \in Agents PROVE heard'[b] = heard[b]
  <2>1. PICK f \in [1..MaxMail -> Nat] : f = heard'[b]
    BY <1>2
  <2>2. PICK g \in [1..MaxMail -> Nat] : g = heard[b]
    BY <1>2
  <2>3. \A m \in 1..MaxMail : f[m] = g[m]
    BY <1>3, <2>1, <2>2
  <2>4. f = g
    BY <2>3, SameCounts
  <2>5. QED
    BY <2>1, <2>2, <2>4
<1>5. QED
  BY <1>1, <1>4

-----------------------------------------------------------------------------
(***************************************************************************)
(* A message that is relayed to the next of its targets: that agent gets   *)
(* its copy, and is no target of the message any more.                     *)
(***************************************************************************)
LEMMA GiveStep ==
    ASSUME RelayInv, NEW s \in Slots, TakesTarget(s), task[s].kind = "message", task[s].rest # <<>>,
           NEW c, c = Head(task[s].rest), NEW m0, m0 = task[s].msg,
           NoPost, mail' = mail, BoxesOk',
           \A b \in Agents, m \in 1..MaxMail :
              /\ b = c /\ m = m0 => Copies(b, m)' = Copies(b, m) + 1
              /\ ~(b = c /\ m = m0) => Copies(b, m)' = Copies(b, m)
    PROVE  RelayInv' /\ CopiesStay
<1>1. PICK x : Becomes(s, x) /\ x.kind = "message" /\ x.msg = m0 /\ x.rest = Tail(task[s].rest)
  BY DEF TakesTarget
<1>2. /\ m0 \in 1..Len(mail) /\ ~Waits(ready, m0) /\ task[s].rest \in Seq(Agents)
      /\ \A i, j \in 1..Len(task[s].rest) : task[s].rest[i] = task[s].rest[j] => i = j
  BY DEF RelayInv, JobsOk
<1>3. IsList(task[s].rest) /\ \A i \in 1..Len(task[s].rest) : task[s].rest[i] \in Agents
  BY <1>2, SeqIsList
<1> DEFINE n == Len(task[s].rest)
<1>4. /\ n \in Nat \ {0} /\ c = task[s].rest[1] /\ x.rest \in Seq(Agents) /\ Len(x.rest) = n - 1
      /\ \A i \in 1..(n - 1) : x.rest[i] = task[s].rest[i + 1] /\ i + 1 \in 1..n
  BY <1>1, <1>2, <1>3, ListTail
<1>5. c \in Agents /\ m0 \in 1..MaxMail
  <2>1. 1 \in 1..n
    BY <1>4
  <2>2. c \in Agents
    BY <1>3, <1>4, <2>1
  <2>3. Len(mail) \in Nat /\ Len(mail) <= MaxMail /\ MaxMail \in Nat
    BY RuntimeAssumption DEF RelayInv, BoxesOk, IsList
  <2>4. QED
    BY <1>2, <2>2, <2>3
<1>6. \A k \in 1..Len(x.rest) : x.rest[k] # c
  <2>1. SUFFICES ASSUME NEW k \in 1..(n - 1), x.rest[k] = c PROVE FALSE
    BY <1>4
  <2>2. task[s].rest[k + 1] = task[s].rest[1] /\ k + 1 \in 1..n /\ 1 \in 1..n
    BY <1>4, <2>1
  <2>3. k + 1 = 1
    BY <1>2, <2>2
  <2>4. QED
    BY <2>3
<1>7. \A i, j \in 1..Len(x.rest) : x.rest[i] = x.rest[j] => i = j
  <2>1. SUFFICES ASSUME NEW i \in 1..(n - 1), NEW j \in 1..(n - 1), x.rest[i] = x.rest[j] PROVE i = j
    BY <1>4
  <2>2. task[s].rest[i + 1] = task[s].rest[j + 1] /\ i + 1 \in 1..n /\ j + 1 \in 1..n
    BY <1>4, <2>1
  <2>3. i + 1 = j + 1
    BY <1>2, <2>2
  <2>4. QED
    BY <2>3
<1> HIDE DEF n
<1>8. task'[s] = x /\ TaskShape' /\ \A p \in Slots \ {s} : task'[p] = task[p]
  BY <1>1 DEF Becomes
<1>9. EventsOk' /\ \A m : Waits(ready', m) => Waits(ready, m)
  BY NoPostKeeps DEF RelayInv
<1>10. JobsOk'
  <2>1. ASSUME NEW p \in Slots, task'[p].kind = "message"
        PROVE  /\ task'[p].msg \in 1..Len(mail') /\ ~Waits(ready', task'[p].msg)
               /\ task'[p].rest \in Seq(Agents)
               /\ \A i, j \in 1..Len(task'[p].rest) : task'[p].rest[i] = task'[p].rest[j] => i = j
    <3>1. CASE p = s
      BY <1>1, <1>2, <1>4, <1>7, <1>8, <1>9, <3>1
    <3>2. CASE p # s
      BY <1>8, <1>9, <2>1, <3>2 DEF RelayInv, JobsOk
    <3>3. QED
      BY <3>1, <3>2
  <2>2. ASSUME NEW p \in Slots, NEW q \in Slots, task'[p].kind = "message", task'[q].kind = "message",
               task'[p].msg = task'[q].msg
        PROVE  p = q
    BY <1>1, <1>8, <2>2 DEF RelayInv, JobsOk
  <2>3. QED
    BY <2>1, <2>2 DEF JobsOk
<1>11. ASSUME NEW b \in Agents, NEW m \in 1..MaxMail, Owed(b, m)'
       PROVE  Owed(b, m) /\ ~(b = c /\ m = m0)
  <2>1. CASE m > Len(mail') \/ Waits(ready', m)
    BY <1>2, <1>9, <2>1 DEF Owed
  <2>2. CASE \E p \in Slots : Carried(p, m)' /\ Aimed(p, b)'
    <3>1. PICK p \in Slots : /\ task'[p].kind = "message" /\ task'[p].msg = m
                             /\ \E k \in 1..Len(task'[p].rest) : task'[p].rest[k] = b
      BY <2>2 DEF Carried, Aimed
    <3>2. CASE p # s
      <4>1. Carried(p, m) /\ Aimed(p, b)
        BY <1>8, <3>1, <3>2 DEF Carried, Aimed
      <4>2. m # m0
        BY <3>2, <4>1 DEF RelayInv, JobsOk, Carried
      <4>3. QED
        BY <4>1, <4>2 DEF Owed
    <3>3. CASE p = s
      <4>1. PICK k \in 1..Len(x.rest) : x.rest[k] = b
        BY <1>8, <3>1, <3>3
      <4>2. b # c
        BY <1>6, <4>1
      <4>3. k + 1 \in 1..Len(task[s].rest) /\ task[s].rest[k + 1] = b
        BY <1>4, <4>1 DEF n
      <4>4. Carried(s, m) /\ Aimed(s, b)
        BY <1>1, <1>8, <3>1, <3>3, <4>3 DEF Carried, Aimed
      <4>5. QED
        BY <4>2, <4>4 DEF Owed
    <3>4. QED
      BY <3>2, <3>3
  <2>3. QED
    BY <1>11, <2>1, <2>2 DEF Owed
<1>12. Copies(c, m0) = 0
  <2>1. Carried(s, m0) /\ Aimed(s, c)
    BY <1>4 DEF Carried, Aimed
  <2>2. QED
    BY <1>5, <2>1 DEF RelayInv, Fresh, Owed
<1>13. ASSUME NEW b \in Agents, NEW m \in 1..MaxMail
       PROVE  /\ Owed(b, m)' => Copies(b, m)' = 0
              /\ Copies(b, m)' <= 1
              /\ Copies(b, m) = 1 => Copies(b, m)' = 1
  <2>1. CASE b = c /\ m = m0
    BY <1>11, <1>12, <2>1
  <2>2. CASE ~(b = c /\ m = m0)
    <3>1. Copies(b, m)' = Copies(b, m)
      BY <2>2
    <3>2. (Owed(b, m) => Copies(b, m) = 0) /\ Copies(b, m) <= 1
      BY DEF RelayInv, Fresh, RelayedOnce
    <3>3. QED
      BY <1>11, <3>1, <3>2
  <2>3. QED
    BY <2>1, <2>2
<1>14. Fresh' /\ RelayedOnce' /\ CopiesStay
  BY <1>13 DEF Fresh, RelayedOnce, CopiesStay
<1>15. QED
  BY <1>8, <1>9, <1>10, <1>14 DEF RelayInv

\* One more message in an agent's inbox.
QueuedFor(c, m) == inbox' = [inbox EXCEPT ![c] = Append(@, m)]

\* The agent that has it queued has one copy more.
LEMMA QueuedBoxes ==
    ASSUME BoxesOk, NEW c \in Agents, NEW m0, QueuedFor(c, m0),
           mail' = mail, heard' = heard, managed' \subseteq Agents
    PROVE  /\ BoxesOk'
           /\ \A b \in Agents, m \in 1..MaxMail :
                 /\ b = c /\ m = m0 => Copies(b, m)' = Copies(b, m) + 1
                 /\ ~(b = c /\ m = m0) => Copies(b, m)' = Copies(b, m)
<1>1. IsList(inbox[c]) /\ inbox'[c] = Append(inbox[c], m0)
  BY DEF BoxesOk, QueuedFor
<1>2. \A b \in Agents : b # c => inbox'[b] = inbox[b]
  BY DEF BoxesOk, QueuedFor
<1>3. IsList(inbox'[c])
  BY <1>1, ListAppend
<1>4. inbox' = [a \in Agents |-> inbox'[a]]
  BY DEF BoxesOk, QueuedFor
<1>5. \A b \in Agents : IsList(inbox'[b])
  BY <1>2, <1>3 DEF BoxesOk
<1>6. BoxesOk'
  BY <1>4, <1>5 DEF BoxesOk
<1>7. ASSUME NEW b \in Agents, NEW m \in 1..MaxMail
      PROVE  /\ b = c /\ m = m0 => Copies(b, m)' = Copies(b, m) + 1
             /\ ~(b = c /\ m = m0) => Copies(b, m)' = Copies(b, m)
  <2>1. /\ Copies(b, m) = heard[b][m] + Times(inbox[b], m)
        /\ Copies(b, m)' = heard[b][m] + Times(inbox'[b], m)
    BY DEF Copies
  <2>2. heard[b][m] \in Nat /\ Times(inbox[b], m) \in Nat
    BY CopiesAreCounted
  <2>3. CASE b = c
    <3>1. Times(Append(inbox[c], m0), m) = Times(inbox[c], m) + IF m0 = m THEN 1 ELSE 0
      BY <1>1, TimesAppend
    <3>2. Times(inbox'[b], m) = Times(inbox[b], m) + IF m0 = m THEN 1 ELSE 0
      BY <1>1, <2>3, <3>1
    <3>3. CASE m = m0
      <4>1. Times(inbox'[b], m) = Times(inbox[b], m) + 1
        BY <3>2, <3>3
      <4>2. Copies(b, m)' = Copies(b, m) + 1
        BY <2>1, <2>2, <4>1
      <4>3. QED
        BY <2>3, <3>3, <4>2
    <3>4. CASE m # m0
      BY <2>1, <2>2, <3>2, <3>4
    <3>5. QED
      BY <3>3, <3>4
  <2>4. CASE b # c
    BY <1>2, <2>1, <2>4
  <2>5. QED
    BY <2>3, <2>4
<1>8. QED
  BY <1>6, <1>7

\* A message in the prompt of an invocation.
LEMMA HeardBoxes ==
    ASSUME BoxesOk, NEW m0, NEW s, NEW r, Invoke(s, r, <<m0>>),
           mail' = mail, inbox' = inbox, managed' \subseteq Agents
    PROVE  /\ BoxesOk'
           /\ \A b \in Agents, m \in 1..MaxMail :
                 /\ b = r.agent /\ m = m0 => Copies(b, m)' = Copies(b, m) + 1
                 /\ ~(b = r.agent /\ m = m0) => Copies(b, m)' = Copies(b, m)
<1>1. IsList(<<m0>>)
  BY DEF IsList
<1>2. /\ heard' \in [Agents -> [1..MaxMail -> Nat]]
      /\ \A b \in Agents, m \in 1..MaxMail :
            /\ b = r.agent => heard'[b][m] = heard[b][m] + Times(<<m0>>, m)
            /\ b # r.agent => heard'[b][m] = heard[b][m]
  BY <1>1, InvokeHears DEF BoxesOk
<1>3. BoxesOk'
  BY <1>2 DEF BoxesOk
<1>4. ASSUME NEW b \in Agents, NEW m \in 1..MaxMail
      PROVE  /\ b = r.agent /\ m = m0 => Copies(b, m)' = Copies(b, m) + 1
             /\ ~(b = r.agent /\ m = m0) => Copies(b, m)' = Copies(b, m)
  <2>1. /\ Copies(b, m) = heard[b][m] + Times(inbox[b], m)
        /\ Copies(b, m)' = heard'[b][m] + Times(inbox[b], m)
    BY DEF Copies
  <2>2. heard[b][m] \in Nat /\ Times(inbox[b], m) \in Nat
    BY CopiesAreCounted
  <2>3. Times(<<m0>>, m) = IF m0 = m THEN 1 ELSE 0
    BY TimesOfOne
  <2>4. CASE b = r.agent
    <3>1. heard'[b][m] = heard[b][m] + Times(<<m0>>, m)
      BY <1>2, <2>4
    <3>2. CASE m = m0
      BY <2>1, <2>2, <2>3, <2>4, <3>1, <3>2
    <3>3. CASE m # m0
      BY <2>1, <2>2, <2>3, <2>4, <3>1, <3>3
    <3>4. QED
      BY <3>2, <3>3
  <2>5. CASE b # r.agent
    BY <1>2, <2>1, <2>5
  <2>6. QED
    BY <2>4, <2>5
<1>5. QED
  BY <1>3, <1>4

\* Posting a spawn is posting no message.
LEMMA SpawnPostsNone == ASSUME NEW a, Spawn(a) PROVE NoPost /\ managed' = managed \cup {a}
<1>1. SpawnEvent(a).kind # "message"
  BY DEF SpawnEvent
<1>2. QED
  BY <1>1 DEF Spawn, Publish, NoPost, sessions

\* Relaying to the next target keeps the relay.
LEMMA TargetStep ==
    ASSUME RelayInv, NEW s \in Slots, Target(s)
    PROVE  RelayInv' /\ CopiesStay
<1> DEFINE r == task[s]
<1>1. PICK c : c = Head(r.rest)
  OBVIOUS
<1>2. PICK m0 : m0 = r.msg
  OBVIOUS
<1> DEFINE next == [r EXCEPT !.rest = Tail(@), !.agent = c, !.turn = "main"]
<1>3. r.kind = "message" /\ r.rest # <<>> /\ mail' = mail
  BY DEF Target
<1>4. TakesTarget(s)
  BY TargetTaken DEF RelayInv
<1>5. r.rest \in Seq(Agents)
  BY <1>3 DEF RelayInv, JobsOk
<1>6. c \in Agents
  BY <1>1, <1>3, <1>5
<1>7. managed' = managed \cup {c}
  BY <1>1, SpawnPostsNone DEF Target
<1>8. managed' \subseteq Agents
  BY <1>6, <1>7 DEF RelayInv, BoxesOk
<1>9. NoPost
  BY <1>1, SpawnPostsNone DEF Target, NoPost
<1>10. \/ QueuedFor(c, m0) /\ heard' = heard
       \/ Invoke(s, next, <<m0>>) /\ inbox' = inbox
  BY <1>1, <1>2 DEF Target, QueuedFor
<1>11. next.agent = c
  BY DEF RelayInv, TaskShape, IsTask, TaskFields
<1> HIDE DEF next
<1>12. /\ BoxesOk'
       /\ \A b \in Agents, m \in 1..MaxMail :
             /\ b = c /\ m = m0 => Copies(b, m)' = Copies(b, m) + 1
             /\ ~(b = c /\ m = m0) => Copies(b, m)' = Copies(b, m)
  <2>1. CASE QueuedFor(c, m0) /\ heard' = heard
    <3>1. BoxesOk
      BY DEF RelayInv
    <3>2. QED
      BY <1>3, <1>6, <1>8, <2>1, <3>1, QueuedBoxes
  <2>2. CASE Invoke(s, next, <<m0>>) /\ inbox' = inbox
    BY <1>3, <1>8, <1>11, <2>2, HeardBoxes DEF RelayInv
  <2>3. QED
    BY <1>10, <2>1, <2>2
<1>13. QED
  BY <1>1, <1>2, <1>3, <1>4, <1>9, <1>12, GiveStep

(***************************************************************************)
(* The inbox that is drained goes into the prompt as it is.                *)
(***************************************************************************)
LEMMA DrainStep ==
    ASSUME RelayInv, NEW s \in Slots, Drain(s)
    PROVE  RelayInv' /\ CopiesStay
<1> DEFINE r == task[s]
           next == [r EXCEPT !.turn = "drain"]
<1>1. TaskShape' /\ FewerJobs
  BY ContinueAlong, AlongIsFewer DEF RelayInv
<1>2. PICK c : c = r.agent
  OBVIOUS
<1>3. mail' = mail /\ managed' = managed /\ NoPost /\ inbox' = [inbox EXCEPT ![c] = <<>>]
  BY <1>2 DEF Drain, NoPost
<1>4. \/ inbox[c] = <<>> /\ heard' = heard
      \/ Invoke(s, next, inbox[c])
  BY <1>2 DEF Drain
<1>5. next.agent = c
  BY <1>2 DEF RelayInv, TaskShape, IsTask, TaskFields
<1> HIDE DEF next
<1>6. /\ inbox' = [a \in Agents |-> inbox'[a]]
      /\ \A b \in Agents : inbox'[b] = IF b = c THEN <<>> ELSE inbox[b]
  BY <1>3 DEF RelayInv, BoxesOk
<1>7. \A b \in Agents : IsList(inbox[b]) /\ IsList(inbox'[b])
  BY <1>6, EmptyIsList DEF RelayInv, BoxesOk
<1>8. CASE c \notin Agents
  <2>1. inbox' = inbox
    BY <1>6, <1>8 DEF RelayInv, BoxesOk
  <2>2. heard' = heard
    BY <1>4, <1>5, <1>8 DEF Invoke, RelayInv, BoxesOk
  <2>3. QED
    BY <1>1, <1>3, <2>1, <2>2, SilentStep DEF RelayInv, BoxesOk
<1>9. CASE c \in Agents
  <2>1. /\ heard' \in [Agents -> [1..MaxMail -> Nat]]
        /\ \A b \in Agents, m \in 1..MaxMail :
              /\ b = c => heard'[b][m] = heard[b][m] + Times(inbox[b], m)
              /\ b # c => heard'[b][m] = heard[b][m]
    <3>1. CASE inbox[c] = <<>> /\ heard' = heard
      <4>1. heard \in [Agents -> [1..MaxMail -> Nat]]
        BY DEF RelayInv, BoxesOk
      <4>2. \A b \in Agents, m \in 1..MaxMail : heard[b][m] \in Nat
        BY <4>1
      <4>3. \A m : Times(inbox[c], m) = 0
        BY <3>1, TimesOfNone
      <4>4. QED
        BY <3>1, <4>1, <4>2, <4>3
    <3>2. CASE Invoke(s, next, inbox[c])
      BY <1>5, <1>7, <1>9, <3>2, InvokeHears DEF RelayInv, BoxesOk
    <3>3. QED
      BY <1>4, <3>1, <3>2
  <2>2. BoxesOk'
    BY <1>3, <1>6, <1>7, <2>1 DEF RelayInv, BoxesOk
  <2>3. ASSUME NEW b \in Agents, NEW m \in 1..MaxMail PROVE Copies(b, m)' = Copies(b, m)
    <3>1. /\ Copies(b, m) = heard[b][m] + Times(inbox[b], m)
          /\ Copies(b, m)' = heard'[b][m] + Times(inbox'[b], m)
      BY DEF Copies
    <3>2. heard[b][m] \in Nat /\ Times(inbox[b], m) \in Nat
      BY CopiesAreCounted DEF RelayInv
    <3>3. CASE b = c
      <4>1. Times(inbox'[b], m) = 0
        BY <1>6, <3>3, TimesOfNone
      <4>2. QED
        BY <2>1, <3>1, <3>2, <3>3, <4>1
    <3>4. CASE b # c
      BY <1>6, <2>1, <3>1, <3>4
    <3>5. QED
      BY <3>3, <3>4
  <2>4. QED
    BY <1>1, <1>3, <2>2, <2>3, CountedStep
<1>10. QED
  BY <1>8, <1>9

-----------------------------------------------------------------------------
(***************************************************************************)
(* All the steps.  At the start nobody has a copy of anything.             *)
(***************************************************************************)
LEMMA RelayStarts == Init => RelayInv
<1> SUFFICES ASSUME Init PROVE RelayInv
  OBVIOUS
<1>1. TaskShape
  BY TurnStarts DEF TurnInv
<1>2. EventsOk
  BY EmptyIsList DEF Init, EventsOk
<1>3. JobsOk
  BY DEF Init, JobsOk, NoTask
<1>4. BoxesOk
  BY EmptyIsList, RuntimeAssumption DEF Init, BoxesOk
<1>5. \A a \in Agents, m \in 1..MaxMail : Copies(a, m) = 0
  BY TimesOfNone DEF Init, Copies
<1>6. QED
  BY <1>1, <1>2, <1>3, <1>4, <1>5 DEF RelayInv, Fresh, RelayedOnce

\* Nothing is relayed by what the API asks for, but a person's message is sent.
LEMMA AskRelays ==
    ASSUME RelayInv, Ask \/ HandleClose \/ ProcessDies
    PROVE  RelayInv' /\ CopiesStay
<1>1. UNCHANGED task /\ inbox' = inbox /\ heard' = heard
  <2>1. UNCHANGED task
    BY OthersKeepTasks
  <2>2. inbox' = inbox /\ heard' = heard
    BY DEF Ask, HandleClose, ProcessDies, UserMessage, Attach, PhaseChange, CloseThread
  <2>3. QED
    BY <2>1, <2>2
<1>2. TaskShape' /\ FewerJobs
  BY <1>1 DEF RelayInv, TaskShape, FewerJobs
<1>3. managed \subseteq Agents
  BY DEF RelayInv, BoxesOk
<1>4. ASSUME NEW to, UserMessage(to) PROVE RelayInv' /\ CopiesStay
  <2>1. Sends /\ managed' = managed
    BY <1>4 DEF UserMessage, Publish, Sends, sessions
  <2>2. QED
    BY <1>1, <1>2, <1>3, <2>1, SendStep
<1>5. ASSUME NEW a \in Agents, Attach(a) PROVE RelayInv' /\ CopiesStay
  <2>1. mail' = mail
    BY <1>5 DEF Attach
  <2>2. managed' = managed \cup {a} /\ NoPost
    <3>1. CASE Spawn(a)
      BY <3>1, SpawnPostsNone
    <3>2. CASE managed' = managed \cup {a} /\ ready' = ready
      BY <3>2 DEF NoPost
    <3>3. CASE managed' = managed \cup {a} /\ StartRecovery(a)
      <4>1. SpawnEvent(a).kind # "message"
        BY DEF SpawnEvent
      <4>2. QED
        BY <3>3, <4>1 DEF StartRecovery, Publish, NoPost
    <3>4. QED
      BY <1>5, <3>1, <3>2, <3>3 DEF Attach
  <2>3. QED
    BY <1>1, <1>2, <1>3, <2>1, <2>2, SilentStep
<1>6. CASE PhaseChange \/ CloseThread
  <2>1. PhaseEvent.kind # "message" /\ CloseEvent.kind # "message"
    BY DEF PhaseEvent, CloseEvent
  <2>2. NoPost /\ managed' = managed /\ mail' = mail
    BY <1>6, <2>1 DEF PhaseChange, CloseThread, Publish, NoPost, sessions
  <2>3. QED
    BY <1>1, <1>2, <1>3, <2>2, SilentStep
<1>7. CASE HandleClose \/ ProcessDies
  <2>1. NoPost /\ managed' \subseteq Agents /\ mail' = mail
    BY <1>3, <1>7 DEF HandleClose, ProcessDies, NoPost, sessions
  <2>2. QED
    BY <1>1, <1>2, <2>1, SilentStep
<1>8. QED
  BY <1>4, <1>5, <1>6, <1>7 DEF Ask

\* A coroutine that begins relays nothing yet.
LEMMA BeginRelays ==
    ASSUME RelayInv, NEW s \in Slots, Begin(s)
    PROVE  RelayInv' /\ CopiesStay
<1>1. /\ TaskShape /\ managed \subseteq Agents
      /\ heard \in [Agents -> [1..MaxMail -> Nat]]
  BY DEF RelayInv, BoxesOk
<1>2. CASE BeginMessage(s)
  <2>1. /\ ready # <<>> /\ Head(ready).kind = "message" /\ ready' = Tail(ready)
        /\ managed' = managed /\ mail' = mail /\ inbox' = inbox /\ heard' = heard
    BY <1>2 DEF BeginMessage, sessions
  <2>2. CASE UNCHANGED task
    <3>1. TaskShape' /\ FewerJobs
      BY <1>1, <2>2, AlongIsFewer
    <3>2. NoPost
      BY <2>1 DEF NoPost
    <3>3. QED
      BY <1>1, <2>1, <3>1, <3>2, SilentStep
  <2>3. CASE BeginsMessage(s)
    BY <2>1, <2>3, BeginStep
  <2>4. QED
    BY <1>1, <1>2, <2>2, <2>3, MessageBegins
<1>3. CASE BeginPhase(s)
  <2>1. TaskShape' /\ FewerJobs
    BY <1>1, <1>3, BeginAlong, AlongIsFewer
  <2>2. NoPost /\ managed' = managed /\ mail' = mail /\ inbox' = inbox /\ heard' = heard
    BY <1>3 DEF BeginPhase, NoPost, sessions
  <2>3. QED
    BY <1>1, <2>1, <2>2, SilentStep
<1>4. CASE BeginSpawn(s)
  <2>1. TaskShape' /\ FewerJobs
    BY <1>1, <1>4, BeginAlong, AlongIsFewer
  <2>2. NoPost /\ managed' = managed /\ mail' = mail /\ inbox' = inbox
    BY <1>4 DEF BeginSpawn, NoPost, sessions
  <2>3. heard' = heard
    <3>1. heard' = heard \/ \E r : Invoke(s, r, <<>>)
      BY <1>4 DEF BeginSpawn
    <3>2. QED
      BY <1>1, <3>1, InvokeSilent
  <2>4. QED
    BY <1>1, <2>1, <2>2, <2>3, SilentStep
<1>5. QED
  BY <1>2, <1>3, <1>4 DEF Begin

\* Neither does one that ends its turn, or takes the lock.
LEMMA OutcomeRelays ==
    ASSUME RelayInv, NEW s \in Slots, Outcome(s) \/ Acquire(s)
    PROVE  RelayInv' /\ CopiesStay
<1>1. TaskShape' /\ FewerJobs
  BY OutcomeAlong, AcquireAlong, AlongIsFewer DEF RelayInv
<1>2. CASE Acquire(s)
  BY <1>1, <1>2, SilentStep DEF Acquire, sessions, NoPost, RelayInv, BoxesOk
<1>3. CASE Outcome(s)
  <2>1. mail' = mail /\ inbox' = inbox /\ heard' = heard /\ ready' = ready
    BY <1>3 DEF Outcome, Started, ConnectFails, ReadOk, LiveFails, SubprocessOk, SubprocessFails,
                SubprocessTimesOut, Unchanged
  <2>2. managed' \subseteq managed
    BY <1>3 DEF Outcome, Started, ConnectFails, ReadOk, LiveFails, SubprocessOk, SubprocessFails,
                SubprocessTimesOut, Unchanged
  <2>3. QED
    BY <1>1, <2>1, <2>2, SilentStep DEF NoPost, RelayInv, BoxesOk
<1>4. QED
  BY <1>2, <1>3

\* A coroutine that goes on relays a message, drains an inbox, or sends an answer.
LEMMA ContinueRelays ==
    ASSUME RelayInv, NEW s \in Slots, Continue(s)
    PROVE  RelayInv' /\ CopiesStay
<1>1. /\ TaskShape /\ managed \subseteq Agents
      /\ heard \in [Agents -> [1..MaxMail -> Nat]]
  BY DEF RelayInv, BoxesOk
<1>2. CASE PhaseTarget(s) \/ NoTargetLeft(s) \/ Connected(s)
  <2>1. TaskShape' /\ FewerJobs
    BY <1>1, <1>2, ContinueAlong, AlongIsFewer
  <2>2. mail' = mail /\ inbox' = inbox /\ ready' = ready /\ managed' = managed
    BY <1>2 DEF PhaseTarget, NoTargetLeft, Connected, Unchanged, sessions
  <2>3. heard' = heard \/ \E r : Invoke(s, r, <<>>)
    BY <1>2 DEF PhaseTarget, NoTargetLeft, Connected, Unchanged
  <2>4. heard' = heard
    BY <1>1, <2>3, InvokeSilent
  <2>5. QED
    BY <1>1, <2>1, <2>2, <2>4, SilentStep DEF NoPost
<1>3. CASE Resume(s)
  <2>1. TaskShape' /\ FewerJobs
    BY <1>1, <1>3, ContinueAlong, AlongIsFewer
  <2>2. inbox' = inbox /\ heard' = heard /\ managed' \subseteq Agents
    BY <1>1, <1>3 DEF Resume
  <2>3. CASE mail' = mail /\ ready' = ready
    BY <2>1, <2>2, <2>3, SilentStep DEF NoPost
  <2>4. CASE Sends
    BY <2>1, <2>2, <2>4, SendStep
  <2>5. QED
    BY <1>3, <2>3, <2>4 DEF Resume, Answered, Publish, Sends
<1>4. QED
  BY <1>2, <1>3, TargetStep, DrainStep DEF Continue

\* Every step keeps the relay, and the copies.
LEMMA RelaySteps == RelayInv /\ [Next]_vars => RelayInv' /\ CopiesStay
<1> SUFFICES ASSUME RelayInv, [Next]_vars PROVE RelayInv' /\ CopiesStay
  OBVIOUS
<1>1. CASE UNCHANGED vars
  <2>1. TaskShape' /\ FewerJobs
    BY <1>1 DEF RelayInv, vars, TaskShape, FewerJobs
  <2>2. QED
    BY <1>1, <2>1, SilentStep DEF RelayInv, BoxesOk, vars, sessions, NoPost
<1>2. CASE Ask \/ HandleClose \/ ProcessDies
  BY <1>2, AskRelays
<1>3. ASSUME NEW s \in Slots, Scheduled(s) PROVE RelayInv' /\ CopiesStay
  BY <1>3, BeginRelays, ContinueRelays, OutcomeRelays DEF Scheduled
<1>4. QED
  BY <1>1, <1>2, <1>3 DEF Next

(***************************************************************************)
(* RelayKept: an agent has at most one copy of a message, queued or in a   *)
(* prompt, and the copy it has is not dropped: through spawns, drains,     *)
(* recoveries, timeouts and the close, with any number of coroutines,      *)
(* agents and messages.                                                    *)
(***************************************************************************)
THEOREM RelayedOnceAndKept == Spec => RelayKept
<1>1. RelayInv => RelayedOnce
  BY DEF RelayInv
<1>2. CopiesStay => [\A a \in Agents, m \in 1..MaxMail : Copies(a, m) = 1 => Copies(a, m)' = 1]_vars
  BY DEF CopiesStay
<1>3. QED
  BY <1>1, <1>2, RelayStarts, RelaySteps, PTL DEF Spec, RelayKept

-----------------------------------------------------------------------------
(***************************************************************************)
(* A message queued during a turn.  The coroutine of the turn stays on its *)
(* way to the inbox it will drain.                                         *)
(***************************************************************************)
LEMMA TurnGoesOn ==
    ASSUME TaskShape, NEW s \in Slots, NEW a, Draining(s, a), NEW p \in InTurn \cup {"ended", "drain"},
           \/ Goto(s, [task[s] EXCEPT !.pc = p])
           \/ Goto(s, [task[s] EXCEPT !.pc = p, !.ad = 0])
           \/ \E ok : Goto(s, [task[s] EXCEPT !.pc = p, !.ok = ok, !.ad = 0])
    PROVE  Draining(s, a)'
<1>1. IsTask(task[s]) /\ task = [q \in Slots |-> task[q]]
  BY DEF TaskShape
<1>2. CASE Goto(s, [task[s] EXCEPT !.pc = p])
  <2>1. task'[s] = [task[s] EXCEPT !.pc = p]
    BY <1>1, <1>2 DEF Goto
  <2>2. QED
    BY <1>1, <2>1 DEF IsTask, TaskFields, Draining
<1>3. CASE Goto(s, [task[s] EXCEPT !.pc = p, !.ad = 0])
  <2>1. task'[s] = [task[s] EXCEPT !.pc = p, !.ad = 0]
    BY <1>1, <1>3 DEF Goto
  <2>2. QED
    BY <1>1, <2>1 DEF IsTask, TaskFields, Draining
<1>4. ASSUME NEW ok, Goto(s, [task[s] EXCEPT !.pc = p, !.ok = ok, !.ad = 0])
      PROVE  Draining(s, a)'
  <2>1. task'[s] = [task[s] EXCEPT !.pc = p, !.ok = ok, !.ad = 0]
    BY <1>1, <1>4 DEF Goto
  <2>2. QED
    BY <1>1, <2>1 DEF IsTask, TaskFields, Draining
<1>5. QED
  BY <1>2, <1>3, <1>4

\* An outcome of the turn leads on, to a second try, or to the end of the turn; a timeout breaks off.
LEMMA OutcomeGoesOn ==
    ASSUME TaskShape, NEW s \in Slots, NEW a, Draining(s, a), Outcome(s)
    PROVE  Draining(s, a)' \/ broken'
<1>1. task[s].pc # "connect"
  BY DEF Draining, InTurn
<1>2. CASE Started(s)
  <2>1. Goto(s, [task[s] EXCEPT !.pc = "read"])
    BY <1>1, <1>2 DEF Started
  <2>2. QED
    BY <2>1, TurnGoesOn DEF InTurn
<1>3. CASE ConnectFails(s)
  BY <1>1, <1>3 DEF ConnectFails, Suspended
<1>4. ASSUME NEW ok, EndTurn(s, ok) PROVE Draining(s, a)'
  BY <1>4, TurnGoesOn DEF EndTurn
<1>5. CASE ReadOk(s) \/ SubprocessOk(s)
  BY <1>4, <1>5 DEF ReadOk, SubprocessOk
<1>6. CASE LiveFails(s)
  <2>1. Goto(s, [task[s] EXCEPT !.pc = "sub", !.ad = 0]) \/ EndTurn(s, FALSE)
    BY <1>6 DEF LiveFails
  <2>2. QED
    BY <1>4, <2>1, TurnGoesOn DEF InTurn
<1>7. CASE SubprocessFails(s)
  <2>1. Goto(s, [task[s] EXCEPT !.pc = "fresh"]) \/ EndTurn(s, FALSE)
    BY <1>7 DEF SubprocessFails
  <2>2. QED
    BY <1>4, <2>1, TurnGoesOn DEF InTurn
<1>8. CASE SubprocessTimesOut(s)
  BY <1>8 DEF SubprocessTimesOut
<1>9. QED
  BY <1>2, <1>3, <1>5, <1>6, <1>7, <1>8 DEF Outcome

\* A step of the coroutine itself leads on, or it drains the inbox.
LEMMA DrainingGoesOn ==
    ASSUME TaskShape, BoxesOk, NEW s \in Slots, NEW a \in Agents, Draining(s, a), Scheduled(s)
    PROVE  Draining(s, a)' \/ broken' \/ inbox'[a] = <<>>
<1>1. /\ task[s].agent = a /\ task[s].kind = "message" /\ task[s].turn = "main"
      /\ task[s].pc \in {"start", "read", "sub", "fresh", "ended", "drain"}
  BY DEF Draining, InTurn
<1>2. ~Begin(s) /\ ~Acquire(s)
  <2>1. NoTask.pc = "idle"
    BY DEF NoTask
  <2>2. ~Free(s) /\ ~Suspended(s, "lock")
    BY <1>1, <2>1 DEF Free, Suspended
  <2>3. QED
    BY <2>2 DEF Begin, BeginMessage, BeginPhase, BeginSpawn, Acquire
<1>3. CASE Outcome(s)
  BY <1>3, OutcomeGoesOn
<1>4. CASE Resume(s)
  <2>1. Goto(s, [task[s] EXCEPT !.pc = "drain"])
    BY <1>1, <1>4 DEF Resume
  <2>2. QED
    BY <2>1, TurnGoesOn
<1>5. CASE Drain(s)
  <2>1. inbox' = [inbox EXCEPT ![a] = <<>>] /\ inbox = [b \in Agents |-> inbox[b]]
    BY <1>1, <1>5 DEF Drain, BoxesOk
  <2>2. QED
    BY <2>1
<1>6. ~Target(s) /\ ~PhaseTarget(s) /\ ~NoTargetLeft(s) /\ ~Connected(s)
  BY <1>1 DEF Target, PhaseTarget, NoTargetLeft, Connected, Runs
<1>7. QED
  BY <1>2, <1>3, <1>4, <1>5, <1>6 DEF Scheduled, Continue

\* So does a step of anybody else.
LEMMA DrainingStays ==
    ASSUME RelayInv, [Next]_vars, NEW s \in Slots, NEW a \in Agents, Draining(s, a)
    PROVE  Draining(s, a)' \/ broken' \/ inbox'[a] = <<>>
<1>1. TaskShape /\ BoxesOk
  BY DEF RelayInv
<1>2. CASE task'[s] = task[s]
  BY <1>2 DEF Draining
<1>3. CASE UNCHANGED vars \/ Ask \/ HandleClose \/ ProcessDies
  BY <1>2, <1>3, OthersKeepTasks DEF vars
<1>4. ASSUME NEW q \in Slots, Scheduled(q), q # s PROVE task'[s] = task[s]
  BY <1>1, <1>4, ScheduledAlong DEF Becomes
<1>5. QED
  BY <1>1, <1>2, <1>3, <1>4, DrainingGoesOn DEF Next

\* A message in a list counts.
LEMMA TimesOfSome ==
    ASSUME NEW q, IsList(q), NEW m
    PROVE  Times(q, m) = 0 <=> ~Contains(q, m)
<1> DEFINE at == {i \in DOMAIN q : q[i] = m}
<1>1. DOMAIN q = 1..Len(q) /\ Len(q) \in Nat
  BY ListDomain DEF IsList
<1>2. IsFiniteSet(at)
  <2>1. IsFiniteSet(1..Len(q)) /\ at \subseteq 1..Len(q)
    BY <1>1, FS_Interval
  <2>2. QED
    BY <2>1, FS_Subset
<1>3. Cardinality(at) = 0 <=> at = {}
  BY <1>2, FS_EmptySet
<1>4. Times(q, m) = Cardinality(at)
  BY DEF Times
<1>5. at = {} <=> ~Contains(q, m)
  BY <1>1 DEF Contains
<1>6. QED
  BY <1>3, <1>4, <1>5

\* Every step leaves a queued message on its way, or takes it along.
LEMMA WayStep == RelayInv /\ [Next]_vars => StaysOnItsWay
<1> SUFFICES ASSUME RelayInv, [Next]_vars, NEW a \in Agents, NEW m \in 1..MaxMail, OnItsWay(a, m)
             PROVE  OnItsWay(a, m)' \/ heard'[a][m] = 1 \/ broken'
  BY DEF StaysOnItsWay
<1>1. RelayInv' /\ CopiesStay
  BY RelaySteps
<1>2. PICK s \in Slots : Draining(s, a)
  BY DEF OnItsWay
<1>3. Draining(s, a)' \/ broken' \/ inbox'[a] = <<>>
  BY <1>2, DrainingStays
<1>4. Copies(a, m) = 1
  <2>1. Times(inbox[a], m) # 0
    BY TimesOfSome DEF OnItsWay, RelayInv, BoxesOk
  <2>2. Copies(a, m) = heard[a][m] + Times(inbox[a], m) /\ Copies(a, m) <= 1
    BY DEF Copies, RelayInv, RelayedOnce
  <2>3. heard[a][m] \in Nat /\ Times(inbox[a], m) \in Nat
    BY CopiesAreCounted DEF RelayInv
  <2>4. QED
    BY <2>1, <2>2, <2>3
<1>5. heard'[a][m] + Times(inbox'[a], m) = 1
  BY <1>1, <1>4 DEF CopiesStay, Copies
<1>6. ASSUME ~Contains(inbox'[a], m) PROVE heard'[a][m] = 1
  <2>1. IsList(inbox'[a]) /\ heard'[a][m] \in Nat
    BY <1>1 DEF RelayInv, BoxesOk
  <2>2. Times(inbox'[a], m) = 0
    BY <1>6, <2>1, TimesOfSome
  <2>3. QED
    BY <1>5, <2>1, <2>2
<1>7. CASE inbox'[a] = <<>>
  <2>1. ~Contains(inbox'[a], m)
    BY <1>7 DEF Contains
  <2>2. QED
    BY <1>6, <2>1
<1>8. CASE Draining(s, a)'
  BY <1>6, <1>8 DEF OnItsWay
<1>9. QED
  BY <1>3, <1>7, <1>8

(***************************************************************************)
(* The safety half of QueuedIsHeard: while the turn goes on, fails, is     *)
(* tried again or ends, with any number of messages, agents and            *)
(* coroutines, a message queued meanwhile has somebody who will drain it.  *)
(***************************************************************************)
THEOREM QueuedIsOnItsWay == Spec => [][StaysOnItsWay]_vars
BY RelayStarts, RelaySteps, WayStep, PTL DEF Spec

-----------------------------------------------------------------------------
(***************************************************************************)
(* Recoveries.  What a coroutine does to a session: it keeps it, makes a   *)
(* new one, settles it, or notes the session of the provider.              *)
(***************************************************************************)
SessionFields == {"gen", "mode", "attempts", "pending", "error", "boot", "sid"}

IsSession(z) == DOMAIN z = SessionFields /\ z = [x \in SessionFields |-> z[x]]

SessionShape == session = [a \in Agents |-> session[a]] /\ \A a \in Agents : IsSession(session[a])

\* A recovery that is pending afterwards was pending before, of the same session.
Settles(a) ==
    session'[a].pending => /\ session[a].pending /\ session'[a].gen = session[a].gen
                           /\ session'[a].boot = session[a].boot

SessionsSettle == SessionShape' /\ \A a \in Agents : Settles(a)

\* Sessions that stay.
LEMMA SameSessions == ASSUME SessionShape, session' = session PROVE SessionsSettle
BY DEF SessionShape, SessionsSettle, Settles

\* One session becomes y.
LEMMA OneSession ==
    ASSUME SessionShape, NEW a, NEW y, session' = [session EXCEPT ![a] = y],
           a \in Agents => IsSession(y) /\ (y = session[a] \/ ~y.pending)
    PROVE  SessionsSettle
<1>1. \A b \in Agents : session'[b] = IF b = a THEN y ELSE session[b]
  BY DEF SessionShape
<1>2. SessionShape'
  BY <1>1 DEF SessionShape
<1>3. QED
  BY <1>1, <1>2 DEF SessionsSettle, Settles

\* A new session has no recovery.
LEMMA NewIsSession == ASSUME NEW a, NEW b PROVE IsSession(NewSession(a, b)) /\ ~NewSession(a, b).pending
BY DEF IsSession, SessionFields, NewSession, NoSession

\* An invocation keeps the session there is, or makes one.
LEMMA InvokeSettles ==
    ASSUME SessionShape, NEW s, NEW r, NEW said, Invoke(s, r, said)
    PROVE  SessionsSettle
<1> DEFINE a == r.agent
           z == IF session[a] = NoSession THEN NewSession(a, FALSE) ELSE session[a]
<1>1. session' = [session EXCEPT ![a] = z]
  BY DEF Invoke
<1>2. a \in Agents => IsSession(z) /\ (z = session[a] \/ ~z.pending)
  BY NewIsSession DEF SessionShape
<1> HIDE DEF a, z
<1>3. QED
  BY <1>1, <1>2, OneSession

\* A spawn makes one for an agent that is not managed.
LEMMA SpawnSettles == ASSUME SessionShape, NEW a, Spawn(a) PROVE SessionsSettle
<1>1. session' = session \/ session' = [session EXCEPT ![a] = NewSession(a, TRUE)]
  BY DEF Spawn, sessions
<1>2. QED
  BY <1>1, SameSessions, NewIsSession, OneSession

\* The turn changes the session z it has into y.
Turns(s, z, y) ==
    /\ z \in Held(task[s].agent, task[s].gen)
    /\ Write(task[s].agent, task[s].gen, y)
    /\ IsSession(z) => IsSession(y)

\* Of the sessions, that changes the one the coroutine has, if it is still there.
LEMMA TurnsOne ==
    ASSUME SessionShape, NEW s, NEW z, NEW y, Turns(s, z, y)
    PROVE  /\ SessionShape'
           /\ \A a \in Agents :
                 \/ session'[a] = session[a] /\ (a # task[s].agent \/ session[a].gen # task[s].gen)
                 \/ a = task[s].agent /\ z = session[a] /\ session'[a] = y
<1> DEFINE c == task[s].agent
           g == task[s].gen
<1>1. CASE session[c].gen = g
  <2>1. z = session[c] /\ session' = [session EXCEPT ![c] = y]
    BY <1>1 DEF Turns, Held, Write
  <2>2. \A a \in Agents : session'[a] = IF a = c THEN y ELSE session[a]
    BY <2>1 DEF SessionShape
  <2>3. SessionShape'
    BY <2>1, <2>2 DEF SessionShape, Turns
  <2>4. QED
    BY <2>1, <2>2, <2>3
<1>2. CASE session[c].gen # g
  <2>1. session' = session
    BY <1>2 DEF Turns, Write
  <2>2. QED
    BY <1>2, <2>1 DEF SessionShape
<1>3. QED
  BY <1>1, <1>2

\* An outcome either leaves the recovery where it is or settles it.
TurnsOn(s) == \E z, y : Turns(s, z, y) /\ \E b : y = [z EXCEPT !.sid = b]

Ends(s) == \E z, y : Turns(s, z, y) /\ (IsSession(z) => ~y.pending)

\* A recovery that succeeded, or failed, is not pending.
LEMMA SettledIsSession ==
    ASSUME NEW z, IsSession(z)
    PROVE  /\ IsSession(RecoverySucceeded(z)) /\ ~RecoverySucceeded(z).pending
           /\ IsSession(RecoveryFailed(z)) /\ ~RecoveryFailed(z).pending
<1>1. IsSession(RecoverySucceeded(z))
  BY DEF IsSession, SessionFields, RecoverySucceeded
<1>2. ~RecoverySucceeded(z).pending
  BY DEF IsSession, SessionFields, RecoverySucceeded
<1>3. IsSession(RecoveryFailed(z)) /\ ~RecoveryFailed(z).pending
  BY DEF IsSession, SessionFields, RecoveryFailed
<1>4. QED
  BY <1>1, <1>2, <1>3

\* Noting whether there was an error, and the provider's session.
LEMMA NotedIsSession ==
    ASSUME NEW z, IsSession(z), NEW e, NEW b
    PROVE  /\ IsSession([z EXCEPT !.error = e]) /\ [z EXCEPT !.error = e].pending = z.pending
           /\ IsSession([z EXCEPT !.sid = b])
           /\ IsSession([z EXCEPT !.error = e, !.sid = b])
<1>1. IsSession([z EXCEPT !.error = e]) /\ [z EXCEPT !.error = e].pending = z.pending
  BY DEF IsSession, SessionFields
<1>2. IsSession([z EXCEPT !.sid = b])
  BY DEF IsSession, SessionFields
<1>3. IsSession([z EXCEPT !.error = e, !.sid = b])
  BY DEF IsSession, SessionFields
<1>4. QED
  BY <1>1, <1>2, <1>3

\* Leaving it or settling it, no recovery begins.
LEMMA TurnsSettle == ASSUME SessionShape, NEW s, TurnsOn(s) \/ Ends(s) PROVE SessionsSettle
<1>1. CASE TurnsOn(s)
  <2>1. PICK z, y, b : Turns(s, z, y) /\ y = [z EXCEPT !.sid = b]
    BY <1>1 DEF TurnsOn
  <2>2. IsSession(z) => y.pending = z.pending /\ y.gen = z.gen /\ y.boot = z.boot
    BY <2>1 DEF IsSession, SessionFields
  <2>3. /\ SessionShape'
        /\ \A a \in Agents : session'[a] = session[a] \/ (z = session[a] /\ session'[a] = y)
    BY <2>1, TurnsOne
  <2>4. QED
    BY <2>2, <2>3 DEF SessionShape, SessionsSettle, Settles
<1>2. CASE Ends(s)
  <2>1. PICK z, y : Turns(s, z, y) /\ (IsSession(z) => ~y.pending)
    BY <1>2 DEF Ends
  <2>2. /\ SessionShape'
        /\ \A a \in Agents : session'[a] = session[a] \/ (z = session[a] /\ session'[a] = y)
    BY <2>1, TurnsOne
  <2>3. QED
    BY <2>1, <2>2 DEF SessionShape, SessionsSettle, Settles
<1>3. QED
  BY <1>1, <1>2

\* The coroutine that settles it leaves its session without a pending recovery.
LEMMA EndsTheRecovery ==
    ASSUME SessionShape, NEW s, Ends(s), NEW a \in Agents,
           task[s].agent = a, task[s].gen = session[a].gen
    PROVE  ~session'[a].pending
<1>1. PICK z, y : Turns(s, z, y) /\ (IsSession(z) => ~y.pending)
  BY DEF Ends
<1>2. z = session[a] /\ session'[a] = y
  BY <1>1, TurnsOne
<1>3. QED
  BY <1>1, <1>2 DEF SessionShape

-----------------------------------------------------------------------------
(***************************************************************************)
(* Each step of a coroutine, by what it does to the session.               *)
(***************************************************************************)
LEMMA StartedTurnsOn == ASSUME NEW s, Started(s) PROVE TurnsOn(s)
<1>1. PICK z \in Held(task[s].agent, task[s].gen) :
         Write(task[s].agent, task[s].gen, [z EXCEPT !.sid = TRUE])
  BY DEF Started, Update
<1>2. Turns(s, z, [z EXCEPT !.sid = TRUE])
  BY <1>1, NotedIsSession DEF Turns
<1>3. QED
  BY <1>2 DEF TurnsOn

\* A turn or a connection that succeeds settles the recovery.
LEMMA SuccessEnds ==
    ASSUME NEW s, Connected(s) \/ ReadOk(s) \/ SubprocessOk(s)
    PROVE  Ends(s)
<1> DEFINE a == task[s].agent
           g == task[s].gen
<1>1. CASE Connected(s)
  <2>1. PICK z \in Held(a, g) : Write(a, g, RecoverySucceeded([z EXCEPT !.error = FALSE]))
    BY <1>1 DEF Connected, Update
  <2>2. QED
    BY <2>1, NotedIsSession, SettledIsSession DEF Ends, Turns
<1>2. CASE ReadOk(s)
  <2>1. PICK z \in Held(a, g) : Write(a, g, RecoverySucceeded([z EXCEPT !.error = FALSE, !.sid = TRUE]))
    BY <1>2 DEF ReadOk, Update
  <2>2. QED
    BY <2>1, NotedIsSession, SettledIsSession DEF Ends, Turns
<1>3. CASE SubprocessOk(s)
  <2>1. PICK z \in Held(a, g) : Write(a, g, RecoverySucceeded([z EXCEPT !.sid = TRUE]))
    BY <1>3 DEF SubprocessOk, Update
  <2>2. QED
    BY <2>1, NotedIsSession, SettledIsSession DEF Ends, Turns
<1>4. QED
  BY <1>1, <1>2, <1>3

\* So does one that fails, but for a second try.
LEMMA FailureEnds ==
    ASSUME NEW s, ConnectFails(s) \/ LiveFails(s) \/ SubprocessFails(s)
    PROVE  Ends(s) \/ (SubprocessFails(s) /\ TurnsOn(s))
<1> DEFINE a == task[s].agent
           g == task[s].gen
<1>1. ASSUME NEW z \in Held(a, g), Write(a, g, RecoveryFailed([z EXCEPT !.error = TRUE]))
      PROVE  Ends(s)
  BY <1>1, NotedIsSession, SettledIsSession DEF Ends, Turns
<1>2. CASE ConnectFails(s)
  <2>1. \E z \in Held(a, g) : Write(a, g, RecoveryFailed([z EXCEPT !.error = TRUE]))
    BY <1>2 DEF ConnectFails, Update
  <2>2. QED
    BY <1>1, <2>1
<1>3. CASE LiveFails(s)
  <2>1. CASE AutoFallback
    <3>1. PICK z \in Held(a, g) :
             Write(a, g, [RecoveryFailed(z) EXCEPT !.error = TRUE, !.mode = "resume", !.sid = FALSE])
      BY <1>3, <2>1 DEF LiveFails, Update
    <3> DEFINE x == RecoveryFailed(z)
               y == [x EXCEPT !.error = TRUE, !.mode = "resume", !.sid = FALSE]
    <3>2. IsSession(z) => IsSession(x) /\ ~x.pending
      BY SettledIsSession
    <3>3. Write(a, g, y)
      BY <3>1
    <3> HIDE DEF x
    <3>4. IsSession(x) => IsSession(y) /\ y.pending = x.pending
      BY DEF IsSession, SessionFields
    <3> HIDE DEF y
    <3>5. Turns(s, z, y) /\ (IsSession(z) => ~y.pending)
      BY <3>2, <3>3, <3>4 DEF Turns
    <3>6. QED
      BY <3>5 DEF Ends
  <2>2. CASE ~AutoFallback
    <3>1. PICK z \in Held(a, g) : Write(a, g, [RecoveryFailed(z) EXCEPT !.error = TRUE])
      BY <1>3, <2>2 DEF LiveFails, Update
    <3> DEFINE x == RecoveryFailed(z)
               y == [x EXCEPT !.error = TRUE]
    <3>2. IsSession(z) => IsSession(x) /\ ~x.pending
      BY SettledIsSession
    <3>3. Write(a, g, y)
      BY <3>1
    <3> HIDE DEF x
    <3>4. IsSession(x) => IsSession(y) /\ y.pending = x.pending
      BY NotedIsSession
    <3> HIDE DEF y
    <3>5. Turns(s, z, y) /\ (IsSession(z) => ~y.pending)
      BY <3>2, <3>3, <3>4 DEF Turns
    <3>6. QED
      BY <3>5 DEF Ends
  <2>3. QED
    BY <2>1, <2>2
<1>4. CASE SubprocessFails(s)
  <2>1. PICK z \in Held(a, g) : \/ Write(a, g, [z EXCEPT !.sid = FALSE])
                                \/ Write(a, g, RecoveryFailed(z))
    BY <1>4 DEF SubprocessFails
  <2>2. CASE Write(a, g, [z EXCEPT !.sid = FALSE])
    <3>1. Turns(s, z, [z EXCEPT !.sid = FALSE])
      BY <2>2, NotedIsSession DEF Turns
    <3>2. QED
      BY <1>4, <3>1 DEF TurnsOn
  <2>3. CASE Write(a, g, RecoveryFailed(z))
    BY <2>3, SettledIsSession DEF Ends, Turns
  <2>4. QED
    BY <2>1, <2>2, <2>3
<1>5. QED
  BY <1>2, <1>3, <1>4

\* No step of a coroutine makes a recovery pending.
LEMMA ScheduledSettles ==
    ASSUME SessionShape, NEW s \in Slots, Scheduled(s)
    PROVE  SessionsSettle
<1>1. CASE session' = session
  BY <1>1, SameSessions
<1>2. CASE \E r, said : Invoke(s, r, said)
  BY <1>2, InvokeSettles
<1>3. CASE \E a : Spawn(a)
  BY <1>3, SpawnSettles
<1>4. CASE TurnsOn(s) \/ Ends(s)
  BY <1>4, TurnsSettle
<1>5. CASE Begin(s)
  BY <1>1, <1>2, <1>5 DEF Begin, BeginMessage, BeginPhase, BeginSpawn, sessions
<1>6. CASE Acquire(s) \/ NoTargetLeft(s) \/ Resume(s) \/ SubprocessTimesOut(s)
  BY <1>1, <1>6 DEF Acquire, NoTargetLeft, Resume, SubprocessTimesOut, sessions
<1>7. CASE Target(s) \/ PhaseTarget(s) \/ Drain(s)
  BY <1>1, <1>2, <1>3, <1>7 DEF Target, PhaseTarget, Drain
<1>8. CASE Outcome(s) \/ Connected(s)
  BY <1>4, <1>6, <1>8, StartedTurnsOn, SuccessEnds, FailureEnds DEF Outcome
<1>9. QED
  BY <1>5, <1>6, <1>7, <1>8 DEF Scheduled, Continue

-----------------------------------------------------------------------------
(***************************************************************************)
(* Who settles a pending recovery.  The event that is due finds the        *)
(* session as the recovery left it, so it connects it, and the coroutine   *)
(* that connects it settles it.                                            *)
(***************************************************************************)
SpawnDue(a) == \E i \in DOMAIN ready : ready[i] = SpawnEvent(a)

Owned(a) == SpawnDue(a) \/ \E s \in Slots : Connects(s, a)

RecoveryInv ==
    /\ TaskShape /\ SessionShape /\ IsList(ready)
    /\ \A a \in Agents : session[a].pending => session[a].boot /\ Owned(a)

\* At the start nothing is pending.
LEMMA RecoveryStarts == Init => RecoveryInv
<1> SUFFICES ASSUME Init PROVE RecoveryInv
  OBVIOUS
<1>1. TaskShape
  BY TurnStarts DEF TurnInv
<1>2. IsSession(NoSession) /\ ~NoSession.pending
  BY DEF IsSession, SessionFields, NoSession
<1>3. session = [a \in Agents |-> NoSession] /\ ready = <<>>
  BY DEF Init
<1>4. SessionShape /\ IsList(ready) /\ \A a \in Agents : ~session[a].pending
  BY <1>2, <1>3, EmptyIsList DEF SessionShape
<1>5. QED
  BY <1>1, <1>4 DEF RecoveryInv

\* What is in a list stays where it is when something is put at the end.
LEMMA StillThere ==
    ASSUME NEW q, IsList(q), NEW i \in DOMAIN q, NEW e
    PROVE  i \in DOMAIN Append(q, e) /\ Append(q, e)[i] = q[i]
<1>1. DOMAIN q = 1..Len(q) /\ Len(q) \in Nat
  BY ListDomain DEF IsList
<1>2. DOMAIN Append(q, e) = 1..(Len(q) + 1) /\ \A j \in 1..Len(q) : Append(q, e)[j] = q[j]
  BY ListAppend
<1>3. QED
  BY <1>1, <1>2

\* An event that is due stays so unless it is the one that is begun.
LEMMA DueStays ==
    ASSUME IsList(ready), ReadyStep, NEW a, SpawnDue(a),
           ~(ready # <<>> /\ ready' = Tail(ready) /\ Head(ready) = SpawnEvent(a))
    PROVE  SpawnDue(a)'
<1>1. PICK i \in DOMAIN ready : ready[i] = SpawnEvent(a)
  BY DEF SpawnDue
<1>2. CASE ready' = ready
  BY <1>2 DEF SpawnDue, SpawnEvent
<1>3. CASE ready # <<>> /\ ready' = Tail(ready)
  <2>1. /\ DOMAIN ready' = 1..(Len(ready) - 1) /\ DOMAIN ready = 1..Len(ready) /\ Len(ready) \in Nat \ {0}
        /\ \A j \in 1..(Len(ready) - 1) : ready'[j] = ready[j + 1]
        /\ Head(ready) = ready[1]
    BY <1>3, ListTail, ListDomain
  <2>2. i # 1
    BY <1>1, <1>3, <2>1
  <2>3. i - 1 \in DOMAIN ready' /\ ready'[i - 1] = ready[i]
    BY <1>1, <2>1, <2>2
  <2>4. QED
    BY <1>1, <2>3 DEF SpawnDue, SpawnEvent
<1>4. ASSUME NEW e, ready' = Append(ready, e) PROVE SpawnDue(a)'
  <2>1. i \in DOMAIN ready' /\ ready'[i] = ready[i]
    BY <1>4, StillThere
  <2>2. QED
    BY <1>1, <2>1 DEF SpawnDue, SpawnEvent
<1>5. QED
  BY <1>2, <1>3, <1>4 DEF ReadyStep

\* An event put at the end is due.
LEMMA AppendedIsDue ==
    ASSUME IsList(ready), NEW a, ready' = Append(ready, SpawnEvent(a))
    PROVE  SpawnDue(a)'
<1>1. ready'[Len(ready) + 1] = SpawnEvent(a) /\ Len(ready) + 1 \in DOMAIN ready'
  BY ListAppend DEF IsList
<1>2. QED
  BY <1>1 DEF SpawnDue, SpawnEvent

\* A list without its first item is neither the list nor one that is longer.
LEMMA TailDiffers ==
    ASSUME NEW q, IsList(q), q # <<>>, NEW e
    PROVE  Tail(q) # q /\ Tail(q) # Append(q, e)
<1> DEFINE n == Len(q)
           t == Tail(q)
           u == Append(q, e)
<1>1. n \in Nat /\ Len(t) = n - 1 /\ Len(q) = n /\ Len(u) = n + 1
  BY ListTail, ListAppend DEF IsList
<1> HIDE DEF n, t, u
<1>2. t # q /\ t # u
  BY <1>1
<1>3. QED
  BY <1>2 DEF t, u

\* An event is taken only by a coroutine that begins it.
LEMMA OnlyBegins ==
    ASSUME IsList(ready), NEW s \in Slots, Scheduled(s), ready # <<>>, ready' = Tail(ready)
    PROVE  Begin(s)
<1>1. \A e : ready' # Append(ready, e)
  BY TailDiffers
<1>2. ready' # ready
  BY TailDiffers
<1>3. ~Target(s)
  BY <1>1, <1>2 DEF Target, Spawn, Publish
<1>4. ~Resume(s)
  BY <1>1, <1>2 DEF Resume, Answered, Publish
<1>5. ~(PhaseTarget(s) \/ NoTargetLeft(s) \/ Connected(s) \/ Drain(s) \/ Acquire(s))
  BY <1>2 DEF PhaseTarget, NoTargetLeft, Connected, Drain, Acquire, Unchanged
<1>6. ~Outcome(s)
  BY <1>2 DEF Outcome, Started, ConnectFails, ReadOk, LiveFails, SubprocessOk, SubprocessFails,
              SubprocessTimesOut, Unchanged
<1>7. QED
  BY <1>3, <1>4, <1>5, <1>6 DEF Scheduled, Continue

\* A coroutine that connects goes on to have connected, or settles the recovery.
LEMMA ConnectingSteps ==
    ASSUME NEW s \in Slots, Scheduled(s), task[s].pc \in {"connect", "connected"}
    PROVE  \/ Goto(s, [task[s] EXCEPT !.pc = "connected"])
           \/ Ends(s)
<1>1. ~Begin(s) /\ ~Acquire(s)
  <2>1. NoTask.pc = "idle"
    BY DEF NoTask
  <2>2. ~Free(s) /\ ~Suspended(s, "lock")
    BY <2>1 DEF Free, Suspended
  <2>3. QED
    BY <2>2 DEF Begin, BeginMessage, BeginPhase, BeginSpawn, Acquire
<1>2. ~Target(s) /\ ~PhaseTarget(s) /\ ~NoTargetLeft(s) /\ ~Resume(s) /\ ~Drain(s)
  BY DEF Target, PhaseTarget, NoTargetLeft, Resume, Drain, Runs
<1>3. ~ReadOk(s) /\ ~LiveFails(s) /\ ~SubprocessOk(s) /\ ~SubprocessFails(s) /\ ~SubprocessTimesOut(s)
  BY DEF ReadOk, LiveFails, SubprocessOk, SubprocessFails, SubprocessTimesOut, Suspended
<1>4. Started(s) => Goto(s, [task[s] EXCEPT !.pc = "connected"])
  BY DEF Started
<1>5. Connected(s) \/ ConnectFails(s) => Ends(s)
  BY <1>3, SuccessEnds, FailureEnds
<1>6. QED
  BY <1>1, <1>2, <1>3, <1>4, <1>5 DEF Scheduled, Continue, Outcome

\* So it goes on to have the recovery, or the recovery is over.
LEMMA ConnectsStays ==
    ASSUME RecoveryInv, NEW s \in Slots, Scheduled(s), NEW q \in Slots, NEW a \in Agents, Connects(q, a),
           session'[a].pending
    PROVE  Connects(q, a)'
<1>1. SessionShape /\ TaskShape
  BY DEF RecoveryInv
<1>2. session'[a].gen = session[a].gen
  BY <1>1, ScheduledSettles DEF SessionsSettle, Settles
<1>3. CASE task'[q] = task[q]
  BY <1>2, <1>3 DEF Connects
<1>4. CASE q = s
  <2>1. ~Ends(s)
    BY <1>1, <1>4, EndsTheRecovery DEF Connects
  <2>2. Goto(s, [task[s] EXCEPT !.pc = "connected"])
    BY <1>4, <2>1, ConnectingSteps DEF Connects
  <2>3. IsTask(task[s]) /\ task'[s] = [task[s] EXCEPT !.pc = "connected"]
    BY <1>1, <2>2 DEF TaskShape, Goto
  <2>4. task'[s].pc = "connected" /\ task'[s].agent = task[s].agent /\ task'[s].gen = task[s].gen
    BY <2>3 DEF IsTask, TaskFields
  <2>5. QED
    BY <1>2, <1>4, <2>4 DEF Connects
<1>5. CASE q # s
  BY <1>1, <1>3, <1>5, ScheduledAlong DEF Becomes
<1>6. QED
  BY <1>4, <1>5

\* The event of a recovery that is begun connects the session.
LEMMA BegunConnects ==
    ASSUME RecoveryInv, NEW s \in Slots, BeginSpawn(s), NEW a \in Agents, Head(ready) = SpawnEvent(a),
           session[a].pending
    PROVE  Connects(s, a)'
<1> DEFINE z == session[a]
           r == [NoTask EXCEPT !.kind = "spawn", !.agent = a, !.gen = z.gen, !.depth = 1]
<1>1. Head(ready).agent = a
  BY DEF SpawnEvent
<1>2. z.boot /\ Attempted(z) = "live"
  BY DEF RecoveryInv, Attempted
<1>3. Connect(s, r, "connected", "connect") /\ UNCHANGED sessions
  BY <1>1, <1>2 DEF BeginSpawn
<1>4. IsTask(r) /\ r.agent = a /\ r.gen = z.gen
  BY DEF IsTask, NoTask, TaskFields
<1> HIDE DEF r
<1>5. PICK x : Becomes(s, x) /\ Like(x, r) /\ x.pc \in {"connected", "connect"}
  BY <1>3, <1>4, Connecting DEF RecoveryInv
<1>6. session'[a].gen = z.gen
  BY <1>3 DEF sessions
<1>7. QED
  BY <1>4, <1>5, <1>6 DEF Connects, Becomes, Like

\* A coroutine's step keeps an owner for every recovery that stays pending.
LEMMA ScheduledRecovers ==
    ASSUME RecoveryInv, NEW s \in Slots, Scheduled(s)
    PROVE  RecoveryInv'
<1>1. TaskShape /\ SessionShape /\ IsList(ready)
  BY DEF RecoveryInv
<1>2. TaskShape'
  BY <1>1, ScheduledAlong DEF Becomes, TaskShape
<1>3. SessionsSettle
  BY <1>1, ScheduledSettles
<1>4. IsList(ready') /\ ReadyStep
  BY <1>1, ScheduledReady, ReadyStays
<1>5. ASSUME NEW a \in Agents, session'[a].pending
      PROVE  session'[a].boot /\ Owned(a)'
  <2>1. session[a].pending /\ session'[a].boot = session[a].boot
    BY <1>3, <1>5 DEF SessionsSettle, Settles
  <2>2. session'[a].boot /\ Owned(a)
    BY <2>1 DEF RecoveryInv
  <2>3. CASE SpawnDue(a)
    <3>1. CASE ready # <<>> /\ ready' = Tail(ready) /\ Head(ready) = SpawnEvent(a)
      <4>1. Head(ready).kind = "spawn"
        BY <3>1 DEF SpawnEvent
      <4>2. BeginSpawn(s)
        <5>1. Begin(s)
          BY <1>1, <3>1, OnlyBegins
        <5>2. QED
          BY <4>1, <5>1 DEF Begin, BeginMessage, BeginPhase
      <4>3. Connects(s, a)'
        BY <2>1, <3>1, <4>2, BegunConnects
      <4>4. QED
        BY <2>2, <4>3 DEF Owned
    <3>2. CASE ~(ready # <<>> /\ ready' = Tail(ready) /\ Head(ready) = SpawnEvent(a))
      BY <1>1, <1>4, <2>3, <2>2, <3>2, DueStays DEF Owned
    <3>3. QED
      BY <3>1, <3>2
  <2>4. CASE \E q \in Slots : Connects(q, a)
    BY <1>5, <2>2, <2>4, ConnectsStays DEF Owned
  <2>5. QED
    BY <2>2, <2>3, <2>4 DEF Owned
<1>6. QED
  BY <1>2, <1>3, <1>4, <1>5 DEF RecoveryInv, SessionsSettle

\* A step that moves no coroutine, takes no event and makes no recovery pending.
LEMMA OthersRecover ==
    ASSUME RecoveryInv, UNCHANGED task, SessionsSettle,
           ready' = ready \/ \E e : ready' = Append(ready, e)
    PROVE  RecoveryInv'
<1>1. TaskShape' /\ IsList(ready) /\ ReadyStep
  BY DEF RecoveryInv, TaskShape, ReadyStep
<1>2. IsList(ready')
  BY <1>1, ReadyStays
<1>3. ~(ready # <<>> /\ ready' = Tail(ready))
  BY <1>1, TailDiffers
<1>4. ASSUME NEW a \in Agents, session'[a].pending
      PROVE  session'[a].boot /\ Owned(a)'
  <2>1. /\ session[a].pending /\ session'[a].gen = session[a].gen
        /\ session'[a].boot = session[a].boot
    BY <1>4 DEF SessionsSettle, Settles
  <2>2. session'[a].boot /\ Owned(a)
    BY <2>1 DEF RecoveryInv
  <2>3. SpawnDue(a) => SpawnDue(a)'
    BY <1>1, <1>3, DueStays
  <2>4. \A q \in Slots : Connects(q, a) => Connects(q, a)'
    BY <2>1 DEF Connects
  <2>5. QED
    BY <2>2, <2>3, <2>4 DEF Owned
<1>5. QED
  BY <1>1, <1>2, <1>4 DEF RecoveryInv, SessionsSettle

\* A recovery that is started has its event at the end of what is due.
LEMMA RecoveryIsStarted ==
    ASSUME RecoveryInv, UNCHANGED task, NEW a \in Agents, StartRecovery(a)
    PROVE  RecoveryInv'
<1> DEFINE y == [session[a] EXCEPT !.attempts = @ + 1, !.pending = TRUE, !.boot = TRUE]
<1>1. TaskShape' /\ IsList(ready) /\ SessionShape
  BY DEF RecoveryInv, TaskShape
<1>2. session' = [session EXCEPT ![a] = y] /\ ready' = Append(ready, SpawnEvent(a))
  BY DEF StartRecovery, Publish
<1>3. IsSession(y) /\ y.boot /\ y.gen = session[a].gen
  BY <1>1 DEF SessionShape, IsSession, SessionFields
<1> HIDE DEF y
<1>4. \A b \in Agents : session'[b] = IF b = a THEN y ELSE session[b]
  BY <1>1, <1>2 DEF SessionShape
<1>5. SessionShape'
  BY <1>1, <1>2, <1>3, <1>4 DEF SessionShape
<1>6. ReadyStep
  BY <1>2 DEF ReadyStep
<1>7. IsList(ready')
  BY <1>1, <1>6, ReadyStays
<1>8. ~(ready # <<>> /\ ready' = Tail(ready))
  BY <1>1, <1>2, TailDiffers
<1>9. ASSUME NEW b \in Agents, session'[b].pending
      PROVE  session'[b].boot /\ Owned(b)'
  <2>1. CASE b = a
    BY <1>1, <1>2, <1>3, <1>4, <2>1, AppendedIsDue DEF Owned
  <2>2. CASE b # a
    <3>1. session'[b] = session[b]
      BY <1>4, <2>2
    <3>2. session[b].boot /\ Owned(b)
      BY <1>9, <3>1 DEF RecoveryInv
    <3>3. SpawnDue(b) => SpawnDue(b)'
      BY <1>1, <1>6, <1>8, DueStays
    <3>4. \A q \in Slots : Connects(q, b) => Connects(q, b)'
      BY <3>1 DEF Connects
    <3>5. QED
      BY <3>1, <3>2, <3>3, <3>4 DEF Owned
  <2>3. QED
    BY <2>1, <2>2
<1>10. QED
  BY <1>1, <1>5, <1>7, <1>9 DEF RecoveryInv

\* The requests, the close and a process that dies.
LEMMA AskRecovers ==
    ASSUME RecoveryInv, Ask \/ HandleClose \/ ProcessDies
    PROVE  RecoveryInv'
<1>1. SessionShape /\ UNCHANGED task
  BY OthersKeepTasks DEF RecoveryInv
<1>2. CASE /\ session' = session
           /\ ready' = ready \/ \E e : ready' = Append(ready, e)
  BY <1>1, <1>2, SameSessions, OthersRecover
<1>3. CASE PhaseChange \/ CloseThread \/ ProcessDies \/ \E to \in Recipients : UserMessage(to)
  BY <1>2, <1>3 DEF PhaseChange, CloseThread, ProcessDies, UserMessage, Publish, sessions
<1>4. ASSUME NEW a \in Agents, Attach(a) PROVE RecoveryInv'
  <2>1. CASE Spawn(a)
    <3>1. SessionsSettle
      BY <1>1, <2>1, SpawnSettles
    <3>2. ready' = ready \/ ready' = Append(ready, SpawnEvent(a))
      BY <2>1 DEF Spawn, Publish
    <3>3. QED
      BY <1>1, <3>1, <3>2, OthersRecover
  <2>2. CASE StartRecovery(a)
    BY <1>1, <2>2, RecoveryIsStarted
  <2>3. QED
    BY <1>2, <1>4, <2>1, <2>2 DEF Attach
<1>5. CASE HandleClose
  <2>1. session' = [b \in Agents |-> NoSession] /\ ready # <<>> /\ ready' = Tail(ready)
    BY <1>5 DEF HandleClose
  <2>2. IsSession(NoSession) /\ ~NoSession.pending
    BY DEF IsSession, SessionFields, NoSession
  <2>3. SessionShape' /\ \A b \in Agents : ~session'[b].pending
    BY <2>1, <2>2 DEF SessionShape
  <2>4. TaskShape' /\ IsList(ready')
    BY <1>1, <2>1, ListTail DEF RecoveryInv, TaskShape
  <2>5. QED
    BY <2>3, <2>4 DEF RecoveryInv
<1>6. QED
  BY <1>3, <1>4, <1>5 DEF Ask

\* Every step keeps an owner for every recovery.
LEMMA RecoverySteps == RecoveryInv /\ [Next]_vars => RecoveryInv'
<1> SUFFICES ASSUME RecoveryInv, [Next]_vars PROVE RecoveryInv'
  OBVIOUS
<1>1. CASE UNCHANGED vars
  <2>1. UNCHANGED <<task, session, ready>>
    BY <1>1 DEF vars, sessions
  <2>2. QED
    BY <2>1, SameSessions, OthersRecover DEF RecoveryInv
<1>2. QED
  BY <1>1, ScheduledRecovers, AskRecovers DEF Next

(***************************************************************************)
(* What RecoveryEnds rests on: a pending recovery never loses the one      *)
(* who will settle it, whatever is attached, closed, spawned or told       *)
(* meanwhile, with any number of agents and coroutines.                    *)
(***************************************************************************)
THEOREM RecoveryIsOwned == Spec => []RecoveryHasOwner
<1>1. RecoveryInv => RecoveryHasOwner
  BY DEF RecoveryInv, Owned, SpawnDue, RecoveryHasOwner
<1>2. QED
  BY <1>1, RecoveryStarts, RecoverySteps, PTL DEF Spec

-----------------------------------------------------------------------------
(***************************************************************************)
(* The desk.  Its lists of tasks, coroutines and terminals are of records  *)
(* that keep their fields.                                                 *)
(***************************************************************************)
IsTerminal(x) == x = [agent |-> x.agent, status |-> x.status, open |-> x.open, spawned |-> x.spawned]

IsWork(x) == x = [agent |-> x.agent, status |-> x.status]

IsDue(x) == x = [kind |-> x.kind, clean |-> x.clean]

IsCo(x) == x = [at |-> x.at, task |-> x.task, agent |-> x.agent, clean |-> x.clean, terminal |-> x.terminal]

\* Some numbers have a smallest one.
LEMMA MinOfSome ==
    ASSUME NEW S, S \subseteq Nat, S # {}
    PROVE  Min(S) \in S
<1>1. PICK m \in S : \A k \in S : <<k, m>> \notin OpToRel(<, Nat)
  BY NatLessThanWellFounded, WFMin
<1>2. \A k \in S : ~(k < m)
  BY <1>1 DEF OpToRel
<1>3. \A k \in S : m <= k
  BY <1>2
<1>4. QED
  BY <1>3 DEF Min

\* FirstOf is a task with that status, or 0 when there is none.
LEMMA FirstIsOne ==
    ASSUME Len(tasks) \in Nat, NEW x
    PROVE  \/ FirstOf(x) = 0 /\ \A i \in 1..Len(tasks) : tasks[i].status # x
           \/ FirstOf(x) \in 1..Len(tasks) /\ tasks[FirstOf(x)].status = x
<1> DEFINE I == {i \in 1..Len(tasks) : tasks[i].status = x}
<1>1. FirstOf(x) = IF I # {} THEN Min(I) ELSE 0
  BY DEF FirstOf, SelectInSeq
<1>2. CASE I = {}
  BY <1>1, <1>2
<1>3. CASE I # {}
  <2>1. I \subseteq Nat
    OBVIOUS
  <2>2. Min(I) \in I
    <3> HIDE DEF I
    <3> QED BY <1>3, <2>1, MinOfSome
  <2>3. FirstOf(x) \in I
    BY <1>1, <1>3, <2>2
  <2>4. QED
    BY <2>3
<1>4. QED
  BY <1>2, <1>3

-----------------------------------------------------------------------------
(***************************************************************************)
(* The conductor's dispatch.  A coroutine that nobody disturbed knows the  *)
(* tasks as they are: none is in progress when it is to run, the task it   *)
(* picked is the one its start takes, and from there on that task is no    *)
(* more pending.                                                           *)
(***************************************************************************)
WorkOk ==
    /\ IsList(tasks) /\ \A i \in 1..Len(tasks) : IsWork(tasks[i])
    /\ \A i, j \in 1..Len(tasks) :
          tasks[i].status = "in_progress" /\ tasks[j].status = "in_progress" => i = j
    /\ tasks = <<>> => due = <<>> /\ now = NoCo /\ told = {}

NoneRuns == \A i \in 1..Len(tasks) : tasks[i].status # "in_progress"

DueOk ==
    /\ IsList(due)
    /\ \A k \in 1..Len(due) :
          /\ IsDue(due[k]) /\ due[k].clean \in BOOLEAN
          /\ due[k].kind # "first" /\ due[k].clean => NoneRuns

NowOk ==
    now # NoCo =>
        /\ IsCo(now) /\ now.clean \in BOOLEAN
        /\ now.clean => now.task \in 1..Len(tasks)
        /\ now.at = "start" /\ now.clean => NoneRuns /\ now.task = FirstOf("pending")
        /\ now.at # "start" /\ now.clean => tasks[now.task].status # "pending"

ToldOk == \A d \in told : d.clean => d.task \in 1..Len(tasks) /\ tasks[d.task].status # "pending"

DispatchInv == WorkOk /\ DueOk /\ NowOk /\ ToldOk

TerminalInv ==
    /\ IsList(terminals) /\ \A i \in 1..Len(terminals) : IsTerminal(terminals[i])
    /\ OneTerminal

\* Another terminal, unless it would be the second one of the conductor that runs for the agent.
LEMMA OneMoreTerminal ==
    ASSUME TerminalInv, NEW x, IsTerminal(x), terminals' = Append(terminals, x),
           x.spawned => RunningOf(x.agent) = {}
    PROVE  TerminalInv'
<1>1. /\ IsList(terminals') /\ Len(terminals') = Len(terminals) + 1 /\ Len(terminals) \in Nat
      /\ DOMAIN terminals' = 1..(Len(terminals) + 1) /\ DOMAIN terminals = 1..Len(terminals)
      /\ \A i \in 1..Len(terminals) : terminals'[i] = terminals[i]
      /\ terminals'[Len(terminals) + 1] = x
  BY ListAppend, ListDomain DEF TerminalInv, IsList
<1>2. \A i \in 1..Len(terminals') : IsTerminal(terminals'[i])
  BY <1>1 DEF TerminalInv
<1>3. \A i \in DOMAIN terminals :
         terminals[i].agent = x.agent /\ terminals[i].status = "running" => ~x.spawned
  BY DEF RunningOf
<1>4. \A i \in DOMAIN terminals' :
         \/ i \in DOMAIN terminals /\ terminals'[i] = terminals[i]
         \/ i = Len(terminals) + 1 /\ terminals'[i] = x
  BY <1>1
<1>5. OneTerminal'
  BY <1>3, <1>4 DEF TerminalInv, OneTerminal
<1>6. QED
  BY <1>1, <1>2, <1>5 DEF TerminalInv

\* A terminal that is closed or stopped.
LEMMA LessOfATerminal ==
    ASSUME TerminalInv, NEW i,
           \/ terminals' = [terminals EXCEPT ![i].open = FALSE]
           \/ terminals' = [terminals EXCEPT ![i].status = "stopped"]
    PROVE  TerminalInv'
<1>1. IsList(terminals') /\ Len(terminals') = Len(terminals) /\ DOMAIN terminals' = DOMAIN terminals
  <2>1. terminals' = [j \in 1..Len(terminals) |-> terminals'[j]] /\ Len(terminals) \in Nat
    BY DEF TerminalInv, IsList
  <2>2. Len(terminals') = Len(terminals)
    BY <2>1
  <2>3. QED
    BY <2>1, <2>2, ListDomain DEF IsList, TerminalInv
<1>2. ASSUME NEW j \in DOMAIN terminals
      PROVE  /\ IsTerminal(terminals'[j]) /\ terminals'[j].agent = terminals[j].agent
             /\ terminals'[j].spawned = terminals[j].spawned
             /\ terminals'[j].status = terminals[j].status \/ terminals'[j].status = "stopped"
  <2>1. IsTerminal(terminals[j])
    BY ListDomain DEF TerminalInv
  <2>2. \/ terminals'[j] = terminals[j]
        \/ terminals'[j] = [terminals[j] EXCEPT !.open = FALSE]
        \/ terminals'[j] = [terminals[j] EXCEPT !.status = "stopped"]
    OBVIOUS
  <2>3. QED
    BY <2>1, <2>2 DEF IsTerminal
<1>3. OneTerminal'
  BY <1>1, <1>2 DEF TerminalInv, OneTerminal
<1>4. QED
  BY <1>1, <1>2, <1>3, ListDomain DEF TerminalInv

\* Every step keeps the conductor to one running terminal per agent.
LEMMA TerminalSteps == TerminalInv /\ [DeskNext]_deskVars => TerminalInv'
<1> SUFFICES ASSUME TerminalInv, [DeskNext]_deskVars PROVE TerminalInv'
  OBVIOUS
<1>1. ASSUME NEW name, NEW b \in BOOLEAN
      PROVE  IsTerminal(Terminal(name, b)) /\ Terminal(name, b).agent = name
             /\ Terminal(name, b).spawned = b
  BY DEF Terminal, IsTerminal
<1>2. CASE UNCHANGED terminals
  BY <1>2 DEF TerminalInv, OneTerminal
<1>3. CASE CreateTerminal
  BY <1>1, <1>3, OneMoreTerminal DEF CreateTerminal
<1>4. CASE CoFinds
  <2>1. CASE RunningOf(now.agent) = {} /\ terminals' = Append(terminals, Terminal(now.agent, TRUE))
    BY <1>1, <2>1, OneMoreTerminal
  <2>2. QED
    BY <1>2, <1>4, <2>1 DEF CoFinds
<1>5. CASE \E p \in Actors : KillTerminal(p) \/ TerminalStopped(p)
  BY <1>5, LessOfATerminal DEF KillTerminal, TerminalStopped
<1>6. ASSUME terminals' = <<>> \/ terminals' = <<Terminal(Conductor, TRUE)>> PROVE TerminalInv'
  <2>1. PICK x : x = Terminal(Conductor, TRUE) /\ IsTerminal(x)
    BY <1>1
  <2>2. CASE terminals' = <<>>
    BY <2>2, EmptyIsList DEF TerminalInv, OneTerminal
  <2>3. CASE terminals' = <<x>>
    <3>1. IsList(terminals') /\ Len(terminals') = 1 /\ DOMAIN terminals' = {1} /\ terminals'[1] = x
      BY <2>3 DEF IsList
    <3>2. ASSUME NEW i \in 1..Len(terminals') PROVE IsTerminal(terminals'[i])
      <4>1. i = 1
        BY <3>1
      <4>2. terminals'[i] = x
        BY <3>1, <4>1
      <4>3. QED
        BY <2>1, <4>2
    <3>3. OneTerminal'
      BY <3>1 DEF OneTerminal
    <3>4. QED
      BY <3>1, <3>2, <3>3 DEF TerminalInv
  <2>4. QED
    BY <1>6, <2>1, <2>2, <2>3
<1>7. CASE BootEnds \/ ServerKilled
  BY <1>2, <1>6, <1>7 DEF BootEnds, ServerKilled
<1>8. ASSUME NEW p \in Actors,
             \/ Register(p) \/ Edit(p) \/ Unregister(p) \/ Enqueue(p) \/ Take(p) \/ Reorder(p)
             \/ BookWritten(p) \/ Assign(p) \/ Approve(p)
      PROVE  UNCHANGED terminals
  BY <1>8 DEF Register, Edit, Unregister, Enqueue, Take, Reorder, Reads, BookWritten, Assign, Approve
<1>9. ASSUME FromTemplate \/ Complete \/ Block \/ CoPicks \/ CoStarts \/ CoTells \/ Boot \/ UNCHANGED deskVars
      PROVE  UNCHANGED terminals
  BY <1>9 DEF FromTemplate, Complete, Block, CoPicks, CoStarts, CoTells, Boot, deskVars
<1>10. QED
  BY <1>2, <1>3, <1>4, <1>5, <1>7, <1>8, <1>9 DEF DeskNext

\* The tasks after one of them has another status, or another agent.
LEMMA OneTaskChanged ==
    ASSUME WorkOk, NEW i,
           \/ \E x : tasks' = [tasks EXCEPT ![i].status = x]
           \/ \E x : tasks' = [tasks EXCEPT ![i].agent = x]
    PROVE  /\ IsList(tasks') /\ Len(tasks') = Len(tasks) /\ Len(tasks) \in Nat
           /\ \A j \in 1..Len(tasks) : IsWork(tasks'[j])
           /\ \A j \in 1..Len(tasks) : j # i => tasks'[j] = tasks[j]
           /\ (\E x : tasks' = [tasks EXCEPT ![i].agent = x]) =>
                 \A j \in 1..Len(tasks) : tasks'[j].status = tasks[j].status
           /\ \A x : tasks' = [tasks EXCEPT ![i].status = x] /\ i \in 1..Len(tasks) =>
                 tasks'[i].status = x
           /\ tasks' = <<>> => tasks = <<>>
<1>1. /\ DOMAIN tasks = 1..Len(tasks) /\ Len(tasks) \in Nat
      /\ \A j \in 1..Len(tasks) : IsWork(tasks[j])
  BY ListDomain DEF WorkOk, IsList
<1>2. tasks' = [j \in 1..Len(tasks) |-> tasks'[j]]
  BY <1>1
<1>3. IsList(tasks') /\ Len(tasks') = Len(tasks)
  BY <1>1, <1>2 DEF IsList
<1>4. \A j \in 1..Len(tasks) : j # i => tasks'[j] = tasks[j]
  BY <1>1
<1>5. ASSUME NEW x, tasks' = [tasks EXCEPT ![i].status = x], i \in 1..Len(tasks)
      PROVE  IsWork(tasks'[i]) /\ tasks'[i].status = x
  <2>1. tasks'[i] = [tasks[i] EXCEPT !.status = x] /\ IsWork(tasks[i])
    BY <1>1, <1>5
  <2>2. QED
    BY <2>1 DEF IsWork
<1>6. ASSUME NEW x, tasks' = [tasks EXCEPT ![i].agent = x], i \in 1..Len(tasks)
      PROVE  IsWork(tasks'[i]) /\ tasks'[i].status = tasks[i].status
  <2>1. tasks'[i] = [tasks[i] EXCEPT !.agent = x] /\ IsWork(tasks[i])
    BY <1>1, <1>6
  <2>2. QED
    BY <2>1 DEF IsWork
<1>7. \A j \in 1..Len(tasks) : IsWork(tasks'[j])
  BY <1>1, <1>4, <1>5, <1>6
<1>8. ASSUME tasks' = <<>> PROVE tasks = <<>>
  <2>1. Len(tasks) = 0
    BY <1>3, <1>8
  <2>2. QED
    BY <2>1 DEF WorkOk, IsList
<1>9. QED
  BY <1>1, <1>3, <1>4, <1>5, <1>6, <1>7, <1>8

\* The coroutines that are due, after somebody else changed the tasks.
LEMMA DisturbedList ==
    ASSUME DueOk
    PROVE  /\ IsList(Disturbed) /\ Len(Disturbed) = Len(due)
           /\ \A k \in 1..Len(due) : IsDue(Disturbed[k]) /\ Disturbed[k].clean = FALSE
           /\ due = <<>> => Disturbed = <<>>
<1>1. DOMAIN due = 1..Len(due) /\ Len(due) \in Nat
  BY ListDomain DEF DueOk, IsList
<1>2. Disturbed = [k \in 1..Len(due) |-> [due[k] EXCEPT !.clean = FALSE]]
  BY <1>1 DEF Disturbed
<1>3. IsList(Disturbed) /\ Len(Disturbed) = Len(due)
  BY <1>1, <1>2 DEF IsList
<1>4. ASSUME NEW k \in 1..Len(due) PROVE IsDue(Disturbed[k]) /\ Disturbed[k].clean = FALSE
  <2>1. IsDue(due[k]) /\ Disturbed[k] = [due[k] EXCEPT !.clean = FALSE]
    BY <1>2 DEF DueOk
  <2>2. QED
    BY <2>1 DEF IsDue
<1>5. due = <<>> => Disturbed = <<>>
  BY <1>2
<1>6. QED
  BY <1>3, <1>4, <1>5

\* One more coroutine that is due.
LEMMA OneMoreDue ==
    ASSUME NEW q, IsList(q), \A k \in 1..Len(q) : IsDue(q[k]), NEW d, IsDue(d)
    PROVE  /\ IsList(Append(q, d)) /\ Append(q, d) # <<>>
           /\ \A k \in 1..Len(Append(q, d)) :
                 /\ IsDue(Append(q, d)[k])
                 /\ Append(q, d)[k] = d \/ \E j \in 1..Len(q) : Append(q, d)[k] = q[j]
<1>1. /\ IsList(Append(q, d)) /\ Len(Append(q, d)) = Len(q) + 1 /\ Len(q) \in Nat
      /\ \A i \in 1..Len(q) : Append(q, d)[i] = q[i]
      /\ Append(q, d)[Len(q) + 1] = d
  BY ListAppend DEF IsList
<1>2. \A k \in 1..(Len(q) + 1) : k \in 1..Len(q) \/ k = Len(q) + 1
  BY <1>1
<1>3. Append(q, d) # <<>>
  BY <1>1
<1>4. QED
  BY <1>1, <1>2, <1>3

\* The coroutine that runs, after somebody else changed the tasks.
LEMMA DisturbedCo ==
    ASSUME NowOk, now # NoCo
    PROVE  IsCo(DisturbedNow) /\ DisturbedNow.clean = FALSE
BY DEF NowOk, DisturbedNow, IsCo

\* At the start there are no tasks and no terminals.
LEMMA DispatchStarts == DeskInit => DispatchInv /\ TerminalInv
BY EmptyIsList DEF DeskInit, DispatchInv, WorkOk, DueOk, NowOk, NoCo, ToldOk, TerminalInv, OneTerminal

\* What is started is the first task that waits, and then it alone is in progress.
LEMMA StartedTask ==
    ASSUME WorkOk, MayStart(FirstOf("pending")), tasks' = WithStart(FirstOf("pending"))
    PROVE  /\ WorkOk' /\ FirstOf("pending") \in 1..Len(tasks) /\ tasks # <<>>
           /\ tasks'[FirstOf("pending")].status = "in_progress"
           /\ \A i \in 1..Len(tasks) : tasks[i].status # "pending" => tasks'[i] = tasks[i]
<1>1. PICK n : n = FirstOf("pending")
  OBVIOUS
<1>2. Len(tasks) \in Nat
  BY DEF WorkOk, IsList
<1>3. n \in 1..Len(tasks) /\ tasks[n].status = "pending"
  BY <1>1, <1>2, FirstIsOne DEF MayStart
<1>4. \A i \in 1..Len(tasks) : tasks[i].status # "in_progress"
  BY <1>2, FirstIsOne DEF MayStart
<1>5. tasks' = [tasks EXCEPT ![n].status = "in_progress"]
  BY <1>1 DEF WithStart
<1>6. /\ IsList(tasks') /\ Len(tasks') = Len(tasks)
      /\ \A j \in 1..Len(tasks) : IsWork(tasks'[j])
      /\ \A j \in 1..Len(tasks) : j # n => tasks'[j] = tasks[j]
      /\ tasks'[n].status = "in_progress"
      /\ tasks' = <<>> => tasks = <<>>
  BY <1>3, <1>5, OneTaskChanged
<1>7. tasks # <<>>
  BY <1>3
<1>8. WorkOk'
  BY <1>4, <1>6, <1>7 DEF WorkOk
<1>9. \A i \in 1..Len(tasks) : tasks[i].status # "pending" => tasks'[i] = tasks[i]
  BY <1>3, <1>6
<1>10. QED
  BY <1>1, <1>3, <1>6, <1>7, <1>8, <1>9

\* What was told stays told when started tasks are not pending again.
LEMMA ToldStays ==
    ASSUME ToldOk, told' = told, Len(tasks') = Len(tasks),
           \A i \in 1..Len(tasks) : tasks[i].status # "pending" => tasks'[i].status # "pending"
    PROVE  ToldOk'
BY DEF ToldOk

\* The steps that concern neither the tasks nor the conductor.
LEMMA DispatchStays ==
    ASSUME DispatchInv, tasks' = tasks, due' = due, now' = now, told' = told
    PROVE  DispatchInv'
<1>1. FirstOf("pending")' = FirstOf("pending")
  BY DEF FirstOf, SelectInSeq
<1>2. WorkOk' /\ DueOk' /\ ToldOk'
  BY DEF DispatchInv, WorkOk, DueOk, ToldOk, NoneRuns
<1>3. NowOk'
  BY <1>1 DEF DispatchInv, NowOk, NoneRuns
<1>4. QED
  BY <1>2, <1>3 DEF DispatchInv

\* Somebody else changed the tasks: whoever is due or runs is not clean any more.
LEMMA OthersChange ==
    ASSUME DispatchInv, WorkOk', Len(tasks') = Len(tasks),
           due' = Disturbed, now' = DisturbedNow, told' = told,
           \A i \in 1..Len(tasks) : tasks[i].status # "pending" => tasks'[i].status # "pending"
    PROVE  DispatchInv'
<1>1. DueOk'
  <2>1. DueOk
    BY DEF DispatchInv
  <2>2. IsList(due') /\ \A k \in 1..Len(due') : IsDue(due'[k]) /\ due'[k].clean = FALSE
    BY <2>1, DisturbedList
  <2>3. QED
    BY <2>2 DEF DueOk
<1>2. NowOk'
  <2>1. CASE now = NoCo
    BY <2>1 DEF DisturbedNow, NowOk
  <2>2. CASE now # NoCo
    <3>1. IsCo(now') /\ now'.clean = FALSE
      BY <2>2, DisturbedCo DEF DispatchInv
    <3>2. QED
      BY <3>1 DEF NowOk
  <2>3. QED
    BY <2>1, <2>2
<1>3. ToldOk'
  BY ToldStays DEF DispatchInv
<1>4. QED
  BY <1>1, <1>2, <1>3 DEF DispatchInv

\* A workflow from a template: at most its first task is in progress.
LEMMA TemplateDispatch == DispatchInv /\ FromTemplate => DispatchInv'
<1> SUFFICES ASSUME DispatchInv, FromTemplate PROVE DispatchInv'
  OBVIOUS
<1>1. tasks = <<>> /\ now = NoCo /\ due = <<>> /\ told = {}
  BY DEF FromTemplate, DispatchInv, WorkOk
<1>2. now' = NoCo /\ told' = {}
  BY <1>1 DEF FromTemplate
<1>3. PICK chosen :
         /\ tasks' = [i \in DOMAIN Stages |->
                [agent |-> chosen[i],
                 status |-> IF i = 1 /\ (Stages # <<>> /\ chosen[1] # Nobody)
                            THEN "in_progress" ELSE "pending"]]
         /\ due' = IF Stages # <<>> /\ chosen[1] # Nobody
                   THEN Append(due, [kind |-> "first", clean |-> TRUE]) ELSE due
  BY DEF FromTemplate
<1> DEFINE starts == Stages # <<>> /\ chosen[1] # Nobody
<1>4. DOMAIN Stages = 1..Len(Stages) /\ Len(Stages) \in Nat /\ (Stages = <<>> <=> Len(Stages) = 0)
  BY AgentDeskAssumption
<1>5. IsList(tasks') /\ Len(tasks') = Len(Stages)
  BY <1>3, <1>4 DEF IsList
<1>6. \A i \in 1..Len(tasks') :
         /\ IsWork(tasks'[i])
         /\ tasks'[i].status = "in_progress" => i = 1
  BY <1>3, <1>4, <1>5 DEF IsWork
<1>7. CASE starts
  <2>1. tasks' # <<>>
    BY <1>3, <1>4, <1>5, <1>7
  <2>2. WorkOk'
    BY <1>5, <1>6, <2>1 DEF WorkOk
  <2>3. PICK d : d = [kind |-> "first", clean |-> TRUE]
    OBVIOUS
  <2>4. DueOk'
    <3>1. due' = Append(due, d)
      BY <1>3, <1>7, <2>3
    <3>2. IsDue(d) /\ d.clean \in BOOLEAN /\ d.kind = "first"
      BY <2>3 DEF IsDue
    <3>3. IsList(due') /\ \A k \in 1..Len(due') : due'[k] = d
      <4>1. IsList(due) /\ Len(due) = 0
        BY <1>1, EmptyIsList
      <4>2. \A k \in 1..Len(due) : FALSE
        BY <4>1
      <4>3. QED
        BY <3>1, <3>2, <4>1, <4>2, OneMoreDue
    <3>4. QED
      BY <3>2, <3>3 DEF DueOk
  <2>5. QED
    BY <1>2, <2>2, <2>4 DEF DispatchInv, NowOk, ToldOk
<1>8. CASE ~starts
  <2>1. due' = <<>>
    BY <1>1, <1>3, <1>8
  <2>2. WorkOk'
    BY <1>2, <1>5, <1>6, <2>1 DEF WorkOk
  <2>3. QED
    BY <1>2, <2>1, <2>2, EmptyIsList DEF DispatchInv, DueOk, NowOk, ToldOk
<1>9. QED
  BY <1>7, <1>8

\* An assignment or an approval by a thread disturbs every coroutine.
LEMMA HandDispatch ==
    ASSUME DispatchInv, NEW p \in Actors, Assign(p) \/ Approve(p)
    PROVE  DispatchInv'
<1>1. due' = Disturbed /\ now' = DisturbedNow /\ told' = told
  BY DEF Assign, Approve
<1>2. WorkOk /\ DueOk
  BY DEF DispatchInv
<1>3. CASE Assign(p)
  <2>1. PICK i \in DOMAIN tasks, name \in Names : tasks' = [tasks EXCEPT ![i].agent = name]
    BY <1>3 DEF Assign
  <2>2. /\ IsList(tasks') /\ Len(tasks') = Len(tasks)
        /\ \A j \in 1..Len(tasks) : IsWork(tasks'[j])
        /\ \A j \in 1..Len(tasks) : tasks'[j].status = tasks[j].status
        /\ tasks' = <<>> => tasks = <<>>
    BY <1>2, <2>1, OneTaskChanged
  <2>3. tasks # <<>>
    BY <2>1
  <2>4. WorkOk'
    BY <1>2, <2>2, <2>3 DEF WorkOk
  <2>5. QED
    BY <1>1, <2>2, <2>4, OthersChange
<1>4. CASE Approve(p)
  <2>1. MayStart(FirstOf("pending")) /\ tasks' = WithStart(FirstOf("pending"))
    BY <1>4 DEF Approve
  <2>2. /\ WorkOk' /\ \A i \in 1..Len(tasks) : tasks[i].status # "pending" => tasks'[i] = tasks[i]
    BY <1>2, <2>1, StartedTask
  <2>3. Len(tasks') = Len(tasks)
    <3>1. tasks' = [tasks EXCEPT ![FirstOf("pending")].status = "in_progress"]
      BY <2>1 DEF WithStart
    <3>2. QED
      BY <1>2, <3>1, OneTaskChanged
  <2>4. QED
    BY <1>1, <2>2, <2>3, OthersChange
<1>5. QED
  BY <1>3, <1>4

\* A completion, or a block: the one task in progress is no more, and none is.
LEMMA TaskEnds ==
    ASSUME WorkOk, FirstOf("in_progress") # 0, NEW x, x \notin {"in_progress", "pending"},
           tasks' = [tasks EXCEPT ![FirstOf("in_progress")].status = x]
    PROVE  /\ WorkOk' /\ NoneRuns' /\ tasks # <<>> /\ Len(tasks') = Len(tasks)
           /\ \A i \in 1..Len(tasks) : tasks[i].status # "pending" => tasks'[i].status # "pending"
<1>1. PICK n : n = FirstOf("in_progress")
  OBVIOUS
<1>2. Len(tasks) \in Nat
  BY DEF WorkOk, IsList
<1>3. n \in 1..Len(tasks) /\ tasks[n].status = "in_progress"
  BY <1>1, <1>2, FirstIsOne
<1>4. \A j \in 1..Len(tasks) : j # n => tasks[j].status # "in_progress"
  BY <1>3 DEF WorkOk
<1>5. tasks' = [tasks EXCEPT ![n].status = x]
  BY <1>1
<1>6. /\ IsList(tasks') /\ Len(tasks') = Len(tasks)
      /\ \A j \in 1..Len(tasks) : IsWork(tasks'[j])
      /\ \A j \in 1..Len(tasks) : j # n => tasks'[j] = tasks[j]
      /\ tasks'[n].status = x
      /\ tasks' = <<>> => tasks = <<>>
  BY <1>3, <1>5, OneTaskChanged
<1>7. tasks # <<>>
  BY <1>3
<1>8. NoneRuns'
  BY <1>4, <1>6 DEF NoneRuns
<1>9. WorkOk'
  BY <1>6, <1>7, <1>8 DEF WorkOk, NoneRuns
<1>10. QED
  BY <1>6, <1>7, <1>8, <1>9

\* After a completion or a block no task is in progress.
LEMMA EndDispatch == DispatchInv /\ (Complete \/ Block) => DispatchInv'
<1> SUFFICES ASSUME DispatchInv, Complete \/ Block PROVE DispatchInv'
  OBVIOUS
<1>1. WorkOk /\ DueOk /\ now = NoCo /\ now' = now /\ told' = told
  BY DEF Complete, Block, LoopFree, DispatchInv
<1>2. PICK x \in {"done", "blocked"} :
         /\ FirstOf("in_progress") # 0
         /\ tasks' = [tasks EXCEPT ![FirstOf("in_progress")].status = x]
  BY DEF Complete, Block
<1>3. x \notin {"in_progress", "pending"}
  OBVIOUS
<1>4. /\ WorkOk' /\ NoneRuns' /\ tasks # <<>> /\ Len(tasks') = Len(tasks)
      /\ \A i \in 1..Len(tasks) : tasks[i].status # "pending" => tasks'[i].status # "pending"
  BY <1>1, <1>2, <1>3, TaskEnds
<1>5. /\ IsList(Disturbed)
      /\ \A k \in 1..Len(Disturbed) : IsDue(Disturbed[k]) /\ Disturbed[k].clean = FALSE
  BY <1>1, DisturbedList
<1>6. DueOk'
  <2>1. CASE due' = Disturbed
    BY <1>5, <2>1 DEF DueOk
  <2>2. CASE due' = Append(Disturbed, [kind |-> "next", clean |-> TRUE])
    <3>1. PICK d : d = [kind |-> "next", clean |-> TRUE]
      OBVIOUS
    <3>2. IsDue(d) /\ d.clean = TRUE
      BY <3>1 DEF IsDue
    <3>3. PICK q : q = Disturbed
      OBVIOUS
    <3>4. due' = Append(q, d)
      BY <2>2, <3>1, <3>3
    <3>5. /\ IsList(due')
          /\ \A k \in 1..Len(due') :
                IsDue(due'[k]) /\ (due'[k] = d \/ \E j \in 1..Len(q) : due'[k] = q[j])
      BY <1>5, <3>2, <3>3, <3>4, OneMoreDue
    <3>6. \A k \in 1..Len(due') : due'[k].clean \in BOOLEAN
      BY <1>5, <3>2, <3>3, <3>5
    <3>7. QED
      BY <1>4, <3>5, <3>6 DEF DueOk
  <2>3. QED
    BY <2>1, <2>2 DEF Complete, Block
<1>7. ToldOk'
  BY <1>1, <1>4, ToldStays DEF DispatchInv
<1>8. NowOk'
  BY <1>1 DEF NowOk
<1>9. QED
  BY <1>4, <1>6, <1>7, <1>8 DEF DispatchInv

\* A coroutine that begins picks the task in progress, or the first that waits.
LEMMA PickDispatch == DispatchInv /\ CoPicks => DispatchInv'
<1> SUFFICES ASSUME DispatchInv, CoPicks PROVE DispatchInv'
  OBVIOUS
<1>1. WorkOk /\ DueOk /\ due # <<>> /\ due' = Tail(due) /\ tasks' = tasks /\ told' = told
  BY DEF CoPicks, DispatchInv
<1>2. tasks # <<>>
  BY <1>1 DEF WorkOk
<1>3. /\ IsList(due') /\ Len(due') = Len(due) - 1 /\ Len(due) \in Nat \ {0} /\ Head(due) = due[1]
      /\ \A i \in 1..(Len(due) - 1) : due'[i] = due[i + 1] /\ i + 1 \in 1..Len(due)
  BY <1>1, ListTail DEF DueOk
<1>4. NoneRuns' = NoneRuns /\ FirstOf("pending")' = FirstOf("pending")
  BY <1>1 DEF NoneRuns, FirstOf, SelectInSeq
<1>5. WorkOk'
  BY <1>1, <1>2 DEF WorkOk
<1>6. DueOk'
  BY <1>1, <1>3, <1>4 DEF DueOk
<1>7. ToldOk'
  BY <1>1 DEF DispatchInv, ToldOk
<1>8. NowOk'
  <2>1. PICK d : d = Head(due)
    OBVIOUS
  <2>2. d.clean \in BOOLEAN /\ (d.kind # "first" /\ d.clean => NoneRuns)
    BY <1>1, <1>3, <2>1 DEF DueOk
  <2>3. PICK i : i = FirstOf(IF d.kind = "first" THEN "in_progress" ELSE "pending")
    OBVIOUS
  <2>4. now' = NoCo \/ (i # 0 /\ now' = [at |-> IF d.kind = "first" THEN "find" ELSE "start",
                                        task |-> i, agent |-> tasks[i].agent, clean |-> d.clean,
                                        terminal |-> 0])
    BY <2>1, <2>3 DEF CoPicks
  <2>5. Len(tasks) \in Nat
    BY <1>1 DEF WorkOk, IsList
  <2>6. CASE now' = NoCo
    BY <2>6 DEF NowOk
  <2>7. CASE i # 0 /\ d.kind = "first" /\ now' # NoCo
    <3>1. i \in 1..Len(tasks) /\ tasks[i].status = "in_progress"
      BY <2>3, <2>5, <2>7, FirstIsOne
    <3>2. IsCo(now') /\ now'.at = "find" /\ now'.task = i /\ now'.clean = d.clean
      BY <2>4, <2>7 DEF IsCo
    <3>3. QED
      BY <1>1, <2>2, <3>1, <3>2 DEF NowOk
  <2>8. CASE i # 0 /\ d.kind # "first" /\ now' # NoCo
    <3>1. i \in 1..Len(tasks) /\ i = FirstOf("pending")
      BY <2>3, <2>5, <2>8, FirstIsOne
    <3>2. IsCo(now') /\ now'.at = "start" /\ now'.task = i /\ now'.clean = d.clean
      BY <2>4, <2>8 DEF IsCo
    <3>3. QED
      BY <1>1, <1>4, <2>2, <2>8, <3>1, <3>2 DEF NowOk
  <2>9. QED
    BY <2>4, <2>6, <2>7, <2>8
<1>9. QED
  BY <1>5, <1>6, <1>7, <1>8 DEF DispatchInv

\* The start: a clean coroutine's own task is the one that is started.
LEMMA StartDispatch == DispatchInv /\ CoStarts => DispatchInv'
<1> SUFFICES ASSUME DispatchInv, CoStarts PROVE DispatchInv'
  OBVIOUS
<1>1. WorkOk /\ DueOk /\ told' = told /\ now.at = "start" /\ now' = [now EXCEPT !.at = "find"]
  BY DEF CoStarts, DispatchInv
<1>2. now # NoCo
  BY <1>1 DEF NoCo
<1>3. /\ IsCo(now) /\ now.clean \in BOOLEAN
      /\ now.clean => now.task \in 1..Len(tasks) /\ NoneRuns /\ now.task = FirstOf("pending")
  BY <1>1, <1>2 DEF DispatchInv, NowOk
<1>4. IsCo(now') /\ now'.at = "find" /\ now'.task = now.task /\ now'.clean = now.clean
  BY <1>1, <1>3 DEF IsCo
<1>5. Len(tasks) \in Nat
  BY <1>1 DEF WorkOk, IsList
<1>6. CASE MayStart(FirstOf("pending"))
  <2>1. tasks' = WithStart(FirstOf("pending")) /\ due' = Disturbed
    BY <1>6 DEF CoStarts
  <2>2. /\ WorkOk' /\ FirstOf("pending") \in 1..Len(tasks)
        /\ tasks'[FirstOf("pending")].status = "in_progress"
        /\ \A i \in 1..Len(tasks) : tasks[i].status # "pending" => tasks'[i] = tasks[i]
    BY <1>1, <1>6, <2>1, StartedTask
  <2>3. Len(tasks') = Len(tasks)
    <3>1. tasks' = [tasks EXCEPT ![FirstOf("pending")].status = "in_progress"]
      BY <2>1 DEF WithStart
    <3>2. QED
      BY <1>1, <3>1, OneTaskChanged
  <2>4. DueOk'
    <3>1. IsList(due') /\ \A k \in 1..Len(due') : IsDue(due'[k]) /\ due'[k].clean = FALSE
      BY <1>1, <2>1, DisturbedList
    <3>2. QED
      BY <3>1 DEF DueOk
  <2>5. ToldOk'
    BY <1>1, <2>2, <2>3, ToldStays DEF DispatchInv
  <2>6. now.clean => tasks'[now.task].status # "pending"
    BY <1>3, <2>2
  <2>7. NowOk'
    BY <1>3, <1>4, <2>3, <2>6 DEF NowOk
  <2>8. QED
    BY <2>2, <2>4, <2>5, <2>7 DEF DispatchInv
<1>7. CASE ~MayStart(FirstOf("pending"))
  <2>1. tasks' = tasks /\ due' = due
    BY <1>7 DEF CoStarts
  <2>2. ~now.clean
    <3>1. SUFFICES ASSUME now.clean PROVE FALSE
      OBVIOUS
    <3>2. NoneRuns /\ FirstOf("pending") \in 1..Len(tasks)
      BY <1>3, <3>1
    <3>3. FirstOf("in_progress") = 0
      BY <1>5, <3>2, FirstIsOne DEF NoneRuns
    <3>4. FirstOf("pending") # 0
      BY <1>5, <3>2
    <3>5. QED
      BY <1>7, <3>3, <3>4 DEF MayStart
  <2>3. NowOk'
    BY <1>3, <1>4, <2>2 DEF NowOk
  <2>4. tasks # <<>>
    BY <1>1, <1>2 DEF WorkOk
  <2>5. WorkOk' /\ DueOk' /\ ToldOk'
    BY <1>1, <2>1, <2>4 DEF DispatchInv, WorkOk, DueOk, ToldOk, NoneRuns
  <2>6. QED
    BY <2>3, <2>5 DEF DispatchInv
<1>8. QED
  BY <1>6, <1>7

\* The terminal, what is written to it, and a kill of the server.
LEMMA TellDispatch == DispatchInv /\ (CoFinds \/ CoTells \/ ServerKilled) => DispatchInv'
<1> SUFFICES ASSUME DispatchInv, CoFinds \/ CoTells \/ ServerKilled PROVE DispatchInv'
  OBVIOUS
<1>1. tasks' = tasks
  BY DEF CoFinds, CoTells, ServerKilled
<1>2. NoneRuns' = NoneRuns
  BY <1>1 DEF NoneRuns
<1>3. CASE CoFinds
  <2>1. now.at = "find" /\ due' = due /\ told' = told
    BY <1>3 DEF CoFinds
  <2>2. now # NoCo
    BY <2>1 DEF NoCo
  <2>3. now' = NoCo \/ \E n : now' = [now EXCEPT !.at = "tell", !.terminal = n]
    BY <1>3 DEF CoFinds
  <2>4. /\ IsCo(now) /\ now.clean \in BOOLEAN
        /\ now.clean => now.task \in 1..Len(tasks) /\ tasks[now.task].status # "pending"
    BY <2>1, <2>2 DEF DispatchInv, NowOk
  <2>5. ASSUME NEW n, now' = [now EXCEPT !.at = "tell", !.terminal = n]
        PROVE  IsCo(now') /\ now'.at = "tell" /\ now'.task = now.task /\ now'.clean = now.clean
    BY <2>4, <2>5 DEF IsCo
  <2>6. NowOk'
    BY <1>1, <2>3, <2>4, <2>5 DEF NowOk
  <2>7. tasks # <<>>
    BY <2>2 DEF DispatchInv, WorkOk
  <2>8. WorkOk' /\ DueOk' /\ ToldOk'
    BY <1>1, <1>2, <2>1, <2>7 DEF DispatchInv, WorkOk, DueOk, ToldOk
  <2>9. QED
    BY <2>6, <2>8 DEF DispatchInv
<1>4. CASE CoTells
  <2>1. now.at = "tell" /\ due' = due /\ now' = NoCo
    BY <1>4 DEF CoTells
  <2>2. now # NoCo
    BY <2>1 DEF NoCo
  <2>3. now.clean => now.task \in 1..Len(tasks) /\ tasks[now.task].status # "pending"
    BY <2>1, <2>2 DEF DispatchInv, NowOk
  <2>4. told' \subseteq told \cup {[task |-> now.task, agent |-> now.agent, clean |-> now.clean]}
    BY <1>4 DEF CoTells
  <2>5. ToldOk'
    <3>1. ASSUME NEW d \in told', d.clean PROVE d.task \in 1..Len(tasks) /\ tasks[d.task].status # "pending"
      <4>1. CASE d \in told
        BY <3>1, <4>1 DEF DispatchInv, ToldOk
      <4>2. CASE d = [task |-> now.task, agent |-> now.agent, clean |-> now.clean]
        BY <2>3, <3>1, <4>2
      <4>3. QED
        BY <2>4, <4>1, <4>2
    <3>2. QED
      BY <1>1, <3>1 DEF ToldOk
  <2>6. tasks # <<>>
    BY <2>2 DEF DispatchInv, WorkOk
  <2>7. WorkOk' /\ DueOk' /\ NowOk'
    BY <1>1, <1>2, <2>1, <2>6 DEF DispatchInv, WorkOk, DueOk, NowOk
  <2>8. QED
    BY <2>5, <2>7 DEF DispatchInv
<1>5. CASE ServerKilled
  <2>1. due' = <<>> /\ now' = NoCo /\ told' = told
    BY <1>5 DEF ServerKilled
  <2>2. WorkOk' /\ NowOk' /\ ToldOk'
    BY <1>1, <2>1 DEF DispatchInv, WorkOk, NowOk, ToldOk
  <2>3. DueOk'
    BY <2>1, EmptyIsList DEF DueOk
  <2>4. QED
    BY <2>2, <2>3 DEF DispatchInv
<1>6. QED
  BY <1>3, <1>4, <1>5

\* Every step keeps the dispatch sound.
LEMMA DispatchSteps == DispatchInv /\ [DeskNext]_deskVars => DispatchInv'
<1> SUFFICES ASSUME DispatchInv, [DeskNext]_deskVars PROVE DispatchInv'
  OBVIOUS
<1>1. ASSUME NEW p \in Actors,
             \/ Register(p) \/ Edit(p) \/ Unregister(p) \/ Enqueue(p) \/ Take(p) \/ Reorder(p)
             \/ BookWritten(p) \/ KillTerminal(p) \/ TerminalStopped(p)
      PROVE  UNCHANGED <<tasks, due, now, told>>
  BY <1>1 DEF Register, Edit, Unregister, Enqueue, Take, Reorder, Reads, BookWritten, KillTerminal,
              TerminalStopped
<1>2. ASSUME CreateTerminal \/ Boot \/ BootEnds \/ UNCHANGED deskVars
      PROVE  UNCHANGED <<tasks, due, now, told>>
  BY <1>2 DEF CreateTerminal, Boot, BootEnds, deskVars
<1>3. CASE UNCHANGED <<tasks, due, now, told>>
  BY <1>3, DispatchStays
<1>4. ASSUME NEW p \in Actors, Assign(p) \/ Approve(p) PROVE DispatchInv'
  BY <1>4, HandDispatch
<1>5. QED
  BY <1>1, <1>2, <1>3, <1>4, TemplateDispatch, EndDispatch, PickDispatch, StartDispatch, TellDispatch
     DEF DeskNext

(***************************************************************************)
(* DispatchIsSound: however many threads change the tasks, the book and    *)
(* the terminals meanwhile, and wherever the server is killed, the         *)
(* conductor has one running terminal of its own per agent, and what a     *)
(* coroutine nobody disturbed told an agent had been started.              *)
(***************************************************************************)
THEOREM OneTerminalAndStarted == DeskSpec => []DispatchIsSound
<1>1. DispatchInv /\ TerminalInv => DispatchIsSound
  BY DEF DispatchInv, ToldOk, TerminalInv, DispatchIsSound, ToldWasStarted
<1>2. QED
  BY <1>1, DispatchStarts, DispatchSteps, TerminalSteps, PTL DEF DeskSpec

-----------------------------------------------------------------------------
(***************************************************************************)
(* agents.json.  A book is sound when its agents keep their fields and no  *)
(* task is in a queue twice; a change keeps the queues when a task leaves  *)
(* one only by a dequeue of it or with its agent.                          *)
(***************************************************************************)
IsInfo(x) == x = [model |-> x.model, skills |-> x.skills, queue |-> x.queue]

BookOk(b) == \A a \in DOMAIN b : IsInfo(b[a]) /\ IsList(b[a].queue) /\ IsInjective(b[a].queue)

Leaves(op, name, item, a, t) == name = a /\ (op = "unregister" \/ (op = "dequeue" /\ item = t))

Keeps(b, c, op, name, item) ==
    \A a \in DOMAIN b : \A i \in DOMAIN b[a].queue :
        Contains(QueueOf(c, a), b[a].queue[i]) \/ Leaves(op, name, item, a, b[a].queue[i])

\* A book that differs in what does not matter to the queues.
LEMMA SameQueues ==
    ASSUME NEW b, NEW c, BookOk(b), NEW op, NEW name, NEW item,
           \A a \in DOMAIN b : a \in DOMAIN c /\ c[a].queue = b[a].queue
    PROVE  Keeps(b, c, op, name, item)
<1> SUFFICES ASSUME NEW a \in DOMAIN b, NEW i \in DOMAIN b[a].queue
             PROVE  Contains(QueueOf(c, a), b[a].queue[i])
  BY DEF Keeps
<1>1. QueueOf(c, a) = b[a].queue
  BY DEF QueueOf
<1>2. i \in 1..Len(b[a].queue)
  BY ListDomain DEF BookOk
<1>3. QED
  BY <1>1, <1>2 DEF Contains

\* An agent that is new, with an empty queue.
LEMMA NewAgent ==
    ASSUME NEW b, BookOk(b), NEW n, n \notin DOMAIN b, NEW x, IsInfo(x), x.queue = <<>>, NEW op, NEW item
    PROVE  BookOk(With(b, n, x)) /\ Keeps(b, With(b, n, x), op, n, item)
<1> DEFINE c == With(b, n, x)
<1>1. DOMAIN c = DOMAIN b \cup {n} /\ c[n] = x /\ \A a \in DOMAIN b : c[a] = b[a]
  BY DEF With
<1>2. IsList(<<>>) /\ IsInjective(<<>>)
  BY EmptyIsList DEF IsInjective
<1> HIDE DEF c
<1>3. BookOk(c)
  BY <1>1, <1>2 DEF BookOk
<1>4. Keeps(b, c, op, n, item)
  BY <1>1, SameQueues
<1>5. QED
  BY <1>3, <1>4 DEF c

\* An agent whose queue alone is changed.
LEMMA OtherQueue ==
    ASSUME NEW b, BookOk(b), NEW n \in DOMAIN b, NEW q, IsList(q), IsInjective(q), NEW op, NEW item,
           \A i \in DOMAIN b[n].queue : Contains(q, b[n].queue[i]) \/ Leaves(op, n, item, n, b[n].queue[i]),
           NEW c, c = [b EXCEPT ![n].queue = q]
    PROVE  BookOk(c) /\ Keeps(b, c, op, n, item)
<1>1. DOMAIN c = DOMAIN b /\ \A a \in DOMAIN b : a # n => c[a] = b[a]
  OBVIOUS
<1>2. IsInfo(c[n]) /\ c[n].queue = q
  <2>1. c[n] = [b[n] EXCEPT !.queue = q] /\ IsInfo(b[n])
    BY DEF BookOk
  <2>2. QED
    BY <2>1 DEF IsInfo
<1>3. BookOk(c)
  BY <1>1, <1>2 DEF BookOk
<1>4. ASSUME NEW a \in DOMAIN b, NEW i \in DOMAIN b[a].queue
      PROVE  Contains(QueueOf(c, a), b[a].queue[i]) \/ Leaves(op, n, item, a, b[a].queue[i])
  <2>1. CASE a = n
    BY <1>1, <1>2, <2>1 DEF QueueOf
  <2>2. CASE a # n
    <3>1. QueueOf(c, a) = b[a].queue
      BY <1>1, <2>2 DEF QueueOf
    <3>2. i \in 1..Len(b[a].queue)
      BY ListDomain DEF BookOk
    <3>3. QED
      BY <3>1, <3>2 DEF Contains
  <2>3. QED
    BY <2>1, <2>2
<1>5. QED
  BY <1>3, <1>4 DEF Keeps

\* register is an upsert: the queue of an agent that is known stays.
LEMMA RegisterKeeps ==
    ASSUME NEW b, BookOk(b), NEW n, NEW model, NEW given
    PROVE  /\ BookOk(RegisterAgent(b, n, model, given))
           /\ Keeps(b, RegisterAgent(b, n, model, given), "register", n, 0)
<1>1. CASE n \notin DOMAIN b
  <2>1. PICK x : x = New(model, given)
    OBVIOUS
  <2>2. IsInfo(x) /\ x.queue = <<>>
    BY <2>1 DEF New, IsInfo
  <2>3. BookOk(With(b, n, x)) /\ Keeps(b, With(b, n, x), "register", n, 0)
    BY <1>1, <2>2, NewAgent
  <2>4. QED
    BY <1>1, <2>1, <2>3 DEF RegisterAgent
<1>2. CASE n \in DOMAIN b
  <2>1. PICK c : c = RegisterAgent(b, n, model, given)
    OBVIOUS
  <2>2. PICK y : y = IF given = {} THEN b[n].skills ELSE UNION given
    OBVIOUS
  <2>3. DOMAIN c = DOMAIN b /\ \A a \in DOMAIN b : a # n => c[a] = b[a]
    BY <1>2, <2>1 DEF RegisterAgent
  <2>4. IsInfo(c[n]) /\ c[n].queue = b[n].queue
    <3>1. IsInfo(b[n])
      BY <1>2 DEF BookOk
    <3>2. DOMAIN c[n] = {"model", "skills", "queue"} /\ c[n].queue = b[n].queue
      BY <1>2, <2>1, <3>1 DEF RegisterAgent, IsInfo
    <3>3. IsInfo(c[n])
      BY <1>2, <2>1, <3>1 DEF RegisterAgent, IsInfo
    <3>4. QED
      BY <3>2, <3>3
  <2>5. BookOk(c)
    BY <1>2, <2>3, <2>4 DEF BookOk
  <2>6. Keeps(b, c, "register", n, 0)
    BY <2>3, <2>4, SameQueues
  <2>7. QED
    BY <2>1, <2>5, <2>6
<1>3. QED
  BY <1>1, <1>2

\* So does it when the agent is edited.
LEMMA EditKeeps ==
    ASSUME NEW b, BookOk(b), NEW n \in DOMAIN b, NEW model, NEW given
    PROVE  /\ BookOk(EditedAgent(b, n, model, given))
           /\ Keeps(b, EditedAgent(b, n, model, given), "edit", n, 0)
<1>1. PICK c : c = EditedAgent(b, n, model, given)
  OBVIOUS
<1>2. DOMAIN c = DOMAIN b /\ \A a \in DOMAIN b : a # n => c[a] = b[a]
  BY <1>1 DEF EditedAgent
<1>3. IsInfo(c[n]) /\ c[n].queue = b[n].queue
  <2>1. IsInfo(b[n])
    BY DEF BookOk
  <2>2. DOMAIN c[n] = {"model", "skills", "queue"} /\ c[n].queue = b[n].queue
    BY <1>1, <2>1 DEF EditedAgent, IsInfo
  <2>3. IsInfo(c[n])
    BY <1>1, <2>1 DEF EditedAgent, IsInfo
  <2>4. QED
    BY <2>2, <2>3
<1>4. BookOk(c)
  BY <1>2, <1>3 DEF BookOk
<1>5. Keeps(b, c, "edit", n, 0)
  BY <1>2, <1>3, SameQueues
<1>6. QED
  BY <1>1, <1>4, <1>5

\* An agent that is unregistered takes its queue along.
LEMMA UnregisterKeeps ==
    ASSUME NEW b, BookOk(b), NEW n
    PROVE  BookOk(WithoutAgent(b, n)) /\ Keeps(b, WithoutAgent(b, n), "unregister", n, 0)
<1>1. PICK c : c = WithoutAgent(b, n)
  OBVIOUS
<1>2. DOMAIN c = DOMAIN b \ {n} /\ \A a \in DOMAIN c : c[a] = b[a]
  BY <1>1 DEF WithoutAgent
<1>3. BookOk(c)
  BY <1>2 DEF BookOk
<1>4. ASSUME NEW a \in DOMAIN b, NEW i \in DOMAIN b[a].queue
      PROVE  Contains(QueueOf(c, a), b[a].queue[i]) \/ Leaves("unregister", n, 0, a, b[a].queue[i])
  <2>1. CASE a = n
    BY <2>1 DEF Leaves
  <2>2. CASE a # n
    <3>1. QueueOf(c, a) = b[a].queue
      BY <1>2, <2>2 DEF QueueOf
    <3>2. i \in 1..Len(b[a].queue)
      BY ListDomain DEF BookOk
    <3>3. QED
      BY <3>1, <3>2 DEF Contains
  <2>3. QED
    BY <2>1, <2>2
<1>5. QED
  BY <1>1, <1>3, <1>4 DEF Keeps

\* A task is added that the queue has not.
LEMMA EnqueueKeeps ==
    ASSUME NEW b, BookOk(b), NEW n \in DOMAIN b, NEW t, ~Contains(b[n].queue, t),
           NEW c, c = [b EXCEPT ![n].queue = Append(@, t)]
    PROVE  BookOk(c) /\ Keeps(b, c, "enqueue", n, t)
<1>1. PICK o : o = b[n].queue
  OBVIOUS
<1>2. IsList(o) /\ IsInjective(o) /\ DOMAIN o = 1..Len(o) /\ Len(o) \in Nat
  BY <1>1, ListDomain DEF BookOk, IsList
<1>3. PICK q : q = Append(o, t)
  OBVIOUS
<1>4. /\ IsList(q) /\ Len(q) = Len(o) + 1 /\ DOMAIN q = 1..(Len(o) + 1)
      /\ \A i \in 1..Len(o) : q[i] = o[i]
      /\ q[Len(o) + 1] = t
  BY <1>2, <1>3, ListAppend
<1>5. \A i \in 1..Len(o) : o[i] # t
  BY <1>1 DEF Contains
<1>6. \A i \in DOMAIN q : (i \in DOMAIN o /\ q[i] = o[i]) \/ (i = Len(o) + 1 /\ q[i] = t)
  BY <1>2, <1>4
<1>7. IsInjective(q)
  BY <1>2, <1>5, <1>6 DEF IsInjective
<1>8. \A i \in DOMAIN o : Contains(q, o[i])
  <2> TAKE i \in DOMAIN o
  <2>1. i \in 1..Len(q) /\ q[i] = o[i]
    BY <1>2, <1>4
  <2>2. QED
    BY <2>1 DEF Contains
<1>9. c = [b EXCEPT ![n].queue = q]
  BY <1>1, <1>3
<1>10. \A i \in DOMAIN b[n].queue :
          Contains(q, b[n].queue[i]) \/ Leaves("enqueue", n, t, n, b[n].queue[i])
  BY <1>1, <1>8
<1>11. IsList(q)
  BY <1>4
<1>12. QED
  BY <1>7, <1>9, <1>10, <1>11, OtherQueue

\* The one at position i is taken out.
LEMMA TakeKeeps ==
    ASSUME NEW b, BookOk(b), NEW n \in DOMAIN b, NEW k \in DOMAIN b[n].queue,
           NEW c, c = [b EXCEPT ![n].queue = RemoveAt(@, k)]
    PROVE  BookOk(c) /\ Keeps(b, c, "dequeue", n, b[n].queue[k])
<1>1. PICK o : o = b[n].queue
  OBVIOUS
<1>2. IsList(o) /\ IsInjective(o) /\ DOMAIN o = 1..Len(o) /\ Len(o) \in Nat
  BY <1>1, ListDomain DEF BookOk, IsList
<1>3. PICK q : q = RemoveAt(o, k)
  OBVIOUS
<1>4. k \in 1..Len(o)
  BY <1>1, <1>2
<1>5. /\ IsList(q) /\ Len(q) = Len(o) - 1
      /\ \A i \in 1..(Len(o) - 1) : q[i] = IF i < k THEN o[i] ELSE o[i + 1]
  <2> DEFINE S == {o[i] : i \in 1..Len(o)}
  <2>1. o \in Seq(S)
    BY <1>2, ListIsSeq
  <2> HIDE DEF S
  <2>2. PICK u, v : u = SubSeq(o, 1, k - 1) /\ v = SubSeq(o, k + 1, Len(o)) /\ q = u \o v
    BY <1>3 DEF RemoveAt
  <2>3. /\ u \in Seq(S) /\ Len(u) = k - 1 /\ \A i \in 1..(k - 1) : u[i] = o[i]
        /\ v \in Seq(S) /\ Len(v) = Len(o) - k /\ \A i \in 1..(Len(o) - k) : v[i] = o[i + k]
    <3>1. \A i \in 1..Len(o) : o[i] \in S
      BY <1>2, <2>1
    <3>2. /\ u \in Seq(S) /\ Len(u) = IF 1 <= k - 1 THEN (k - 1) - 1 + 1 ELSE 0
          /\ \A i \in 1..((k - 1) - 1 + 1) : u[i] = o[1 + i - 1]
      <4>1. PICK g, h : g = 1 /\ h = k - 1
        OBVIOUS
      <4>2. g \in Int /\ h \in Int /\ \A i \in g..h : o[i] \in S
        BY <1>2, <1>4, <3>1, <4>1
      <4>3. /\ SubSeq(o, g, h) \in Seq(S) /\ Len(SubSeq(o, g, h)) = IF g <= h THEN h - g + 1 ELSE 0
            /\ \A i \in 1..(h - g + 1) : SubSeq(o, g, h)[i] = o[g + i - 1]
        BY <4>2, SubSeqProperties
      <4>4. QED
        BY <2>2, <4>1, <4>3
    <3>3. /\ v \in Seq(S) /\ Len(v) = IF k + 1 <= Len(o) THEN Len(o) - (k + 1) + 1 ELSE 0
          /\ \A i \in 1..(Len(o) - (k + 1) + 1) : v[i] = o[(k + 1) + i - 1]
      <4>1. k + 1 \in Int /\ Len(o) \in Int /\ \A i \in (k + 1)..Len(o) : o[i] \in S
        BY <1>2, <1>4, <3>1
      <4>2. QED
        BY <2>2, <4>1, SubSeqProperties
    <3>4. ASSUME NEW i \in 1..(k - 1) PROVE u[i] = o[i]
      <4>1. i \in 1..((k - 1) - 1 + 1) /\ 1 + i - 1 = i
        BY <1>2, <1>4
      <4>2. QED
        BY <3>2, <4>1
    <3>5. ASSUME NEW i \in 1..(Len(o) - k) PROVE v[i] = o[i + k]
      <4>1. i \in 1..(Len(o) - (k + 1) + 1) /\ (k + 1) + i - 1 = i + k
        BY <1>2, <1>4
      <4>2. QED
        BY <3>3, <4>1
    <3>6. Len(u) = k - 1 /\ Len(v) = Len(o) - k
      BY <1>2, <1>4, <3>2, <3>3
    <3>7. QED
      BY <3>2, <3>3, <3>4, <3>5, <3>6
  <2>4. q \in Seq(S) /\ Len(q) = Len(u) + Len(v)
    BY <2>2, <2>3
  <2>5. IsList(q) /\ Len(q) = Len(o) - 1
    BY <1>2, <1>4, <2>3, <2>4, SeqIsList
  <2>6. ASSUME NEW i \in 1..(Len(o) - 1) PROVE q[i] = IF i < k THEN o[i] ELSE o[i + 1]
    <3>1. CASE i < k
      <4>1. i \in 1..Len(u) /\ u[i] = o[i]
        BY <1>2, <1>4, <2>3, <3>1
      <4>2. QED
        BY <2>2, <2>3, <3>1, <4>1
    <3>2. CASE ~(i < k)
      <4>1. i - Len(u) \in 1..Len(v) /\ (i - Len(u)) + k = i + 1
        BY <1>2, <1>4, <2>3, <3>2
      <4>2. v[i - Len(u)] = o[i + 1]
        BY <1>2, <2>3, <4>1
      <4>3. i \in (Len(u) + 1)..(Len(u) + Len(v))
        BY <1>2, <1>4, <2>3, <3>2
      <4>4. q[i] = v[i - Len(u)]
        BY <2>2, <2>3, <4>3
      <4>5. QED
        BY <3>2, <4>2, <4>4
    <3>3. QED
      BY <3>1, <3>2
  <2>7. QED
    BY <2>5, <2>6
<1>6. DOMAIN q = 1..(Len(o) - 1)
  BY <1>5, ListDomain
<1>7. IsInjective(q)
  <2>1. SUFFICES ASSUME NEW i \in DOMAIN q, NEW j \in DOMAIN q, q[i] = q[j]
                 PROVE  i = j
    BY DEF IsInjective
  <2> DEFINE at(x) == IF x < k THEN x ELSE x + 1
  <2>2. i \in Nat /\ j \in Nat /\ k \in Nat /\ at(i) \in DOMAIN o /\ at(j) \in DOMAIN o
    BY <1>2, <1>4, <1>6
  <2>3. o[at(i)] = o[at(j)]
    BY <1>5, <1>6, <2>1
  <2>4. at(i) = at(j)
    BY <1>2, <2>2, <2>3 DEF IsInjective
  <2>5. QED
    BY <2>2, <2>4
<1>8. \A i \in DOMAIN o : Contains(q, o[i]) \/ Leaves("dequeue", n, o[k], n, o[i])
  <2> TAKE i \in DOMAIN o
  <2>1. CASE i = k
    BY <2>1 DEF Leaves
  <2>2. CASE i < k
    <3>1. i \in 1..Len(q) /\ q[i] = o[i]
      BY <1>2, <1>4, <1>5, <2>2
    <3>2. QED
      BY <3>1 DEF Contains
  <2>3. CASE i > k
    <3>1. i - 1 \in 1..Len(q) /\ q[i - 1] = o[i]
      BY <1>2, <1>4, <1>5, <2>3
    <3>2. QED
      BY <3>1 DEF Contains
  <2>4. QED
    BY <1>2, <1>4, <2>1, <2>2, <2>3
<1>9. c = [b EXCEPT ![n].queue = q]
  BY <1>1, <1>3
<1>10. QED
  BY <1>1, <1>5, <1>7, <1>8, <1>9, OtherQueue

\* The same tasks at other places.
LEMMA ReorderKeeps ==
    ASSUME NEW b, BookOk(b), NEW n \in DOMAIN b, NEW from \in Bijection(DOMAIN b[n].queue, DOMAIN b[n].queue),
           NEW c, c = [b EXCEPT ![n].queue = [i \in DOMAIN b[n].queue |-> @[from[i]]]]
    PROVE  BookOk(c) /\ Keeps(b, c, "reorder", n, 0)
<1>1. PICK o : o = b[n].queue
  OBVIOUS
<1>2. IsList(o) /\ IsInjective(o) /\ DOMAIN o = 1..Len(o) /\ Len(o) \in Nat
  BY <1>1, ListDomain DEF BookOk, IsList
<1>3. PICK q : q = [i \in DOMAIN o |-> o[from[i]]]
  OBVIOUS
<1>4. /\ from \in [DOMAIN o -> DOMAIN o]
      /\ \A i, j \in DOMAIN o : from[i] = from[j] => i = j
      /\ \A j \in DOMAIN o : \E i \in DOMAIN o : from[i] = j
  BY <1>1 DEF Bijection, Injection, Surjection, IsInjective
<1>5. IsList(q) /\ Len(q) = Len(o) /\ DOMAIN q = DOMAIN o
  <2>1. q = [i \in 1..Len(o) |-> q[i]]
    BY <1>2, <1>3
  <2>2. Len(q) = Len(o)
    BY <1>2, <2>1
  <2>3. QED
    BY <1>2, <1>3, <2>1, <2>2 DEF IsList
<1>6. IsInjective(q)
  BY <1>2, <1>3, <1>4 DEF IsInjective
<1>7. \A j \in DOMAIN o : Contains(q, o[j])
  <2> TAKE j \in DOMAIN o
  <2>1. PICK i \in DOMAIN o : from[i] = j
    BY <1>4
  <2>2. q[i] = o[j] /\ i \in 1..Len(q)
    BY <1>2, <1>3, <1>5, <2>1
  <2>3. QED
    BY <2>2 DEF Contains
<1>8. c = [b EXCEPT ![n].queue = q]
  BY <1>1, <1>3
<1>9. QED
  BY <1>1, <1>5, <1>6, <1>7, <1>8, OtherQueue

-----------------------------------------------------------------------------
(***************************************************************************)
(* What is held is a sound book, and as long as no two changes overlapped  *)
(* it is the only one and keeps the queues of the book it is to replace.   *)
(***************************************************************************)
Changing(p) == hold[p].op \notin {"none", "kill"}

HeldKeeps(p) == Keeps(agents, hold[p].book, hold[p].op, hold[p].name, hold[p].task)

QueueInv ==
    /\ BookOk(agents) /\ hold = [p \in Actors |-> hold[p]]
    /\ \A p \in Actors : Changing(p) => BookOk(hold[p].book)
    /\ calm => \A p \in Actors : Changing(p) => HeldKeeps(p)
    /\ calm => \A p, q \in Actors : Changing(p) /\ Changing(q) => p = q
    /\ up = "down" => \A p \in Actors \ {Cli} : hold[p] = NoHold

QueuesInjective == \A a \in DOMAIN agents : IsInjective(agents[a].queue)

Left(a, t) ==
    \E p \in Actors :
        /\ hold[p] # NoHold /\ hold'[p] = NoHold
        /\ \/ hold[p].op = "unregister" /\ hold[p].name = a
           \/ hold[p].op = "dequeue" /\ hold[p].name = a /\ hold[p].task = t

QueuesStay ==
    calm => \A a \in DOMAIN agents : \A t \in ToSet(agents[a].queue) :
        Contains(QueueOf(agents', a), t) \/ Left(a, t)

\* At the start nothing is held and the settled book is sound.
LEMMA QueueStarts == DeskInit => QueueInv
<1> SUFFICES ASSUME DeskInit PROVE QueueInv
  OBVIOUS
<1>1. agents = Settled /\ hold = [p \in Actors |-> NoHold]
  BY DEF DeskInit
<1>2. ASSUME NEW a \in DOMAIN Settled
      PROVE  IsInfo(Settled[a]) /\ IsList(Settled[a].queue) /\ IsInjective(Settled[a].queue)
  <2>1. IsInfo(Settled[a]) /\ Settled[a].queue \in Seq(Nat) /\ IsInjective(Settled[a].queue)
    BY AgentDeskAssumption DEF IsInfo
  <2>2. QED
    BY <2>1, SeqIsList
<1>3. BookOk(agents)
  BY <1>1, <1>2 DEF BookOk
<1>4. \A p \in Actors : hold[p] = NoHold /\ ~Changing(p)
  BY <1>1 DEF Changing, NoHold
<1>5. hold = [p \in Actors |-> hold[p]]
  BY <1>1
<1>6. QED
  BY <1>3, <1>4, <1>5 DEF QueueInv

\* The book stays: nothing is asked of the queues.
LEMMA SameBook ==
    ASSUME QueueInv, agents' = agents
    PROVE  QueuesStay
<1> SUFFICES ASSUME NEW a \in DOMAIN agents, NEW t \in ToSet(agents[a].queue)
             PROVE  Contains(QueueOf(agents', a), t)
  BY DEF QueuesStay
<1>1. QueueOf(agents', a) = agents[a].queue
  BY DEF QueueOf
<1>2. PICK i \in DOMAIN agents[a].queue : t = agents[a].queue[i]
  BY DEF ToSet
<1>3. i \in 1..Len(agents[a].queue)
  BY ListDomain DEF QueueInv, BookOk
<1>4. QED
  BY <1>1, <1>2, <1>3 DEF Contains

\* Steps that hold nothing new.
LEMMA NothingRead ==
    ASSUME QueueInv, agents' = agents, calm' => calm,
           hold' = [p \in Actors |-> hold'[p]], \A p \in Actors : hold'[p] = hold[p] \/ ~Changing(p)',
           up' # "down" \/ (up' = up /\ \A p \in Actors \ {Cli} : hold[p] = NoHold => hold'[p] = NoHold)
              \/ (\A p \in Actors \ {Cli} : hold'[p] = NoHold)
    PROVE  QueueInv'
<1>1. \A p \in Actors : Changing(p)' => Changing(p) /\ hold'[p] = hold[p]
  BY DEF Changing
<1>2. /\ BookOk(agents)
      /\ \A p \in Actors : Changing(p) => BookOk(hold[p].book)
      /\ calm => \A p \in Actors : Changing(p) => HeldKeeps(p)
      /\ calm => \A p, q \in Actors : Changing(p) /\ Changing(q) => p = q
      /\ up = "down" => \A p \in Actors \ {Cli} : hold[p] = NoHold
  BY DEF QueueInv
<1>3. BookOk(agents)' /\ \A p \in Actors : Changing(p)' => BookOk(hold'[p].book)
  BY <1>1, <1>2
<1>4. calm' => \A p \in Actors : Changing(p)' => HeldKeeps(p)'
  BY <1>1, <1>2 DEF HeldKeeps
<1>5. calm' => \A p, q \in Actors : Changing(p)' /\ Changing(q)' => p = q
  BY <1>1, <1>2
<1>6. up' = "down" => \A p \in Actors \ {Cli} : hold'[p] = NoHold
  BY <1>2
<1>7. QED
  BY <1>3, <1>4, <1>5, <1>6 DEF QueueInv

\* A change that begins: it was computed from the book as it is, and overlaps with none while it is calm.
LEMMA ChangeRead ==
    ASSUME QueueInv, NEW p \in Actors, NEW op, op \notin {"none", "kill"}, NEW name, NEW item, NEW book,
           BookOk(book), Keeps(agents, book, op, name, item), agents' = agents,
           hold' = [hold EXCEPT ![p] = [op |-> op, name |-> name, task |-> item, book |-> book]],
           calm' => calm /\ \A q \in Actors : q # p => ~Changing(q),
           up' = "down" => p = Cli /\ up = "down"
    PROVE  QueueInv'
<1>1. hold'[p] = [op |-> op, name |-> name, task |-> item, book |-> book]
  BY DEF QueueInv
<1>2. \A q \in Actors : q # p => hold'[q] = hold[q]
  BY DEF QueueInv
<1>3. hold' = [q \in Actors |-> hold'[q]]
  BY DEF QueueInv
<1>4. /\ hold'[p].op = op /\ hold'[p].name = name /\ hold'[p].task = item /\ hold'[p].book = book
      /\ Changing(p)'
  BY <1>1 DEF Changing
<1>5. \A q \in Actors : q # p => (Changing(q)' <=> Changing(q))
  BY <1>2 DEF Changing
<1>6. BookOk(agents)' /\ \A q \in Actors : Changing(q)' => BookOk(hold'[q].book)
  <2>1. BookOk(agents) /\ \A q \in Actors : Changing(q) => BookOk(hold[q].book)
    BY DEF QueueInv
  <2>2. ASSUME NEW q \in Actors, Changing(q)' PROVE BookOk(hold'[q].book)
    <3>1. CASE q = p
      BY <1>4, <3>1
    <3>2. CASE q # p
      BY <1>2, <1>5, <2>1, <2>2, <3>2
    <3>3. QED
      BY <3>1, <3>2
  <2>3. QED
    BY <2>1, <2>2
<1>7. HeldKeeps(p)'
  BY <1>4 DEF HeldKeeps
<1>8. calm' => \A q \in Actors : Changing(q)' => q = p
  BY <1>5
<1>9. calm' => \A q \in Actors : Changing(q)' => HeldKeeps(q)'
  BY <1>7, <1>8
<1>10. up' = "down" => \A q \in Actors \ {Cli} : hold'[q] = NoHold
  BY <1>2 DEF QueueInv
<1>11. QED
  BY <1>3, <1>6, <1>8, <1>9, <1>10 DEF QueueInv

\* A method that has read the book holds one that keeps its queues.
LEMMA ReadKeeps ==
    ASSUME QueueInv, NEW p \in Actors, NEW op, op \notin {"none", "kill"}, NEW name, NEW item, NEW book,
           BookOk(book), Keeps(agents, book, op, name, item), Reads(p, op, name, item, book)
    PROVE  QueueInv' /\ agents' = agents
<1>1. /\ agents' = agents
      /\ hold' = [hold EXCEPT ![p] = [op |-> op, name |-> name, task |-> item, book |-> book]]
  BY DEF Reads
<1>2. calm' => calm /\ \A q \in Actors : q # p => ~Changing(q)
  BY DEF Reads, Changing
<1>3. up' = "down" => p = Cli /\ up = "down"
  BY DEF Reads, Begins, LoopFree, Actors
<1>4. QED
  BY <1>1, <1>2, <1>3, ChangeRead

\* Every method of the store.
LEMMA MethodsKeep ==
    ASSUME QueueInv, NEW p \in Actors,
           \/ Register(p) \/ Edit(p) \/ Unregister(p)
           \/ Enqueue(p) \/ Take(p) \/ Reorder(p)
    PROVE  QueueInv' /\ agents' = agents
<1>1. BookOk(agents)
  BY DEF QueueInv
<1>2. CASE Register(p)
  <2>1. PICK name, model, given :
           Reads(p, "register", name, 0, RegisterAgent(agents, name, model, given))
    BY <1>2 DEF Register
  <2>2. QED
    BY <1>1, <2>1, RegisterKeeps, ReadKeeps
<1>3. CASE Edit(p)
  <2>1. PICK name \in DOMAIN agents, model \in {{}} \cup {{x} : x \in Models}, given \in Given :
           Reads(p, "edit", name, 0, EditedAgent(agents, name, model, given))
    BY <1>3 DEF Edit
  <2>2. QED
    BY <1>1, <2>1, EditKeeps, ReadKeeps
<1>4. CASE Unregister(p)
  <2>1. PICK name : Reads(p, "unregister", name, 0, WithoutAgent(agents, name))
    BY <1>4 DEF Unregister
  <2>2. QED
    BY <1>1, <2>1, UnregisterKeeps, ReadKeeps
<1>5. CASE Enqueue(p)
  <2>1. PICK n \in DOMAIN agents, t \in DOMAIN tasks :
           /\ ~Contains(agents[n].queue, t)
           /\ Reads(p, "enqueue", n, t, [agents EXCEPT ![n].queue = Append(@, t)])
    BY <1>5 DEF Enqueue
  <2>2. PICK c : c = [agents EXCEPT ![n].queue = Append(@, t)]
    OBVIOUS
  <2>3. BookOk(c) /\ Keeps(agents, c, "enqueue", n, t)
    BY <1>1, <2>1, <2>2, EnqueueKeeps
  <2>4. QED
    BY <2>1, <2>2, <2>3, ReadKeeps
<1>6. CASE Take(p)
  <2>0. PICK n \in DOMAIN agents : \E k \in DOMAIN agents[n].queue :
           Reads(p, "dequeue", n, agents[n].queue[k], [agents EXCEPT ![n].queue = RemoveAt(@, k)])
    BY <1>6 DEF Take
  <2>1. PICK k \in DOMAIN agents[n].queue :
           Reads(p, "dequeue", n, agents[n].queue[k], [agents EXCEPT ![n].queue = RemoveAt(@, k)])
    BY <2>0
  <2>2. PICK c : c = [agents EXCEPT ![n].queue = RemoveAt(@, k)]
    OBVIOUS
  <2>3. BookOk(c) /\ Keeps(agents, c, "dequeue", n, agents[n].queue[k])
    BY <1>1, <2>2, TakeKeeps
  <2>4. QED
    BY <2>1, <2>2, <2>3, ReadKeeps
<1>7. CASE Reorder(p)
  <2>0. PICK n \in DOMAIN agents : \E from \in Bijection(DOMAIN agents[n].queue, DOMAIN agents[n].queue) :
           Reads(p, "reorder", n, 0,
                 [agents EXCEPT ![n].queue = [i \in DOMAIN agents[n].queue |-> @[from[i]]]])
    BY <1>7 DEF Reorder
  <2>1. PICK from \in Bijection(DOMAIN agents[n].queue, DOMAIN agents[n].queue) :
           Reads(p, "reorder", n, 0,
                 [agents EXCEPT ![n].queue = [i \in DOMAIN agents[n].queue |-> @[from[i]]]])
    BY <2>0
  <2>2. PICK c : c = [agents EXCEPT ![n].queue = [i \in DOMAIN agents[n].queue |-> @[from[i]]]]
    OBVIOUS
  <2>3. BookOk(c) /\ Keeps(agents, c, "reorder", n, 0)
    BY <1>1, <2>2, ReorderKeeps
  <2>4. QED
    BY <2>1, <2>2, <2>3, ReadKeeps
<1>8. QED
  BY <1>2, <1>3, <1>4, <1>5, <1>6, <1>7

\* A book that is written is the held one, which while it is calm keeps the queues.
LEMMA WrittenKeeps ==
    ASSUME QueueInv, NEW p \in Actors, BookWritten(p)
    PROVE  QueueInv' /\ QueuesStay
<1>1. /\ Changing(p) /\ agents' = hold[p].book /\ calm' = calm /\ up' = up
      /\ hold' = [hold EXCEPT ![p] = NoHold]
  BY DEF BookWritten, Changing
<1>2. hold'[p] = NoHold /\ ~Changing(p)'
  BY <1>1 DEF QueueInv, Changing, NoHold
<1>3. \A q \in Actors : q # p => hold'[q] = hold[q]
  BY <1>1 DEF QueueInv
<1>4. hold' = [q \in Actors |-> hold'[q]]
  BY <1>1 DEF QueueInv
<1>5. \A q \in Actors : Changing(q)' => q # p /\ Changing(q) /\ hold'[q] = hold[q]
  BY <1>2, <1>3 DEF Changing
<1>6. BookOk(agents)' /\ \A q \in Actors : Changing(q)' => BookOk(hold'[q].book)
  <2>1. \A q \in Actors : Changing(q) => BookOk(hold[q].book)
    BY DEF QueueInv
  <2>2. QED
    BY <1>1, <1>5, <2>1
<1>7. calm' => \A q \in Actors : ~Changing(q)'
  BY <1>1, <1>5 DEF QueueInv
<1>8. up' = "down" => \A q \in Actors \ {Cli} : hold'[q] = NoHold
  BY <1>1, <1>2, <1>3 DEF QueueInv
<1>9. QueueInv'
  BY <1>4, <1>6, <1>7, <1>8 DEF QueueInv
<1>10. QueuesStay
  <2>1. SUFFICES ASSUME calm, NEW a \in DOMAIN agents, NEW t \in ToSet(agents[a].queue)
                 PROVE  Contains(QueueOf(agents', a), t) \/ Left(a, t)
    BY DEF QueuesStay
  <2>2. HeldKeeps(p)
    BY <1>1, <2>1 DEF QueueInv
  <2>3. PICK i \in DOMAIN agents[a].queue : t = agents[a].queue[i]
    BY DEF ToSet
  <2>4. Contains(QueueOf(hold[p].book, a), t) \/ Leaves(hold[p].op, hold[p].name, hold[p].task, a, t)
    BY <2>2, <2>3 DEF HeldKeeps, Keeps
  <2>5. hold[p] # NoHold
    BY <1>1 DEF Changing, NoHold
  <2>6. QED
    BY <1>1, <1>2, <2>4, <2>5 DEF Leaves, Left
<1>11. QED
  BY <1>9, <1>10

\* The server's start registers its conductor when it is not known.
LEMMA BootKeeps ==
    ASSUME QueueInv, Boot
    PROVE  QueueInv' /\ agents' = agents
<1>1. agents' = agents /\ up = "down" /\ up' = "booting"
  BY DEF Boot
<1>2. CASE Conductor \in DOMAIN agents
  <2>1. hold' = hold /\ (calm' => calm)
    BY <1>2 DEF Boot
  <2>2. QED
    BY <1>1, <2>1, NothingRead DEF QueueInv
<1>3. CASE Conductor \notin DOMAIN agents
  <2>1. PICK x : x = [model |-> CHOOSE y \in Models : TRUE, skills |-> {"conductor"}, queue |-> <<>>]
    OBVIOUS
  <2>2. IsInfo(x) /\ x.queue = <<>>
    BY <2>1 DEF IsInfo
  <2>3. PICK c : c = With(agents, Conductor, x)
    OBVIOUS
  <2>4. BookOk(c) /\ Keeps(agents, c, "register", Conductor, 0)
    BY <1>3, <2>2, <2>3, NewAgent DEF QueueInv
  <2>5. hold' = [hold EXCEPT ![Loop] = [op |-> "register", name |-> Conductor, task |-> 0, book |-> c]]
    BY <1>3, <2>1, <2>3 DEF Boot
  <2>6. Loop \in Actors
    BY DEF Actors
  <2>7. calm' => calm /\ \A q \in Actors : q # Loop => ~Changing(q)
    <3>1. \A q \in Actors \ {Cli} : hold[q] = NoHold
      BY <1>1 DEF QueueInv
    <3>2. calm' => calm /\ hold[Cli] = NoHold
      BY <1>3 DEF Boot
    <3>3. QED
      BY <3>1, <3>2 DEF Changing, NoHold
  <2>8. "register" \notin {"none", "kill"}
    OBVIOUS
  <2>9. QueueInv'
    BY <1>1, <2>4, <2>5, <2>6, <2>7, <2>8, ChangeRead
  <2>10. QED
    BY <1>1, <2>9
<1>4. QED
  BY <1>2, <1>3

\* Every step keeps the books sound, and the queues.
LEMMA QueueSteps == QueueInv /\ [DeskNext]_deskVars => QueueInv' /\ QueuesStay
<1> SUFFICES ASSUME QueueInv, [DeskNext]_deskVars PROVE QueueInv' /\ QueuesStay
  OBVIOUS
<1>1. hold = [p \in Actors |-> hold[p]]
  BY DEF QueueInv
<1>2. ASSUME NEW p \in Actors, KillTerminal(p) \/ TerminalStopped(p)
      PROVE  QueueInv' /\ agents' = agents
  <2>1. agents' = agents /\ calm' = calm /\ up' = up
    BY <1>2 DEF KillTerminal, TerminalStopped
  <2>2. PICK x : hold' = [hold EXCEPT ![p] = x] /\ x.op \in {"none", "kill"}
    <3>1. CASE KillTerminal(p)
      <4>1. PICK i : hold' = [hold EXCEPT ![p] = [op |-> "kill", terminal |-> i]]
        BY <3>1 DEF KillTerminal
      <4>2. [op |-> "kill", terminal |-> i].op = "kill"
        OBVIOUS
      <4>3. QED
        BY <4>1, <4>2
    <3>2. CASE TerminalStopped(p)
      <4>1. hold' = [hold EXCEPT ![p] = NoHold]
        BY <3>2 DEF TerminalStopped
      <4>2. NoHold.op = "none"
        BY DEF NoHold
      <4>3. QED
        BY <4>1, <4>2
    <3>3. QED
      BY <1>2, <3>1, <3>2
  <2>3. /\ hold' = [q \in Actors |-> hold'[q]] /\ hold'[p] = x
        /\ \A q \in Actors : q # p => hold'[q] = hold[q]
    BY <1>1, <2>2
  <2>4. \A q \in Actors : hold'[q] = hold[q] \/ ~Changing(q)'
    BY <2>2, <2>3 DEF Changing
  <2>5. up' # "down" \/ hold'[p] = NoHold
    BY <1>2, <2>1, <2>2, <2>3 DEF KillTerminal, TerminalStopped, Begins
  <2>6. QED
    BY <2>1, <2>3, <2>4, <2>5, NothingRead
<1>3. CASE ServerKilled
  <2>1. agents' = agents /\ calm' = calm /\ hold' = [p \in Actors |-> IF p = Cli THEN hold[p] ELSE NoHold]
    BY <1>3 DEF ServerKilled
  <2>2. \A p \in Actors : hold'[p] = hold[p] \/ ~Changing(p)'
    BY <2>1 DEF Changing, NoHold
  <2>3. hold' = [p \in Actors |-> hold'[p]] /\ \A p \in Actors \ {Cli} : hold'[p] = NoHold
    BY <2>1
  <2>4. QueueInv'
    BY <2>1, <2>2, <2>3, NothingRead
  <2>5. QED
    BY <2>1, <2>4, SameBook
<1>4. ASSUME agents' = agents, hold' = hold, calm' = calm, up' = up \/ up' # "down"
      PROVE  QueueInv' /\ QueuesStay
  <2>1. QueueInv'
    BY <1>1, <1>4, NothingRead
  <2>2. QED
    BY <1>4, <2>1, SameBook
<1>5. ASSUME NEW p \in Actors, Assign(p) \/ Approve(p)
      PROVE  agents' = agents /\ hold' = hold /\ calm' = calm /\ up' = up
  BY <1>5 DEF Assign, Approve
<1>6. ASSUME CreateTerminal \/ FromTemplate \/ Complete \/ Block \/ CoPicks \/ CoStarts \/ CoFinds
             \/ CoTells \/ BootEnds \/ UNCHANGED deskVars
      PROVE  agents' = agents /\ hold' = hold /\ calm' = calm /\ (up' = up \/ up' # "down")
  BY <1>6 DEF CreateTerminal, FromTemplate, Complete, Block, CoPicks, CoStarts, CoFinds, CoTells,
              BootEnds, deskVars
<1>7. ASSUME NEW p \in Actors,
             \/ Register(p) \/ Edit(p) \/ Unregister(p) \/ Enqueue(p) \/ Take(p) \/ Reorder(p)
             \/ BookWritten(p) \/ KillTerminal(p) \/ TerminalStopped(p)
      PROVE  QueueInv' /\ QueuesStay
  BY <1>2, <1>7, MethodsKeep, WrittenKeeps, SameBook
<1>8. CASE Boot
  BY <1>8, BootKeeps, SameBook
<1>9. QED
  BY <1>3, <1>4, <1>5, <1>6, <1>7, <1>8 DEF DeskNext

(***************************************************************************)
(* QueueKept: however many agents, threads and changes, no task is in a    *)
(* queue twice, and as long as no two changes of agents.json overlapped    *)
(* one leaves a queue only by being taken or with its agent; the server's  *)
(* kill between a read and its write loses nothing.                        *)
(***************************************************************************)
THEOREM QueuesAreKept == DeskSpec => QueueKept
<1>1. QueueInv => QueuesInjective
  BY DEF QueueInv, BookOk, QueuesInjective
<1>2. QueuesStay =>
        [calm => \A a \in DOMAIN agents : \A t \in ToSet(agents[a].queue) :
            \/ Contains(QueueOf(agents', a), t)
            \/ \E p \in Actors :
                  /\ hold[p] # NoHold /\ hold'[p] = NoHold
                  /\ \/ hold[p].op = "unregister" /\ hold[p].name = a
                     \/ hold[p].op = "dequeue" /\ hold[p].name = a /\ hold[p].task = t]_deskVars
  BY DEF QueuesStay, Left
<1>3. QED
  BY <1>1, <1>2, QueueStarts, QueueSteps, PTL DEF DeskSpec, QueueKept, QueuesInjective

=============================================================================
