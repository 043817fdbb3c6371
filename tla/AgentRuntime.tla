---------------------------- MODULE AgentRuntime ----------------------------
(***************************************************************************)
(* How agent_runner.py relays the messages of one thread to its agents:    *)
(* the event bus that turns every event into a coroutine, the supervisor's *)
(* session and lock per agent, the inbox of a busy agent, the turns with   *)
(* their live transport, the fallback to a subprocess, recovery, and what  *)
(* closing the thread does to all of them.                                 *)
(*                                                                         *)
(* Everything runs on one event loop: the coroutine in slot "running" goes *)
(* on until it suspends, then any other may run.  A suspended coroutine    *)
(* waits for a lock ("lock"), for a process that starts ("start",          *)
(* "connect"), or for an answer ("read", "sub", "fresh").                  *)
(***************************************************************************)
EXTENDS Naturals, Sequences, SequencesExt, FiniteSetsExt

CONSTANTS
    Agents,         \* the participants of the thread
    Recipients,     \* bound: the target_agents a person's messages name
    Live,           \* the agents whose provider has a live transport
    AutoFallback,   \* persistent_transport_auto_fallback
    Slots,          \* bound: coroutines at once, a set 1..n
    MaxMail,        \* bound: messages saved on the thread
    MaxEvents,      \* bound: phase changes, requests to attach or recover,
                    \*   live processes that die and turns that time out
    MaxChain,       \* MAX_CHAIN_DEPTH
    MaxAttempts     \* recoveries of a session, 2 in the code

ASSUME RuntimeAssumption ==
    /\ IsFiniteSet(Agents)
    /\ Live \subseteq Agents /\ Recipients \subseteq SUBSET Agents
    /\ AutoFallback \in BOOLEAN
    /\ Slots # {} /\ Slots = 1..Cardinality(Slots)
    /\ {MaxMail, MaxEvents, MaxChain, MaxAttempts} \subseteq Nat

VARIABLES
    thread,     \* "active" or "closed"
    mail,       \* the messages saved on the thread, oldest first
    ready,      \* events published and coroutines created that have not begun
    task,       \* the coroutines
    running,    \* the slot of the one that runs, 0 when all are suspended
    session,    \* the runtime session of each agent
    made,       \* sessions made so far for each agent
    managed,    \* _managed_sessions
    inbox,      \* the messages queued for each agent
    heard,      \* how often each message was in a prompt for each agent
    adapter,    \* the live transport registered for each agent, 0 for none
    alive,      \* live transport processes
    events,     \* how many of the bounded events there were
    broken,     \* a turn ended by an exception
    late        \* a coroutine was in flight at the close, or an agent attached after it

sessions == <<session, made, managed>>
processes == <<adapter, alive>>
vars == <<thread, mail, ready, task, running, sessions, inbox, heard, processes,
          events, broken, late>>

Everyone == {}      \* the target_agents of a message that names none
User == "user"

-----------------------------------------------------------------------------
(***************************************************************************)
(* A session is an object: one that was closed and made again is another   *)
(* one, with a lock of its own, and coroutines keep the one they have.     *)
(***************************************************************************)
NoSession == [gen |-> 0, mode |-> "none", attempts |-> 0, pending |-> FALSE,
              error |-> FALSE, boot |-> FALSE, sid |-> FALSE]

Primary(a) == IF a \in Live THEN "live" ELSE "resume"

NewSession(a, boot) ==
    [NoSession EXCEPT !.gen = made[a] + 1, !.mode = Primary(a), !.boot = boot]

Attempted(z) == IF z.pending THEN "live" ELSE z.mode

Recoverable(a, z) ==
    /\ ~z.pending /\ z.error
    /\ Primary(a) = "live" /\ z.mode # "live"
    /\ z.attempts < MaxAttempts

RecoverySucceeded(z) ==
    IF z.pending THEN [z EXCEPT !.boot = FALSE, !.pending = FALSE, !.mode = "live", !.error = FALSE]
    ELSE [z EXCEPT !.boot = FALSE]

RecoveryFailedStays(z) == [z EXCEPT !.boot = FALSE]  \* mutant: the recovery stays pending

RecoveryFailed(z) == [z EXCEPT !.boot = FALSE, !.pending = FALSE]

\* The session a coroutine has: the registered one, or one closed meanwhile.
Held(a, gen) ==
    IF session[a].gen = gen THEN {session[a]}
    ELSE {[NoSession EXCEPT !.gen = gen, !.mode = m, !.sid = b] : m \in {Primary(a), "resume"}, b \in BOOLEAN}

Write(a, gen, z) ==
    session' = IF session[a].gen = gen THEN [session EXCEPT ![a] = z] ELSE session

-----------------------------------------------------------------------------
(***************************************************************************)
(* Coroutines.  A turn is in progress while its coroutine holds the lock   *)
(* of the session.                                                         *)
(***************************************************************************)
NoTask == [pc |-> "idle", kind |-> "none", agent |-> User, gen |-> 0, rest |-> <<>>,
           msg |-> 0, turn |-> "main", ok |-> FALSE, depth |-> 0, ad |-> 0]

InTurn == {"start", "read", "sub", "fresh"}

Locked(a, gen) == \E s \in Slots : task[s].pc \in InTurn /\ task[s].agent = a /\ task[s].gen = gen

Awaited(a, gen) == \E s \in Slots : task[s].pc = "lock" /\ task[s].agent = a /\ task[s].gen = gen

Goto(s, r) == task' = [task EXCEPT ![s] = r]

Finish(s) == Goto(s, NoTask) /\ running' = 0

Suspended(s, pc) == running = 0 /\ task[s].pc = pc

Runs(s, pc) == running = s /\ task[s].pc = pc

NewAdapter(a) ==
    Min({n \in 1..(2 * Len(mail) + MaxEvents + 4) :
            <<a, n>> \notin alive /\ \A s \in Slots : task[s].agent = a => task[s].ad # n})

(***************************************************************************)
(* _ensure_live_transport_connected: a registered transport is used again  *)
(* when its process is healthy, else a new one is started.                 *)
(***************************************************************************)
Healthy(a) == adapter[a] # 0 /\ <<a, adapter[a]>> \in alive

Connect(s, r, whenUp, whenDown) ==
    LET a == r.agent
    IN  IF Healthy(a)
        THEN /\ Goto(s, [r EXCEPT !.pc = whenUp, !.ad = adapter[a]])
             /\ UNCHANGED processes
        ELSE /\ Goto(s, [r EXCEPT !.pc = whenDown, !.ad = NewAdapter(a)])
             /\ adapter' = [adapter EXCEPT ![a] = 0]
             /\ alive' = alive \cup {<<a, NewAdapter(a)>>}

\* The lock is held: the turn begins on the transport of the session.
Enter(s, r, z) ==
    IF Attempted(z) = "live" THEN Connect(s, r, "read", "start")
    ELSE Goto(s, [r EXCEPT !.pc = "sub"]) /\ UNCHANGED processes

\* How often a message is among those put into a prompt.
Times(list, m) == Cardinality({i \in DOMAIN list : list[i] = m})

(***************************************************************************)
(* invoke and deliver_message: the session is made if there is none, and   *)
(* the turn begins at once unless somebody holds or awaits its lock.  The  *)
(* messages "said" are in its prompt.                                      *)
(***************************************************************************)
InvokeUnlocked(s, r, said) ==  \* mutant: nobody waits for the lock
    LET a == r.agent
        z == IF session[a] = NoSession THEN NewSession(a, FALSE) ELSE session[a]
    IN  /\ session' = [session EXCEPT ![a] = z]
        /\ made' = [made EXCEPT ![a] = z.gen]
        /\ heard' = [heard EXCEPT ![a] = [m \in DOMAIN @ |-> @[m] + Times(said, m)]]
        /\ running' = 0
        /\ Enter(s, [r EXCEPT !.gen = z.gen], z)

Invoke(s, r, said) ==
    LET a == r.agent
        z == IF session[a] = NoSession THEN NewSession(a, FALSE) ELSE session[a]
    IN  /\ session' = [session EXCEPT ![a] = z]
        /\ made' = [made EXCEPT ![a] = z.gen]
        /\ heard' = [heard EXCEPT ![a] = [m \in DOMAIN @ |-> @[m] + Times(said, m)]]
        /\ running' = 0
        /\ IF Locked(a, z.gen) \/ Awaited(a, z.gen)
           THEN Goto(s, [r EXCEPT !.gen = z.gen, !.pc = "lock"]) /\ UNCHANGED processes
           ELSE Enter(s, [r EXCEPT !.gen = z.gen], z)

Acquire(s) ==
    LET r == task[s]
    IN  /\ Suspended(s, "lock")
        /\ ~Locked(r.agent, r.gen)
        /\ \E z \in Held(r.agent, r.gen) : Enter(s, r, z)
        /\ UNCHANGED <<thread, mail, ready, running, sessions, inbox, heard, events, broken, late>>

-----------------------------------------------------------------------------
(***************************************************************************)
(* What the API asks for.  Each is a coroutine without an await, and may   *)
(* publish an event.                                                       *)
(***************************************************************************)
Publish(e) == ready' = Append(ready, e)

Letter(from, to, depth) == [from |-> from, to |-> to, depth |-> depth]

MessageEvent(m) == [kind |-> "message", msg |-> m, agent |-> User]
SpawnEvent(a) == [kind |-> "spawn", msg |-> 0, agent |-> a]
PhaseEvent == [kind |-> "phase", msg |-> 0, agent |-> User]
CloseEvent == [kind |-> "close", msg |-> 0, agent |-> User]

UserMessage(to) ==
    /\ running = 0 /\ thread = "active" /\ Len(mail) < MaxMail
    /\ mail' = Append(mail, Letter(User, to, 0))
    /\ Publish(MessageEvent(Len(mail')))
    /\ UNCHANGED <<thread, task, running, sessions, inbox, heard, processes, events, broken, late>>

PhaseChange ==
    /\ running = 0 /\ thread = "active" /\ events < MaxEvents
    /\ events' = events + 1
    /\ Publish(PhaseEvent)
    /\ UNCHANGED <<thread, mail, task, running, sessions, inbox, heard, processes,
                   broken, late>>

(***************************************************************************)
(* recover_for_thread, and attach_or_resume_for_thread, which recovers a   *)
(* session that can be and makes one when there is none.  Neither looks at *)
(* the thread's status.                                                    *)
(***************************************************************************)
StartRecovery(a) ==
    /\ session' = [session EXCEPT ![a].attempts = @ + 1, ![a].pending = TRUE, ![a].boot = TRUE]
    /\ Publish(SpawnEvent(a))
    /\ UNCHANGED made

Spawn(a) ==
    IF a \in managed THEN UNCHANGED <<sessions, ready>>
    ELSE /\ session' = [session EXCEPT ![a] = NewSession(a, TRUE)]
         /\ made' = [made EXCEPT ![a] = @ + 1]
         /\ managed' = managed \cup {a}
         /\ Publish(SpawnEvent(a))

Attach(a) ==
    /\ running = 0 /\ events < MaxEvents
    /\ events' = events + 1
    /\ late' = (late \/ thread = "closed")
    /\ \/ /\ session[a] = NoSession
          /\ Spawn(a)
       \/ /\ session[a] # NoSession
          /\ managed' = managed \cup {a}
          /\ IF Recoverable(a, session[a]) THEN StartRecovery(a)
             ELSE UNCHANGED <<session, made, ready>>
    /\ UNCHANGED <<thread, mail, task, running, inbox, heard, processes, broken>>

CloseThread ==
    /\ running = 0 /\ thread = "active"
    /\ thread' = "closed"
    /\ Publish(CloseEvent)
    /\ late' = \/ \E s \in Slots : task[s] # NoTask
               \/ \E i \in DOMAIN ready : ready[i].kind # "message"
    /\ UNCHANGED <<mail, task, running, sessions, inbox, heard, processes, events, broken>>

-----------------------------------------------------------------------------
(***************************************************************************)
(* MessageRouter.route: the targets of a message, none on a closed thread  *)
(* or for the message of an agent that is managed.  The participants named *)
(* in a direct message may be unmanaged.                                   *)
(***************************************************************************)
TargetsAnytime(x) ==  \* mutant: the thread's status is not looked at
    LET named == (x.to \cap Agents) \ {x.from}
        able == (managed \cup named) \ {x.from}
    IN  IF x.from \in managed \cup named \/ x.depth >= MaxChain THEN {}
        ELSE IF x.to # Everyone THEN x.to \cap able ELSE able

Targets(x) ==
    LET named == (x.to \cap Agents) \ {x.from}
        able == (managed \cup named) \ {x.from}
    IN  IF thread # "active" \/ x.from \in managed \cup named \/ x.depth >= MaxChain THEN {}
        ELSE IF x.to # Everyone THEN x.to \cap able ELSE able

Free(s) == task[s] = NoTask /\ \A q \in Slots : q < s => task[q] # NoTask

BeginMessage(s) ==
    /\ running = 0 /\ Free(s) /\ ready # <<>> /\ Head(ready).kind = "message"
    /\ LET e == Head(ready)
           to == Targets(mail[e.msg])
       IN  IF to = {} THEN UNCHANGED <<task, running>>
           ELSE \E order \in SetToSeqs(to) :
                   /\ Goto(s, [NoTask EXCEPT !.pc = "target", !.kind = "message", !.rest = order,
                                             !.msg = e.msg, !.depth = mail[e.msg].depth])
                   /\ running' = s
    /\ ready' = Tail(ready)
    /\ UNCHANGED <<thread, mail, sessions, inbox, heard, processes, events, broken, late>>

BeginPhase(s) ==
    /\ running = 0 /\ Free(s) /\ ready # <<>> /\ Head(ready).kind = "phase"
    /\ \E order \in SetToSeqs(managed) :
          Goto(s, [NoTask EXCEPT !.pc = "target", !.kind = "phase", !.rest = order])
    /\ running' = s
    /\ ready' = Tail(ready)
    /\ UNCHANGED <<thread, mail, sessions, inbox, heard, processes, events, broken, late>>

(***************************************************************************)
(* The background coroutine of a spawn or a recovery: a session meant to   *)
(* be connected only is connected, without its lock; another one gets a    *)
(* first turn.                                                             *)
(***************************************************************************)
BeginSpawn(s) ==
    LET a == Head(ready).agent
        z == session[a]
        r == [NoTask EXCEPT !.kind = "spawn", !.agent = a, !.gen = z.gen, !.depth = 1]
    IN  /\ running = 0 /\ Free(s) /\ ready # <<>> /\ Head(ready).kind = "spawn"
        /\ ready' = Tail(ready)
        /\ \/ /\ z.boot /\ Attempted(z) = "live"
              /\ Connect(s, r, "connected", "connect")
              /\ running' = IF Healthy(a) THEN s ELSE 0
              /\ UNCHANGED <<sessions, heard>>
           \/ /\ ~(z.boot /\ Attempted(z) = "live")
              /\ Invoke(s, r, <<>>)
              /\ UNCHANGED managed
        /\ UNCHANGED <<thread, mail, inbox, events, broken, late>>

(***************************************************************************)
(* _handle_thread_close: the managed agents' transports are closed, then   *)
(* every session and lock of the thread is dropped.  Inboxes stay.         *)
(***************************************************************************)
HandleClose ==
    /\ running = 0 /\ ready # <<>> /\ Head(ready).kind = "close"
    /\ ready' = Tail(ready)
    /\ alive' = alive \ {<<a, adapter[a]>> : a \in managed}
    /\ adapter' = [a \in Agents |-> IF a \in managed THEN 0 ELSE adapter[a]]
    /\ managed' = {}
    /\ session' = [a \in Agents |-> NoSession]
    /\ UNCHANGED <<thread, mail, task, running, made, inbox, heard, events, broken, late>>

-----------------------------------------------------------------------------
(***************************************************************************)
(* _handle_message, one target: an agent without a session is spawned and  *)
(* finds the message in its inbox, so does one in the middle of a turn;    *)
(* any other is invoked.                                                   *)
(***************************************************************************)
Target(s) ==
    LET r == task[s]
        a == Head(r.rest)
        next == [r EXCEPT !.rest = Tail(@), !.agent = a, !.turn = "main"]
        queued == /\ inbox' = [inbox EXCEPT ![a] = Append(@, r.msg)]
                  /\ Goto(s, [next EXCEPT !.pc = "target"])
                  /\ UNCHANGED <<running, heard, processes>>
    IN  /\ Runs(s, "target") /\ r.kind = "message" /\ r.rest # <<>>
        /\ \/ /\ session[a] = NoSession
              /\ Spawn(a) /\ queued
           \/ /\ session[a] # NoSession
              /\ managed' = managed \cup {a}
              /\ UNCHANGED ready
              /\ \/ /\ Locked(a, session[a].gen)
                    /\ queued
                    /\ UNCHANGED <<session, made>>
                 \/ /\ ~Locked(a, session[a].gen)
                    /\ Invoke(s, next, <<r.msg>>)
                    /\ UNCHANGED inbox
        /\ UNCHANGED <<thread, mail, events, broken, late>>

\* _handle_phase_change, one managed agent.
PhaseTarget(s) ==
    LET r == task[s]
    IN  /\ Runs(s, "target") /\ r.kind = "phase" /\ r.rest # <<>>
        /\ Invoke(s, [r EXCEPT !.rest = Tail(@), !.agent = Head(r.rest)], <<>>)
        /\ UNCHANGED <<thread, mail, ready, managed, inbox, events, broken, late>>

NoTargetLeft(s) ==
    /\ Runs(s, "target") /\ task[s].rest = <<>>
    /\ Finish(s)
    /\ UNCHANGED <<thread, mail, ready, sessions, inbox, heard, processes, events, broken, late>>

-----------------------------------------------------------------------------
(***************************************************************************)
(* Outcomes of a turn.                                                     *)
(***************************************************************************)
EndTurn(s, ok) ==
    /\ Goto(s, [task[s] EXCEPT !.pc = "ended", !.ok = ok, !.ad = 0])
    /\ running' = s

Unchanged == UNCHANGED <<thread, mail, ready, made, managed, inbox, heard, events, late>>

\* The turn changes the session it has by "op".
Update(s, Op(_)) == \E z \in Held(task[s].agent, task[s].gen) : Write(task[s].agent, task[s].gen, Op(z))

(***************************************************************************)
(* adapter.start: the new process is registered in the place of any that   *)
(* was registered meanwhile, and that one is left running.                 *)
(***************************************************************************)
Started(s) ==
    LET r == task[s]
    IN  /\ Suspended(s, "start") \/ Suspended(s, "connect")
        /\ adapter' = [adapter EXCEPT ![r.agent] = r.ad]
        /\ Update(s, LAMBDA z : [z EXCEPT !.sid = TRUE])
        /\ \/ /\ r.pc = "start"
              /\ Goto(s, [r EXCEPT !.pc = "read"])
              /\ UNCHANGED running
           \/ /\ r.pc = "connect"
              /\ Goto(s, [r EXCEPT !.pc = "connected"])
              /\ running' = s
        /\ UNCHANGED <<alive, broken>> /\ Unchanged

Connected(s) ==
    LET r == task[s]
    IN  /\ Runs(s, "connected")
        /\ Update(s, LAMBDA z : RecoverySucceeded([z EXCEPT !.error = FALSE]))
        /\ Goto(s, [r EXCEPT !.pc = "drain", !.ad = 0])
        /\ UNCHANGED <<running, processes, broken>> /\ Unchanged

(***************************************************************************)
(* A transport that does not start, or whose turn fails, has whatever is   *)
(* registered for the agent closed.                                        *)
(***************************************************************************)
Discarded(s) ==
    LET r == task[s]
    IN  /\ alive' = alive \ ({<<r.agent, adapter[r.agent]>>}
                             \cup IF r.pc \in {"start", "connect"} THEN {<<r.agent, r.ad>>} ELSE {})
        /\ adapter' = [adapter EXCEPT ![r.agent] = 0]

ConnectFails(s) ==
    LET r == task[s]
    IN  /\ Suspended(s, "connect")
        /\ Discarded(s)
        /\ Update(s, LAMBDA z : RecoveryFailed([z EXCEPT !.error = TRUE]))
        /\ managed' = managed \ {r.agent}
        /\ Goto(s, NoTask)
        /\ UNCHANGED <<thread, mail, ready, running, made, inbox, heard, events, broken, late>>

ReadOk(s) ==
    LET r == task[s]
    IN  /\ Suspended(s, "read") /\ <<r.agent, r.ad>> \in alive
        /\ Update(s, LAMBDA z : RecoverySucceeded([z EXCEPT !.error = FALSE, !.sid = TRUE]))
        /\ EndTurn(s, TRUE)
        /\ UNCHANGED <<processes, broken>> /\ Unchanged

(***************************************************************************)
(* A live turn that fails falls back to a subprocess for good, or fails.   *)
(***************************************************************************)
LiveFails(s) ==
    LET r == task[s]
    IN  /\ Suspended(s, "start") \/ Suspended(s, "read")
        /\ Discarded(s)
        /\ \/ /\ AutoFallback
              /\ Update(s, LAMBDA z : [RecoveryFailed(z) EXCEPT !.error = TRUE, !.mode = "resume", !.sid = FALSE])
              /\ Goto(s, [r EXCEPT !.pc = "sub", !.ad = 0])
              /\ UNCHANGED running
           \/ /\ ~AutoFallback
              /\ Update(s, LAMBDA z : [RecoveryFailed(z) EXCEPT !.error = TRUE])
              /\ EndTurn(s, FALSE)
        /\ UNCHANGED <<broken>> /\ Unchanged

\* An error kept from the transport before outlives the turn that succeeds.
SubprocessOk(s) ==
    LET r == task[s]
    IN  /\ Suspended(s, "sub") \/ Suspended(s, "fresh")
        /\ Update(s, LAMBDA z : RecoverySucceeded([z EXCEPT !.sid = TRUE]))
        /\ EndTurn(s, TRUE)
        /\ UNCHANGED <<processes, broken>> /\ Unchanged

\* A resumed session that fails is tried once more from the start.
SubprocessFails(s) ==
    LET r == task[s]
    IN  /\ Suspended(s, "sub") \/ Suspended(s, "fresh")
        /\ \E z \in Held(r.agent, r.gen) :
              \/ /\ r.pc = "sub" /\ z.sid
                 /\ Write(r.agent, r.gen, [z EXCEPT !.sid = FALSE])
                 /\ Goto(s, [r EXCEPT !.pc = "fresh"])
                 /\ UNCHANGED running
              \/ /\ ~(r.pc = "sub" /\ z.sid)
                 /\ Write(r.agent, r.gen, RecoveryFailed(z))
                 /\ EndTurn(s, FALSE)
        /\ UNCHANGED <<processes, broken>> /\ Unchanged

(***************************************************************************)
(* A subprocess that exceeds INVOKE_TIMEOUT: its handler names a variable  *)
(* that does not exist there, so the coroutine ends by an exception.  Only *)
(* a spawn catches it.                                                     *)
(***************************************************************************)
SubprocessTimesOut(s) ==
    LET r == task[s]
    IN  /\ Suspended(s, "sub") \/ Suspended(s, "fresh")
        /\ events < MaxEvents
        /\ events' = events + 1
        /\ broken' = TRUE
        /\ managed' = IF r.kind = "spawn" THEN managed \ {r.agent} ELSE managed
        /\ Goto(s, NoTask)
        /\ UNCHANGED <<thread, mail, ready, running, session, made, inbox, heard, processes,
                       late>>

\* A live process ends by itself: its next health check or its turn fails.
ProcessDies ==
    /\ running = 0 /\ events < MaxEvents
    /\ events' = events + 1
    /\ \E p \in alive : alive' = alive \ {p}
    /\ UNCHANGED <<thread, mail, ready, task, running, sessions, inbox, heard, adapter,
                   broken, late>>

-----------------------------------------------------------------------------
(***************************************************************************)
(* After a turn: an answer is saved while the thread is active, and goes   *)
(* round as a message of the agent; the inbox is drained after a message   *)
(* and after a spawn that succeeded, never after a phase change.           *)
(***************************************************************************)
Answered(s) ==
    LET depth == task[s].depth + IF task[s].kind = "message" THEN 1 ELSE 0
    IN  \/ UNCHANGED <<mail, ready>>
        \/ /\ task[s].ok /\ thread = "active" /\ Len(mail) < MaxMail
           /\ mail' = Append(mail, Letter(task[s].agent, Everyone, depth))
           /\ Publish(MessageEvent(Len(mail')))

ResumeOnlyOk(s) ==  \* mutant: a failed turn does not drain the inbox
    LET r == task[s]
    IN  /\ Runs(s, "ended")
        /\ Answered(s)
        /\ \/ /\ r.turn = "main" /\ r.kind # "phase" /\ r.ok
              /\ Goto(s, [r EXCEPT !.pc = "drain"])
              /\ UNCHANGED <<managed, running>>
           \/ /\ r.turn = "main" /\ r.kind = "spawn" /\ ~r.ok
              /\ managed' = managed \ {r.agent}
              /\ Finish(s)
           \/ /\ r.turn = "drain" \/ r.kind = "phase" \/ (r.kind = "message" /\ ~r.ok)
              /\ Goto(s, [r EXCEPT !.pc = "target"])
              /\ UNCHANGED <<managed, running>>
        /\ UNCHANGED <<thread, session, made, inbox, heard, processes, events, broken, late>>

Resume(s) ==
    LET r == task[s]
    IN  /\ Runs(s, "ended")
        /\ Answered(s)
        /\ \/ /\ r.turn = "main" /\ (r.kind = "message" \/ (r.kind = "spawn" /\ r.ok))
              /\ Goto(s, [r EXCEPT !.pc = "drain"])
              /\ UNCHANGED <<managed, running>>
           \/ /\ r.turn = "main" /\ r.kind = "spawn" /\ ~r.ok
              /\ managed' = managed \ {r.agent}
              /\ Finish(s)
           \/ /\ r.turn = "drain" \/ r.kind = "phase"
              /\ Goto(s, [r EXCEPT !.pc = "target"])
              /\ UNCHANGED <<managed, running>>
        /\ UNCHANGED <<thread, session, made, inbox, heard, processes, events, broken, late>>

DrainNewest(s) ==  \* mutant: only the newest message is taken along
    LET r == task[s]
    IN  /\ Runs(s, "drain")
        /\ inbox' = [inbox EXCEPT ![r.agent] = <<>>]
        /\ \/ /\ inbox[r.agent] = <<>>
              /\ Goto(s, [r EXCEPT !.pc = "target"])
              /\ UNCHANGED <<running, session, made, heard, processes>>
           \/ /\ inbox[r.agent] # <<>>
              /\ Invoke(s, [r EXCEPT !.turn = "drain"], <<inbox[r.agent][Len(inbox[r.agent])]>>)
        /\ UNCHANGED <<thread, mail, ready, managed, events, broken, late>>

\* _drain_inbox: everything queued goes into one turn, which nobody drains after.
Drain(s) ==
    LET r == task[s]
    IN  /\ Runs(s, "drain")
        /\ inbox' = [inbox EXCEPT ![r.agent] = <<>>]
        /\ \/ /\ inbox[r.agent] = <<>>
              /\ Goto(s, [r EXCEPT !.pc = "target"])
              /\ UNCHANGED <<running, session, made, heard, processes>>
           \/ /\ inbox[r.agent] # <<>>
              /\ Invoke(s, [r EXCEPT !.turn = "drain"], inbox[r.agent])
        /\ UNCHANGED <<thread, mail, ready, managed, events, broken, late>>

-----------------------------------------------------------------------------
Init ==
    /\ thread = "active" /\ mail = <<>> /\ ready = <<>>
    /\ task = [s \in Slots |-> NoTask] /\ running = 0
    /\ session = [a \in Agents |-> NoSession] /\ made = [a \in Agents |-> 0]
    /\ managed = {}
    /\ inbox = [a \in Agents |-> <<>>]
    /\ heard = [a \in Agents |-> [m \in 1..MaxMail |-> 0]]
    /\ adapter = [a \in Agents |-> 0] /\ alive = {}
    /\ events = 0
    /\ broken = FALSE /\ late = FALSE

Ask ==
    \/ \E to \in Recipients : UserMessage(to)
    \/ \E a \in Agents : Attach(a)
    \/ PhaseChange \/ CloseThread

Begin(s) == BeginMessage(s) \/ BeginPhase(s) \/ BeginSpawn(s)

Continue(s) == Target(s) \/ PhaseTarget(s) \/ NoTargetLeft(s) \/ Connected(s) \/ Resume(s) \/ Drain(s)

Outcome(s) ==
    \/ Started(s) \/ ConnectFails(s) \/ ReadOk(s) \/ LiveFails(s)
    \/ SubprocessOk(s) \/ SubprocessFails(s) \/ SubprocessTimesOut(s)

Scheduled(s) == Begin(s) \/ Continue(s) \/ Acquire(s) \/ Outcome(s)

Next == Ask \/ HandleClose \/ ProcessDies \/ \E s \in Slots : Scheduled(s)

(***************************************************************************)
(* The loop runs what is ready, in order; a lock goes to somebody who      *)
(* waits for it; a process starts or fails, and a turn ends: the code has  *)
(* deadlines for a start, a first turn and a subprocess, while a later     *)
(* live turn is assumed to be ended by its provider.                       *)
(***************************************************************************)
Fairness == WF_vars(HandleClose) /\ \A s \in Slots : WF_vars(Scheduled(s))

Spec == Init /\ [][Next]_vars /\ Fairness

-----------------------------------------------------------------------------
(***************************************************************************)
(* The turns of a session come one after the other, whatever is queued,    *)
(* spawned or recovered meanwhile (deliver_message's lock).                *)
(***************************************************************************)
OneTurn ==
    \A s, q \in Slots : s # q /\ task[s].pc \in InTurn /\ task[q].pc \in InTurn =>
        task[s].agent # task[q].agent \/ task[s].gen # task[q].gen

(***************************************************************************)
(* A message is relayed to an agent once: it is queued or was in a prompt, *)
(* never both and never twice, through spawns, drains and recoveries.  One *)
(* that was queued for a busy agent is not dropped either: it leaves the   *)
(* inbox in the prompt of a turn (_drain_inbox).                           *)
(***************************************************************************)
Copies(a, m) == heard[a][m] + Times(inbox[a], m)

RelayedOnce == \A a \in Agents, m \in 1..MaxMail : Copies(a, m) <= 1

RelayKept ==
    /\ []RelayedOnce
    /\ [][\A a \in Agents, m \in 1..MaxMail : Copies(a, m) = 1 => Copies(a, m)' = 1]_vars

(***************************************************************************)
(* Messages sent before the close whose events are begun after it do not   *)
(* bring the agents back: once the close is handled the thread has no      *)
(* session and no managed agent, unless a coroutine was in flight or due   *)
(* when it was closed, or an agent was attached to it later (route's look  *)
(* at the thread's status, _handle_thread_close).                          *)
(***************************************************************************)
ClosedIsEmpty ==
    thread = "closed" /\ ~late /\ ~(\E i \in DOMAIN ready : ready[i].kind = "close") =>
        /\ managed = {}
        /\ \A a \in Agents : session[a] = NoSession

(***************************************************************************)
(* A message queued while its agent is in the turn of another message      *)
(* stays ahead of the coroutine of that turn, through its failures, the    *)
(* one try more and the close of the thread, until it is in a prompt; only *)
(* a timeout may come between (invoke's finally, _drain_inbox).            *)
(***************************************************************************)
Draining(s, a) ==
    /\ task[s].agent = a /\ task[s].kind = "message" /\ task[s].turn = "main"
    /\ task[s].pc \in InTurn \cup {"ended", "drain"}

OnItsWay(a, m) == Contains(inbox[a], m) /\ \E s \in Slots : Draining(s, a)

StaysOnItsWay ==
    \A a \in Agents, m \in 1..MaxMail :
        OnItsWay(a, m) => OnItsWay(a, m)' \/ heard'[a][m] = 1 \/ broken'

(***************************************************************************)
(* A message queued while its agent is in the turn of another message is   *)
(* taken along when that turn is over, however it ends; only a timeout     *)
(* leaves it ("Drain inbox after invoke completes").                       *)
(***************************************************************************)
Answering(a) ==
    \E s \in Slots : /\ task[s].pc \in InTurn /\ task[s].agent = a /\ task[s].gen = session[a].gen
                     /\ task[s].kind = "message" /\ task[s].turn = "main"

QueuedIsHeard ==
    /\ [][StaysOnItsWay]_vars
    /\ \A a \in Agents, m \in 1..MaxMail :
          (Answering(a) /\ Contains(inbox[a], m)) ~> (~Contains(inbox[a], m) \/ broken)

(***************************************************************************)
(* A session whose recovery is pending has somebody who will settle it: a  *)
(* spawn event that is due, or the coroutine that connects this session,   *)
(* not one of the same agent that was closed (recover_for_thread).         *)
(***************************************************************************)
Connects(s, a) == task[s].agent = a /\ task[s].gen = session[a].gen /\ task[s].pc \in {"connect", "connected"}

RecoveryHasOwner ==
    \A a \in Agents : session[a].pending =>
        (\E i \in DOMAIN ready : ready[i] = SpawnEvent(a)) \/ (\E s \in Slots : Connects(s, a))

(***************************************************************************)
(* A recovery that was started ends, in success or failure: no step leaves *)
(* a pending session to nobody, and none stays pending, which could not be *)
(* recovered again (recovery_pending).                                     *)
(***************************************************************************)
RecoveryEnds ==
    /\ [][RecoveryHasOwner']_vars
    /\ \A a \in Live : session[a].pending ~> ~session[a].pending
=============================================================================
