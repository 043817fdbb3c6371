------------------------------ MODULE AgentDesk ------------------------------
(***************************************************************************)
(* The agents, their queues and their terminals: agent_store.py keeps      *)
(* agents.json, which pool threads of the server, its event loop and the   *)
(* command line each read, change and replace as a whole; conductor.py     *)
(* finds or starts a terminal for the agent of a started task and writes   *)
(* the task to it.  A workflow's tasks are here what WorkflowEngine makes  *)
(* of them, one start, completion or block at an instant.  Names, notes    *)
(* and the wording of prompts are left out.                                *)
(***************************************************************************)
EXTENDS Naturals, FiniteSets, Sequences, SequencesExt, TLC

CONSTANTS
    Names,          \* agents that may be registered
    Conductor,      \* "_conductor", which the server registers itself
    Threads,        \* pool threads of the server
    Cli,            \* the command line beside it
    Loop,           \* the server's event loop
    Models,         \* models an agent may be given
    Configured,     \* those of them some provider in providers.json has
    Skills,         \* capabilities that may be asked for, besides "conductor"
    Stages,         \* the roles of a pipeline template, one per task
    Settled,        \* agents.json to begin with
    Allowed,        \* bounds: pairs of changes of agents.json and of other requests
    MaxTerminals,   \* bound: terminals there have been
    MaxStops        \* bound: kills of the server

ASSUME AgentDeskAssumption ==
    /\ Conductor \in Names /\ Configured \subseteq Models
    /\ Stages \in Seq(STRING)
    /\ \A a \in DOMAIN Settled :
          /\ Settled[a] = [model |-> Settled[a].model, skills |-> Settled[a].skills,
                            queue |-> Settled[a].queue]
          /\ Settled[a].queue \in Seq(Nat) /\ IsInjective(Settled[a].queue)
    /\ {MaxTerminals, MaxStops} \subseteq Nat /\ Allowed \subseteq Nat \X Nat

VARIABLES
    agents,         \* agents.json: name -> model, capabilities and queue
    hold,           \* what an actor has read and is about to write
    calm,           \* no two changes of agents.json overlapped
    up,             \* the server: "down", "booting" or "up"
    tasks,          \* the workflow's tasks in their order
    due,            \* coroutines of the conductor that are to run
    now,            \* the one that runs
    terminals,      \* the terminals the server knows
    told,           \* what was written to terminals
    allowance, stops

deskVars == <<agents, hold, calm, up, tasks, due, now, terminals, told, allowance, stops>>

Actors == Threads \cup {Cli, Loop}
NoHold == [op |-> "none"]
NoCo == [at |-> "none"]
Nobody == "nobody"

LoopFree == up = "up" /\ hold[Loop] = NoHold /\ now = NoCo

\* A handler begins: on a pool thread, on the loop between its coroutines, or a command.
Begins(p) ==
    /\ hold[p] = NoHold
    /\ p \in Threads => up = "up"
    /\ p = Loop => LoopFree

Uses(i) == allowance[i] > 0 /\ allowance' = [allowance EXCEPT ![i] = @ - 1]

-----------------------------------------------------------------------------
(***************************************************************************)
(* agents.json.  Each method reads it and replaces it by an atomic rename; *)
(* `given` is what a caller gave of an optional field: nothing or a value. *)
(***************************************************************************)
New(model, given) ==
    [model |-> model, skills |-> IF given = {} THEN {model} ELSE UNION given, queue |-> <<>>]

With(book, name, info) ==
    [a \in DOMAIN book \cup {name} |-> IF a = name THEN info ELSE book[a]]

RegisteredAnew(book, name, model, given) ==     \* mutant: an agent that is known loses its queue
    With(book, name, New(model, given))

\* register: what is known of the agent stays unless it is given.
RegisterAgent(book, name, model, given) ==
    IF name \notin DOMAIN book THEN With(book, name, New(model, given))
    ELSE [book EXCEPT ![name].model = model,
                      ![name].skills = IF given = {} THEN @ ELSE UNION given]

\* update_agent
EditedAgent(book, name, model, given) ==
    [book EXCEPT ![name].model = IF model = {} THEN @ ELSE CHOOSE x \in model : TRUE,
                 ![name].skills = IF given = {} THEN @ ELSE UNION given]

WithoutAgent(book, name) == [a \in DOMAIN book \ {name} |-> book[a]]

QueueOf(book, name) == IF name \in DOMAIN book THEN book[name].queue ELSE <<>>

Reads(p, op, name, task, book) ==
    /\ Begins(p) /\ Uses(1)
    /\ hold' = [hold EXCEPT ![p] = [op |-> op, name |-> name, task |-> task, book |-> book]]
    /\ calm' = (calm /\ \A q \in Actors : hold[q].op \in {"none", "kill"})
    /\ UNCHANGED <<agents, up, tasks, due, now, terminals, told, stops>>

Given == {{}} \cup {{{s}} : s \in Skills}

\* POST /api/agents/register and `agent create`, which gives no capabilities.
Register(p) ==
    /\ p \in Threads \cup {Cli}
    /\ \E name \in Names, model \in Models, given \in Given :
          /\ p = Cli => given = {}
          /\ Reads(p, "register", name, 0, RegisterAgent(agents, name, model, given))

\* PATCH /api/agents/{name} and `agent edit`
Edit(p) ==
    /\ p \in Threads \cup {Cli}
    /\ \E name \in DOMAIN agents, model \in {{}} \cup {{x} : x \in Models}, given \in Given :
          Reads(p, "edit", name, 0, EditedAgent(agents, name, model, given))

\* The server refuses to delete its conductor, `agent delete` does not.
Unregister(p) ==
    /\ p \in Threads \cup {Cli}
    /\ \E name \in DOMAIN agents :
          /\ p \in Threads => name # Conductor
          /\ Reads(p, "unregister", name, 0, WithoutAgent(agents, name))

\* enqueue_task: a task that is in the queue already is not added again.
Enqueue(p) ==
    /\ p \in Threads
    /\ \E name \in DOMAIN agents, t \in DOMAIN tasks :
          /\ ~Contains(agents[name].queue, t)
          /\ Reads(p, "enqueue", name, t, [agents EXCEPT ![name].queue = Append(@, t)])

\* dequeue_task: a request, or the engine that starts a task out of the queue, in which it is once.
Take(p) ==
    /\ p \in Threads \cup {Loop}
    /\ \E name \in DOMAIN agents : \E i \in DOMAIN agents[name].queue :
          Reads(p, "dequeue", name, agents[name].queue[i],
                [agents EXCEPT ![name].queue = RemoveAt(@, i)])

\* reorder_queue: the same tasks in any other order.
Reorder(p) ==
    /\ p \in Threads
    /\ \E name \in DOMAIN agents :
          LET places == DOMAIN agents[name].queue
          IN  /\ Cardinality(places) > 1
              /\ \E from \in Bijection(places, places) :
                    Reads(p, "reorder", name, 0,
                          [agents EXCEPT ![name].queue = [i \in places |-> @[from[i]]]])

BookWritten(p) ==
    /\ hold[p].op \notin {"none", "kill"}
    /\ agents' = hold[p].book
    /\ hold' = [hold EXCEPT ![p] = NoHold]
    /\ UNCHANGED <<calm, up, tasks, due, now, terminals, told, allowance, stops>>

-----------------------------------------------------------------------------
(***************************************************************************)
(* Terminals.  `spawned` tells those the conductor or the start of the     *)
(* server made from those of a request; the status changes only by a kill, *)
(* whatever the process does.                                              *)
(***************************************************************************)
Terminal(name, spawned) ==
    [agent |-> name, status |-> "running", open |-> TRUE, spawned |-> spawned]

HasCommand(name) == name \in DOMAIN agents /\ agents[name].model \in Configured

\* _find_session
RunningOf(name) ==
    {i \in DOMAIN terminals : terminals[i].agent = name /\ terminals[i].status = "running"}
Found(name) == CHOOSE i \in RunningOf(name) : \A j \in RunningOf(name) : i <= j

\* POST /api/terminals, which runs `echo` for who has no command.
CreateTerminal ==
    /\ LoopFree /\ Uses(2) /\ Len(terminals) < MaxTerminals
    /\ \E name \in Names : terminals' = Append(terminals, Terminal(name, FALSE))
    /\ UNCHANGED <<agents, hold, calm, up, tasks, due, now, told, stops>>

\* DELETE /api/terminals/{id}: the adapter is killed, then the status is set.
KillTerminal(p) ==
    /\ p \in Threads /\ Begins(p) /\ Uses(2)
    /\ \E i \in DOMAIN terminals :
          /\ hold' = [hold EXCEPT ![p] = [op |-> "kill", terminal |-> i]]
          /\ terminals' = [terminals EXCEPT ![i].open = FALSE]
    /\ UNCHANGED <<agents, calm, up, tasks, due, now, told, stops>>

TerminalStopped(p) ==
    /\ hold[p].op = "kill"
    /\ terminals' = [terminals EXCEPT ![hold[p].terminal].status = "stopped"]
    /\ hold' = [hold EXCEPT ![p] = NoHold]
    /\ UNCHANGED <<agents, calm, up, tasks, due, now, told, allowance, stops>>

-----------------------------------------------------------------------------
(***************************************************************************)
(* The workflow and its conductor.  A coroutine is created with the loop's *)
(* answer to a completion and runs when the loop is free; its awaits do    *)
(* not suspend (PtyAdapter), but pool threads go on beside it.  `clean`:   *)
(* nobody else changed the tasks since it was created.                     *)
(***************************************************************************)
FirstOf(status) == SelectInSeq(tasks, LAMBDA t : t.status = status)

WithStart(i) == [tasks EXCEPT ![i].status = "in_progress"]

\* start_next_task: the first that waits, unless one is in progress.
MayStart(i) == i # 0 /\ i = FirstOf("pending") /\ FirstOf("in_progress") = 0

Disturbed == [i \in DOMAIN due |-> [due[i] EXCEPT !.clean = FALSE]]
DisturbedNow == IF now = NoCo THEN now ELSE [now EXCEPT !.clean = FALSE]

\* from-template: every role goes to an agent that has it, and the first task starts.
FromTemplate ==
    /\ LoopFree /\ Uses(2) /\ tasks = <<>>
    /\ \E chosen \in [DOMAIN Stages -> Names \cup {Nobody}] :
          /\ \A i \in DOMAIN Stages :
                LET able == {a \in DOMAIN agents : Stages[i] \in agents[a].skills}
                IN IF able = {} THEN chosen[i] = Nobody ELSE chosen[i] \in able
          /\ LET starts == Stages # <<>> /\ chosen[1] # Nobody
             IN  /\ tasks' = [i \in DOMAIN Stages |->
                       [agent |-> chosen[i],
                        status |-> IF i = 1 /\ starts THEN "in_progress" ELSE "pending"]]
                 /\ due' = IF starts THEN Append(due, [kind |-> "first", clean |-> TRUE]) ELSE due
    /\ UNCHANGED <<agents, hold, calm, up, now, terminals, told, stops>>

\* conductor/assign, which does not ask whether the agent is registered.
Assign(p) ==
    /\ p \in Threads /\ Begins(p) /\ Uses(2)
    /\ \E i \in DOMAIN tasks, name \in Names : tasks' = [tasks EXCEPT ![i].agent = name]
    /\ due' = Disturbed /\ now' = DisturbedNow
    /\ UNCHANGED <<agents, hold, calm, up, terminals, told, stops>>

\* conductor/decision "approve", by a pool thread.
Approve(p) ==
    /\ p \in Threads /\ Begins(p) /\ Uses(2)
    /\ MayStart(FirstOf("pending"))
    /\ tasks' = WithStart(FirstOf("pending"))
    /\ due' = Disturbed /\ now' = DisturbedNow
    /\ UNCHANGED <<agents, hold, calm, up, terminals, told, stops>>

\* A completion, which creates a coroutine, and a block, which does not.
Complete ==
    /\ LoopFree /\ Uses(2) /\ FirstOf("in_progress") # 0
    /\ tasks' = [tasks EXCEPT ![FirstOf("in_progress")].status = "done"]
    /\ due' = Append(Disturbed, [kind |-> "next", clean |-> TRUE])
    /\ UNCHANGED <<agents, hold, calm, up, now, terminals, told, stops>>

Block ==
    /\ LoopFree /\ Uses(2) /\ FirstOf("in_progress") # 0
    /\ tasks' = [tasks EXCEPT ![FirstOf("in_progress")].status = "blocked"]
    /\ due' = Disturbed
    /\ UNCHANGED <<agents, hold, calm, up, now, terminals, told, stops>>

\* dispatch_first_task takes the task in progress, on_task_completed the next that waits.
CoPicks ==
    /\ LoopFree /\ due # <<>>
    /\ due' = Tail(due)
    /\ LET i == FirstOf(IF Head(due).kind = "first" THEN "in_progress" ELSE "pending")
       IN now' = IF i = 0 \/ tasks[i].agent = Nobody THEN NoCo
                 ELSE [at |-> IF Head(due).kind = "first" THEN "find" ELSE "start",
                       task |-> i, agent |-> tasks[i].agent, clean |-> Head(due).clean,
                       terminal |-> 0]
    /\ UNCHANGED <<agents, hold, calm, up, tasks, terminals, told, allowance, stops>>

\* The start may be of another task or of none: its result is ignored.
CoStarts ==
    /\ now.at = "start"
    /\ now' = [now EXCEPT !.at = "find"]
    /\ \/ /\ MayStart(FirstOf("pending"))
          /\ tasks' = WithStart(FirstOf("pending"))
          /\ due' = Disturbed
       \/ ~MayStart(FirstOf("pending")) /\ UNCHANGED <<tasks, due>>
    /\ UNCHANGED <<agents, hold, calm, up, terminals, told, allowance, stops>>

FindsAnyway ==      \* mutant: the terminal is started before one is looked for
    /\ now.at = "find" /\ HasCommand(now.agent) /\ Len(terminals) < MaxTerminals
    /\ terminals' = Append(terminals, Terminal(now.agent, TRUE))
    /\ now' = [now EXCEPT !.at = "tell", !.terminal = Len(terminals')]
    /\ UNCHANGED <<agents, hold, calm, up, tasks, due, told, allowance, stops>>

\* The agent's running terminal, or one started with the command of its model.
CoFinds ==
    /\ now.at = "find"
    /\ \/ /\ RunningOf(now.agent) # {}
          /\ now' = [now EXCEPT !.at = "tell", !.terminal = Found(now.agent)]
          /\ UNCHANGED terminals
       \/ /\ RunningOf(now.agent) = {} /\ HasCommand(now.agent) /\ Len(terminals) < MaxTerminals
          /\ terminals' = Append(terminals, Terminal(now.agent, TRUE))
          /\ now' = [now EXCEPT !.at = "tell", !.terminal = Len(terminals')]
       \/ /\ RunningOf(now.agent) = {}      \* no command, or it cannot be started
          /\ now' = NoCo
          /\ UNCHANGED terminals
    /\ UNCHANGED <<agents, hold, calm, up, tasks, due, told, allowance, stops>>

\* A closed adapter takes no more writes, without an error.
CoTells ==
    /\ now.at = "tell"
    /\ told' = IF terminals[now.terminal].open
               THEN told \cup {[task |-> now.task, agent |-> now.agent, clean |-> now.clean]} ELSE told
    /\ now' = NoCo
    /\ UNCHANGED <<agents, hold, calm, up, tasks, due, terminals, allowance, stops>>

-----------------------------------------------------------------------------
(***************************************************************************)
(* The server starts: it registers its conductor if there is none and      *)
(* starts its terminal.  A kill takes the terminals with it.               *)
(***************************************************************************)
Boot ==
    /\ up = "down" /\ up' = "booting"
    /\ hold' = IF Conductor \in DOMAIN agents THEN hold
               ELSE [hold EXCEPT ![Loop] =
                        [op |-> "register", name |-> Conductor, task |-> 0,
                         book |-> With(agents, Conductor,
                                       [model |-> CHOOSE x \in Models : TRUE,
                                        skills |-> {"conductor"}, queue |-> <<>>])]]
    /\ calm' = (calm /\ (Conductor \in DOMAIN agents \/ hold[Cli] = NoHold))
    /\ UNCHANGED <<agents, tasks, due, now, terminals, told, allowance, stops>>

BootEnds ==
    /\ up = "booting" /\ hold[Loop] = NoHold /\ up' = "up"
    /\ \/ UNCHANGED terminals
       \/ HasCommand(Conductor) /\ terminals' = <<Terminal(Conductor, TRUE)>>
    /\ UNCHANGED <<agents, hold, calm, tasks, due, now, told, allowance, stops>>

ServerKilled ==
    /\ up # "down" /\ stops < MaxStops /\ stops' = stops + 1
    /\ up' = "down" /\ due' = <<>> /\ now' = NoCo /\ terminals' = <<>>
    /\ hold' = [p \in Actors |-> IF p = Cli THEN hold[p] ELSE NoHold]
    /\ UNCHANGED <<agents, calm, tasks, told, allowance>>

-----------------------------------------------------------------------------
DeskInit ==
    /\ agents = Settled /\ hold = [p \in Actors |-> NoHold] /\ calm = TRUE
    /\ up = "down" /\ tasks = <<>> /\ due = <<>> /\ now = NoCo
    /\ terminals = <<>> /\ told = {} /\ allowance \in Allowed /\ stops = 0

DeskNext ==
    \/ \E p \in Actors :
          \/ Register(p) \/ Edit(p) \/ Unregister(p)
          \/ Enqueue(p) \/ Take(p) \/ Reorder(p) \/ BookWritten(p)
          \/ KillTerminal(p) \/ TerminalStopped(p)
          \/ Assign(p) \/ Approve(p)
    \/ CreateTerminal \/ FromTemplate \/ Complete \/ Block
    \/ CoPicks \/ CoStarts \/ CoFinds \/ CoTells
    \/ Boot \/ BootEnds \/ ServerKilled

DeskSpec == DeskInit /\ [][DeskNext]_deskVars

-----------------------------------------------------------------------------
(***************************************************************************)
(* A task leaves an agent's queue only when it is dequeued or the agent is *)
(* unregistered: registering the agent again, editing it, reordering and   *)
(* the server's start keep it (register is an upsert), as long as no two   *)
(* changes overlap, of which the later would undo the earlier.  And no     *)
(* task is in a queue twice, also when they overlap.                       *)
(***************************************************************************)
QueueKept ==
    /\ [](\A a \in DOMAIN agents : IsInjective(agents[a].queue))
    /\ [][calm => \A a \in DOMAIN agents : \A t \in ToSet(agents[a].queue) :
            \/ Contains(QueueOf(agents', a), t)
            \/ \E p \in Actors :
                  /\ hold[p] # NoHold /\ hold'[p] = NoHold
                  /\ \/ hold[p].op = "unregister" /\ hold[p].name = a
                     \/ hold[p].op = "dequeue" /\ hold[p].name = a /\ hold[p].task = t]_deskVars

(***************************************************************************)
(* The conductor starts no second terminal beside one of its own that runs *)
(* for the agent, however many coroutines and restarts there are; and what *)
(* it tells an agent to do was started, unless others changed the tasks    *)
(* since the completion it answers (on_task_completed ignores what its     *)
(* start returns).                                                         *)
(***************************************************************************)
OneTerminal ==
    \A i, j \in DOMAIN terminals :
        (/\ terminals[i].agent = terminals[j].agent
         /\ terminals[i].spawned /\ terminals[j].spawned
         /\ terminals[i].status = "running" /\ terminals[j].status = "running") => i = j

ToldWasStarted == \A d \in told : d.clean => tasks[d.task].status # "pending"

DispatchIsSound == OneTerminal /\ ToldWasStarted
=============================================================================
