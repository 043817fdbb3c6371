------------------------------ MODULE LiveTurn ------------------------------
(***************************************************************************)
(* A turn over the live transport: agent_runner.py's _run_live_transport,  *)
(* the adapters it talks to (codex_app_server_adapter.py,                  *)
(* claude_adapter.py) and the provider's process behind two pipes.         *)
(*                                                                         *)
(* Three parties run at once: the turn's coroutine, the adapter's reader   *)
(* task that moves what the process prints into futures and a queue, and   *)
(* the process, which owes nobody an answer and may close its output or    *)
(* die at any moment.  Time is left out: a deadline may fire whenever it   *)
(* is set.  Turns of one session come one after the other (AgentRuntime).  *)
(* A turn's text is the set of prompts whose answers are in it.            *)
(***************************************************************************)
EXTENDS Naturals, Sequences, FiniteSets

CONSTANTS
    Providers,      \* "codex" (app-server) and "claude" (stream-json)
    MaxTurns,       \* bound: prompts, also the ids of the provider's turns
    MaxFaults       \* bound: processes that die or close their output, deadlines

VARIABLES
    provider,       \* the session's provider
    process,        \* the process the adapter started last
    alive,          \* the processes that run
    adapter,        \* the adapter: its queue, its futures, its reader
    held,           \* the adapter is in _live_transport_adapters
    turn,           \* the turn's coroutine
    session,        \* what the session remembers from turn to turn
    saved,          \* what each prompt got
    faults

liveVars == <<provider, process, alive, adapter, held, turn, session, saved, faults>>

Turns == 1 .. MaxTurns

NoProcess == [id |-> 0, input |-> <<>>, output |-> <<>>, open |-> FALSE, at |-> 0, todo |-> {}]

\* _reset_runtime_state: "asked" is the request a future waits for.
NewAdapter == [queue |-> <<>>, first |-> <<>>, asked |-> "-", answer |-> "-", reading |-> TRUE]

NoTurn == [pc |-> "idle", n |-> 0, then |-> "-", active |-> 0, deltas |-> {}, final |-> {},
         complete |-> FALSE, grace |-> "-", startup |-> FALSE]

Event(kind, n) == [kind |-> kind, n |-> n]
StreamEnd == Event("end", 0)

ProcessRuns == process.id \in alive

OneFault == faults < MaxFaults /\ faults' = faults + 1

TurnTo(pc) == turn' = [turn EXCEPT !.pc = pc]

-----------------------------------------------------------------------------
(***************************************************************************)
(* The provider (external).  It answers requests, says what it does for a  *)
(* prompt and tells when the turn is complete; "idle" is the change of the *)
(* thread's status, and may come before or after.                          *)
(***************************************************************************)
SaidBefore(kind) ==     \* what must have been said first
    CASE kind \in {"delta", "final"} -> {"started"}
      [] kind = "complete" -> {"started", "delta", "final"}
      [] kind = "idle" -> {"started"}
      [] OTHER -> {}

Answers(kinds) == IF provider = "codex" THEN {"answer", "started", "complete"} \cup kinds
               ELSE {"complete"} \cup (kinds \cap {"delta"})

ProviderTakes ==
    /\ ProcessRuns /\ process.todo = {} /\ process.input # <<>>
    /\ LET request == Head(process.input) IN
       IF request.kind = "turn"
       THEN \E kinds \in SUBSET {"delta", "final", "idle"} :
               process' = [process EXCEPT !.input = Tail(@), !.at = request.n, !.todo = Answers(kinds)]
       ELSE process' = [process EXCEPT !.input = Tail(@), !.at = 0, !.todo = {request.kind}]
    /\ UNCHANGED <<provider, alive, adapter, held, turn, session, saved, faults>>

ProviderSays ==
    /\ ProcessRuns /\ process.open
    /\ \E kind \in process.todo :
          /\ SaidBefore(kind) \cap process.todo = {}
          /\ process' = [process EXCEPT !.todo = @ \ {kind},
                                        !.output = Append(@, Event(kind, process.at))]
    /\ UNCHANGED <<provider, alive, adapter, held, turn, session, saved, faults>>

ProviderStops ==
    /\ ProcessRuns /\ OneFault
    /\ \/ process' = [process EXCEPT !.open = FALSE, !.todo = {}] /\ alive' = alive \ {process.id}
       \/ process' = [process EXCEPT !.open = FALSE] /\ UNCHANGED alive
    /\ UNCHANGED <<provider, adapter, held, turn, session, saved>>

-----------------------------------------------------------------------------
(***************************************************************************)
(* The reader task.  A line with an id settles the future that waits for   *)
(* it or is kept for nobody; any other line becomes an event.              *)
(***************************************************************************)
HeardLine(e) ==
    IF e.kind \in {"initialize", "thread", "answer"}
    THEN IF adapter.asked = e.kind
         THEN [adapter EXCEPT !.asked = "-", !.answer = "ok"] ELSE adapter
    ELSE [adapter EXCEPT !.queue = Append(@, e)]

PumpLine ==
    /\ adapter.reading /\ process.output # <<>>
    /\ process' = [process EXCEPT !.output = Tail(@)]
    /\ adapter' = HeardLine(Head(process.output))
    /\ UNCHANGED <<provider, alive, held, turn, session, saved, faults>>

PumpEnds ==
    /\ adapter.reading /\ process.id # 0 /\ process.output = <<>> /\ ~process.open
    /\ adapter' = [adapter EXCEPT !.reading = FALSE, !.queue = Append(@, StreamEnd),
                                  !.asked = "-", !.answer = IF @ = "-" /\ adapter.asked # "-"
                                                            THEN "closed" ELSE @]
    /\ UNCHANGED <<provider, process, alive, held, turn, session, saved, faults>>

-----------------------------------------------------------------------------
(***************************************************************************)
(* _ensure_live_transport_connected.  An adapter whose process has ended,  *)
(* or that was made for other launch settings, is closed and replaced.     *)
(***************************************************************************)
TimeoutPolicyFirstOnly ==   \* mutant: a recovery has no deadline
    session.count = 0

TimeoutPolicy == session.count = 0 \/ session.recovering

BeginTurn ==
    /\ turn.pc = "idle" /\ turn.n < MaxTurns
    /\ session.mode = "live"
    /\ \E changed \in {FALSE} \cup (IF faults < MaxFaults THEN {TRUE} ELSE {}) :
          /\ faults' = IF changed THEN faults + 1 ELSE faults
          /\ turn' = [NoTurn EXCEPT
                !.n = turn.n + 1, !.startup = TimeoutPolicy,
                !.pc = IF ~held THEN "spawn" ELSE IF changed \/ ~ProcessRuns THEN "stop" ELSE "send",
                !.then = "spawn"]
          /\ held' = (held /\ ~changed /\ ProcessRuns)
    /\ UNCHANGED <<provider, process, alive, adapter, session, saved>>

AskProvider(kind, n) ==
    /\ process' = [process EXCEPT !.input = Append(@, Event(IF kind = "answer" THEN "turn" ELSE kind, n))]
    /\ adapter' = [adapter EXCEPT !.asked = IF provider = "codex" THEN kind ELSE @, !.answer = "-"]

\* The program may be missing.
SpawnFails ==
    /\ turn.pc = "spawn" /\ OneFault
    /\ TurnTo("failed")
    /\ UNCHANGED <<provider, process, alive, adapter, held, session, saved>>

SpawnProcess ==
    /\ turn.pc = "spawn"
    /\ LET id == process.id + 1 IN
       /\ alive' = alive \cup {id}
       /\ process' = [NoProcess EXCEPT !.id = id, !.open = TRUE,
                         !.input = IF provider = "codex" THEN <<Event("initialize", 0)>> ELSE <<>>,
                         !.todo = IF provider = "codex" THEN {} ELSE {"system"}]
    /\ adapter' = [NewAdapter EXCEPT !.asked = IF provider = "codex" THEN "initialize" ELSE "-"]
    /\ TurnTo(IF provider = "codex" THEN "initialize" ELSE "ready")
    /\ UNCHANGED <<provider, held, session, saved, faults>>

\* start of the app-server: initialize, then thread/start or thread/resume.
CodexStart ==
    /\ turn.pc \in {"initialize", "thread"} /\ adapter.answer = "ok"
    /\ \/ /\ turn.pc = "initialize"
          /\ AskProvider("thread", 0) /\ TurnTo("thread") /\ UNCHANGED held
       \/ /\ turn.pc = "thread"
          /\ held' = TRUE /\ TurnTo("send") /\ UNCHANGED <<process, adapter>>
    /\ UNCHANGED <<provider, alive, session, saved, faults>>

\* _wait_for_session_ready: a line of the system type, or the process's end.
ClaudeReady ==
    /\ turn.pc = "ready"
    /\ \/ /\ \E i \in DOMAIN adapter.queue : adapter.queue[i].kind = "system"
          /\ held' = TRUE /\ TurnTo("send")
       \/ /\ ~ProcessRuns
          /\ turn' = [turn EXCEPT !.pc = "stop", !.then = "failed"] /\ UNCHANGED held
    /\ UNCHANGED <<provider, process, alive, adapter, session, saved, faults>>

\* A request refused because the process is gone, or not answered in time.
StartFails ==
    /\ turn.pc \in {"initialize", "thread", "ready"}
    /\ adapter.answer # "ok"
    /\ turn' = [turn EXCEPT !.pc = "stop", !.then = "failed"]
    /\ UNCHANGED <<provider, process, alive, adapter, held, session, saved, faults>>

-----------------------------------------------------------------------------
(***************************************************************************)
(* send_turn: the app-server answers the request, and that answer is the   *)
(* first event of the turn.                                                *)
(***************************************************************************)
SendTurn ==
    /\ turn.pc = "send"
    /\ AskProvider("answer", turn.n)
    /\ TurnTo(IF provider = "codex" THEN "sent" ELSE "read")
    /\ UNCHANGED <<provider, alive, held, session, saved, faults>>

SendAnswered ==
    /\ turn.pc = "sent" /\ adapter.answer = "ok"
    /\ adapter' = [adapter EXCEPT !.first = Append(@, Event("started", turn.n))]
    /\ TurnTo("read")
    /\ UNCHANGED <<provider, process, alive, held, session, saved, faults>>

FailKeepingAdapter ==   \* mutant: the adapter stays for the next turn
    /\ turn' = [turn EXCEPT !.pc = "failed"]
    /\ UNCHANGED held

\* _close_live_transport_adapter_async
FailTurn ==
    /\ turn' = [turn EXCEPT !.pc = "stop", !.then = "failed"]
    /\ held' = FALSE

SendFails ==
    /\ turn.pc = "sent"
    /\ adapter.answer # "ok"
    /\ FailTurn
    /\ UNCHANGED <<provider, process, alive, adapter, session, saved, faults>>

-----------------------------------------------------------------------------
(***************************************************************************)
(* The loop over the events.  "grace" is a deadline of one second set by   *)
(* an idle status or by the turn's own completion; whatever comes before   *)
(* it still belongs to the turn.                                           *)
(***************************************************************************)
Pending == adapter.first \o adapter.queue

TakeFirst == IF adapter.first # <<>> THEN [adapter EXCEPT !.first = Tail(@)]
         ELSE [adapter EXCEPT !.queue = Tail(@)]

CodexTakes(e) ==
    CASE e.kind = "started" -> [turn EXCEPT !.active = e.n, !.grace = IF @ = "idle" THEN "-" ELSE @]
      [] e.kind = "delta" -> [turn EXCEPT !.deltas = @ \cup {e.n}]
      [] e.kind = "final" -> [turn EXCEPT !.final = {e.n}]
      [] e.kind = "complete" /\ turn.active = e.n -> [turn EXCEPT !.complete = TRUE, !.grace = "post"]
      [] e.kind = "complete" /\ turn.active \notin {0, e.n} ->
            [turn EXCEPT !.pc = "done", !.final = IF @ = {} THEN {e.n} ELSE @]
      [] e.kind = "idle" /\ turn.active # 0 /\ turn.grace = "-" -> [turn EXCEPT !.grace = "idle"]
      [] OTHER -> turn

\* The result counts only when nothing was streamed.
ClaudeTakes(e) ==
    CASE e.kind = "delta" -> [turn EXCEPT !.deltas = @ \cup {e.n}]
      [] e.kind = "complete" ->
            [turn EXCEPT !.pc = "done", !.final = IF turn.deltas = {} THEN {e.n} ELSE @]
      [] OTHER -> turn

ReadEvent ==
    /\ turn.pc = "read" /\ Pending # <<>>
    /\ LET e == Head(Pending) IN
       /\ adapter' = TakeFirst
       /\ IF e # StreamEnd
          THEN /\ turn' = IF provider = "codex" THEN CodexTakes(e) ELSE ClaudeTakes(e)
               /\ UNCHANGED held
          ELSE IF turn.grace # "-" THEN TurnTo("done") /\ UNCHANGED held
          ELSE FailTurn
    /\ UNCHANGED <<provider, process, alive, session, saved, faults>>

\* bound: the provider says within the grace what it has left for the turn.
GraceOver ==
    /\ turn.pc = "read" /\ turn.grace # "-"
    /\ Pending = <<>> /\ process.output = <<>> /\ process.todo = {} /\ process.input = <<>>
    /\ TurnTo("done")
    /\ UNCHANGED <<provider, process, alive, adapter, held, session, saved, faults>>

\* Only a first turn and a recovery have deadlines.
DeadlineOver ==
    /\ turn.pc = "read" /\ turn.startup /\ turn.grace # "idle"
    /\ FailTurn
    /\ UNCHANGED <<provider, process, alive, adapter, session, saved, faults>>

-----------------------------------------------------------------------------
(***************************************************************************)
(* _shutdown_process: terminate, wait, kill, then the reader is cancelled. *)
(***************************************************************************)
StopTermOnly ==     \* mutant: a process that ignores SIGTERM is forgotten
    /\ turn.pc = "stop"
    /\ \/ alive' = alive \ {process.id}
       \/ UNCHANGED alive
    /\ process' = [process EXCEPT !.open = FALSE, !.todo = {}]
    /\ adapter' = [adapter EXCEPT !.reading = FALSE]
    /\ TurnTo(turn.then)
    /\ UNCHANGED <<provider, held, session, saved, faults>>

StopProcess ==
    /\ turn.pc = "stop"
    /\ alive' = alive \ {process.id}
    /\ process' = [process EXCEPT !.open = FALSE, !.todo = {}]
    /\ adapter' = [adapter EXCEPT !.reading = FALSE]
    /\ TurnTo(turn.then)
    /\ UNCHANGED <<provider, held, session, saved, faults>>

-----------------------------------------------------------------------------
(***************************************************************************)
(* The end of a turn.  A text that was not given as final is the streamed  *)
(* one.  After a failure the session goes on by subprocesses until it is   *)
(* recovered.                                                              *)
(***************************************************************************)
SaveAnswer ==
    /\ turn.pc = "done"
    /\ saved' = [saved EXCEPT ![turn.n] =
                    [ok |-> TRUE, text |-> IF turn.final # {} THEN turn.final ELSE turn.deltas]]
    /\ session' = [session EXCEPT !.count = 1, !.recovering = FALSE]
    /\ turn' = [NoTurn EXCEPT !.n = turn.n]
    /\ UNCHANGED <<provider, process, alive, adapter, held, faults>>

SaveFailure ==
    /\ turn.pc = "failed"
    /\ saved' = [saved EXCEPT ![turn.n] = [ok |-> FALSE, text |-> {}]]
    /\ \E ok \in {0, 1} :
          session' = [mode |-> "subprocess", recovering |-> FALSE,
                      count |-> IF session.count = 0 THEN ok ELSE 1]
    /\ turn' = [NoTurn EXCEPT !.n = turn.n]
    /\ UNCHANGED <<provider, process, alive, adapter, held, faults>>

RecoverSession ==
    /\ turn.pc = "idle" /\ session.mode = "subprocess"
    /\ session' = [session EXCEPT !.mode = "live", !.recovering = TRUE]
    /\ UNCHANGED <<provider, process, alive, adapter, held, turn, saved, faults>>

-----------------------------------------------------------------------------
LiveInit ==
    /\ provider \in Providers
    /\ process = NoProcess /\ alive = {}
    /\ adapter = [NewAdapter EXCEPT !.reading = FALSE] /\ held = FALSE
    /\ turn = NoTurn
    /\ session = [mode |-> "live", count |-> 0, recovering |-> FALSE]
    /\ saved = [n \in Turns |-> [ok |-> FALSE, text |-> {}]]
    /\ faults = 0

TurnStep ==
    \/ SpawnProcess \/ SpawnFails \/ CodexStart \/ ClaudeReady \/ StartFails
    \/ SendTurn \/ SendAnswered \/ SendFails \/ ReadEvent \/ GraceOver
    \/ StopProcess \/ SaveAnswer \/ SaveFailure

LiveNext ==
    \/ ProviderTakes \/ ProviderSays \/ ProviderStops
    \/ PumpLine \/ PumpEnds
    \/ BeginTurn \/ TurnStep \/ DeadlineOver \/ RecoverSession

LiveFairness ==
    /\ WF_liveVars(PumpLine \/ PumpEnds) /\ WF_liveVars(TurnStep) /\ WF_liveVars(DeadlineOver)
    /\ WF_liveVars(turn.grace # "-" /\ ProviderSays)

LiveSpec == LiveInit /\ [][LiveNext]_liveVars /\ LiveFairness

-----------------------------------------------------------------------------
(***************************************************************************)
(* An answer that is saved is made only of what the provider said to this  *)
(* prompt: nothing left in the queue, in the pipe or in a process by a     *)
(* turn that failed or was given up gets into a later one                  *)
(* (_close_live_transport_adapter_async on every failure, and the grace    *)
(* after a completion).                                                    *)
(***************************************************************************)
AnswerIsOwn == \A n \in Turns : saved[n].ok => saved[n].text \subseteq {n}

(***************************************************************************)
(* A provider process runs only while an adapter in                        *)
(* _live_transport_adapters owns it or a turn is about to stop or start    *)
(* it: replacing, failing and restarting leave none behind                 *)
(* (_shutdown_process kills what does not terminate).                      *)
(***************************************************************************)
NoOrphan ==
    \A id \in alive : id = process.id /\ (held \/ turn.pc \in {"initialize", "thread", "ready", "stop"})

(***************************************************************************)
(* A session's first turn, and the first one after a recovery, come to an  *)
(* end whatever the provider does or fails to do; they have deadlines      *)
(* (_live_transport_timeout_policy).                                       *)
(***************************************************************************)
FirstTurnEnds == (turn.pc # "idle" /\ (session.count = 0 \/ session.recovering)) ~> (turn.pc = "idle")
=============================================================================
