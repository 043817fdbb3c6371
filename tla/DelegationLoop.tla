--------------------------- MODULE DelegationLoop ---------------------------
(***************************************************************************)
(* The delegation of one thread: the handlers of api_threads.py (and the   *)
(* CLI's local copies in main.py) that start, await, answer and stop it,   *)
(* agent_runner's continuation after an agent's final answer, and the      *)
(* three files they keep in step with no lock: the thread's meta           *)
(* (thread_store.py), its phase cycle (phase_cycle_store.py) and its       *)
(* delegation state (delegation_store.py, where the last line counts).     *)
(*                                                                         *)
(* start, wait and respond are "def" handlers and run on the server's pool *)
(* threads; "stop" and the local commands are processes of the CLI.  Both  *)
(* are members of Pool.  The continuation, submit_contribution and         *)
(* advance-phase run on the event loop.  A handler is cut at each write:   *)
(* a step reads and decides, or performs one write; a write is taken       *)
(* together with the reads that follow it up to the next write.            *)
(***************************************************************************)
EXTENDS ProtocolFlow, Bags

CONSTANTS
    Pool,           \* pool threads of the server and processes of the CLI
    Loop,           \* the server's event loop
    Exclusive,      \* TRUE: a request is sent only when no other is in flight
    MaxIndex,       \* bound: cycle_index
    MaxInputs,      \* bound: contributions and answers given
    MaxMoves,       \* bound: phases advanced by hand
    MaxCrashes      \* bound: how often everything is killed

ASSUME LoopAssumption ==
    /\ Loop \notin Pool
    /\ Exclusive \in BOOLEAN
    /\ MaxIndex \in Nat
    /\ MaxInputs \in Nat
    /\ MaxMoves \in Nat
    /\ MaxCrashes \in Nat

VARIABLES
    thread,     \* meta: status, current_phase, phase_participants
    contrib,    \* the latest contribution of each agent to each phase
    cycle,      \* the phase cycle file
    deleg,      \* the delegation state
    sent,       \* dispatch messages on the thread, by client_message_id
    proc,       \* what each thread, process and the loop are in the middle of
    inputs,     \* contributions and answers given; numbers the answers
    moved,      \* phases advanced by hand
    crashes

files == <<thread, contrib, cycle, deleg, sent>>
counters == <<inputs, moved, crashes>>
vars == <<files, proc, counters>>

Procs == Pool \cup {Loop}

NoCycle == [phase |-> NoPhase, index |-> 0, status |-> "absent"]
NoToken == <<>>
NoDeleg == [status |-> "absent", phase |-> NoPhase, index |-> 0, loop |-> 0,
            agent |-> NoAgent, action |-> "none", result |-> 0,
            token |-> NoToken, stopped |-> FALSE]

Nobody == [a \in Agents |-> "none"]

(***************************************************************************)
(* build_delegation_resume_token: the token kept in the state, else one    *)
(* that names what the state is about.                                     *)
(***************************************************************************)
FreshToken(d) == <<d.phase, d.index, d.loop, d.action, d.result>>

ResumeToken(d) == IF d.token # NoToken THEN d.token ELSE FreshToken(d)

(***************************************************************************)
(* A request in flight: which handler it is, the write it performs next    *)
(* and the snapshots it goes on working from.                              *)
(***************************************************************************)
Idle == [pc |-> "idle", kind |-> "none"]

MayBegin(p) ==
    /\ proc[p].pc = "idle"
    /\ Exclusive => \A q \in Procs : proc[q].pc = "idle"

Goto(p, r) == proc' = [proc EXCEPT ![p] = r]

Saving(kind, d) == [pc |-> "save", kind |-> kind, deleg |-> d]

-----------------------------------------------------------------------------
(***************************************************************************)
(* The state a handler means to save.  start and respond make a new one    *)
(* from the assignment; the continuation copies the one it read, and       *)
(* counts one more iteration only when it has dispatched.                  *)
(***************************************************************************)
NewState(a, cyc) ==
    [status |-> a.status, phase |-> cyc.phase, index |-> cyc.index, loop |-> cyc.index,
     agent |-> a.agent, action |-> a.action, result |-> 0, token |-> NoToken,
     stopped |-> FALSE]

ContinuedStateSamePhase(old, a, phase, index, result) ==  \* mutant: forgets the phase
    [old EXCEPT !.status = a.status, !.index = index,
                !.agent = a.agent, !.action = a.action, !.result = result,
                !.stopped = FALSE]

ContinuedState(old, a, phase, index, result) ==
    [old EXCEPT !.status = a.status, !.phase = phase, !.index = index,
                !.agent = a.agent, !.action = a.action, !.result = result,
                !.stopped = FALSE]

DispatchId(kind, n, phase, agent) == [kind |-> kind, n |-> n, phase |-> phase, agent |-> agent]

(***************************************************************************)
(* What follows the read of the phase's contributions "said": nothing to   *)
(* dispatch, a phase that takes no direct messages, a dispatch that was    *)
(* sent before (start and respond save "running" all the same, the         *)
(* continuation takes it for a failure), or a message to send.             *)
(***************************************************************************)
PlannedTwice(kind, a, d, id, running) ==  \* mutant: no look for an earlier dispatch
    LET blocked == [d EXCEPT !.status = "blocked"]
    IN  CASE a.status # "running" -> Saving(kind, d)
          [] a.status = "running" /\ id.phase \notin Direct -> Saving(kind, blocked)
          [] OTHER -> [pc |-> "send", kind |-> kind, id |-> id,
                       deleg |-> running, otherwise |-> blocked]

Planned(kind, a, d, id, running) ==
    LET blocked == [d EXCEPT !.status = "blocked"]
    IN  CASE a.status # "running" -> Saving(kind, d)
          [] a.status = "running" /\ id.phase \notin Direct -> Saving(kind, blocked)
          [] a.status = "running" /\ id.phase \in Direct /\ BagIn(id, sent) ->
                Saving(kind, IF kind = "continue" THEN blocked ELSE d)
          [] OTHER -> [pc |-> "send", kind |-> kind, id |-> id,
                       deleg |-> running, otherwise |-> blocked]

PlanFresh(kind, cyc, parts, said) ==
    LET a == Assignment(cyc.phase, parts, said, cyc, FALSE, 0)
        d == NewState(a, cyc)
    IN  Planned(kind, a, d, DispatchId("start", cyc.index, cyc.phase, a.agent), d)

PlanContinue(old, cyc, parts, result, sick) ==
    LET said == contrib[cyc.phase]
        first == Assignment(cyc.phase, parts, said, cyc, FALSE, 0)
        a == IF first.status = "running"
             THEN Assignment(cyc.phase, parts, said, cyc, sick, old.loop + 1) ELSE first
        d == ContinuedState(old, a, cyc.phase, cyc.index, result)
    IN  Planned("continue", a, d, DispatchId("continue", old.loop + 1, cyc.phase, a.agent),
                [d EXCEPT !.loop = old.loop + 1])

-----------------------------------------------------------------------------
(***************************************************************************)
(* delegate/start.  The phase is the cycle's, or the thread's when there   *)
(* is no cycle yet; the participants are those of the thread.              *)
(***************************************************************************)
StartRequest(p) ==
    /\ p \in Pool /\ MayBegin(p)
    /\ thread.status = "active"
    /\ \/ /\ cycle = NoCycle
          /\ Goto(p, [pc |-> "cycle", kind |-> "start", cycle |-> StartCycle(thread.phase),
                      parts |-> thread.parts])
       \/ /\ cycle # NoCycle
          /\ Goto(p, PlanFresh("start", cycle, thread.parts, contrib[cycle.phase]))
    /\ UNCHANGED <<files, counters>>

(***************************************************************************)
(* delegate/respond: a person gives outcome o.  The request may carry the  *)
(* token the state expects or none; one with another token is refused.     *)
(***************************************************************************)
RespondRequest(p, o) ==
    /\ p \in Pool /\ MayBegin(p)
    /\ deleg.status = "waiting_for_human"
    /\ Passed(deleg.phase, thread.parts, contrib[deleg.phase])
    /\ Applicable(deleg.phase, o)
    /\ LET next == Branch[deleg.phase][o]
       IN  /\ next = cycle.phase => cycle.index < MaxIndex
           /\ Goto(p, [pc |-> "advance", kind |-> "respond", next |-> next,
                       parts |-> DefaultParts(thread.parts, next), outcome |-> o,
                       cycle |-> cycle, repeats |-> FALSE, old |-> deleg])
    /\ UNCHANGED <<files, counters>>

(***************************************************************************)
(* delegate/wait: keeps the token it hands out, by writing back the state  *)
(* it read.                                                                *)
(***************************************************************************)
WaitRequest(p) ==
    /\ p \in Pool /\ MayBegin(p)
    /\ deleg.status # "absent"
    /\ deleg.token # ResumeToken(deleg)
    /\ Goto(p, Saving("wait", [deleg EXCEPT !.token = ResumeToken(deleg)]))
    /\ UNCHANGED <<files, counters>>

(***************************************************************************)
(* "delegate stop" of the CLI.                                             *)
(***************************************************************************)
StopRequest(p) ==
    /\ p \in Pool /\ MayBegin(p)
    /\ deleg.status # "absent"
    /\ Goto(p, Saving("stop", [deleg EXCEPT !.status = "completed", !.token = NoToken,
                                            !.stopped = TRUE]))
    /\ UNCHANGED <<files, counters>>

(***************************************************************************)
(* _maybe_continue_delegation_from_saved_message: agent a gives a final    *)
(* answer of quality q.  The message is saved only on an active thread,    *)
(* and concerns the delegation only when it is running and assigned to a.  *)
(***************************************************************************)
AnswerAnytime(a, q) ==  \* mutant: the delegation need not be running
    /\ MayBegin(Loop)
    /\ inputs < MaxInputs
    /\ thread.status = "active"
    /\ deleg.agent = a
    /\ inputs' = inputs + 1
    /\ Goto(Loop, [pc |-> "contribute", kind |-> "continue", agent |-> a, quality |-> q,
                   parts |-> thread.parts, cycle |-> cycle, old |-> deleg, result |-> inputs'])
    /\ UNCHANGED <<files, moved, crashes>>

AnswerRequest(a, q) ==
    /\ MayBegin(Loop)
    /\ inputs < MaxInputs
    /\ thread.status = "active"
    /\ deleg.status = "running" /\ deleg.agent = a
    /\ inputs' = inputs + 1
    /\ Goto(Loop, [pc |-> "contribute", kind |-> "continue", agent |-> a, quality |-> q,
                   parts |-> thread.parts, cycle |-> cycle, old |-> deleg, result |-> inputs'])
    /\ UNCHANGED <<files, moved, crashes>>

(***************************************************************************)
(* The answer becomes a contribution to the delegation's phase, and the    *)
(* phase is judged again: on to the next phase when it is complete and no  *)
(* person has to decide, else the state is saved as judged.                *)
(***************************************************************************)
Contribute ==
    LET r == proc[Loop]
        ph == r.old.phase
    IN  /\ r.pc = "contribute"
        /\ \/ /\ thread.status # "active"
              /\ Goto(Loop, Saving("continue", [r.old EXCEPT !.status = "blocked",
                                                  !.result = r.result, !.stopped = FALSE]))
              /\ UNCHANGED contrib
           \/ /\ thread.status = "active"
              /\ contrib' = [contrib EXCEPT ![ph][r.agent] = r.quality]
              /\ LET a == Assignment(ph, r.parts, contrib'[ph], r.cycle, FALSE, 0)
                 IN  \/ /\ a.status = "completed" /\ a.action = "advance_phase"
                        /\ Goto(Loop, [pc |-> "advance", kind |-> "continue",
                                       next |-> Following(ph),
                                       parts |-> DefaultParts(r.parts, Following(ph)),
                                       cycle |-> r.cycle, old |-> r.old, result |-> r.result])
                     \/ /\ ~(a.status = "completed" /\ a.action = "advance_phase")
                        /\ Goto(Loop, Saving("continue",
                                ContinuedState(r.old, a, ph, r.cycle.index, r.result)))
        /\ UNCHANGED <<thread, cycle, deleg, sent, counters>>

(***************************************************************************)
(* thread_store.advance_phase loads the meta, refuses a closed thread, and *)
(* then writes the whole meta back, so it has two steps.                   *)
(***************************************************************************)
LoadMetaClosed(p) ==  \* mutant: advances a closed thread too
    /\ proc[p].pc = "advance"
    /\ Goto(p, [proc[p] EXCEPT !.pc = "meta"])
    /\ UNCHANGED <<files, counters>>

LoadMeta(p) ==
    /\ proc[p].pc = "advance"
    /\ \/ /\ thread.status # "active"
          /\ Goto(p, Idle)
       \/ /\ thread.status = "active"
          /\ Goto(p, [proc[p] EXCEPT !.pc = "meta"])
    /\ UNCHANGED <<files, counters>>

(***************************************************************************)
(* The cycle to write next: the continuation starts one; respond advances  *)
(* the one it read, and fails here, the thread moved, when the outcome is  *)
(* not one of that cycle's phase.                                          *)
(***************************************************************************)
StoreMeta(p) ==
    LET r == proc[p]
    IN  /\ r.pc = "meta"
        /\ thread' = [status |-> "active", phase |-> r.next, parts |-> r.parts]
        /\ \/ /\ r.kind = "respond" /\ r.outcome \notin ValidOutcomes(r.cycle.phase)
              /\ Goto(p, Idle)
           \/ /\ r.kind = "respond" => r.outcome \in ValidOutcomes(r.cycle.phase)
              /\ LET next == AdvanceCycle(r.cycle, r.outcome)
                 IN  IF r.kind = "respond"
                     THEN Goto(p, [r EXCEPT !.pc = "cycle", !.cycle = next,
                                   !.repeats = next.phase = r.old.phase /\ next.index > r.cycle.index])
                     ELSE Goto(p, [r EXCEPT !.pc = "cycle", !.cycle = StartCycle(r.next)])
        /\ UNCHANGED <<contrib, cycle, deleg, sent, counters>>

(***************************************************************************)
(* phase_cycle_store.write, and what the handler makes of the phase the    *)
(* cycle is now in.  A respond that repeats the phase looks at no          *)
(* contributions: those on file are of the cycle before.                   *)
(***************************************************************************)
WriteCycle(p, sick) ==
    LET r == proc[p]
        said == IF r.kind = "respond" /\ r.repeats THEN Nobody ELSE contrib[r.cycle.phase]
    IN  /\ r.pc = "cycle"
        /\ cycle' = r.cycle
        /\ \/ /\ r.kind = "continue"
              /\ Goto(p, PlanContinue(r.old, r.cycle, r.parts, r.result, sick))
           \/ /\ r.kind # "continue" /\ ~sick
              /\ Goto(p, PlanFresh(r.kind, r.cycle, r.parts, said))
        /\ UNCHANGED <<thread, contrib, deleg, sent, counters>>

(***************************************************************************)
(* thread_store.send_message, refused on a closed thread.                  *)
(***************************************************************************)
SendUnchecked(p) ==  \* mutant: a refused message is not noticed
    LET r == proc[p]
    IN  /\ r.pc = "send"
        /\ sent' = IF thread.status = "active" THEN sent (+) SetToBag({r.id}) ELSE sent
        /\ Goto(p, Saving(r.kind, r.deleg))
        /\ UNCHANGED <<thread, contrib, cycle, deleg, counters>>

Send(p) ==
    LET r == proc[p]
    IN  /\ r.pc = "send"
        /\ \/ /\ thread.status = "active"
              /\ sent' = sent (+) SetToBag({r.id})
              /\ Goto(p, Saving(r.kind, r.deleg))
           \/ /\ thread.status # "active"
              /\ Goto(p, Saving(r.kind, r.otherwise))
              /\ UNCHANGED sent
        /\ UNCHANGED <<thread, contrib, cycle, deleg, counters>>

\* delegation_store.write: one more line, the one that counts from now on.
Save(p) ==
    /\ proc[p].pc = "save"
    /\ deleg' = proc[p].deleg
    /\ Goto(p, Idle)
    /\ UNCHANGED <<thread, contrib, cycle, sent, counters>>

-----------------------------------------------------------------------------
(***************************************************************************)
(* close, by the server or by a local command of the CLI.  A forced close  *)
(* has no condition, so this is also what an unforced one may do.  The     *)
(* meta is loaded and the whole of it written back.                        *)
(***************************************************************************)
LoadForClose(p) ==
    /\ MayBegin(p)
    /\ thread.status = "active"
    /\ Goto(p, [pc |-> "close", kind |-> "close", meta |-> [thread EXCEPT !.status = "completed"]])
    /\ UNCHANGED <<files, counters>>

Close(p) ==
    /\ proc[p].pc = "close"
    /\ thread' = proc[p].meta
    /\ Goto(p, Idle)
    /\ UNCHANGED <<contrib, cycle, deleg, sent, counters>>

(***************************************************************************)
(* contributions: a participant of the thread's phase contributes to it by *)
(* hand; nothing reads the delegation.                                     *)
(***************************************************************************)
ContributeByHand(a, q) ==
    /\ MayBegin(Loop)
    /\ inputs < MaxInputs
    /\ thread.status = "active"
    /\ thread.phase \in Structured
    /\ \E i \in DOMAIN thread.parts : thread.parts[i] = a
    /\ contrib' = [contrib EXCEPT ![thread.phase][a] = q]
    /\ inputs' = inputs + 1
    /\ UNCHANGED <<thread, cycle, deleg, sent, proc, moved, crashes>>

(***************************************************************************)
(* advance-phase: an operator moves the thread to any phase of the         *)
(* protocol, with all its members; nothing tells the cycle or the          *)
(* delegation.                                                             *)
(***************************************************************************)
AdvanceByHand(ph) ==
    /\ MayBegin(Loop)
    /\ moved < MaxMoves
    /\ thread.status = "active"
    /\ thread.parts # <<>>
    /\ thread.phase \in Structured => Passed(thread.phase, thread.parts, contrib[thread.phase])
    /\ thread' = [thread EXCEPT !.phase = ph, !.parts = Members]
    /\ moved' = moved + 1
    /\ UNCHANGED <<contrib, cycle, deleg, sent, proc, inputs, crashes>>

\* Everything that runs is killed; the files stay as they are.
Crash ==
    /\ crashes < MaxCrashes
    /\ \E p \in Procs : proc[p].pc # "idle"
    /\ proc' = [p \in Procs |-> Idle]
    /\ crashes' = crashes + 1
    /\ UNCHANGED <<files, inputs, moved>>

-----------------------------------------------------------------------------
Init ==
    /\ thread = [status |-> "active", phase |-> Phases[1], parts |-> Members]
    /\ contrib = [ph \in PhaseSet |-> Nobody]
    /\ cycle = NoCycle
    /\ deleg = NoDeleg
    /\ sent = EmptyBag
    /\ proc = [p \in Procs |-> Idle]
    /\ inputs = 0 /\ moved = 0 /\ crashes = 0

Request(p) ==
    \/ StartRequest(p) \/ WaitRequest(p) \/ StopRequest(p) \/ LoadForClose(p)
    \/ \E o \in UNION {DOMAIN Branch[ph] : ph \in PhaseSet} : RespondRequest(p, o)

Step(p) ==
    \/ LoadMeta(p) \/ StoreMeta(p) \/ Send(p) \/ Save(p) \/ Close(p)
    \/ \E sick \in BOOLEAN : WriteCycle(p, sick)

ByLoop ==
    \/ Contribute
    \/ \E a \in Agents, q \in {"short", "full"} : AnswerRequest(a, q) \/ ContributeByHand(a, q)
    \/ \E ph \in PhaseSet : AdvanceByHand(ph)

Next == (\E p \in Procs : Request(p) \/ Step(p)) \/ ByLoop \/ Crash

Spec == Init /\ [][Next]_vars

-----------------------------------------------------------------------------
Quiet == \A p \in Procs : proc[p].pc = "idle"

DispatchedFor(d) == \E id \in BagToSet(sent) : id.phase = d.phase /\ id.agent = d.agent

(***************************************************************************)
(* The files hold what their readers expect to parse.                      *)
(***************************************************************************)
DelegStatus == {"absent", "running", "waiting_for_human", "blocked", "completed", "failed"}

TypeOK ==
    /\ thread \in [status : {"active", "completed"}, phase : PhaseSet, parts : Seq(Agents)]
    /\ contrib \in [PhaseSet -> [Agents -> Quality]]
    /\ \/ cycle = NoCycle
       \/ cycle \in [phase : PhaseSet, index : Nat, status : {"active", "completed"}]
    /\ deleg.status \in DelegStatus
    /\ deleg.phase \in PhaseSet \cup {NoPhase}
    /\ deleg.agent \in Agents \cup {NoAgent}
    /\ deleg.status = "running" => deleg.agent # NoAgent
    /\ IsABag(sent)

(***************************************************************************)
(* Between requests the three files agree on the phase and the cycle, as   *)
(* long as nobody moves the thread by hand and nothing is killed: the      *)
(* handlers write them one after the other.                                *)
(***************************************************************************)
StoresAgree ==
    Quiet /\ moved = 0 /\ crashes = 0 /\ deleg.status # "absent" =>
        /\ cycle.phase = thread.phase
        /\ deleg.phase = cycle.phase
        /\ deleg.index = cycle.index

(***************************************************************************)
(* No dispatch message is sent twice under one client_message_id, whatever *)
(* start, respond and the continuation repeat (_delegate_dispatch_exists). *)
(***************************************************************************)
NoDuplicateDispatch == \A id \in BagToSet(sent) : sent[id] = 1

(***************************************************************************)
(* The loop dispatches on its own at most up to the limit of iterations;   *)
(* past it the delegation has failed (_loop_iteration_limit_reached).      *)
(***************************************************************************)
AutoBounded == \A id \in BagToSet(sent) : id.kind = "continue" => ~(id.n > MaxAuto)

(***************************************************************************)
(* A delegation is left running only if the agent it is assigned to was    *)
(* sent a dispatch for that phase: a refused message leaves it blocked.    *)
(***************************************************************************)
RunningWasDispatched ==
    deleg.status = "running" => DispatchedFor(deleg)

(***************************************************************************)
(* A phase waits for everybody: a person is asked only when every          *)
(* participant's contribution to the phase has its required sections, and  *)
(* an outcome exists to be given; and unless moved by hand or after a      *)
(* restart, a thread leaves a phase only along a transition of the         *)
(* protocol and only when the phase's contributions are complete.          *)
(***************************************************************************)
AsksWhenReady ==
    [][deleg.status # "waiting_for_human" /\ deleg'.status = "waiting_for_human" =>
        /\ Passed(deleg'.phase, thread.parts, contrib[deleg'.phase])
        /\ ValidOutcomes(deleg'.phase) # {}]_vars

LeavesWhenReady ==
    [][moved' = 0 /\ crashes' = 0 /\ thread'.phase # thread.phase =>
        /\ Passed(thread.phase, thread.parts, contrib[thread.phase])
        /\ \/ thread'.phase = Following(thread.phase) /\ ValidOutcomes(thread.phase) = {}
           \/ \E o \in ValidOutcomes(thread.phase) \cap DOMAIN Branch[thread.phase] :
                    thread'.phase = Branch[thread.phase][o]]_vars

PhaseWaitsForAll == AsksWhenReady /\ LeavesWhenReady

(***************************************************************************)
(* A stopped delegation stays stopped until it is started again, no late   *)
(* answer or response revives it: "Stop delegation for one thread and keep *)
(* the final stop reason" (the command "delegate stop").                   *)
(***************************************************************************)
StopSticks ==
    [][deleg.stopped /\ ~deleg'.stopped => \E p \in Pool : proc[p].kind = "start"]_vars

(***************************************************************************)
(* The token respond compares with was made for the state it now guards: a *)
(* token of an earlier state is a "stale_resume_token", "Resume token does *)
(* not match current delegation state".                                    *)
(***************************************************************************)
TokenIsCurrent ==
    deleg.status = "waiting_for_human" /\ deleg.token # NoToken => deleg.token = FreshToken(deleg)

(***************************************************************************)
(* A delegation that waits for a person can be carried on by one, some     *)
(* outcome offered can be applied: "phase requirements are met and a human *)
(* outcome is required to continue" (_why_now).                            *)
(***************************************************************************)
WaitingCanProceed ==
    deleg.status = "waiting_for_human" =>
        \E o \in ValidOutcomes(deleg.phase) : Applicable(deleg.phase, o)

(***************************************************************************)
(* A closed thread stays closed, and gets no more phases, contributions or *)
(* dispatches.                                                             *)
(***************************************************************************)
ClosedFrozen ==
    [][thread.status # "active" => UNCHANGED <<thread, contrib, sent>>]_vars
=============================================================================
