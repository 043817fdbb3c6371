--------------------------- MODULE ProtocolByHand ---------------------------
(***************************************************************************)
(* A thread taken through its protocol by hand: "protocol apply-next",     *)
(* "thread close", "contribution submit", the hooks of a coding agent      *)
(* ("workflow hook") and "runtime bind, current, clear", all of main.py.   *)
(* Every command is a process of its own.  With a server attached the      *)
(* thread is changed by the server's handlers, each in one instant;        *)
(* without one the command loads and saves the meta itself.  The phase     *)
(* cycle, the mailbox and the binding are files the commands write.        *)
(***************************************************************************)
EXTENDS ProtocolFlow, Functions

CONSTANTS
    Movers,         \* commands that move the thread (bound: TLC's runs have one)
    Others,         \* commands that contribute, or act for a hook or the binding
    Modes,          \* with a server ("attached") or without ("local")
    Templated,      \* phases with a template, required sections or not
    DecidedByUser,  \* phases with decided_by: user
    User,           \* the participant that stands for the person
    NoOutcome,
    MaxCycle,       \* bound: cycle_index
    MaxSaid,        \* bound: contributions
    MaxSteps,       \* bound: steps of the protocol reported
    MaxKills        \* bound: commands killed, threads force-closed

ASSUME HandAssumption ==
    /\ Required \subseteq Templated /\ Templated \subseteq PhaseSet
    /\ DecidedByUser \subseteq PhaseSet
    /\ NoOutcome \notin UNION {DOMAIN Branch[ph] : ph \in PhaseSet} \cup Outcomes

VARIABLES
    mode,
    meta,           \* the thread: status, current_phase, phase_participants
    said,           \* the latest contributions
    cycleFile,      \* the phase cycle
    mailbox,        \* the system mailbox: a report per step
    binding,        \* the runtime binding of the project
    command,        \* what each command is in the middle of
    letGo,          \* the phase in which an agent's last Stop was allowed
    submitted, kills

handVars == <<mode, meta, said, cycleFile, mailbox, binding, command, letGo, submitted, kills>>

Actors == Agents \cup {User}

NoCycleFile == [phase |-> NoPhase, index |-> 0, status |-> "absent"]
NoBinding == [agent |-> NoAgent, status |-> "absent", old |-> FALSE]
NoCommand == [pc |-> "none"]

Now(p, r) == command' = [command EXCEPT ![p] = r]

Commands == Movers \cup Others

-----------------------------------------------------------------------------
(***************************************************************************)
(* protocol apply-next: the context is read, a cycle of that phase is      *)
(* made sure of, then the plan is carried out: the thread, the cycle, the  *)
(* report.                                                                 *)
(***************************************************************************)
ApplyNext(p, o) ==
    /\ command[p].pc = "none"
    /\ Len(mailbox) < MaxSteps
    /\ Now(p, [pc |-> "ensure", meta |-> meta, said |-> said[meta.phase], outcome |-> o])
    /\ UNCHANGED <<mode, meta, said, cycleFile, mailbox, binding, letGo, submitted, kills>>

EnsuredAny(ph) ==   \* mutant: a cycle left by another phase will do
    IF cycleFile # NoCycleFile THEN cycleFile ELSE StartCycle(ph)

EnsuredFresh(ph) ==   \* mutant: every command starts a cycle
    StartCycle(ph)

Ensured(ph) ==
    IF cycleFile # NoCycleFile /\ cycleFile.phase = ph THEN cycleFile ELSE StartCycle(ph)

\* What describe_next makes of the snapshot: the phase to go to, or none.
Target(r) ==
    LET ph == r.meta.phase
    IN  IF r.outcome = NoOutcome THEN Following(ph) ELSE Branch[ph][r.outcome]

Action(r) ==
    LET ph == r.meta.phase
        action == SuggestedAction(ph, r.meta.parts, r.said)
    IN  CASE r.outcome = NoOutcome -> action
          [] r.outcome # NoOutcome /\ action = "submit_contribution" -> action
          [] OTHER -> IF Applicable(ph, r.outcome) THEN "advance_phase" ELSE "record_outcome"

EnsureCycle(p) ==
    LET r == command[p]
        ph == r.meta.phase
        onward == IF mode = "attached" THEN "server" ELSE "load"
    IN  /\ r.pc = "ensure"
        /\ cycleFile' = Ensured(ph)
        /\ \/ /\ Action(r) = "advance_phase"
              /\ Target(r) = ph => cycleFile'.index < MaxCycle
              /\ Now(p, [pc |-> onward, meta |-> r.meta, outcome |-> r.outcome, next |-> Target(r),
                         cycle |-> cycleFile'])
           \/ /\ Action(r) = "close_thread"
              /\ Now(p, [pc |-> onward, meta |-> r.meta, outcome |-> r.outcome, next |-> NoPhase,
                         cycle |-> cycleFile'])
           \/ /\ Action(r) \notin {"advance_phase", "close_thread"}
              /\ Now(p, NoCommand)
        /\ UNCHANGED <<mode, meta, said, mailbox, binding, letGo, submitted, kills>>

(***************************************************************************)
(* The server's handlers look at the thread as it is now: advance-phase at *)
(* its contributions, close at whether it is at its end.                   *)
(***************************************************************************)
Advanced(m, next) == [m EXCEPT !.phase = next, !.parts = Members]
Closed(m) == [m EXCEPT !.status = "completed"]

Complete == Passed(meta.phase, meta.parts, said[meta.phase])

Closable == SuggestedAction(meta.phase, meta.parts, said[meta.phase]) = "close_thread"

Granted(next) ==
    IF next = NoPhase THEN Closable
    ELSE /\ meta.status = "active" /\ meta.parts # <<>>
         /\ meta.phase \in Structured => Complete

ServerStep(p) ==
    LET r == command[p]
    IN  /\ r.pc = "server"
        /\ \/ /\ Granted(r.next)
              /\ meta' = IF r.next = NoPhase THEN Closed(meta) ELSE Advanced(meta, r.next)
              /\ Now(p, [r EXCEPT !.pc = "cycle"])
           \/ /\ ~Granted(r.next)
              /\ Now(p, NoCommand) /\ UNCHANGED meta
        /\ UNCHANGED <<mode, said, cycleFile, mailbox, binding, letGo, submitted, kills>>

\* advance_phase and close_thread of the thread store, without a server.
LoadThread(p) ==
    LET r == command[p]
    IN  /\ r.pc = "load"
        /\ \/ /\ r.next = NoPhase
              /\ Now(p, [r EXCEPT !.pc = "save", !.meta = Closed(meta)])
           \/ /\ r.next # NoPhase /\ meta.status = "active"
              /\ Now(p, [r EXCEPT !.pc = "save", !.meta = Advanced(meta, r.next)])
           \/ /\ r.next # NoPhase /\ meta.status # "active"
              /\ Now(p, NoCommand)
        /\ UNCHANGED <<mode, meta, said, cycleFile, mailbox, binding, letGo, submitted, kills>>

SaveThread(p) ==
    LET r == command[p]
    IN  /\ r.pc = "save"
        /\ meta' = r.meta
        /\ Now(p, [r EXCEPT !.pc = "cycle"])
        /\ UNCHANGED <<mode, said, cycleFile, mailbox, binding, letGo, submitted, kills>>

\* finish_cycle, advance_phase_cycle, or start_cycle when no outcome was given.
NextCycle(r) ==
    CASE r.next = NoPhase -> [r.cycle EXCEPT !.status = "completed"]
      [] r.next # NoPhase /\ r.outcome # NoOutcome -> AdvanceCycle(r.cycle, r.outcome)
      [] OTHER -> StartCycle(r.next)

SaveCycle(p) ==
    LET r == command[p]
    IN  /\ r.pc = "cycle"
        /\ cycleFile' = NextCycle(r)
        /\ Now(p, [pc |-> "report", said |-> [from |-> r.cycle.phase, index |-> r.cycle.index,
                                              to |-> r.next, then |-> cycleFile'.index]])
        /\ UNCHANGED <<mode, meta, said, mailbox, binding, letGo, submitted, kills>>

ReportStep(p) ==
    /\ command[p].pc = "report"
    /\ mailbox' = Append(mailbox, command[p].said)
    /\ Now(p, NoCommand)
    /\ UNCHANGED <<mode, meta, said, cycleFile, binding, letGo, submitted, kills>>

\* "thread close" leaves the cycle and the mailbox alone.
CloseThread(p) ==
    /\ command[p].pc = "none"
    /\ Closable
    /\ meta' = Closed(meta)
    /\ UNCHANGED <<mode, said, cycleFile, mailbox, binding, command, letGo, submitted, kills>>

\* The HUD, or a close with "force".
ForceClose ==
    /\ meta.status = "active" /\ kills < MaxKills
    /\ kills' = kills + 1
    /\ meta' = Closed(meta)
    /\ UNCHANGED <<mode, said, cycleFile, mailbox, binding, command, letGo, submitted>>

-----------------------------------------------------------------------------
(***************************************************************************)
(* contribution submit: the one who may contribute is a participant of the *)
(* phase, or the person when the phase is theirs to decide.  Without a     *)
(* server the phase may be left between the check and the write.           *)
(***************************************************************************)
ArtifactActors(ph, parts) ==
    CASE ph \in DecidedByUser -> {User}
      [] ph \notin DecidedByUser /\ parts # <<>> -> Range(parts)
      [] OTHER -> Agents

Contribute(ph, a, q) ==
    /\ meta.status = "active"
    /\ said' = [said EXCEPT ![ph][a] = q]
    /\ letGo' = [letGo EXCEPT ![a] = NoPhase]

Submit(p, a, q) ==
    /\ command[p].pc = "none" /\ submitted < MaxSaid
    /\ meta.phase \in Structured
    /\ a \in ArtifactActors(meta.phase, meta.parts)
    /\ submitted' = submitted + 1
    /\ \/ /\ mode = "attached"
          /\ Contribute(meta.phase, a, q) /\ UNCHANGED command
       \/ /\ mode = "local"
          /\ Now(p, [pc |-> "contribute", phase |-> meta.phase, actor |-> a, quality |-> q])
          /\ UNCHANGED <<said, letGo>>
    /\ UNCHANGED <<mode, meta, cycleFile, mailbox, binding, kills>>

SaveContribution(p) ==
    LET r == command[p]
    IN  /\ r.pc = "contribute"
        /\ \/ Contribute(r.phase, r.actor, r.quality)
           \/ meta.status # "active" /\ UNCHANGED <<said, letGo>>
        /\ Now(p, NoCommand)
        /\ UNCHANGED <<mode, meta, cycleFile, mailbox, binding, submitted, kills>>

-----------------------------------------------------------------------------
(***************************************************************************)
(* workflow hook.  The hook acts for the bound agent, or for the one it    *)
(* names; a binding of that agent is read and written back as seen, then   *)
(* a Stop is judged by the thread as it is.                                *)
(***************************************************************************)
MatchesAnything(ph, q) ==   \* mutant: the required sections are not looked for
    q # "none"

Matches(ph, q) == IF ph \in Required THEN q = "full" ELSE q # "none"

StopAllowed(a) ==
    \/ meta.phase \notin Templated \cap Structured
    \/ a # NoAgent /\ a \notin ArtifactActors(meta.phase, meta.parts)
    \/ a # NoAgent /\ Matches(meta.phase, said[meta.phase][a])

Judge(a, event) ==
    letGo' = IF a = NoAgent THEN letGo
             ELSE [letGo EXCEPT ![a] = IF event = "Stop" /\ StopAllowed(a) THEN meta.phase ELSE NoPhase]

Hook(p, a, event) ==
    /\ command[p].pc = "none"
    /\ \/ /\ binding.status = "active" /\ binding.agent = a
          /\ Now(p, [pc |-> "observe", binding |-> binding, event |-> event])
          /\ UNCHANGED letGo
       \/ /\ ~(binding.status = "active" /\ binding.agent = a)
          /\ Judge(a, event) /\ UNCHANGED command
    /\ UNCHANGED <<mode, meta, said, cycleFile, mailbox, binding, submitted, kills>>

Observe(p) ==
    LET r == command[p]
    IN  /\ r.pc = "observe"
        /\ binding' = [r.binding EXCEPT !.old = FALSE]
        /\ Judge(r.binding.agent, r.event)
        /\ Now(p, NoCommand)
        /\ UNCHANGED <<mode, meta, said, cycleFile, mailbox, submitted, kills>>

(***************************************************************************)
(* runtime bind, clear and current; "old" is a binding not seen for 24     *)
(* hours, which current closes.                                            *)
(***************************************************************************)
Bind(p, a) ==
    /\ command[p].pc = "none"
    /\ binding' = [agent |-> a, status |-> "active", old |-> FALSE]
    /\ UNCHANGED <<mode, meta, said, cycleFile, mailbox, command, letGo, submitted, kills>>

ClearBinding(p) ==
    /\ command[p].pc = "none" /\ binding # NoBinding
    /\ binding' = NoBinding
    /\ UNCHANGED <<mode, meta, said, cycleFile, mailbox, command, letGo, submitted, kills>>

DayPasses ==
    /\ binding.status = "active" /\ ~binding.old
    /\ binding' = [binding EXCEPT !.old = TRUE]
    /\ UNCHANGED <<mode, meta, said, cycleFile, mailbox, command, letGo, submitted, kills>>

ShowBinding(p) ==
    /\ command[p].pc = "none" /\ binding.status = "active" /\ binding.old
    /\ Now(p, [pc |-> "stale", binding |-> binding])
    /\ UNCHANGED <<mode, meta, said, cycleFile, mailbox, binding, letGo, submitted, kills>>

CloseBinding(p) ==
    /\ command[p].pc = "stale"
    /\ binding' = [command[p].binding EXCEPT !.status = "closed"]
    /\ Now(p, NoCommand)
    /\ UNCHANGED <<mode, meta, said, cycleFile, mailbox, letGo, submitted, kills>>

Kill(p) ==
    /\ command[p].pc # "none" /\ kills < MaxKills
    /\ kills' = kills + 1
    /\ Now(p, NoCommand)
    /\ UNCHANGED <<mode, meta, said, cycleFile, mailbox, binding, letGo, submitted>>

-----------------------------------------------------------------------------
HandInit ==
    /\ mode \in Modes
    /\ meta = [status |-> "active", phase |-> Phases[1], parts |-> Members]
    /\ said = [ph \in PhaseSet |-> [a \in Actors |-> "none"]]
    /\ cycleFile = NoCycleFile
    /\ mailbox = <<>>
    /\ binding = NoBinding
    /\ command = [p \in Commands |-> NoCommand]
    /\ letGo = [a \in Actors |-> NoPhase]
    /\ submitted = 0 /\ kills = 0

HandStep(p) ==
    \/ EnsureCycle(p) \/ ServerStep(p) \/ LoadThread(p) \/ SaveThread(p) \/ SaveCycle(p)
    \/ ReportStep(p) \/ SaveContribution(p) \/ Observe(p) \/ CloseBinding(p)

HandNext ==
    \/ \E p \in Commands : HandStep(p) \/ Kill(p)
    \/ \E p \in Movers :
          \/ CloseThread(p)
          \/ \E o \in {NoOutcome} \cup UNION {DOMAIN Branch[ph] : ph \in PhaseSet} : ApplyNext(p, o)
    \/ \E p \in Others :
          \/ ClearBinding(p) \/ ShowBinding(p)
          \/ \E a \in Actors, q \in {"short", "full"} : Submit(p, a, q)
          \/ \E a \in Agents \cup {NoAgent}, event \in {"UserPromptSubmit", "Stop"} : Hook(p, a, event)
          \/ \E a \in Agents \ {User} : Bind(p, a)
    \/ ForceClose \/ DayPasses

HandSpec == HandInit /\ [][HandNext]_handVars

-----------------------------------------------------------------------------
NobodyMoves == \A p \in Movers : command[p].pc = "none"

(***************************************************************************)
(* After a step of the protocol the cycle is one of the phase the thread   *)
(* is in, also when an earlier command was killed between the two files:   *)
(* the next one starts from a cycle of the thread's phase                  *)
(* (_ensure_phase_cycle_state).                                            *)
(***************************************************************************)
CycleFollowsThread ==
    \/ \E p \in Movers : command[p].pc = "report"
    \/ NobodyMoves /\ kills = 0 /\ cycleFile # NoCycleFile
    => cycleFile.phase = meta.phase

(***************************************************************************)
(* When every participant of a phase has been let go by the Stop hook,     *)
(* the gate lets the thread go on: evaluate_workflow_hook and              *)
(* validate_phase judge the same contributions in two ways.  A phase the   *)
(* person decides is left out: there the two do disagree.                  *)
(***************************************************************************)
LetGoMeansComplete ==
    meta.phase \notin DecidedByUser /\ (\A a \in Range(meta.parts) : letGo[a] = meta.phase) => Complete

(***************************************************************************)
(* The mailbox tells how the thread came to its phase: each report starts  *)
(* at the phase and the cycle the one before ended at, the last one at     *)
(* where the thread is.  A closed thread may be closed, and reported,      *)
(* again.                                                                  *)
(***************************************************************************)
ReportsAreTheWay ==
    NobodyMoves /\ kills = 0 /\ mailbox # <<>> =>
        /\ \A i \in 1 .. Len(mailbox) - 1 :
              mailbox[i].to # NoPhase => /\ mailbox[i + 1].from = mailbox[i].to
                                         /\ mailbox[i + 1].index = mailbox[i].then
        /\ LET last == mailbox[Len(mailbox)]
           IN  IF last.to = NoPhase THEN meta.status = "completed"
               ELSE last.to = meta.phase /\ last.then = cycleFile.index
=============================================================================
