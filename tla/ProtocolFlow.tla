---------------------------- MODULE ProtocolFlow ----------------------------
(***************************************************************************)
(* What a protocol says of a thread: protocol_flow.describe_next with      *)
(* ProtocolValidator.validate_phase, the phase cycle of                    *)
(* phase_cycle_engine.py, and delegation_engine.build_delegation_assignment*)
(* on top of them.  Pure functions of a protocol and of snapshots the      *)
(* callers took; no state.                                                 *)
(*                                                                         *)
(* A contribution counts only by the headers it contains: "full" when it   *)
(* has every required section of the phase's template, "short" when it     *)
(* misses one, "none" when the agent has contributed nothing.  The role    *)
(* of a step and the participant bound to it by position stand for the     *)
(* step; wording, hints, guards and policies are left out.                 *)
(***************************************************************************)
EXTENDS Naturals, Sequences, FiniteSets, FiniteSetsExt

CONSTANTS
    Phases,         \* phase names, in the order the protocol lists them
    Steps,          \* the roles of each phase's procedure, in order; <<>>: none
    Required,       \* phases whose template has a required section
    Structured,     \* phases whose actions include "contribute" or "decide"
    Direct,         \* phases whose actions include "discuss" or "review"
    Outcomes,       \* protocol.outcomes, the top-level list; {}: not given
    Branch,         \* transitions with an "on": outcome -> target, per phase
    Default,        \* transition without an "on", or NoPhase
    Members,        \* the thread's participants, in the order they joined
    MaxAuto,        \* DEFAULT_MAX_AUTO_ITERATIONS (0 would mean no limit; no caller passes it)
    NoPhase, NoAgent

PhaseSet == {Phases[i] : i \in DOMAIN Phases}
Agents == {Members[i] : i \in DOMAIN Members}

ASSUME ProtocolAssumption ==
    /\ Phases \in Seq(PhaseSet)
    /\ Phases # <<>>
    /\ Members \in Seq(Agents)
    /\ DOMAIN Steps = PhaseSet
    /\ \A ph \in PhaseSet : Steps[ph] \in Seq({Steps[ph][i] : i \in DOMAIN Steps[ph]})
    /\ Required \subseteq PhaseSet
    /\ Structured \subseteq PhaseSet
    /\ Direct \subseteq PhaseSet
    /\ DOMAIN Branch = PhaseSet
    /\ \A ph \in PhaseSet : \A o \in DOMAIN Branch[ph] : Branch[ph][o] \in PhaseSet
    /\ Default \in [PhaseSet -> PhaseSet \cup {NoPhase}]
    /\ NoPhase \notin PhaseSet
    /\ NoAgent \notin Agents
    /\ MaxAuto \in Nat \ {0}

Quality == {"none", "short", "full"}

(***************************************************************************)
(* ProtocolValidator.validate_phase: the latest contribution of every      *)
(* participant has the required sections.                                  *)
(***************************************************************************)
Passed(ph, parts, said) ==
    ph \in Required => \A i \in DOMAIN parts : said[parts[i]] = "full"

(***************************************************************************)
(* describe_next: the outcomes a person may give, and the phase that       *)
(* follows when none is called for.                                        *)
(***************************************************************************)
ValidOutcomes(ph) == IF Outcomes # {} THEN Outcomes ELSE DOMAIN Branch[ph]

Following(ph) ==
    LET at == CHOOSE i \in DOMAIN Phases : Phases[i] = ph
    IN  CASE Default[ph] # NoPhase -> Default[ph]
          [] Default[ph] = NoPhase /\ at < Len(Phases) -> Phases[at + 1]
          [] OTHER -> NoPhase

SuggestedActionEager(ph, parts, said) ==  \* mutant: outcomes before contributions
    CASE ValidOutcomes(ph) # {} -> "record_outcome"
      [] ValidOutcomes(ph) = {} /\ ~Passed(ph, parts, said) -> "submit_contribution"
      [] OTHER -> IF Following(ph) # NoPhase THEN "advance_phase" ELSE "close_thread"

SuggestedAction(ph, parts, said) ==
    CASE ~Passed(ph, parts, said)   -> "submit_contribution"
      [] Passed(ph, parts, said) /\ ValidOutcomes(ph) # {} -> "record_outcome"
      [] OTHER -> IF Following(ph) # NoPhase THEN "advance_phase" ELSE "close_thread"

\* An outcome can be applied when it is valid and a transition carries it.
Applicable(ph, o) == o \in ValidOutcomes(ph) /\ o \in DOMAIN Branch[ph]

(***************************************************************************)
(* phase_cycle_engine.advance_phase_cycle and PhaseCycleState: a cycle     *)
(* starts at index 1, a transition to the same phase counts one more       *)
(* cycle, one without a target completes it.  No code moves                *)
(* current_step_index on, so the current step of a cycle is the first.     *)
(***************************************************************************)
StartCycle(ph) == [phase |-> ph, index |-> 1, status |-> "active"]

AdvanceCycle(cycle, o) ==
    CASE o \notin DOMAIN Branch[cycle.phase] -> [cycle EXCEPT !.status = "completed"]
      [] o \in DOMAIN Branch[cycle.phase] /\ Branch[cycle.phase][o] = cycle.phase ->
            [cycle EXCEPT !.index = @ + 1, !.status = "active"]
      [] OTHER -> StartCycle(Branch[cycle.phase][o])

(***************************************************************************)
(* build_delegate_role_bindings: roles are bound to participants by        *)
(* position, the last step of a role winning; default_phase_participants   *)
(* cuts the participants of the phase being left to the length of the next *)
(* procedure, and falls back to the members when there are none.           *)
(***************************************************************************)
BoundAgent(ph, parts) ==
    LET same == {i \in DOMAIN Steps[ph] \cap DOMAIN parts : Steps[ph][i] = Steps[ph][1]}
    IN  IF same = {} THEN NoAgent ELSE parts[Max(same)]

Cut(s, n) == SubSeq(s, 1, Min({Len(s), n}))

DefaultParts(parts, next) ==
    CASE parts # <<>> -> Cut(parts, Len(Steps[next]))
      [] parts = <<>> /\ Steps[next] = <<>> -> Members
      [] OTHER -> Cut(Members, Len(Steps[next]))

(***************************************************************************)
(* build_delegation_assignment, its checks in their order.  "sick" says    *)
(* that the agent's session failed to recover and "loop" is the iteration  *)
(* the limit is tried on; the callers that pass neither give FALSE and 0.  *)
(***************************************************************************)
AssignmentStatusLate(ph, parts, said, cycle, sick, loop) ==  \* mutant: one iteration more
    LET action == SuggestedAction(ph, parts, said)
    IN  CASE action = "record_outcome" -> "waiting_for_human"
          [] action \in {"advance_phase", "close_thread"} -> "completed"
          [] OTHER ->
                CASE cycle.status = "completed" -> "completed"
                  [] cycle.status # "completed" /\ (BoundAgent(ph, parts) = NoAgent \/ sick) -> "blocked"
                  [] OTHER -> IF loop > MaxAuto + 1 THEN "failed" ELSE "running"

AssignmentStatus(ph, parts, said, cycle, sick, loop) ==
    LET action == SuggestedAction(ph, parts, said)
    IN  CASE action = "record_outcome" -> "waiting_for_human"
          [] action \in {"advance_phase", "close_thread"} -> "completed"
          [] OTHER ->
                CASE cycle.status = "completed" -> "completed"
                  [] cycle.status # "completed" /\ (BoundAgent(ph, parts) = NoAgent \/ sick) -> "blocked"
                  [] OTHER -> IF loop > MaxAuto THEN "failed" ELSE "running"

Assignment(ph, parts, said, cycle, sick, loop) ==
    LET status == AssignmentStatus(ph, parts, said, cycle, sick, loop)
    IN  [status |-> status,
         action |-> SuggestedAction(ph, parts, said),
         agent |-> IF status \in {"blocked", "failed", "running"}
                   THEN BoundAgent(ph, parts) ELSE NoAgent]
=============================================================================
