--------------------------- MODULE MCAgentRuntime ---------------------------
(***************************************************************************)
(* Agents on a small instance: two in a thread, one of them with a live    *)
(* transport, and beside them the desk, agents.json and the conductor's    *)
(* terminals, which shares nothing with the sessions of threads: in a      *)
(* behaviour one of the two moves and the other stays as it begins.        *)
(***************************************************************************)
EXTENDS AgentRuntime, AgentDesk

CONSTANTS ann, bob, t1, cli, loop

VARIABLE part       \* "runtime" or "desk"

MCSlots == 1..2

\* One agent is known, with two tasks of earlier workflows in its queue.
Known == "ann" :> [model |-> "m", skills |-> {"build"}, queue |-> <<7, 8>>]
BuildAndReview == <<"build", "review">>
Allowances == {<<2, 1>>, <<0, 4>>}

-----------------------------------------------------------------------------
AgentsInit ==
    /\ part \in {"runtime", "desk"}
    /\ Init
    /\ DeskInit /\ (part # "desk" => allowance = <<0, 4>>)

AgentsNext ==
    \/ part = "runtime" /\ Next /\ UNCHANGED <<deskVars, part>>
    \/ part = "desk" /\ DeskNext /\ UNCHANGED <<vars, part>>

AgentsSpec == AgentsInit /\ [][AgentsNext]_<<vars, deskVars, part>> /\ Fairness
=============================================================================
