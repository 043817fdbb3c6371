----------------------------- MODULE MCClients ------------------------------
(***************************************************************************)
(* Four programs that share no state, checked side by side: in a behaviour *)
(* one of them moves and the others stay as they begin.                    *)
(***************************************************************************)
EXTENDS LiveTurn, ProtocolByHand, HudNavigator, TestEnv, TLC

CONSTANTS ann, user

VARIABLE part       \* the program that runs

-----------------------------------------------------------------------------
(***************************************************************************)
(* The protocol that is moved on by hand.                                  *)
(***************************************************************************)
Two == <<ann, user>>
ShortLoop == <<"plan", "review", "decision">>
ShortSteps == [ph \in PhaseSet |-> <<"author">>]
ShortBranch ==
    ("plan" :> <<>>)
    @@ ("review" :> [retry |-> "review", rework |-> "plan", accept |-> "decision"])
    @@ ("decision" :> <<>>)
NoDefault == [ph \in PhaseSet |-> NoPhase]

-----------------------------------------------------------------------------
ClientsInit ==
    /\ part \in {"turn", "hand", "hud", "env"}
    /\ LiveInit /\ (part # "turn" => provider = "codex")
    /\ HandInit /\ (part # "hand" => mode = "attached")
    /\ HudInit /\ (part # "hud" => active = {})
    /\ EnvInit /\ (part # "env" => envFiles = NoFiles)

ClientsNext ==
    \/ /\ part = "turn" /\ LiveNext
       /\ UNCHANGED <<handVars, hudVars, envVars, part>>
    \/ /\ part = "hand" /\ HandNext
       /\ UNCHANGED <<liveVars, hudVars, envVars, part>>
    \/ /\ part = "hud" /\ HudNext
       /\ UNCHANGED <<liveVars, handVars, envVars, part>>
    \/ /\ part = "env" /\ EnvNext
       /\ UNCHANGED <<liveVars, handVars, hudVars, part>>

clientsVars == <<liveVars, handVars, hudVars, envVars, part>>

ClientsSpec == ClientsInit /\ [][ClientsNext]_clientsVars /\ LiveFairness
=============================================================================
