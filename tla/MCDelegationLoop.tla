-------------------------- MODULE MCDelegationLoop --------------------------
(***************************************************************************)
(* Small protocols for TLC.  ReviewLoop: an author plans and builds, a     *)
(* reviewer reviews and a person retries, sends the work back or accepts   *)
(* it; the decision is contributed by hand.                                *)
(* Guide: the protocol of docs/plans/2026-04-18-protocol-dsl-guide.md,     *)
(* with outcomes of its own and a last phase without transitions.          *)
(***************************************************************************)
EXTENDS DelegationLoop, TLC

CONSTANTS ann, bob

Two == <<ann, bob>>
One == <<ann>>

ReviewLoop == <<"plan", "build", "review", "decision">>
ReviewLoopSteps ==
    ("plan" :> <<"author">>) @@ ("build" :> <<"author">>) @@
    ("review" :> <<"reviewer">>) @@ ("decision" :> <<"author">>)
ReviewLoopBranch ==
    ("plan" :> <<>>) @@ ("build" :> <<>>) @@ ("decision" :> <<>>) @@
    ("review" :> [retry |-> "review", rework |-> "build", accept |-> "decision"])
NoDefault == [ph \in PhaseSet |-> NoPhase]

Guide == <<"review", "decision">>
GuideSteps == ("review" :> <<"reviewer", "implementer">>) @@ ("decision" :> <<>>)
GuideBranch ==
    ("review" :> [retry |-> "review", accept |-> "decision"]) @@ ("decision" :> <<>>)
=============================================================================
