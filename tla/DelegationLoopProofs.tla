------------------------ MODULE DelegationLoopProofs ------------------------
(***************************************************************************)
(* Proofs about DelegationLoop, for every protocol, every number of pool   *)
(* threads and every bound: its messages, what its files and its requests  *)
(* hold under every interleaving, crash and move by hand, and, on top of   *)
(* it, that a running delegation was dispatched.                           *)
(***************************************************************************)
EXTENDS DelegationLoop, WellFoundedInduction, TLAPS

(***************************************************************************)
(* What a plan may ask to be sent: a message no earlier one has the id of, *)
(* and for the continuation one within the limit.                          *)
(***************************************************************************)
WithinLimit(r) == r.pc = "send" /\ r.id.kind = "continue" => ~(r.id.n > MaxAuto)

NotYetSent(r) == r.pc = "send" => r.id \notin DOMAIN sent

(***************************************************************************)
(* build_delegation_assignment answers "running" only within the limit of  *)
(* iterations it was given.                                                *)
(***************************************************************************)
LEMMA RunningWithinLimit ==
    ASSUME NEW ph, NEW parts, NEW said, NEW cyc, NEW sick, NEW loop,
           AssignmentStatus(ph, parts, said, cyc, sick, loop) = "running"
    PROVE  ~(loop > MaxAuto)
BY DEF AssignmentStatus

\* A message is planned only for a running assignment and under an unused id.
LEMMA PlannedSends ==
    ASSUME NEW kind, NEW a, NEW d, NEW id, NEW running,
           Planned(kind, a, d, id, running).pc = "send"
    PROVE  /\ Planned(kind, a, d, id, running).id = id
           /\ a.status = "running"
           /\ id \notin DOMAIN sent
<1>1. CASE a.status # "running"
  BY <1>1 DEF Planned, Saving
<1>2. CASE a.status = "running" /\ id.phase \notin Direct
  BY <1>2 DEF Planned, Saving
<1>3. CASE a.status = "running" /\ id.phase \in Direct /\ BagIn(id, sent)
  BY <1>3 DEF Planned, Saving
<1>4. CASE a.status = "running" /\ id.phase \in Direct /\ ~BagIn(id, sent)
  BY <1>4 DEF Planned, BagIn, BagToSet
<1>5. QED
  BY <1>1, <1>2, <1>3, <1>4

-----------------------------------------------------------------------------
(***************************************************************************)
(* What every step is to the messages sent: one process goes on to a       *)
(* program point that may be "send" only with a new id within the limit, a *)
(* process sends, everything is killed, or nothing moves.                  *)
(***************************************************************************)
HasPc(r) == "pc" \in DOMAIN r

GoodPoint(r) == HasPc(r) /\ WithinLimit(r) /\ NotYetSent(r)

GoesOn(p, r) ==
    /\ Goto(p, r)
    /\ GoodPoint(r)
    /\ MayBegin(p) \/ proc[p].pc # "idle"
    /\ UNCHANGED sent

(***************************************************************************)
(* Whatever is planned is a good point, provided a continuation that is    *)
(* judged running is within the limit.                                     *)
(***************************************************************************)
LEMMA PlannedGood ==
    ASSUME NEW kind, NEW a, NEW d, NEW id, NEW running,
           id.kind = "continue" /\ a.status = "running" => ~(id.n > MaxAuto)
    PROVE  GoodPoint(Planned(kind, a, d, id, running))
<1>1. HasPc(Planned(kind, a, d, id, running))
  <2>1. CASE a.status # "running"
    BY <2>1 DEF Planned, Saving, HasPc
  <2>2. CASE a.status = "running" /\ id.phase \notin Direct
    BY <2>2 DEF Planned, Saving, HasPc
  <2>3. CASE a.status = "running" /\ id.phase \in Direct /\ BagIn(id, sent)
    BY <2>3 DEF Planned, Saving, HasPc
  <2>4. CASE a.status = "running" /\ id.phase \in Direct /\ ~BagIn(id, sent)
    BY <2>4 DEF Planned, HasPc
  <2>5. QED
    BY <2>1, <2>2, <2>3, <2>4
<1>2. /\ WithinLimit(Planned(kind, a, d, id, running))
      /\ NotYetSent(Planned(kind, a, d, id, running))
  BY PlannedSends DEF WithinLimit, NotYetSent
<1>3. QED
  BY <1>1, <1>2 DEF GoodPoint

\* start and respond plan no message of the continuation's kind.
LEMMA PlanFreshGood ==
    ASSUME NEW kind, NEW cyc, NEW parts, NEW said
    PROVE  GoodPoint(PlanFresh(kind, cyc, parts, said))
<1> DEFINE a == Assignment(cyc.phase, parts, said, cyc, FALSE, 0)
           d == NewState(a, cyc)
           id == DispatchId("start", cyc.index, cyc.phase, a.agent)
<1>1. PlanFresh(kind, cyc, parts, said) = Planned(kind, a, d, id, d)
  BY DEF PlanFresh
<1>2. id.kind # "continue"
  BY DEF DispatchId
<1> HIDE DEF a, d, id
<1>3. QED
  BY <1>1, <1>2, PlannedGood

\* The continuation tries the limit on the iteration it puts into the id.
LEMMA PlanContinueGood ==
    ASSUME NEW old, NEW cyc, NEW parts, NEW result, NEW sick
    PROVE  GoodPoint(PlanContinue(old, cyc, parts, result, sick))
<1> DEFINE said == contrib[cyc.phase]
           first == Assignment(cyc.phase, parts, said, cyc, FALSE, 0)
           limited == Assignment(cyc.phase, parts, said, cyc, sick, old.loop + 1)
           a == IF first.status = "running" THEN limited ELSE first
           d == ContinuedState(old, a, cyc.phase, cyc.index, result)
           id == DispatchId("continue", old.loop + 1, cyc.phase, a.agent)
           running == [d EXCEPT !.loop = old.loop + 1]
<1>1. PlanContinue(old, cyc, parts, result, sick) = Planned("continue", a, d, id, running)
  BY DEF PlanContinue
<1>2. ASSUME limited.status = "running" PROVE ~(old.loop + 1 > MaxAuto)
  BY <1>2, RunningWithinLimit DEF Assignment
<1>3. id.n = old.loop + 1
  BY DEF DispatchId
<1>4. a.status = "running" => limited.status = "running"
  <2> HIDE DEF first, limited
  <2> QED OBVIOUS
<1> HIDE DEF limited, a, d, id, running
<1>5. QED
  BY <1>1, <1>2, <1>3, <1>4, PlannedGood

\* Program points that do not send are good ones.
LEMMA OtherGood == \A r : HasPc(r) /\ r.pc # "send" => GoodPoint(r)
BY DEF GoodPoint, WithinLimit, NotYetSent

\* Program points before a save.
LEMMA SavingGood == \A kind, d : GoodPoint(Saving(kind, d))
BY DEF GoodPoint, WithinLimit, NotYetSent, Saving, HasPc

\* The program point of a request that is answered.
LEMMA IdleGood == GoodPoint(Idle) /\ Idle.pc = "idle"
BY DEF GoodPoint, WithinLimit, NotYetSent, Idle, HasPc

\* The program points of the two-step meta write.
LEMMA ExceptGood ==
    ASSUME NEW r, HasPc(r)
    PROVE  /\ GoodPoint([r EXCEPT !.pc = "meta"])
           /\ \A c : GoodPoint([r EXCEPT !.pc = "cycle", !.cycle = c])
           /\ \A c, b : GoodPoint([r EXCEPT !.pc = "cycle", !.cycle = c, !.repeats = b])
<1>1. HasPc([r EXCEPT !.pc = "meta"]) /\ [r EXCEPT !.pc = "meta"].pc # "send"
  BY ZenonT(20) DEF HasPc
<1>2. ASSUME NEW c
      PROVE  /\ HasPc([r EXCEPT !.pc = "cycle", !.cycle = c])
             /\ [r EXCEPT !.pc = "cycle", !.cycle = c].pc # "send"
  BY ZenonT(20) DEF HasPc
<1>3. ASSUME NEW c, NEW b
      PROVE  /\ HasPc([r EXCEPT !.pc = "cycle", !.cycle = c, !.repeats = b])
             /\ [r EXCEPT !.pc = "cycle", !.cycle = c, !.repeats = b].pc # "send"
  BY ZenonT(20) DEF HasPc
<1>4. QED
  BY <1>1, <1>2, <1>3, OtherGood

\* delegate/start is one such step.
LEMMA StartGoesOn ==
    ASSUME NEW p, StartRequest(p)
    PROVE  \E r : GoesOn(p, r)
<1>1. MayBegin(p) /\ UNCHANGED sent
  BY DEF StartRequest, files
<1>2. CASE cycle = NoCycle
  <2> DEFINE r == [pc |-> "cycle", kind |-> "start", cycle |-> StartCycle(thread.phase),
                   parts |-> thread.parts]
  <2>1. Goto(p, r)
    BY <1>2 DEF StartRequest
  <2>2. HasPc(r) /\ r.pc # "send"
    BY DEF HasPc
  <2> HIDE DEF r
  <2>3. QED
    BY <1>1, <2>1, <2>2, OtherGood DEF GoesOn
<1>3. CASE cycle # NoCycle
  <2> DEFINE r == PlanFresh("start", cycle, thread.parts, contrib[cycle.phase])
  <2>1. Goto(p, r)
    BY <1>3 DEF StartRequest
  <2>2. GoodPoint(r)
    BY PlanFreshGood
  <2> HIDE DEF r
  <2>3. QED
    BY <1>1, <2>1, <2>2 DEF GoesOn
<1>4. QED
  BY <1>2, <1>3

\* delegate/respond, up to its first write.
LEMMA RespondGoesOn ==
    ASSUME NEW p, NEW o, RespondRequest(p, o)
    PROVE  \E r : GoesOn(p, r)
<1> DEFINE next == Branch[deleg.phase][o]
           r == [pc |-> "advance", kind |-> "respond", next |-> next,
                 parts |-> DefaultParts(thread.parts, next), outcome |-> o,
                 cycle |-> cycle, repeats |-> FALSE, old |-> deleg]
<1>1. MayBegin(p) /\ UNCHANGED sent
  BY DEF RespondRequest, files
<1>2. Goto(p, r)
  BY DEF RespondRequest
<1>3. HasPc(r) /\ r.pc # "send"
  BY DEF HasPc
<1> HIDE DEF r
<1>4. QED
  BY <1>1, <1>2, <1>3, OtherGood DEF GoesOn

\* delegate/wait, the stop of the CLI and a close, up to their writes.
LEMMA SmallRequestGoesOn ==
    ASSUME NEW p, WaitRequest(p) \/ StopRequest(p) \/ LoadForClose(p)
    PROVE  \E r : GoesOn(p, r)
<1>1. MayBegin(p) /\ UNCHANGED sent
  BY DEF WaitRequest, StopRequest, LoadForClose, files
<1>2. CASE WaitRequest(p)
  <2> DEFINE d == [deleg EXCEPT !.token = ResumeToken(deleg)]
  <2>1. Goto(p, Saving("wait", d))
    BY <1>2 DEF WaitRequest
  <2> HIDE DEF d
  <2>2. QED
    BY <1>1, <2>1, SavingGood DEF GoesOn
<1>3. CASE StopRequest(p)
  <2> DEFINE d == [deleg EXCEPT !.status = "completed", !.token = NoToken, !.stopped = TRUE]
  <2>1. Goto(p, Saving("stop", d))
    BY <1>3 DEF StopRequest
  <2> HIDE DEF d
  <2>2. QED
    BY <1>1, <2>1, SavingGood DEF GoesOn
<1>4. CASE LoadForClose(p)
  <2> DEFINE r == [pc |-> "close", kind |-> "close", meta |-> [thread EXCEPT !.status = "completed"]]
  <2>1. Goto(p, r)
    BY <1>4 DEF LoadForClose
  <2>2. HasPc(r) /\ r.pc # "send"
    BY DEF HasPc
  <2> HIDE DEF r
  <2>3. QED
    BY <1>1, <2>1, <2>2, OtherGood DEF GoesOn
<1>5. QED
  BY <1>2, <1>3, <1>4

\* The continuation's reads.
LEMMA AnswerGoesOn ==
    ASSUME NEW a, NEW q, AnswerRequest(a, q)
    PROVE  \E r : GoesOn(Loop, r)
<1> DEFINE r == [pc |-> "contribute", kind |-> "continue", agent |-> a, quality |-> q,
                 parts |-> thread.parts, cycle |-> cycle, old |-> deleg, result |-> inputs']
<1>1. MayBegin(Loop) /\ UNCHANGED sent
  BY DEF AnswerRequest, files
<1>2. Goto(Loop, r)
  BY DEF AnswerRequest
<1>3. HasPc(r) /\ r.pc # "send"
  BY DEF HasPc
<1> HIDE DEF r
<1>4. QED
  BY <1>1, <1>2, <1>3, OtherGood DEF GoesOn

\* The continuation's contribution.
LEMMA ContributeGoesOn ==
    ASSUME Contribute
    PROVE  \E r : GoesOn(Loop, r)
<1> DEFINE s == proc[Loop]
           ph == s.old.phase
           a == Assignment(ph, s.parts, contrib'[ph], s.cycle, FALSE, 0)
           blocked == [s.old EXCEPT !.status = "blocked", !.result = s.result, !.stopped = FALSE]
           judged == ContinuedState(s.old, a, ph, s.cycle.index, s.result)
           on == [pc |-> "advance", kind |-> "continue", next |-> Following(ph),
                  parts |-> DefaultParts(s.parts, Following(ph)),
                  cycle |-> s.cycle, old |-> s.old, result |-> s.result]
<1>1. proc[Loop].pc # "idle" /\ UNCHANGED sent
  BY DEF Contribute
<1>2. \/ Goto(Loop, Saving("continue", blocked))
      \/ Goto(Loop, on)
      \/ Goto(Loop, Saving("continue", judged))
  BY DEF Contribute
<1>3. HasPc(on) /\ on.pc # "send"
  BY DEF HasPc
<1> HIDE DEF blocked, judged, on
<1>4. QED
  BY <1>1, <1>2, <1>3, OtherGood, SavingGood DEF GoesOn

\* advance_phase: the load and the write of the meta.
LEMMA MetaGoesOn ==
    ASSUME NEW p, HasPc(proc[p]), LoadMeta(p) \/ StoreMeta(p)
    PROVE  \E r : GoesOn(p, r)
<1>1. CASE LoadMeta(p)
  <2> DEFINE r == [proc[p] EXCEPT !.pc = "meta"]
  <2>1. proc[p].pc # "idle" /\ UNCHANGED sent
    BY <1>1 DEF LoadMeta, files
  <2>2. Goto(p, Idle) \/ Goto(p, r)
    BY <1>1 DEF LoadMeta
  <2>3. GoodPoint(r)
    BY ExceptGood
  <2> HIDE DEF r
  <2>4. QED
    BY <2>1, <2>2, <2>3, IdleGood DEF GoesOn
<1>2. CASE StoreMeta(p)
  <2> DEFINE s == proc[p]
             next == AdvanceCycle(s.cycle, s.outcome)
             repeats == next.phase = s.old.phase /\ next.index > s.cycle.index
             responds == [s EXCEPT !.pc = "cycle", !.cycle = next, !.repeats = repeats]
             continues == [s EXCEPT !.pc = "cycle", !.cycle = StartCycle(s.next)]
  <2>1. proc[p].pc # "idle" /\ UNCHANGED sent
    BY <1>2 DEF StoreMeta
  <2>2. Goto(p, Idle) \/ Goto(p, responds) \/ Goto(p, continues)
    BY <1>2 DEF StoreMeta
  <2>3. GoodPoint(responds) /\ GoodPoint(continues)
    <3> HIDE DEF next, repeats
    <3> QED BY ExceptGood
  <2> HIDE DEF responds, continues
  <2>4. QED
    BY <2>1, <2>2, <2>3, IdleGood DEF GoesOn
<1>3. QED
  BY <1>1, <1>2

\* The write of the cycle, of the delegation state and of a close.
LEMMA WriteGoesOn ==
    ASSUME NEW p, (\E sick \in BOOLEAN : WriteCycle(p, sick)) \/ Save(p) \/ Close(p)
    PROVE  \E r : GoesOn(p, r)
<1>1. CASE \E sick \in BOOLEAN : WriteCycle(p, sick)
  <2>1. PICK sick \in BOOLEAN : WriteCycle(p, sick)
    BY <1>1
  <2> DEFINE s == proc[p]
             said == IF s.kind = "respond" /\ s.repeats THEN Nobody ELSE contrib[s.cycle.phase]
             again == PlanContinue(s.old, s.cycle, s.parts, s.result, sick)
             fresh == PlanFresh(s.kind, s.cycle, s.parts, said)
  <2>2. proc[p].pc # "idle" /\ UNCHANGED sent
    BY <2>1 DEF WriteCycle
  <2>3. Goto(p, again) \/ Goto(p, fresh)
    BY <2>1 DEF WriteCycle
  <2>4. GoodPoint(again)
    BY PlanContinueGood
  <2>5. GoodPoint(fresh)
    <3> HIDE DEF said
    <3> QED BY PlanFreshGood
  <2> HIDE DEF again, fresh
  <2>6. QED
    BY <2>2, <2>3, <2>4, <2>5 DEF GoesOn
<1>2. CASE Save(p) \/ Close(p)
  BY <1>2, IdleGood DEF Save, Close, GoesOn
<1>3. QED
  BY <1>1, <1>2

-----------------------------------------------------------------------------
(***************************************************************************)
(* The four kinds of step, for every action of Next.                       *)
(***************************************************************************)
ProcsHavePc == \A q \in Procs : HasPc(proc[q])

NothingSent == UNCHANGED <<proc, sent>>

Killed == proc' = [q \in Procs |-> Idle] /\ UNCHANGED sent

\* What a step does to the requests and the messages.
LEMMA StepKinds ==
    ASSUME ProcsHavePc, [Next]_vars
    PROVE  \/ \E p \in Procs : \E r : GoesOn(p, r)
           \/ \E p \in Procs : Send(p)
           \/ Killed
           \/ NothingSent
<1>1. ASSUME NEW p \in Procs, Request(p)
      PROVE  \E r : GoesOn(p, r)
  BY <1>1, StartGoesOn, RespondGoesOn, SmallRequestGoesOn DEF Request
<1>2. ASSUME NEW p \in Procs, Step(p)
      PROVE  (\E r : GoesOn(p, r)) \/ Send(p)
  BY <1>2, MetaGoesOn, WriteGoesOn DEF Step, ProcsHavePc
<1>3. Loop \in Procs
  BY DEF Procs
<1>4. CASE ByLoop
  <2>1. CASE Contribute
    BY <2>1, <1>3, ContributeGoesOn
  <2>2. CASE \E a \in Agents, q \in {"short", "full"} : AnswerRequest(a, q)
    BY <2>2, <1>3, AnswerGoesOn
  <2>3. CASE \E a \in Agents, q \in {"short", "full"} : ContributeByHand(a, q)
    BY <2>3 DEF ContributeByHand, NothingSent
  <2>4. CASE \E ph \in PhaseSet : AdvanceByHand(ph)
    BY <2>4 DEF AdvanceByHand, NothingSent
  <2>5. QED
    BY <1>4, <2>1, <2>2, <2>3, <2>4 DEF ByLoop
<1>5. CASE Crash
  BY <1>5 DEF Crash, Killed, files
<1>6. CASE UNCHANGED vars
  BY <1>6 DEF vars, files, NothingSent
<1>7. QED
  BY <1>1, <1>2, <1>4, <1>5, <1>6 DEF Next

(***************************************************************************)
(* A sent message is added to the bag once.                                *)
(***************************************************************************)
LEMMA SendAdds ==
    ASSUME NEW p, Send(p)
    PROVE  \/ UNCHANGED sent
           \/ /\ DOMAIN sent' = DOMAIN sent \cup {proc[p].id}
              /\ \A id \in DOMAIN sent \ {proc[p].id} : sent'[id] = sent[id] + 0
              /\ proc[p].id \notin DOMAIN sent => sent'[proc[p].id] = 0 + 1
<1>1. CASE UNCHANGED sent
  BY <1>1
<1>2. CASE sent' = sent (+) SetToBag({proc[p].id})
  BY <1>2 DEF (+), SetToBag
<1>3. QED
  BY <1>1, <1>2 DEF Send

\* Whoever sends goes on to save.
LEMMA SendGoesOn ==
    ASSUME NEW p, Send(p)
    PROVE  /\ proc[p].pc = "send"
           /\ \E r : Goto(p, r) /\ HasPc(r) /\ r.pc = "save"
<1>1. ASSUME NEW kind, NEW d PROVE HasPc(Saving(kind, d)) /\ Saving(kind, d).pc = "save"
  BY DEF Saving, HasPc
<1>2. QED
  BY <1>1 DEF Send

-----------------------------------------------------------------------------
(***************************************************************************)
(* The limit of iterations under every interleaving: whatever a process is *)
(* about to send was within the limit when it planned it.                  *)
(***************************************************************************)
ProcsAreFunction == proc = [q \in Procs |-> proc[q]]

AutoInv ==
    /\ ProcsAreFunction
    /\ ProcsHavePc
    /\ \A q \in Procs : WithinLimit(proc[q])
    /\ \A id \in DOMAIN sent : id.kind = "continue" => ~(id.n > MaxAuto)

\* Goto changes one process.
LEMMA GotoSets ==
    ASSUME ProcsAreFunction, NEW p \in Procs, NEW r, Goto(p, r)
    PROVE  /\ ProcsAreFunction'
           /\ proc'[p] = r
           /\ \A q \in Procs \ {p} : proc'[q] = proc[q]
<1>1. proc' = [q \in Procs |-> IF q = p THEN r ELSE proc[q]]
  BY DEF ProcsAreFunction, Goto
<1>2. QED
  BY <1>1 DEF ProcsAreFunction

\* It holds at the start.
LEMMA AutoInit == Init => AutoInv
<1> SUFFICES ASSUME Init PROVE AutoInv
  OBVIOUS
<1>1. proc = [q \in Procs |-> Idle] /\ DOMAIN sent = {}
  BY DEF Init, EmptyBag, SetToBag
<1>2. GoodPoint(Idle)
  BY IdleGood
<1>3. \A q \in Procs : proc[q] = Idle
  BY <1>1
<1>4. QED
  BY <1>1, <1>2, <1>3 DEF AutoInv, ProcsAreFunction, ProcsHavePc, GoodPoint

\* Every step keeps it, whoever takes it.
LEMMA AutoStep == AutoInv /\ [Next]_vars => AutoInv'
<1> SUFFICES ASSUME AutoInv, [Next]_vars PROVE AutoInv'
  OBVIOUS
<1> USE DEF AutoInv
<1>1. CASE \E p \in Procs : \E r : GoesOn(p, r)
  <2>0. PICK p \in Procs : \E r : GoesOn(p, r)
    BY <1>1
  <2>1. PICK r : GoesOn(p, r)
    BY <2>0
  <2>2. HasPc(r) /\ WithinLimit(r) /\ UNCHANGED sent
    BY <2>1 DEF GoesOn, GoodPoint
  <2>3. /\ ProcsAreFunction'
        /\ proc'[p] = r
        /\ \A q \in Procs \ {p} : proc'[q] = proc[q]
    BY <2>1, GotoSets DEF GoesOn
  <2>4. \A q \in Procs : HasPc(proc'[q]) /\ WithinLimit(proc'[q])
    BY <2>2, <2>3 DEF ProcsHavePc
  <2>5. QED
    BY <2>2, <2>3, <2>4 DEF ProcsHavePc, WithinLimit
<1>2. CASE \E p \in Procs : Send(p)
  <2>1. PICK p \in Procs : Send(p)
    BY <1>2
  <2>2. PICK r : Goto(p, r) /\ HasPc(r) /\ r.pc = "save"
    BY <2>1, SendGoesOn
  <2>3. /\ ProcsAreFunction'
        /\ proc'[p] = r
        /\ \A q \in Procs \ {p} : proc'[q] = proc[q]
    BY <2>2, GotoSets
  <2>4. WithinLimit(r)
    BY <2>2 DEF WithinLimit
  <2>5. \A q \in Procs : HasPc(proc'[q]) /\ WithinLimit(proc'[q])
    BY <2>2, <2>3, <2>4 DEF ProcsHavePc
  <2>6. WithinLimit(proc[p]) /\ proc[p].pc = "send"
    BY <2>1, SendGoesOn
  <2>7. proc[p].id.kind = "continue" => ~(proc[p].id.n > MaxAuto)
    BY <2>6 DEF WithinLimit
  <2>8. \A id \in DOMAIN sent' : id \in DOMAIN sent \/ id = proc[p].id
    BY <2>1, SendAdds
  <2>9. \A id \in DOMAIN sent' : id.kind = "continue" => ~(id.n > MaxAuto)
    BY <2>7, <2>8
  <2>10. QED
    BY <2>3, <2>5, <2>9 DEF ProcsHavePc, WithinLimit
<1>3. CASE Killed
  <2>1. \A q \in Procs : proc'[q] = Idle
    BY <1>3 DEF Killed
  <2>2. HasPc(Idle) /\ WithinLimit(Idle)
    BY IdleGood DEF GoodPoint
  <2>3. \A q \in Procs : HasPc(proc'[q]) /\ WithinLimit(proc'[q])
    BY <2>1, <2>2
  <2>4. ProcsAreFunction'
    BY <1>3, <2>1 DEF Killed, ProcsAreFunction
  <2>5. UNCHANGED sent
    BY <1>3 DEF Killed
  <2>6. QED
    BY <2>3, <2>4, <2>5 DEF ProcsHavePc, WithinLimit
<1>4. CASE NothingSent
  BY <1>4 DEF NothingSent, ProcsAreFunction, ProcsHavePc, WithinLimit
<1>5. QED
  BY <1>1, <1>2, <1>3, <1>4, StepKinds

(***************************************************************************)
(* The continuation dispatches at most up to the limit of iterations,      *)
(* however the requests interleave and wherever they are killed.           *)
(***************************************************************************)
THEOREM AutoLimit == Spec => []AutoBounded
<1>1. AutoInv => AutoBounded
  BY DEF AutoInv, AutoBounded, BagToSet
<1>2. QED
  BY <1>1, AutoInit, AutoStep, PTL DEF Spec

-----------------------------------------------------------------------------
(***************************************************************************)
(* One request at a time: the id a process looked up before it planned to  *)
(* send is still unused when it sends.                                     *)
(***************************************************************************)
Busy(q) == proc[q].pc # "idle"

OnceInv ==
    /\ ProcsAreFunction
    /\ ProcsHavePc
    /\ \A q1, q2 \in Procs : Busy(q1) /\ Busy(q2) => q1 = q2
    /\ \A q \in Procs : NotYetSent(proc[q])
    /\ \A id \in DOMAIN sent : sent[id] = 1

\* It holds at the start.
LEMMA OnceInit == Init => OnceInv
<1> SUFFICES ASSUME Init PROVE OnceInv
  OBVIOUS
<1>1. proc = [q \in Procs |-> Idle] /\ DOMAIN sent = {}
  BY DEF Init, EmptyBag, SetToBag
<1>2. GoodPoint(Idle) /\ Idle.pc = "idle"
  BY IdleGood
<1>3. \A q \in Procs : proc[q] = Idle
  BY <1>1
<1>4. QED
  BY <1>1, <1>2, <1>3 DEF OnceInv, Busy, ProcsAreFunction, ProcsHavePc, GoodPoint

\* Every step keeps it when requests do not overlap.
LEMMA OnceStep == Exclusive /\ OnceInv /\ [Next]_vars => OnceInv'
<1> SUFFICES ASSUME Exclusive, OnceInv, [Next]_vars PROVE OnceInv'
  OBVIOUS
<1> USE DEF OnceInv
<1>1. CASE \E p \in Procs : \E r : GoesOn(p, r)
  <2>0. PICK p \in Procs : \E r : GoesOn(p, r)
    BY <1>1
  <2>1. PICK r : GoesOn(p, r)
    BY <2>0
  <2>2. HasPc(r) /\ NotYetSent(r) /\ UNCHANGED sent
    BY <2>1 DEF GoesOn, GoodPoint
  <2>3. /\ ProcsAreFunction'
        /\ proc'[p] = r
        /\ \A q \in Procs \ {p} : proc'[q] = proc[q]
    BY <2>1, GotoSets DEF GoesOn
  <2>4. \A q \in Procs \ {p} : ~Busy(q)
    BY <2>1 DEF GoesOn, MayBegin, Busy
  <2>5. \A q1, q2 \in Procs : Busy(q1)' /\ Busy(q2)' => q1 = q2
    BY <2>3, <2>4 DEF Busy
  <2>6. \A q \in Procs : HasPc(proc'[q]) /\ NotYetSent(proc'[q])
    BY <2>2, <2>3 DEF ProcsHavePc
  <2>7. QED
    BY <2>2, <2>3, <2>5, <2>6 DEF ProcsHavePc, NotYetSent
<1>2. CASE \E p \in Procs : Send(p)
  <2>1. PICK p \in Procs : Send(p)
    BY <1>2
  <2>2. PICK r : Goto(p, r) /\ HasPc(r) /\ r.pc = "save"
    BY <2>1, SendGoesOn
  <2>3. /\ ProcsAreFunction'
        /\ proc'[p] = r
        /\ \A q \in Procs \ {p} : proc'[q] = proc[q]
    BY <2>2, GotoSets
  <2>4. proc[p].pc = "send" /\ proc[p].id \notin DOMAIN sent
    BY <2>1, SendGoesOn DEF NotYetSent
  <2>5. \A q \in Procs \ {p} : proc[q].pc = "idle"
    BY <2>4 DEF Busy
  <2>6. \A q1, q2 \in Procs : Busy(q1)' /\ Busy(q2)' => q1 = q2
    BY <2>3, <2>5 DEF Busy
  <2>7. \A q \in Procs : HasPc(proc'[q]) /\ proc'[q].pc # "send"
    BY <2>2, <2>3, <2>5 DEF ProcsHavePc
  <2>8. \A id \in DOMAIN sent' : sent'[id] = 1
    <3> DEFINE new == proc[p].id
    <3>1. CASE UNCHANGED sent
      BY <3>1
    <3>2. CASE /\ DOMAIN sent' = DOMAIN sent \cup {new}
               /\ \A id \in DOMAIN sent \ {new} : sent'[id] = sent[id] + 0
               /\ sent'[new] = 0 + 1
      <4> HIDE DEF new
      <4>1. ASSUME NEW id \in DOMAIN sent', id # new PROVE sent'[id] = 1
        <5>1. sent[id] = 1 /\ sent'[id] = sent[id] + 0
          BY <3>2, <4>1
        <5>2. QED
          BY <5>1
      <4>2. sent'[new] = 1
        BY <3>2
      <4>3. QED
        BY <4>1, <4>2
    <3>3. QED
      BY <2>1, <2>4, <3>1, <3>2, SendAdds
  <2>9. QED
    BY <2>3, <2>6, <2>7, <2>8 DEF ProcsHavePc, NotYetSent
<1>3. CASE Killed
  <2>1. \A q \in Procs : proc'[q] = Idle
    BY <1>3 DEF Killed
  <2>2. HasPc(Idle) /\ Idle.pc = "idle"
    BY IdleGood DEF GoodPoint
  <2>3. ProcsAreFunction'
    BY <1>3, <2>1 DEF Killed, ProcsAreFunction
  <2>4. \A q \in Procs : HasPc(proc'[q]) /\ proc'[q].pc = "idle"
    BY <2>1, <2>2
  <2>5. UNCHANGED sent
    BY <1>3 DEF Killed
  <2>6. QED
    BY <2>3, <2>4, <2>5 DEF ProcsHavePc, NotYetSent, Busy
<1>4. CASE NothingSent
  BY <1>4 DEF NothingSent, ProcsAreFunction, ProcsHavePc, NotYetSent, Busy
<1>5. QED
  BY <1>1, <1>2, <1>3, <1>4, StepKinds

(***************************************************************************)
(* When requests do not overlap, no dispatch is sent twice under one       *)
(* client_message_id, whatever was killed half way and tried again.        *)
(***************************************************************************)
THEOREM NoSecondDispatch ==
    ASSUME Exclusive
    PROVE  Spec => []NoDuplicateDispatch
<1>1. Init => OnceInv
  BY OnceInit
<1>2. OnceInv /\ [Next]_vars => OnceInv'
  BY OnceStep
<1>3. OnceInv => NoDuplicateDispatch
  BY DEF OnceInv, NoDuplicateDispatch, BagToSet
<1>4. QED
  BY <1>1, <1>2, <1>3, PTL DEF Spec

-----------------------------------------------------------------------------
(***************************************************************************)
(* The protocol's operators: a bound agent is a participant, the next      *)
(* phase is a phase and the next participants are members.                 *)
(***************************************************************************)
LEMMA MaxOfSome ==
    ASSUME NEW n \in Nat, NEW S, S \subseteq 1..n, S # {}
    PROVE  Max(S) \in S
<1> DEFINE T == {n - i : i \in S}
<1>1. T \subseteq Nat /\ T # {}
  OBVIOUS
<1>2. PICK m \in T : \A k \in T : <<k, m>> \notin OpToRel(<, Nat)
  <2> HIDE DEF T
  <2> QED BY <1>1, NatLessThanWellFounded, WFMin
<1>3. \A k \in T : ~(k < m)
  BY <1>1, <1>2 DEF OpToRel
<1>4. PICK x \in S : m = n - x
  BY <1>2
<1>5. \A y \in S : x >= y
  <2> TAKE y \in S
  <2>1. n - y \in T /\ ~(n - y < n - x)
    BY <1>3, <1>4
  <2>2. x \in Nat /\ y \in Nat
    OBVIOUS
  <2>3. QED
    BY <2>1, <2>2
<1>6. \E z \in S : \A y \in S : z >= y
  BY <1>5
<1>7. QED
  BY <1>6 DEF Max

\* The agent a phase is bound to is a participant, or none.
LEMMA BoundIsAgent ==
    ASSUME NEW ph \in PhaseSet, NEW parts \in Seq(Agents)
    PROVE  BoundAgent(ph, parts) \in Agents \cup {NoAgent}
<1> DEFINE same == {i \in DOMAIN Steps[ph] \cap DOMAIN parts : Steps[ph][i] = Steps[ph][1]}
<1>1. same \subseteq 1..Len(parts) /\ Len(parts) \in Nat
  OBVIOUS
<1>2. CASE same = {}
  BY <1>2 DEF BoundAgent
<1>3. CASE same # {}
  <2>1. BoundAgent(ph, parts) = parts[Max(same)]
    BY <1>3 DEF BoundAgent
  <2>2. Max(same) \in same
    <3> HIDE DEF same
    <3> QED BY <1>1, <1>3, MaxOfSome
  <2>3. Max(same) \in DOMAIN parts
    BY <2>2
  <2> HIDE DEF same
  <2>4. QED
    BY <2>1, <2>3
<1>4. QED
  BY <1>2, <1>3

\* The shorter of a list and a length.
LEMMA CutIsPrefix ==
    ASSUME NEW S, NEW s \in Seq(S), NEW n \in Nat
    PROVE  /\ Cut(s, n) \in Seq(S)
           /\ Cut(s, n) # <<>> => s # <<>> /\ Cut(s, n)[1] = s[1]
<1> DEFINE m == Min({Len(s), n})
<1>1. Len(s) \in Nat
  OBVIOUS
<1>2. m \in {Len(s), n} /\ m <= Len(s) /\ m <= n
  <2>1. \E x \in {Len(s), n} : \A y \in {Len(s), n} : x =< y
    BY <1>1
  <2>2. QED
    BY <2>1 DEF Min
<1>3. m \in 0..Len(s)
  BY <1>1, <1>2
<1>4. Cut(s, n) = SubSeq(s, 1, m)
  BY DEF Cut
<1> HIDE DEF m
<1>5. SubSeq(s, 1, m) \in Seq(S) /\ Len(SubSeq(s, 1, m)) = m
  BY <1>3
<1>6. ASSUME SubSeq(s, 1, m) # <<>>
      PROVE  s # <<>> /\ SubSeq(s, 1, m)[1] = s[1]
  BY <1>3, <1>5, <1>6
<1>7. QED
  BY <1>4, <1>5, <1>6

\* Every procedure is a list.
LEMMA StepsLength == \A ph \in PhaseSet : Len(Steps[ph]) \in Nat
BY ProtocolAssumption

\* The participants of the next phase are members.
LEMMA DefaultPartsType ==
    ASSUME NEW parts \in Seq(Agents), NEW next \in PhaseSet
    PROVE  DefaultParts(parts, next) \in Seq(Agents)
<1>1. Members \in Seq(Agents) /\ Len(Steps[next]) \in Nat
  BY StepsLength, ProtocolAssumption
<1>2. /\ Cut(parts, Len(Steps[next])) \in Seq(Agents)
      /\ Cut(Members, Len(Steps[next])) \in Seq(Agents)
  BY <1>1, CutIsPrefix
<1>3. QED
  BY <1>1, <1>2 DEF DefaultParts

\* The phase that follows one is a phase, or there is none.
LEMMA FollowingType ==
    ASSUME NEW ph \in PhaseSet
    PROVE  Following(ph) \in PhaseSet \cup {NoPhase}
<1> DEFINE at == CHOOSE i \in DOMAIN Phases : Phases[i] = ph
<1>1. at \in DOMAIN Phases
  BY DEF PhaseSet
<1>2. Phases \in Seq(PhaseSet) /\ Default[ph] \in PhaseSet \cup {NoPhase}
  BY ProtocolAssumption
<1>3. at < Len(Phases) => Phases[at + 1] \in PhaseSet
  BY <1>1, <1>2
<1> HIDE DEF at
<1>4. \/ Following(ph) = Default[ph]
      \/ at < Len(Phases) /\ Following(ph) = Phases[at + 1]
      \/ Following(ph) = NoPhase
  BY DEF Following, at
<1>5. QED
  BY <1>2, <1>3, <1>4

-----------------------------------------------------------------------------
(***************************************************************************)
(* The types.  A saved state has a phase, an action and a token that is    *)
(* absent or names what a state was about; only the state of a thread that *)
(* was never delegated is absent.                                          *)
(***************************************************************************)
Actions == {"submit_contribution", "record_outcome", "advance_phase", "close_thread"}

Statuses == DelegStatus \ {"absent"}

Parts == Seq(Agents)

Tokens == {NoToken} \cup (PhaseSet \X Nat \X Nat \X Actions \X Nat)

MadeType == [status : Statuses, phase : PhaseSet, index : Nat, loop : Nat,
             agent : Agents \cup {NoAgent}, action : Actions, result : Nat,
             token : Tokens, stopped : BOOLEAN]

Made == {d \in MadeType : d.status = "running" => d.agent # NoAgent}

Verdicts == [status : Statuses, action : Actions, agent : Agents \cup {NoAgent}]

CycleType == [phase : PhaseSet, index : Nat, status : {"active", "completed"}]

MetaType == [status : {"active", "completed"}, phase : PhaseSet, parts : Parts]

IdType == [kind : {"start", "continue"}, n : Nat, phase : PhaseSet,
           agent : Agents \cup {NoAgent}]

(***************************************************************************)
(* build_delegation_assignment: the agent it names for a running           *)
(* delegation exists, and each status says which action was due.           *)
(***************************************************************************)
LEMMA ActionIsDue ==
    ASSUME NEW ph, NEW parts, NEW said
    PROVE  /\ SuggestedAction(ph, parts, said) \in Actions
           /\ SuggestedAction(ph, parts, said) = "record_outcome" <=>
                Passed(ph, parts, said) /\ ValidOutcomes(ph) # {}
           /\ SuggestedAction(ph, parts, said) = "advance_phase" <=>
                Passed(ph, parts, said) /\ ValidOutcomes(ph) = {} /\ Following(ph) # NoPhase
<1>1. CASE ~Passed(ph, parts, said)
  BY <1>1 DEF SuggestedAction, Actions
<1>2. CASE Passed(ph, parts, said) /\ ValidOutcomes(ph) # {}
  BY <1>2 DEF SuggestedAction, Actions
<1>3. CASE Passed(ph, parts, said) /\ ValidOutcomes(ph) = {} /\ Following(ph) # NoPhase
  BY <1>3 DEF SuggestedAction, Actions
<1>4. CASE Passed(ph, parts, said) /\ ValidOutcomes(ph) = {} /\ Following(ph) = NoPhase
  BY <1>4 DEF SuggestedAction, Actions
<1>5. QED
  BY <1>1, <1>2, <1>3, <1>4

\* The cases of the status.
LEMMA StatusCases ==
    ASSUME NEW ph, NEW parts, NEW said, NEW cyc, NEW sick, NEW loop
    PROVE  LET status == AssignmentStatus(ph, parts, said, cyc, sick, loop)
           IN  /\ status \in Statuses
               /\ status = "waiting_for_human" => SuggestedAction(ph, parts, said) = "record_outcome"
               /\ status = "running" => BoundAgent(ph, parts) # NoAgent
<1> DEFINE action == SuggestedAction(ph, parts, said)
           status == AssignmentStatus(ph, parts, said, cyc, sick, loop)
<1>1. CASE action = "record_outcome"
  BY <1>1 DEF AssignmentStatus, Statuses, DelegStatus
<1>2. CASE action \in {"advance_phase", "close_thread"}
  BY <1>2 DEF AssignmentStatus, Statuses, DelegStatus
<1>3. CASE action \notin {"record_outcome", "advance_phase", "close_thread"}
  <2>1. CASE cyc.status = "completed"
    BY <1>3, <2>1 DEF AssignmentStatus, Statuses, DelegStatus
  <2>2. CASE cyc.status # "completed" /\ (BoundAgent(ph, parts) = NoAgent \/ sick)
    BY <1>3, <2>2 DEF AssignmentStatus, Statuses, DelegStatus
  <2>3. CASE cyc.status # "completed" /\ ~(BoundAgent(ph, parts) = NoAgent \/ sick)
    BY <1>3, <2>3 DEF AssignmentStatus, Statuses, DelegStatus
  <2>4. QED
    BY <2>1, <2>2, <2>3
<1>4. QED
  BY <1>1, <1>2, <1>3

\* The assignment as a whole.
Judges(a, ph, parts, said) ==
    /\ a \in Verdicts
    /\ a.status = "running" => a.agent = BoundAgent(ph, parts) /\ a.agent # NoAgent
    /\ a.status = "waiting_for_human" => Passed(ph, parts, said) /\ ValidOutcomes(ph) # {}
    /\ a.action = "advance_phase" =>
          Passed(ph, parts, said) /\ ValidOutcomes(ph) = {} /\ Following(ph) # NoPhase

\* What it says of the phase is true of the contributions it was given.
LEMMA VerdictType ==
    ASSUME NEW ph \in PhaseSet, NEW parts \in Parts, NEW said, NEW cyc, NEW sick, NEW loop
    PROVE  Judges(Assignment(ph, parts, said, cyc, sick, loop), ph, parts, said)
<1> DEFINE status == AssignmentStatus(ph, parts, said, cyc, sick, loop)
           action == SuggestedAction(ph, parts, said)
           bound == BoundAgent(ph, parts)
           a == Assignment(ph, parts, said, cyc, sick, loop)
<1>1. /\ status \in Statuses
      /\ status = "waiting_for_human" => action = "record_outcome"
      /\ status = "running" => bound # NoAgent
  BY StatusCases
<1>2. /\ action \in Actions
      /\ action = "record_outcome" <=> Passed(ph, parts, said) /\ ValidOutcomes(ph) # {}
      /\ action = "advance_phase" <=>
            Passed(ph, parts, said) /\ ValidOutcomes(ph) = {} /\ Following(ph) # NoPhase
  BY ActionIsDue
<1>3. bound \in Agents \cup {NoAgent}
  BY BoundIsAgent DEF Parts
<1>4. a = [status |-> status, action |-> action,
           agent |-> IF status \in {"blocked", "failed", "running"} THEN bound ELSE NoAgent]
  BY DEF Assignment
<1> HIDE DEF status, action, bound, a
<1>5. /\ a \in Verdicts
      /\ a.status = status /\ a.action = action
      /\ status = "running" => a.agent = bound
  BY <1>1, <1>2, <1>3, <1>4 DEF Verdicts
<1>6. QED
  BY <1>1, <1>2, <1>5 DEF a, bound, Judges

-----------------------------------------------------------------------------
(***************************************************************************)
(* The requests in flight, by the write they perform next.                 *)
(***************************************************************************)
Kinds == {"start", "wait", "stop", "continue", "respond"}

SaveType == [pc : {"save"}, kind : Kinds, deleg : Made]

SendType == [pc : {"send"}, kind : Kinds, id : IdType, deleg : Made, otherwise : Made]

StartType == [pc : {"cycle"}, kind : {"start"}, cycle : CycleType, parts : Parts]

AnswerType == [pc : {"contribute"}, kind : {"continue"}, agent : Agents, quality : Quality,
               parts : Parts, cycle : CycleType, old : Made, result : Nat]

CarryType == [pc : {"advance", "meta", "cycle"}, kind : {"continue"}, next : PhaseSet,
              parts : Parts, cycle : CycleType, old : Made, result : Nat]

AllOutcomes == UNION {DOMAIN Branch[ph] : ph \in PhaseSet}

RespondType == [pc : {"advance", "meta", "cycle"}, kind : {"respond"}, next : PhaseSet,
                parts : Parts, outcome : AllOutcomes, cycle : CycleType,
                repeats : BOOLEAN, old : Made]

CloseType == [pc : {"close"}, kind : {"close"}, meta : MetaType]

PointType == {Idle} \cup SaveType \cup SendType \cup StartType \cup AnswerType
                \cup CarryType \cup RespondType \cup CloseType

FilesType ==
    /\ thread \in MetaType
    /\ contrib \in [PhaseSet -> [Agents -> Quality]]
    /\ cycle \in CycleType \cup {NoCycle}
    /\ deleg \in Made \cup {NoDeleg}
    /\ DOMAIN sent \subseteq IdType
    /\ IsABag(sent)
    /\ inputs \in Nat /\ moved \in Nat /\ crashes \in Nat

(***************************************************************************)
(* A delegation state is written only after a cycle: whoever carries one   *)
(* on finds a cycle on file.                                               *)
(***************************************************************************)
NeedsCycle(r) == r.pc \in {"save", "send", "contribute", "advance", "meta"} => cycle # NoCycle

TypeInv ==
    /\ FilesType
    /\ proc \in [Procs -> PointType]
    /\ \A q \in Procs : NeedsCycle(proc[q])
    /\ deleg # NoDeleg => cycle # NoCycle

\* The write a request performs next says what it carries.
LEMMA PointByPc ==
    ASSUME NEW r \in PointType
    PROVE  /\ r.pc = "idle" => r = Idle
           /\ r.pc = "save" => r \in SaveType
           /\ r.pc = "send" => r \in SendType
           /\ r.pc = "contribute" => r \in AnswerType
           /\ r.pc \in {"advance", "meta"} => r \in CarryType \cup RespondType
           /\ r.pc = "cycle" => r \in StartType \cup CarryType \cup RespondType
           /\ r.pc = "close" => r \in CloseType
BY DEF PointType, Idle, SaveType, SendType, StartType, AnswerType, CarryType, RespondType, CloseType

(***************************************************************************)
(* One step of one request: what it carries next has a type, the files     *)
(* keep theirs and no cycle is taken away.                                 *)
(***************************************************************************)
LEMMA TypeMove ==
    ASSUME TypeInv, NEW p \in Procs, NEW r \in PointType, Goto(p, r), FilesType',
           r.pc \in {"save", "send", "contribute", "advance", "meta"} => cycle' # NoCycle,
           cycle # NoCycle => cycle' # NoCycle,
           deleg' # NoDeleg => cycle' # NoCycle
    PROVE  TypeInv'
<1>1. proc' = [proc EXCEPT ![p] = r]
  BY DEF Goto
<1>2. proc' \in [Procs -> PointType]
  BY <1>1 DEF TypeInv
<1>3. ASSUME NEW q \in Procs PROVE NeedsCycle(proc[q])'
  <2>1. CASE q = p
    BY <1>1, <2>1 DEF TypeInv, NeedsCycle
  <2>2. CASE q # p
    <3>1. proc'[q] = proc[q] /\ NeedsCycle(proc[q])
      BY <1>1, <2>2 DEF TypeInv
    <3>2. QED
      BY <3>1 DEF NeedsCycle
  <2>3. QED
    BY <2>1, <2>2
<1>4. QED
  BY <1>2, <1>3 DEF TypeInv

\* A request that only reads.
LEMMA TypeRead ==
    ASSUME TypeInv, NEW p \in Procs, NEW r \in PointType, Goto(p, r),
           UNCHANGED files, FilesType',
           r.pc \in {"save", "send", "contribute", "advance", "meta"} => cycle # NoCycle
    PROVE  TypeInv'
<1>1. UNCHANGED <<cycle, deleg>>
  BY DEF files
<1>2. deleg' # NoDeleg => cycle' # NoCycle
  BY <1>1 DEF TypeInv
<1>3. r.pc \in {"save", "send", "contribute", "advance", "meta"} => cycle' # NoCycle
  BY <1>1
<1>4. QED
  BY <1>1, <1>2, <1>3, TypeMove

\* Files nobody writes keep their types.
LEMMA FilesKept ==
    ASSUME FilesType, UNCHANGED files, inputs' \in Nat, moved' \in Nat, crashes' \in Nat
    PROVE  FilesType'
BY DEF FilesType, files, IsABag

-----------------------------------------------------------------------------
(***************************************************************************)
(* The states the handlers make.                                           *)
(***************************************************************************)
LEMMA MadeFields ==
    ASSUME NEW d \in Made
    PROVE  /\ d.status \in Statuses /\ d.phase \in PhaseSet /\ d.index \in Nat
           /\ d.loop \in Nat /\ d.agent \in Agents \cup {NoAgent} /\ d.action \in Actions
           /\ d.result \in Nat /\ d.token \in Tokens /\ d.stopped \in BOOLEAN
           /\ d.status = "running" => d.agent # NoAgent
BY DEF Made, MadeType

\* A state saved as blocked is one.
LEMMA BlockedMade ==
    ASSUME NEW d \in Made
    PROVE  [d EXCEPT !.status = "blocked"] \in Made
BY DEF Made, MadeType, Statuses, DelegStatus

\* start and respond make a new state from the assignment.
LEMMA NewStateMade ==
    ASSUME NEW a \in Verdicts, a.status = "running" => a.agent # NoAgent, NEW cyc \in CycleType
    PROVE  NewState(a, cyc) \in Made
BY DEF NewState, Verdicts, CycleType, Made, MadeType, Tokens

\* The continuation changes the one it read.
LEMMA ContinuedMade ==
    ASSUME NEW old \in Made, NEW a \in Verdicts, a.status = "running" => a.agent # NoAgent,
           NEW ph \in PhaseSet, NEW index \in Nat, NEW result \in Nat
    PROVE  ContinuedState(old, a, ph, index, result) \in Made
BY DEF ContinuedState, Verdicts, Made, MadeType

\* What is planned is a state to save or a message to send.
LEMMA PlannedType ==
    ASSUME NEW kind \in Kinds, NEW a, NEW d \in Made, NEW id \in IdType, NEW running \in Made
    PROVE  Planned(kind, a, d, id, running) \in SaveType \cup SendType
<1> DEFINE blocked == [d EXCEPT !.status = "blocked"]
<1>1. blocked \in Made
  BY BlockedMade
<1> HIDE DEF blocked
<1>2. Saving(kind, d) \in SaveType /\ Saving(kind, blocked) \in SaveType
  BY <1>1 DEF Saving, SaveType
<1>3. [pc |-> "send", kind |-> kind, id |-> id, deleg |-> running, otherwise |-> blocked] \in SendType
  BY <1>1 DEF SendType
<1>4. \/ Planned(kind, a, d, id, running) = Saving(kind, d)
      \/ Planned(kind, a, d, id, running) = Saving(kind, blocked)
      \/ Planned(kind, a, d, id, running) =
            [pc |-> "send", kind |-> kind, id |-> id, deleg |-> running, otherwise |-> blocked]
  <2>1. CASE a.status # "running"
    BY <2>1 DEF Planned
  <2>2. CASE a.status = "running" /\ id.phase \notin Direct
    BY <2>2 DEF Planned, blocked
  <2>3. CASE a.status = "running" /\ id.phase \in Direct /\ BagIn(id, sent)
    BY <2>3 DEF Planned, blocked
  <2>4. CASE a.status = "running" /\ id.phase \in Direct /\ ~BagIn(id, sent)
    BY <2>4 DEF Planned, blocked
  <2>5. QED
    BY <2>1, <2>2, <2>3, <2>4
<1>5. QED
  BY <1>2, <1>3, <1>4

\* The plan of start and respond.
LEMMA PlanFreshType ==
    ASSUME NEW kind \in Kinds, NEW cyc \in CycleType, NEW parts \in Parts, NEW said
    PROVE  PlanFresh(kind, cyc, parts, said) \in SaveType \cup SendType
<1> DEFINE a == Assignment(cyc.phase, parts, said, cyc, FALSE, 0)
           d == NewState(a, cyc)
           id == DispatchId("start", cyc.index, cyc.phase, a.agent)
<1>1. PlanFresh(kind, cyc, parts, said) = Planned(kind, a, d, id, d)
  BY DEF PlanFresh
<1>2. cyc.phase \in PhaseSet /\ cyc.index \in Nat
  BY DEF CycleType
<1>3. Judges(a, cyc.phase, parts, said)
  BY <1>2, VerdictType
<1> HIDE DEF a
<1>4. d \in Made
  BY <1>3, NewStateMade DEF Judges
<1>5. id \in IdType
  BY <1>2, <1>3 DEF DispatchId, IdType, Verdicts, Judges
<1> HIDE DEF d, id
<1>6. QED
  BY <1>1, <1>4, <1>5, PlannedType

\* The plan of the continuation.
LEMMA PlanContinueType ==
    ASSUME NEW old \in Made, NEW cyc \in CycleType, NEW parts \in Parts,
           NEW result \in Nat, NEW sick
    PROVE  PlanContinue(old, cyc, parts, result, sick) \in SaveType \cup SendType
<1> DEFINE said == contrib[cyc.phase]
           first == Assignment(cyc.phase, parts, said, cyc, FALSE, 0)
           limited == Assignment(cyc.phase, parts, said, cyc, sick, old.loop + 1)
           a == IF first.status = "running" THEN limited ELSE first
           d == ContinuedState(old, a, cyc.phase, cyc.index, result)
           id == DispatchId("continue", old.loop + 1, cyc.phase, a.agent)
           running == [d EXCEPT !.loop = old.loop + 1]
<1>1. PlanContinue(old, cyc, parts, result, sick) = Planned("continue", a, d, id, running)
  BY DEF PlanContinue
<1>2. cyc.phase \in PhaseSet /\ cyc.index \in Nat
  BY DEF CycleType
<1>3. Judges(first, cyc.phase, parts, said) /\ Judges(limited, cyc.phase, parts, said)
  <2> HIDE DEF said
  <2> QED BY <1>2, VerdictType
<1>4. a \in Verdicts /\ (a.status = "running" => a.agent # NoAgent)
  <2> HIDE DEF first, limited
  <2> QED BY <1>3 DEF Judges
<1> HIDE DEF a
<1>5. d \in Made
  BY <1>2, <1>4, ContinuedMade
<1>6. old.loop + 1 \in Nat
  BY MadeFields
<1>7. id \in IdType
  BY <1>2, <1>4, <1>6 DEF DispatchId, IdType, Verdicts
<1> HIDE DEF d, id
<1>8. running \in Made
  BY <1>5, <1>6 DEF Made, MadeType
<1>9. "continue" \in Kinds
  BY DEF Kinds
<1> HIDE DEF running
<1>10. QED
  BY <1>1, <1>5, <1>7, <1>8, <1>9, PlannedType

\* The next cycle of a cycle is one.
LEMMA AdvanceCycleType ==
    ASSUME NEW cyc \in CycleType, NEW o
    PROVE  AdvanceCycle(cyc, o) \in CycleType
<1>1. cyc.phase \in PhaseSet
  BY DEF CycleType
<1>2. CASE o \notin DOMAIN Branch[cyc.phase]
  <2>1. AdvanceCycle(cyc, o) = [cyc EXCEPT !.status = "completed"]
    BY <1>2 DEF AdvanceCycle
  <2>2. QED
    BY <2>1 DEF CycleType
<1>3. CASE o \in DOMAIN Branch[cyc.phase] /\ Branch[cyc.phase][o] = cyc.phase
  <2> DEFINE next == [cyc EXCEPT !.index = cyc.index + 1, !.status = "active"]
  <2>1. AdvanceCycle(cyc, o) = next
    BY <1>3 DEF AdvanceCycle
  <2>2. cyc.index \in Nat /\ cyc.index + 1 \in Nat
    BY DEF CycleType
  <2>3. next \in CycleType
    BY <2>2 DEF CycleType
  <2>4. QED
    BY <2>1, <2>3
<1>4. CASE o \in DOMAIN Branch[cyc.phase] /\ Branch[cyc.phase][o] # cyc.phase
  <2>1. AdvanceCycle(cyc, o) = StartCycle(Branch[cyc.phase][o])
    BY <1>4 DEF AdvanceCycle
  <2>2. Branch[cyc.phase][o] \in PhaseSet
    BY <1>1, <1>4, ProtocolAssumption
  <2>3. QED
    BY <2>1, <2>2 DEF CycleType, StartCycle
<1>5. QED
  BY <1>2, <1>3, <1>4

-----------------------------------------------------------------------------
(***************************************************************************)
(* The requests.                                                           *)
(***************************************************************************)
LEMMA StartTypes == ASSUME TypeInv, NEW p \in Procs, StartRequest(p) PROVE TypeInv'
<1>1. UNCHANGED files /\ FilesType'
  BY FilesKept DEF TypeInv, FilesType, StartRequest, counters
<1>2. thread \in MetaType /\ thread.phase \in PhaseSet /\ thread.parts \in Parts
  BY DEF TypeInv, FilesType, MetaType
<1>3. CASE cycle = NoCycle
  <2> DEFINE r == [pc |-> "cycle", kind |-> "start", cycle |-> StartCycle(thread.phase),
                   parts |-> thread.parts]
  <2>1. Goto(p, r)
    BY <1>3 DEF StartRequest
  <2>2. r \in StartType /\ r.pc = "cycle"
    BY <1>2 DEF StartType, CycleType, StartCycle
  <2> HIDE DEF r
  <2>3. QED
    BY <1>1, <2>1, <2>2, TypeRead DEF PointType
<1>4. CASE cycle # NoCycle
  <2> DEFINE r == PlanFresh("start", cycle, thread.parts, contrib[cycle.phase])
  <2>1. Goto(p, r)
    BY <1>4 DEF StartRequest
  <2>2. cycle \in CycleType /\ "start" \in Kinds
    BY <1>4 DEF TypeInv, FilesType, Kinds
  <2>3. r \in SaveType \cup SendType
    BY <1>2, <2>2, PlanFreshType
  <2> HIDE DEF r
  <2>4. QED
    BY <1>1, <1>4, <2>1, <2>3, TypeRead DEF PointType
<1>5. QED
  BY <1>3, <1>4

\* delegate/respond.
LEMMA RespondTypes ==
    ASSUME TypeInv, NEW p \in Procs, NEW o \in AllOutcomes, RespondRequest(p, o)
    PROVE  TypeInv'
<1> DEFINE next == Branch[deleg.phase][o]
           r == [pc |-> "advance", kind |-> "respond", next |-> next,
                 parts |-> DefaultParts(thread.parts, next), outcome |-> o,
                 cycle |-> cycle, repeats |-> FALSE, old |-> deleg]
<1>1. UNCHANGED files /\ FilesType'
  BY FilesKept DEF TypeInv, FilesType, RespondRequest, counters
<1>2. Goto(p, r)
  BY DEF RespondRequest
<1>3. deleg \in Made /\ cycle # NoCycle /\ cycle \in CycleType
  BY DEF RespondRequest, TypeInv, FilesType, NoDeleg
<1>4. next \in PhaseSet
  BY <1>3, MadeFields, ProtocolAssumption DEF RespondRequest, Applicable
<1>5. DefaultParts(thread.parts, next) \in Parts
  BY <1>4, DefaultPartsType DEF TypeInv, FilesType, MetaType, Parts
<1>6. r \in RespondType /\ r.pc = "advance"
  <2> HIDE DEF next
  <2> QED BY <1>3, <1>4, <1>5 DEF RespondType
<1> HIDE DEF r
<1>7. QED
  BY <1>1, <1>2, <1>3, <1>6, TypeRead DEF PointType

\* delegate/wait, the stop of the CLI and a close.
LEMMA SmallTypes ==
    ASSUME TypeInv, NEW p \in Procs, WaitRequest(p) \/ StopRequest(p) \/ LoadForClose(p)
    PROVE  TypeInv'
<1>1. UNCHANGED files /\ FilesType'
  BY FilesKept DEF TypeInv, FilesType, WaitRequest, StopRequest, LoadForClose, counters
<1>2. CASE WaitRequest(p)
  <2> DEFINE d == [deleg EXCEPT !.token = ResumeToken(deleg)]
             r == Saving("wait", d)
  <2>1. Goto(p, r)
    BY <1>2 DEF WaitRequest
  <2>2. deleg \in Made /\ cycle # NoCycle
    BY <1>2 DEF WaitRequest, TypeInv, FilesType, NoDeleg
  <2>3. ResumeToken(deleg) \in Tokens
    BY <2>2, MadeFields DEF ResumeToken, FreshToken, Tokens
  <2>4. d \in Made
    BY <2>2, <2>3 DEF Made, MadeType
  <2> HIDE DEF d
  <2>5. r \in SaveType
    BY <2>4 DEF SaveType, Saving, Kinds
  <2> HIDE DEF r
  <2>6. QED
    BY <1>1, <2>1, <2>2, <2>5, TypeRead DEF PointType
<1>3. CASE StopRequest(p)
  <2> DEFINE d == [deleg EXCEPT !.status = "completed", !.token = NoToken, !.stopped = TRUE]
             r == Saving("stop", d)
  <2>1. Goto(p, r)
    BY <1>3 DEF StopRequest
  <2>2. deleg \in Made /\ cycle # NoCycle
    BY <1>3 DEF StopRequest, TypeInv, FilesType, NoDeleg
  <2>3. d \in Made
    BY <2>2 DEF Made, MadeType, Tokens, Statuses, DelegStatus
  <2> HIDE DEF d
  <2>4. r \in SaveType
    BY <2>3 DEF SaveType, Saving, Kinds
  <2> HIDE DEF r
  <2>5. QED
    BY <1>1, <2>1, <2>2, <2>4, TypeRead DEF PointType
<1>4. CASE LoadForClose(p)
  <2> DEFINE r == [pc |-> "close", kind |-> "close", meta |-> [thread EXCEPT !.status = "completed"]]
  <2>1. Goto(p, r)
    BY <1>4 DEF LoadForClose
  <2>2. r \in CloseType /\ r.pc = "close"
    BY DEF CloseType, TypeInv, FilesType, MetaType
  <2> HIDE DEF r
  <2>3. QED
    BY <1>1, <2>1, <2>2, TypeRead DEF PointType
<1>5. QED
  BY <1>2, <1>3, <1>4

\* The continuation's reads.
LEMMA AnswerTypes ==
    ASSUME TypeInv, NEW a \in Agents, NEW q \in {"short", "full"}, AnswerRequest(a, q)
    PROVE  TypeInv'
<1> DEFINE r == [pc |-> "contribute", kind |-> "continue", agent |-> a, quality |-> q,
                 parts |-> thread.parts, cycle |-> cycle, old |-> deleg, result |-> inputs']
<1>1. UNCHANGED files /\ FilesType' /\ inputs' \in Nat
  BY FilesKept DEF TypeInv, FilesType, AnswerRequest
<1>2. Goto(Loop, r) /\ Loop \in Procs
  BY DEF AnswerRequest, Procs
<1>3. deleg \in Made /\ cycle # NoCycle /\ cycle \in CycleType
  BY DEF AnswerRequest, TypeInv, FilesType, NoDeleg
<1>4. r \in AnswerType /\ r.pc = "contribute"
  BY <1>1, <1>3 DEF AnswerType, TypeInv, FilesType, MetaType, Quality
<1> HIDE DEF r
<1>5. QED
  BY <1>1, <1>2, <1>3, <1>4, TypeRead DEF PointType

-----------------------------------------------------------------------------
(***************************************************************************)
(* The steps.                                                              *)
(***************************************************************************)
LEMMA ContributeTypes == ASSUME TypeInv, Contribute PROVE TypeInv'
<1> DEFINE s == proc[Loop]
           ph == s.old.phase
           a == Assignment(ph, s.parts, contrib'[ph], s.cycle, FALSE, 0)
           blocked == [s.old EXCEPT !.status = "blocked", !.result = s.result, !.stopped = FALSE]
           judged == ContinuedState(s.old, a, ph, s.cycle.index, s.result)
           on == [pc |-> "advance", kind |-> "continue", next |-> Following(ph),
                  parts |-> DefaultParts(s.parts, Following(ph)),
                  cycle |-> s.cycle, old |-> s.old, result |-> s.result]
<1>0. Loop \in Procs
  BY DEF Procs
<1>1. s \in AnswerType /\ cycle # NoCycle
  <2>1. s \in PointType /\ s.pc = "contribute" /\ NeedsCycle(s)
    BY <1>0 DEF Contribute, TypeInv
  <2>2. QED
    BY <2>1, PointByPc DEF NeedsCycle
<1>2. /\ s.agent \in Agents /\ s.quality \in Quality /\ s.parts \in Parts
      /\ s.cycle \in CycleType /\ s.cycle.index \in Nat /\ s.old \in Made /\ s.result \in Nat
  BY <1>1 DEF AnswerType, CycleType
<1>3. ph \in PhaseSet
  BY <1>2, MadeFields
<1>4. UNCHANGED <<thread, cycle, deleg, sent, counters>>
  BY DEF Contribute
<1>5. contrib' \in [PhaseSet -> [Agents -> Quality]]
  <2>1. contrib \in [PhaseSet -> [Agents -> Quality]]
    BY DEF TypeInv, FilesType
  <2>2. UNCHANGED contrib \/ contrib' = [contrib EXCEPT ![ph][s.agent] = s.quality]
    BY DEF Contribute
  <2> HIDE DEF s, ph
  <2>3. QED
    BY <1>2, <1>3, <2>1, <2>2
<1>6. FilesType'
  BY <1>4, <1>5 DEF TypeInv, FilesType, IsABag, counters
<1>7. Judges(a, ph, s.parts, contrib'[ph])
  <2> HIDE DEF s, ph
  <2> QED BY <1>2, <1>3, VerdictType
<1>8. \/ Goto(Loop, Saving("continue", blocked))
      \/ Goto(Loop, on) /\ a.action = "advance_phase"
      \/ Goto(Loop, Saving("continue", judged))
  BY DEF Contribute
<1> HIDE DEF s, ph, a
<1>9. blocked \in Made
  BY <1>2 DEF Made, MadeType, Statuses, DelegStatus
<1>10. judged \in Made
  BY <1>2, <1>3, <1>7, ContinuedMade DEF Judges
<1>11. ASSUME a.action = "advance_phase" PROVE on \in CarryType /\ on.pc = "advance"
  <2>1. Following(ph) \in PhaseSet
    BY <1>3, <1>7, <1>11, FollowingType DEF Judges
  <2>2. DefaultParts(s.parts, Following(ph)) \in Parts
    BY <1>2, <2>1, DefaultPartsType DEF Parts
  <2>3. QED
    BY <1>2, <2>1, <2>2 DEF CarryType
<1> HIDE DEF blocked, judged, on
<1>12. \A d \in Made : Saving("continue", d) \in SaveType
  BY DEF Saving, SaveType, Kinds
<1>13. PICK r \in PointType : Goto(Loop, r)
  BY <1>8, <1>9, <1>10, <1>11, <1>12 DEF PointType
<1>14. cycle' # NoCycle
  BY <1>1, <1>4
<1>15. QED
  BY <1>0, <1>6, <1>13, <1>14, TypeMove

\* The load and the write of the meta.
LEMMA MetaTypes ==
    ASSUME TypeInv, NEW p \in Procs, LoadMeta(p) \/ StoreMeta(p)
    PROVE  TypeInv'
<1> DEFINE s == proc[p]
<1>1. s \in CarryType \cup RespondType /\ cycle # NoCycle
  <2>1. s \in PointType /\ s.pc \in {"advance", "meta"} /\ NeedsCycle(s)
    BY DEF LoadMeta, StoreMeta, TypeInv
  <2>2. QED
    BY <2>1, PointByPc DEF NeedsCycle
<1>2. s.next \in PhaseSet /\ s.parts \in Parts /\ s.cycle \in CycleType
  BY <1>1 DEF CarryType, RespondType
<1>3. CASE LoadMeta(p)
  <2> DEFINE r == [s EXCEPT !.pc = "meta"]
  <2>1. UNCHANGED files /\ FilesType'
    BY <1>3, FilesKept DEF TypeInv, FilesType, LoadMeta, counters
  <2>2. Goto(p, Idle) \/ Goto(p, r)
    BY <1>3 DEF LoadMeta
  <2> HIDE DEF s
  <2>3. r \in CarryType \cup RespondType
    BY <1>1 DEF CarryType, RespondType
  <2> HIDE DEF r
  <2>4. QED
    BY <1>1, <2>1, <2>2, <2>3, TypeRead DEF PointType
<1>4. CASE StoreMeta(p)
  <2> DEFINE next == AdvanceCycle(s.cycle, s.outcome)
             repeats == next.phase = s.old.phase /\ next.index > s.cycle.index
             responds == [s EXCEPT !.pc = "cycle", !.cycle = next, !.repeats = repeats]
             continues == [s EXCEPT !.pc = "cycle", !.cycle = StartCycle(s.next)]
  <2>1. UNCHANGED <<contrib, cycle, deleg, sent, counters>>
    BY <1>4 DEF StoreMeta
  <2>2. thread' = [status |-> "active", phase |-> s.next, parts |-> s.parts]
    BY <1>4 DEF StoreMeta
  <2>3. \/ Goto(p, Idle)
        \/ s.kind = "respond" /\ Goto(p, responds)
        \/ s.kind # "respond" /\ Goto(p, continues)
    BY <1>4 DEF StoreMeta
  <2> HIDE DEF s
  <2>4. FilesType'
    BY <1>2, <2>1, <2>2 DEF TypeInv, FilesType, MetaType, IsABag, counters
  <2>5. next \in CycleType
    BY <1>2, AdvanceCycleType
  <2>6. repeats \in BOOLEAN
    OBVIOUS
  <2> HIDE DEF next, repeats
  <2>7. s.kind = "respond" => responds \in RespondType
    BY <1>1, <2>5, <2>6 DEF CarryType, RespondType
  <2>8. s.kind # "respond" => continues \in CarryType
    BY <1>1, <1>2 DEF CarryType, RespondType, CycleType, StartCycle
  <2> HIDE DEF responds, continues
  <2>9. PICK r \in PointType : Goto(p, r)
    BY <2>3, <2>7, <2>8 DEF PointType
  <2>10. cycle' # NoCycle
    BY <1>1, <2>1
  <2>11. QED
    BY <2>4, <2>9, <2>10, TypeMove
<1>5. QED
  BY <1>3, <1>4

\* The write of the cycle, and the plan that follows.
LEMMA CycleTypes ==
    ASSUME TypeInv, NEW p \in Procs, NEW sick \in BOOLEAN, WriteCycle(p, sick)
    PROVE  TypeInv'
<1> DEFINE s == proc[p]
           said == IF s.kind = "respond" /\ s.repeats THEN Nobody ELSE contrib[s.cycle.phase]
           again == PlanContinue(s.old, s.cycle, s.parts, s.result, sick)
           fresh == PlanFresh(s.kind, s.cycle, s.parts, said)
<1>1. s \in StartType \cup CarryType \cup RespondType
  <2>1. s \in PointType /\ s.pc = "cycle"
    BY DEF WriteCycle, TypeInv
  <2>2. QED
    BY <2>1, PointByPc
<1>2. UNCHANGED <<thread, contrib, deleg, sent, counters>> /\ cycle' = s.cycle
  BY DEF WriteCycle
<1>3. \/ s.kind = "continue" /\ Goto(p, again)
      \/ s.kind # "continue" /\ Goto(p, fresh)
  BY DEF WriteCycle
<1> HIDE DEF s
<1>4. s.cycle \in CycleType /\ s.parts \in Parts /\ s.kind \in Kinds
  BY <1>1 DEF StartType, CarryType, RespondType, Kinds
<1>5. FilesType'
  BY <1>2, <1>4 DEF TypeInv, FilesType, IsABag, counters
<1>6. s.kind = "continue" => again \in SaveType \cup SendType
  <2>1. s.kind = "continue" => s.old \in Made /\ s.result \in Nat
    BY <1>1 DEF StartType, CarryType, RespondType
  <2>2. QED
    BY <1>4, <2>1, PlanContinueType
<1> HIDE DEF said
<1>7. fresh \in SaveType \cup SendType
  BY <1>4, PlanFreshType
<1> HIDE DEF again, fresh
<1>8. PICK r \in PointType : Goto(p, r)
  BY <1>3, <1>6, <1>7 DEF PointType
<1>9. cycle' # NoCycle
  BY <1>2, <1>4 DEF CycleType, NoCycle
<1>10. QED
  BY <1>5, <1>8, <1>9, TypeMove

\* The message, the state and the close.
LEMMA WriteTypes ==
    ASSUME TypeInv, NEW p \in Procs, Send(p) \/ Save(p) \/ Close(p)
    PROVE  TypeInv'
<1> DEFINE s == proc[p]
<1>0. s \in PointType /\ NeedsCycle(s)
  BY DEF TypeInv
<1>1. CASE Send(p)
  <2>1. s \in SendType /\ cycle # NoCycle
    BY <1>0, <1>1, PointByPc DEF Send, NeedsCycle
  <2>2. \/ Goto(p, Saving(s.kind, s.deleg))
        \/ Goto(p, Saving(s.kind, s.otherwise))
    BY <1>1 DEF Send
  <2>3. UNCHANGED <<thread, contrib, cycle, deleg, counters>>
    BY <1>1 DEF Send
  <2>4. DOMAIN sent' \subseteq IdType /\ IsABag(sent')
    <3>1. sent' = sent (+) SetToBag({s.id}) \/ UNCHANGED sent
      BY <1>1 DEF Send
    <3>2. s.id \in IdType
      BY <2>1 DEF SendType
    <3> HIDE DEF s
    <3>3. QED
      BY <3>1, <3>2 DEF TypeInv, FilesType, (+), SetToBag, IsABag
  <2>5. FilesType'
    BY <2>3, <2>4 DEF TypeInv, FilesType, counters
  <2> HIDE DEF s
  <2>6. Saving(s.kind, s.deleg) \in SaveType /\ Saving(s.kind, s.otherwise) \in SaveType
    BY <2>1 DEF SendType, SaveType, Saving
  <2>7. PICK r \in PointType : Goto(p, r)
    BY <2>2, <2>6 DEF PointType
  <2>8. cycle' # NoCycle
    BY <2>1, <2>3
  <2>9. QED
    BY <2>5, <2>7, <2>8, TypeMove
<1>2. CASE Save(p)
  <2>1. s \in SaveType /\ cycle # NoCycle
    BY <1>0, <1>2, PointByPc DEF Save, NeedsCycle
  <2>2. s.deleg \in Made
    BY <2>1 DEF SaveType
  <2>3. FilesType' /\ cycle' # NoCycle
    BY <1>2, <2>1, <2>2 DEF Save, TypeInv, FilesType, counters, IsABag
  <2>4. Goto(p, Idle) /\ Idle \in PointType
    BY <1>2 DEF Save, PointType
  <2>5. QED
    BY <2>3, <2>4, TypeMove
<1>3. CASE Close(p)
  <2>1. s \in CloseType
    BY <1>0, <1>3, PointByPc DEF Close
  <2>2. s.meta \in MetaType
    BY <2>1 DEF CloseType
  <2>3. FilesType' /\ UNCHANGED <<cycle, deleg>>
    BY <1>3, <2>2 DEF Close, TypeInv, FilesType, counters, IsABag
  <2>4. Goto(p, Idle) /\ Idle \in PointType /\ Idle.pc = "idle"
    BY <1>3 DEF Close, PointType, Idle
  <2>5. cycle # NoCycle => cycle' # NoCycle
    BY <2>3
  <2>6. deleg' # NoDeleg => cycle' # NoCycle
    BY <2>3 DEF TypeInv
  <2>7. QED
    BY <2>3, <2>4, <2>5, <2>6, TypeMove
<1>4. QED
  BY <1>1, <1>2, <1>3

\* Contributions and moves by hand.
LEMMA ByHandTypes ==
    ASSUME TypeInv,
           \/ \E a \in Agents, q \in {"short", "full"} : ContributeByHand(a, q)
           \/ \E ph \in PhaseSet : AdvanceByHand(ph)
    PROVE  TypeInv'
<1>1. UNCHANGED <<cycle, deleg, sent, proc, crashes>>
  BY DEF ContributeByHand, AdvanceByHand
<1>2. FilesType'
  <2>1. CASE \E a \in Agents, q \in {"short", "full"} : ContributeByHand(a, q)
    <3>1. PICK a \in Agents, q \in {"short", "full"} : ContributeByHand(a, q)
      BY <2>1
    <3>2. thread.phase \in PhaseSet
      BY DEF TypeInv, FilesType, MetaType
    <3>3. contrib' \in [PhaseSet -> [Agents -> Quality]]
      BY <3>1, <3>2 DEF ContributeByHand, TypeInv, FilesType, Quality
    <3>4. QED
      BY <1>1, <3>1, <3>3 DEF ContributeByHand, TypeInv, FilesType, IsABag
  <2>2. CASE \E ph \in PhaseSet : AdvanceByHand(ph)
    <3>1. Members \in Parts
      BY ProtocolAssumption DEF Parts
    <3>2. PICK ph \in PhaseSet : AdvanceByHand(ph)
      BY <2>2
    <3>3. thread' = [thread EXCEPT !.phase = ph, !.parts = Members]
      BY <3>2 DEF AdvanceByHand
    <3>4. thread' \in MetaType
      <4>1. thread \in MetaType
        BY DEF TypeInv, FilesType
      <4>2. QED
        BY <3>1, <3>3, <4>1 DEF MetaType
    <3>5. UNCHANGED <<contrib, inputs>> /\ moved' = moved + 1
      BY <3>2 DEF AdvanceByHand
    <3>6. QED
      BY <1>1, <3>4, <3>5 DEF TypeInv, FilesType, IsABag
  <2>3. QED
    BY <2>1, <2>2
<1>3. ASSUME NEW q \in Procs PROVE NeedsCycle(proc[q])'
  BY <1>1 DEF TypeInv, NeedsCycle
<1>4. QED
  BY <1>1, <1>2, <1>3 DEF TypeInv

\* Everything that runs is killed.
LEMMA CrashTypes == ASSUME TypeInv, Crash PROVE TypeInv'
<1>1. UNCHANGED <<thread, contrib, cycle, deleg, sent>>
  BY DEF Crash, files
<1>2. FilesType'
  BY <1>1 DEF Crash, TypeInv, FilesType, IsABag
<1>3. proc' \in [Procs -> PointType] /\ \A q \in Procs : proc'[q] = Idle
  BY DEF Crash, PointType
<1>4. \A q \in Procs : NeedsCycle(proc[q])'
  BY <1>3 DEF NeedsCycle, Idle
<1>5. QED
  BY <1>1, <1>2, <1>3, <1>4 DEF TypeInv

\* The types hold at the start.
LEMMA TypeInit == Init => TypeInv
<1> SUFFICES ASSUME Init PROVE TypeInv
  OBVIOUS
<1>1. thread \in MetaType
  <2>1. Phases[1] \in PhaseSet /\ Members \in Parts
    BY ProtocolAssumption DEF PhaseSet, Parts
  <2>2. QED
    BY <2>1 DEF Init, MetaType
<1>2. contrib \in [PhaseSet -> [Agents -> Quality]]
  BY DEF Init, Nobody, Quality
<1>3. DOMAIN sent = {} /\ IsABag(sent)
  BY DEF Init, EmptyBag, SetToBag, IsABag
<1>4. proc \in [Procs -> PointType] /\ \A q \in Procs : proc[q] = Idle
  BY DEF Init, PointType
<1>5. \A q \in Procs : NeedsCycle(proc[q])
  BY <1>4 DEF NeedsCycle, Idle
<1>6. cycle = NoCycle /\ deleg = NoDeleg /\ inputs = 0 /\ moved = 0 /\ crashes = 0
  BY DEF Init
<1>7. QED
  BY <1>1, <1>2, <1>3, <1>4, <1>5, <1>6 DEF TypeInv, FilesType

(***************************************************************************)
(* Every step keeps the types, whoever takes it.                           *)
(***************************************************************************)
LEMMA TypeNext == TypeInv /\ [Next]_vars => TypeInv'
<1> SUFFICES ASSUME TypeInv, [Next]_vars PROVE TypeInv'
  OBVIOUS
<1>1. ASSUME NEW p \in Procs, Request(p) PROVE TypeInv'
  BY <1>1, StartTypes, RespondTypes, SmallTypes DEF Request, AllOutcomes
<1>2. ASSUME NEW p \in Procs, Step(p) PROVE TypeInv'
  BY <1>2, MetaTypes, CycleTypes, WriteTypes DEF Step
<1>3. CASE ByLoop
  BY <1>3, ContributeTypes, AnswerTypes, ByHandTypes DEF ByLoop
<1>4. CASE Crash
  BY <1>4, CrashTypes
<1>5. CASE UNCHANGED vars
  <2>1. UNCHANGED <<thread, contrib, cycle, deleg, sent, proc, inputs, moved, crashes>>
    BY <1>5 DEF vars, files, counters
  <2>2. QED
    BY <2>1 DEF TypeInv, FilesType, NeedsCycle, IsABag
<1>6. QED
  BY <1>1, <1>2, <1>3, <1>4, <1>5 DEF Next

(***************************************************************************)
(* The files hold what their readers expect to parse, whatever runs side   *)
(* by side, is killed or is moved by hand.                                 *)
(***************************************************************************)
THEOREM FilesParse == Spec => []TypeOK
<1>1. TypeInv => TypeOK
  <2> SUFFICES ASSUME TypeInv PROVE TypeOK
    OBVIOUS
  <2>1. CASE deleg = NoDeleg
    BY <2>1 DEF TypeInv, FilesType, TypeOK, MetaType, CycleType, Parts, NoDeleg, DelegStatus
  <2>2. CASE deleg \in Made
    BY <2>2, MadeFields DEF TypeInv, FilesType, TypeOK, MetaType, CycleType, Parts, Statuses
  <2>3. QED
    BY <2>1, <2>2 DEF TypeInv, FilesType
<1>2. QED
  BY <1>1, TypeInit, TypeNext, PTL DEF Spec

-----------------------------------------------------------------------------
(***************************************************************************)
(* A running delegation was dispatched.  The proof needs every procedure   *)
(* to list its first role once: then a phase is always bound to the first  *)
(* participant.  When a role is listed again, a move by hand that brings   *)
(* all the members back binds the phase to another of them, and a late     *)
(* answer leaves the delegation running for one who was sent nothing.      *)
(***************************************************************************)
FirstRoleOnce ==
    \A ph \in PhaseSet : \A i \in DOMAIN Steps[ph] : Steps[ph][i] = Steps[ph][1] => i = 1

Lead == Members[1]

Leads(parts) == parts # <<>> => parts[1] = Lead

Told(d, ids) == \E id \in ids : id.phase = d.phase /\ id.agent = d.agent

Backed(d, ids) == d.status = "running" => Told(d, ids) /\ d.agent = Lead

(***************************************************************************)
(* What each request carries: a state to save is backed by the messages    *)
(* sent, a message to send is for the state it will back, and the          *)
(* participants begin with the first member.                               *)
(***************************************************************************)
RunPoint(r, ids) ==
    /\ r.pc = "save" => Backed(r.deleg, ids)
    /\ r.pc = "send" => /\ r.otherwise.status # "running"
                        /\ r.deleg.phase = r.id.phase
                        /\ r.deleg.agent = r.id.agent /\ r.id.agent = Lead
    /\ r.pc \in {"contribute", "advance", "meta", "cycle"} => Leads(r.parts)
    /\ r.pc = "contribute" => Backed(r.old, ids) /\ r.old.status = "running"
    /\ r.pc = "close" => Leads(r.meta.parts)

RunInv ==
    /\ Leads(thread.parts)
    /\ Backed(deleg, DOMAIN sent)
    /\ \A q \in Procs : RunPoint(proc[q], DOMAIN sent)

\* More messages back no less.
LEMMA BackedGrows ==
    ASSUME NEW ids, NEW more, ids \subseteq more
    PROVE  /\ \A d : Backed(d, ids) => Backed(d, more)
           /\ \A r : RunPoint(r, ids) => RunPoint(r, more)
<1>1. \A d : Backed(d, ids) => Backed(d, more)
  BY DEF Backed, Told
<1>2. QED
  BY <1>1 DEF RunPoint

\* A phase is bound to the first participant or to none.
LEMMA BoundIsLead ==
    ASSUME FirstRoleOnce, NEW ph \in PhaseSet, NEW parts \in Parts, Leads(parts),
           BoundAgent(ph, parts) # NoAgent
    PROVE  BoundAgent(ph, parts) = Lead
<1> DEFINE same == {i \in DOMAIN Steps[ph] \cap DOMAIN parts : Steps[ph][i] = Steps[ph][1]}
<1>1. same \subseteq 1..Len(parts) /\ Len(parts) \in Nat /\ same \subseteq {1}
  BY DEF FirstRoleOnce, Parts
<1>2. same # {} /\ BoundAgent(ph, parts) = parts[Max(same)]
  BY DEF BoundAgent
<1>3. Max(same) \in same
  <2> HIDE DEF same
  <2> QED BY <1>1, <1>2, MaxOfSome
<1>4. Max(same) = 1 /\ 1 \in 1..Len(parts)
  BY <1>1, <1>3
<1>5. parts # <<>>
  BY <1>4 DEF Parts
<1> HIDE DEF same
<1>6. QED
  BY <1>2, <1>4, <1>5 DEF Leads

\* The next phase's participants begin with the first member too.
LEMMA DefaultPartsLead ==
    ASSUME NEW parts \in Parts, Leads(parts), NEW next \in PhaseSet
    PROVE  Leads(DefaultParts(parts, next))
<1>1. Members \in Seq(Agents) /\ Len(Steps[next]) \in Nat /\ parts \in Seq(Agents)
  BY StepsLength, ProtocolAssumption DEF Parts
<1>2. Leads(Members)
  BY DEF Leads, Lead
<1>3. Leads(Cut(parts, Len(Steps[next]))) /\ Leads(Cut(Members, Len(Steps[next])))
  BY <1>1, <1>2, CutIsPrefix DEF Leads
<1>4. DefaultParts(parts, next) \in {Cut(parts, Len(Steps[next])), Members, Cut(Members, Len(Steps[next]))}
  BY DEF DefaultParts
<1>5. QED
  BY <1>2, <1>3, <1>4

(***************************************************************************)
(* A plan for a lead: what it saves as running was sent before, what it    *)
(* sends backs what it will save.                                          *)
(***************************************************************************)
LEMMA PlannedBacked ==
    ASSUME NEW kind, NEW a, NEW d \in Made, NEW id \in IdType, NEW running \in Made,
           d.status = a.status, d.phase = id.phase, d.agent = id.agent,
           running.phase = id.phase, running.agent = id.agent,
           a.status = "running" => id.agent = Lead
    PROVE  RunPoint(Planned(kind, a, d, id, running), DOMAIN sent)
<1> DEFINE blocked == [d EXCEPT !.status = "blocked"]
           message == [pc |-> "send", kind |-> kind, id |-> id, deleg |-> running,
                       otherwise |-> blocked]
<1>1. blocked.status = "blocked"
  BY DEF Made, MadeType
<1> HIDE DEF blocked
<1>2. \A x : Backed(x, DOMAIN sent) => RunPoint(Saving(kind, x), DOMAIN sent)
  BY DEF Saving, RunPoint
<1>3. Backed(blocked, DOMAIN sent)
  BY <1>1 DEF Backed
<1>4. CASE a.status # "running"
  <2>1. Planned(kind, a, d, id, running) = Saving(kind, d)
    BY <1>4 DEF Planned
  <2>2. Backed(d, DOMAIN sent)
    BY <1>4 DEF Backed
  <2>3. QED
    BY <1>2, <2>1, <2>2
<1>5. CASE a.status = "running" /\ id.phase \notin Direct
  <2>1. Planned(kind, a, d, id, running) = Saving(kind, blocked)
    BY <1>5 DEF Planned, blocked
  <2>2. QED
    BY <1>2, <1>3, <2>1
<1>6. CASE a.status = "running" /\ id.phase \in Direct /\ BagIn(id, sent)
  <2>1. \/ Planned(kind, a, d, id, running) = Saving(kind, blocked)
        \/ Planned(kind, a, d, id, running) = Saving(kind, d)
    BY <1>6 DEF Planned, blocked
  <2>2. Backed(d, DOMAIN sent)
    BY <1>6 DEF Backed, Told, BagIn, BagToSet
  <2>3. QED
    BY <1>2, <1>3, <2>1, <2>2
<1>7. CASE a.status = "running" /\ id.phase \in Direct /\ ~BagIn(id, sent)
  <2>1. Planned(kind, a, d, id, running) = message
    BY <1>7 DEF Planned, blocked
  <2>2. RunPoint(message, DOMAIN sent)
    BY <1>1, <1>7 DEF RunPoint
  <2> HIDE DEF message
  <2>3. QED
    BY <2>1, <2>2
<1>8. QED
  BY <1>4, <1>5, <1>6, <1>7

\* The plan of start and respond.
LEMMA PlanFreshBacked ==
    ASSUME FirstRoleOnce, NEW kind \in Kinds, NEW cyc \in CycleType, NEW parts \in Parts,
           NEW said, Leads(parts)
    PROVE  RunPoint(PlanFresh(kind, cyc, parts, said), DOMAIN sent)
<1> DEFINE a == Assignment(cyc.phase, parts, said, cyc, FALSE, 0)
           d == NewState(a, cyc)
           id == DispatchId("start", cyc.index, cyc.phase, a.agent)
<1>1. PlanFresh(kind, cyc, parts, said) = Planned(kind, a, d, id, d)
  BY DEF PlanFresh
<1>2. cyc.phase \in PhaseSet /\ cyc.index \in Nat
  BY DEF CycleType
<1>3. Judges(a, cyc.phase, parts, said)
  BY <1>2, VerdictType
<1> HIDE DEF a
<1>4. d \in Made
  BY <1>3, NewStateMade DEF Judges
<1>5. id \in IdType
  BY <1>2, <1>3 DEF DispatchId, IdType, Verdicts, Judges
<1>6. /\ d.status = a.status /\ d.phase = cyc.phase /\ d.agent = a.agent
      /\ id.phase = cyc.phase /\ id.agent = a.agent
  BY DEF NewState, DispatchId
<1>7. a.status = "running" => a.agent = Lead
  BY <1>2, <1>3, BoundIsLead DEF Judges
<1> HIDE DEF d, id
<1>8. QED
  BY <1>1, <1>4, <1>5, <1>6, <1>7, PlannedBacked

\* The plan of the continuation.
LEMMA PlanContinueBacked ==
    ASSUME FirstRoleOnce, NEW old \in Made, NEW cyc \in CycleType, NEW parts \in Parts,
           NEW result \in Nat, NEW sick, Leads(parts)
    PROVE  RunPoint(PlanContinue(old, cyc, parts, result, sick), DOMAIN sent)
<1> DEFINE said == contrib[cyc.phase]
           first == Assignment(cyc.phase, parts, said, cyc, FALSE, 0)
           limited == Assignment(cyc.phase, parts, said, cyc, sick, old.loop + 1)
           a == IF first.status = "running" THEN limited ELSE first
           d == ContinuedState(old, a, cyc.phase, cyc.index, result)
           id == DispatchId("continue", old.loop + 1, cyc.phase, a.agent)
           running == [d EXCEPT !.loop = old.loop + 1]
<1>1. PlanContinue(old, cyc, parts, result, sick) = Planned("continue", a, d, id, running)
  BY DEF PlanContinue
<1>2. cyc.phase \in PhaseSet /\ cyc.index \in Nat
  BY DEF CycleType
<1>3. Judges(first, cyc.phase, parts, said) /\ Judges(limited, cyc.phase, parts, said)
  <2> HIDE DEF said
  <2> QED BY <1>2, VerdictType
<1>4. Judges(a, cyc.phase, parts, said)
  <2> HIDE DEF first, limited
  <2> QED BY <1>3
<1> HIDE DEF a, said
<1>5. d \in Made
  BY <1>2, <1>4, ContinuedMade DEF Judges
<1>6. old.loop + 1 \in Nat
  BY MadeFields
<1>7. id \in IdType /\ id.phase = cyc.phase /\ id.agent = a.agent
  BY <1>2, <1>4, <1>6 DEF DispatchId, IdType, Verdicts, Judges
<1>8. d.status = a.status /\ d.phase = cyc.phase /\ d.agent = a.agent
  BY DEF ContinuedState, Made, MadeType
<1> HIDE DEF d, id
<1>9. running \in Made /\ running.phase = d.phase /\ running.agent = d.agent
  BY <1>5, <1>6 DEF Made, MadeType
<1>10. a.status = "running" => a.agent = Lead
  BY <1>2, <1>4, BoundIsLead DEF Judges
<1> HIDE DEF running
<1>11. QED
  BY <1>1, <1>5, <1>7, <1>8, <1>9, <1>10, PlannedBacked

(***************************************************************************)
(* One step of one request: what it carries next is backed by the messages *)
(* then sent, and so is the state.                                         *)
(***************************************************************************)
LEMMA RunMove ==
    ASSUME TypeInv, RunInv, NEW p \in Procs, NEW r, Goto(p, r),
           DOMAIN sent \subseteq DOMAIN sent', RunPoint(r, DOMAIN sent'),
           Leads(thread'.parts), Backed(deleg', DOMAIN sent')
    PROVE  RunInv'
<1>1. proc' = [proc EXCEPT ![p] = r] /\ proc \in [Procs -> PointType]
  BY DEF Goto, TypeInv
<1>2. ASSUME NEW q \in Procs PROVE RunPoint(proc'[q], DOMAIN sent')
  <2>1. CASE q = p
    BY <1>1, <2>1
  <2>2. CASE q # p
    <3>1. proc'[q] = proc[q] /\ RunPoint(proc[q], DOMAIN sent)
      BY <1>1, <2>2 DEF RunInv
    <3>2. QED
      BY <3>1, BackedGrows
  <2>3. QED
    BY <2>1, <2>2
<1>3. QED
  BY <1>2 DEF RunInv

\* A step that leaves the thread, the state and the messages alone.
LEMMA RunRead ==
    ASSUME TypeInv, RunInv, NEW p \in Procs, NEW r, Goto(p, r),
           UNCHANGED <<thread, deleg, sent>>, RunPoint(r, DOMAIN sent)
    PROVE  RunInv'
<1>1. /\ DOMAIN sent \subseteq DOMAIN sent'
      /\ RunPoint(r, DOMAIN sent')
      /\ Leads(thread'.parts) /\ Backed(deleg', DOMAIN sent')
  BY DEF RunInv
<1>2. QED
  BY <1>1, RunMove

\* Requests that are not about the messages.
LEMMA RunIdle == \A ids : RunPoint(Idle, ids)
BY DEF RunPoint, Idle

\* A request about to save is judged by what backs its state.
LEMMA RunSaving == \A kind, d, ids : Backed(d, ids) => RunPoint(Saving(kind, d), ids)
BY DEF RunPoint, Saving

\* A start request begins with the state it read.
LEMMA StartRuns ==
    ASSUME FirstRoleOnce, TypeInv, RunInv, NEW p \in Procs, StartRequest(p)
    PROVE  RunInv'
<1>1. UNCHANGED <<thread, deleg, sent>>
  BY DEF StartRequest, files
<1>2. thread.parts \in Parts /\ Leads(thread.parts)
  BY DEF TypeInv, FilesType, MetaType, RunInv
<1>3. CASE cycle = NoCycle
  <2> DEFINE r == [pc |-> "cycle", kind |-> "start", cycle |-> StartCycle(thread.phase),
                   parts |-> thread.parts]
  <2>1. Goto(p, r)
    BY <1>3 DEF StartRequest
  <2>2. RunPoint(r, DOMAIN sent)
    BY <1>2 DEF RunPoint
  <2> HIDE DEF r
  <2>3. QED
    BY <1>1, <2>1, <2>2, RunRead
<1>4. CASE cycle # NoCycle
  <2> DEFINE r == PlanFresh("start", cycle, thread.parts, contrib[cycle.phase])
  <2>1. Goto(p, r)
    BY <1>4 DEF StartRequest
  <2>2. cycle \in CycleType /\ "start" \in Kinds
    BY <1>4 DEF TypeInv, FilesType, Kinds
  <2>3. RunPoint(r, DOMAIN sent)
    BY <1>2, <2>2, PlanFreshBacked
  <2> HIDE DEF r
  <2>4. QED
    BY <1>1, <2>1, <2>3, RunRead
<1>5. QED
  BY <1>3, <1>4

\* delegate/respond.
LEMMA RespondRuns ==
    ASSUME TypeInv, RunInv, NEW p \in Procs, NEW o, RespondRequest(p, o)
    PROVE  RunInv'
<1> DEFINE next == Branch[deleg.phase][o]
           r == [pc |-> "advance", kind |-> "respond", next |-> next,
                 parts |-> DefaultParts(thread.parts, next), outcome |-> o,
                 cycle |-> cycle, repeats |-> FALSE, old |-> deleg]
<1>1. UNCHANGED <<thread, deleg, sent>> /\ Goto(p, r)
  BY DEF RespondRequest, files
<1>2. deleg \in Made
  BY DEF RespondRequest, TypeInv, FilesType, NoDeleg
<1>3. next \in PhaseSet
  BY <1>2, MadeFields, ProtocolAssumption DEF RespondRequest, Applicable
<1>4. Leads(DefaultParts(thread.parts, next))
  BY <1>3, DefaultPartsLead DEF TypeInv, FilesType, MetaType, RunInv
<1>5. RunPoint(r, DOMAIN sent)
  BY <1>4 DEF RunPoint
<1> HIDE DEF r
<1>6. QED
  BY <1>1, <1>5, RunRead

\* delegate/wait, the stop of the CLI and a close.
LEMMA SmallRuns ==
    ASSUME TypeInv, RunInv, NEW p \in Procs, WaitRequest(p) \/ StopRequest(p) \/ LoadForClose(p)
    PROVE  RunInv'
<1>1. UNCHANGED <<thread, deleg, sent>>
  BY DEF WaitRequest, StopRequest, LoadForClose, files
<1>2. CASE WaitRequest(p)
  <2> DEFINE d == [deleg EXCEPT !.token = ResumeToken(deleg)]
  <2>1. Goto(p, Saving("wait", d))
    BY <1>2 DEF WaitRequest
  <2>2. deleg \in Made
    BY <1>2 DEF WaitRequest, TypeInv, FilesType, NoDeleg
  <2>3. d.status = deleg.status /\ d.phase = deleg.phase /\ d.agent = deleg.agent
    BY <2>2 DEF Made, MadeType
  <2>4. Backed(d, DOMAIN sent)
    BY <2>3 DEF RunInv, Backed, Told
  <2> HIDE DEF d
  <2>5. QED
    BY <1>1, <2>1, <2>4, RunSaving, RunRead
<1>3. CASE StopRequest(p)
  <2> DEFINE d == [deleg EXCEPT !.status = "completed", !.token = NoToken, !.stopped = TRUE]
  <2>1. Goto(p, Saving("stop", d))
    BY <1>3 DEF StopRequest
  <2>2. deleg \in Made
    BY <1>3 DEF StopRequest, TypeInv, FilesType, NoDeleg
  <2>3. d.status = "completed"
    BY <2>2 DEF Made, MadeType
  <2> HIDE DEF d
  <2>4. QED
    BY <1>1, <2>1, <2>3, RunSaving, RunRead DEF Backed
<1>4. CASE LoadForClose(p)
  <2> DEFINE r == [pc |-> "close", kind |-> "close", meta |-> [thread EXCEPT !.status = "completed"]]
  <2>1. Goto(p, r)
    BY <1>4 DEF LoadForClose
  <2>2. [thread EXCEPT !.status = "completed"].parts = thread.parts
    BY DEF TypeInv, FilesType, MetaType
  <2>3. RunPoint(r, DOMAIN sent)
    BY <2>2 DEF RunPoint, RunInv
  <2> HIDE DEF r
  <2>4. QED
    BY <1>1, <2>1, <2>3, RunRead
<1>5. QED
  BY <1>2, <1>3, <1>4

\* The continuation's reads.
LEMMA AnswerRuns ==
    ASSUME TypeInv, RunInv, NEW a, NEW q, AnswerRequest(a, q)
    PROVE  RunInv'
<1> DEFINE r == [pc |-> "contribute", kind |-> "continue", agent |-> a, quality |-> q,
                 parts |-> thread.parts, cycle |-> cycle, old |-> deleg, result |-> inputs']
<1>1. UNCHANGED <<thread, deleg, sent>> /\ Goto(Loop, r) /\ Loop \in Procs
  BY DEF AnswerRequest, files, Procs
<1>2. RunPoint(r, DOMAIN sent)
  BY DEF RunPoint, RunInv, AnswerRequest
<1> HIDE DEF r
<1>3. QED
  BY <1>1, <1>2, RunRead

\* The contribution: an answer that does not complete the phase leaves the
\* delegation with the agent that was sent the phase's message.
LEMMA ContributeRuns ==
    ASSUME FirstRoleOnce, TypeInv, RunInv, Contribute
    PROVE  RunInv'
<1> DEFINE s == proc[Loop]
           ph == s.old.phase
           a == Assignment(ph, s.parts, contrib'[ph], s.cycle, FALSE, 0)
           blocked == [s.old EXCEPT !.status = "blocked", !.result = s.result, !.stopped = FALSE]
           judged == ContinuedState(s.old, a, ph, s.cycle.index, s.result)
           on == [pc |-> "advance", kind |-> "continue", next |-> Following(ph),
                  parts |-> DefaultParts(s.parts, Following(ph)),
                  cycle |-> s.cycle, old |-> s.old, result |-> s.result]
<1>0. Loop \in Procs
  BY DEF Procs
<1>1. s \in AnswerType
  <2>1. s \in PointType /\ s.pc = "contribute"
    BY <1>0 DEF Contribute, TypeInv
  <2>2. QED
    BY <2>1, PointByPc
<1>2. s.parts \in Parts /\ s.old \in Made /\ s.pc = "contribute"
  BY <1>1 DEF AnswerType
<1>3. Leads(s.parts) /\ Backed(s.old, DOMAIN sent) /\ s.old.status = "running"
  <2>1. RunPoint(s, DOMAIN sent)
    BY <1>0 DEF RunInv
  <2>2. QED
    BY <1>2, <2>1 DEF RunPoint
<1>4. ph \in PhaseSet
  BY <1>2, MadeFields
<1>5. UNCHANGED <<thread, deleg, sent>>
  BY DEF Contribute
<1>6. Judges(a, ph, s.parts, contrib'[ph])
  <2> HIDE DEF s, ph
  <2> QED BY <1>2, <1>4, VerdictType
<1>7. \/ Goto(Loop, Saving("continue", blocked))
      \/ Goto(Loop, on) /\ a.action = "advance_phase"
      \/ Goto(Loop, Saving("continue", judged))
  BY DEF Contribute
<1>8. Told(s.old, DOMAIN sent) /\ s.old.agent = Lead /\ s.old.phase = ph
  BY <1>3 DEF Backed
<1> HIDE DEF s, ph, a
<1>9. Backed(blocked, DOMAIN sent)
  BY <1>2 DEF Made, MadeType, Backed
<1>10. Backed(judged, DOMAIN sent)
  <2>1. judged.status = a.status /\ judged.agent = a.agent /\ judged.phase = ph
    BY <1>2 DEF ContinuedState, Made, MadeType
  <2>2. a.status = "running" => a.agent = Lead
    BY <1>2, <1>3, <1>4, <1>6, BoundIsLead DEF Judges
  <2>3. QED
    BY <1>8, <2>1, <2>2 DEF Backed, Told
<1>11. ASSUME a.action = "advance_phase" PROVE RunPoint(on, DOMAIN sent)
  <2>1. Following(ph) \in PhaseSet
    BY <1>4, <1>6, <1>11, FollowingType DEF Judges
  <2>2. Leads(DefaultParts(s.parts, Following(ph)))
    BY <1>2, <1>3, <2>1, DefaultPartsLead
  <2>3. QED
    BY <2>2 DEF RunPoint
<1> HIDE DEF blocked, judged, on
<1>12. QED
  BY <1>0, <1>5, <1>7, <1>9, <1>10, <1>11, RunSaving, RunRead

\* The load and the write of the meta.
LEMMA MetaRuns ==
    ASSUME TypeInv, RunInv, NEW p \in Procs, LoadMeta(p) \/ StoreMeta(p)
    PROVE  RunInv'
<1> DEFINE s == proc[p]
<1>1. s \in CarryType \cup RespondType /\ s.pc \in {"advance", "meta"}
  <2>1. s \in PointType /\ s.pc \in {"advance", "meta"}
    BY DEF LoadMeta, StoreMeta, TypeInv
  <2>2. QED
    BY <2>1, PointByPc
<1>2. Leads(s.parts)
  <2>1. RunPoint(s, DOMAIN sent)
    BY DEF RunInv
  <2>2. QED
    BY <1>1, <2>1 DEF RunPoint
<1>3. CASE LoadMeta(p)
  <2> DEFINE r == [s EXCEPT !.pc = "meta"]
  <2>1. UNCHANGED <<thread, deleg, sent>>
    BY <1>3 DEF LoadMeta, files
  <2>2. Goto(p, Idle) \/ Goto(p, r)
    BY <1>3 DEF LoadMeta
  <2> HIDE DEF s
  <2>3. r.pc = "meta" /\ r.parts = s.parts
    BY <1>1 DEF CarryType, RespondType
  <2> HIDE DEF r
  <2>4. RunPoint(r, DOMAIN sent)
    BY <1>2, <2>3 DEF RunPoint
  <2>5. QED
    BY <2>1, <2>2, <2>4, RunIdle, RunRead
<1>4. CASE StoreMeta(p)
  <2> DEFINE next == AdvanceCycle(s.cycle, s.outcome)
             repeats == next.phase = s.old.phase /\ next.index > s.cycle.index
             responds == [s EXCEPT !.pc = "cycle", !.cycle = next, !.repeats = repeats]
             continues == [s EXCEPT !.pc = "cycle", !.cycle = StartCycle(s.next)]
  <2>1. UNCHANGED <<deleg, sent>>
    BY <1>4 DEF StoreMeta
  <2>2. thread' = [status |-> "active", phase |-> s.next, parts |-> s.parts]
    BY <1>4 DEF StoreMeta
  <2>3. \/ Goto(p, Idle)
        \/ s.kind = "respond" /\ Goto(p, responds)
        \/ s.kind # "respond" /\ Goto(p, continues)
    BY <1>4 DEF StoreMeta
  <2> HIDE DEF s
  <2>4. Leads(thread'.parts) /\ Backed(deleg', DOMAIN sent') /\ DOMAIN sent' = DOMAIN sent
    BY <1>2, <2>1, <2>2 DEF RunInv
  <2> HIDE DEF next, repeats
  <2>5. s.kind = "respond" => responds.pc = "cycle" /\ responds.parts = s.parts
    BY <1>1 DEF CarryType, RespondType
  <2>6. s.kind # "respond" => continues.pc = "cycle" /\ continues.parts = s.parts
    BY <1>1 DEF CarryType, RespondType
  <2> HIDE DEF responds, continues
  <2>7. \A r : r.pc = "cycle" /\ r.parts = s.parts => RunPoint(r, DOMAIN sent')
    BY <1>2 DEF RunPoint
  <2>8. PICK r : Goto(p, r) /\ RunPoint(r, DOMAIN sent')
    BY <2>3, <2>5, <2>6, <2>7, RunIdle
  <2>9. QED
    BY <2>4, <2>8, RunMove
<1>5. QED
  BY <1>3, <1>4

\* The write of the cycle, and the plan that follows.
LEMMA CycleRuns ==
    ASSUME FirstRoleOnce, TypeInv, RunInv, NEW p \in Procs, NEW sick \in BOOLEAN,
           WriteCycle(p, sick)
    PROVE  RunInv'
<1> DEFINE s == proc[p]
           said == IF s.kind = "respond" /\ s.repeats THEN Nobody ELSE contrib[s.cycle.phase]
           again == PlanContinue(s.old, s.cycle, s.parts, s.result, sick)
           fresh == PlanFresh(s.kind, s.cycle, s.parts, said)
<1>1. s \in StartType \cup CarryType \cup RespondType /\ s.pc = "cycle"
  <2>1. s \in PointType /\ s.pc = "cycle"
    BY DEF WriteCycle, TypeInv
  <2>2. QED
    BY <2>1, PointByPc
<1>2. Leads(s.parts)
  <2>1. RunPoint(s, DOMAIN sent)
    BY DEF RunInv
  <2>2. QED
    BY <1>1, <2>1 DEF RunPoint
<1>3. UNCHANGED <<thread, deleg, sent>>
  BY DEF WriteCycle
<1>4. \/ s.kind = "continue" /\ Goto(p, again)
      \/ s.kind # "continue" /\ Goto(p, fresh)
  BY DEF WriteCycle
<1> HIDE DEF s
<1>5. s.cycle \in CycleType /\ s.parts \in Parts /\ s.kind \in Kinds
  BY <1>1 DEF StartType, CarryType, RespondType, Kinds
<1>6. s.kind = "continue" => RunPoint(again, DOMAIN sent)
  <2>1. s.kind = "continue" => s.old \in Made /\ s.result \in Nat
    BY <1>1 DEF StartType, CarryType, RespondType
  <2>2. QED
    BY <1>2, <1>5, <2>1, PlanContinueBacked
<1> HIDE DEF said
<1>7. RunPoint(fresh, DOMAIN sent)
  BY <1>2, <1>5, PlanFreshBacked
<1> HIDE DEF again, fresh
<1>8. QED
  BY <1>3, <1>4, <1>6, <1>7, RunRead

\* The message, the state and the close.
LEMMA WriteRuns ==
    ASSUME TypeInv, RunInv, NEW p \in Procs, Send(p) \/ Save(p) \/ Close(p)
    PROVE  RunInv'
<1> DEFINE s == proc[p]
<1>0. s \in PointType /\ RunPoint(s, DOMAIN sent)
  BY DEF TypeInv, RunInv
<1>1. CASE Send(p)
  <2>1. s.pc = "send"
    BY <1>1 DEF Send
  <2>2. /\ s.otherwise.status # "running"
        /\ s.deleg.phase = s.id.phase /\ s.deleg.agent = s.id.agent /\ s.id.agent = Lead
    BY <1>0, <2>1 DEF RunPoint
  <2>3. UNCHANGED <<thread, deleg>>
    BY <1>1 DEF Send
  <2>4. \/ Goto(p, Saving(s.kind, s.deleg)) /\ sent' = sent (+) SetToBag({s.id})
        \/ Goto(p, Saving(s.kind, s.otherwise)) /\ UNCHANGED sent
    BY <1>1 DEF Send
  <2> HIDE DEF s
  <2>5. CASE Goto(p, Saving(s.kind, s.deleg)) /\ sent' = sent (+) SetToBag({s.id})
    <3>1. DOMAIN sent' = DOMAIN sent \cup {s.id}
      BY <2>5 DEF (+), SetToBag
    <3>2. Backed(s.deleg, DOMAIN sent')
      BY <2>2, <3>1 DEF Backed, Told
    <3>3. Backed(deleg', DOMAIN sent') /\ Leads(thread'.parts)
      BY <2>3, <3>1, BackedGrows DEF RunInv
    <3>4. QED
      BY <2>5, <3>1, <3>2, <3>3, RunSaving, RunMove
  <2>6. CASE Goto(p, Saving(s.kind, s.otherwise)) /\ UNCHANGED sent
    <3>1. Backed(s.otherwise, DOMAIN sent)
      BY <2>2 DEF Backed
    <3>2. QED
      BY <2>3, <2>6, <3>1, RunSaving, RunRead
  <2>7. QED
    BY <2>4, <2>5, <2>6
<1>2. CASE Save(p)
  <2>1. Backed(s.deleg, DOMAIN sent) /\ deleg' = s.deleg
    BY <1>0, <1>2 DEF Save, RunPoint
  <2>2. UNCHANGED <<thread, sent>> /\ Goto(p, Idle)
    BY <1>2 DEF Save
  <2>3. Backed(deleg', DOMAIN sent') /\ Leads(thread'.parts) /\ DOMAIN sent \subseteq DOMAIN sent'
    BY <2>1, <2>2 DEF RunInv
  <2>4. QED
    BY <2>2, <2>3, RunIdle, RunMove
<1>3. CASE Close(p)
  <2>1. Leads(s.meta.parts) /\ thread' = s.meta
    BY <1>0, <1>3 DEF Close, RunPoint
  <2>2. UNCHANGED <<deleg, sent>> /\ Goto(p, Idle)
    BY <1>3 DEF Close
  <2>3. Backed(deleg', DOMAIN sent') /\ Leads(thread'.parts) /\ DOMAIN sent \subseteq DOMAIN sent'
    BY <2>1, <2>2 DEF RunInv
  <2>4. QED
    BY <2>2, <2>3, RunIdle, RunMove
<1>4. QED
  BY <1>1, <1>2, <1>3

\* Contributions and moves by hand, and a crash.
LEMMA OtherRuns ==
    ASSUME TypeInv, RunInv,
           \/ \E a \in Agents, q \in {"short", "full"} : ContributeByHand(a, q)
           \/ \E ph \in PhaseSet : AdvanceByHand(ph)
           \/ Crash
    PROVE  RunInv'
<1>1. UNCHANGED <<deleg, sent>>
  BY DEF ContributeByHand, AdvanceByHand, Crash, files
<1>2. Leads(thread'.parts)
  <2>1. CASE \E ph \in PhaseSet : AdvanceByHand(ph)
    <3>1. thread'.parts = Members
      BY <2>1 DEF AdvanceByHand, TypeInv, FilesType, MetaType
    <3>2. QED
      BY <3>1 DEF Leads, Lead
  <2>2. CASE UNCHANGED thread
    BY <2>2 DEF RunInv
  <2>3. QED
    BY <2>1, <2>2 DEF ContributeByHand, Crash, files
<1>3. ASSUME NEW q \in Procs PROVE RunPoint(proc'[q], DOMAIN sent')
  <2>1. CASE UNCHANGED proc
    BY <1>1, <2>1 DEF RunInv
  <2>2. CASE Crash
    BY <2>2, RunIdle DEF Crash
  <2>3. QED
    BY <2>1, <2>2 DEF ContributeByHand, AdvanceByHand
<1>4. QED
  BY <1>1, <1>2, <1>3 DEF RunInv

\* It holds at the start.
LEMMA RunInit == Init => RunInv
<1> SUFFICES ASSUME Init PROVE RunInv
  OBVIOUS
<1>1. Leads(thread.parts) /\ deleg.status = "absent" /\ \A q \in Procs : proc[q] = Idle
  BY DEF Init, Leads, Lead, NoDeleg
<1>2. QED
  BY <1>1, RunIdle DEF RunInv, Backed

\* Every step keeps it, whoever takes it.
LEMMA RunNext == FirstRoleOnce /\ TypeInv /\ RunInv /\ [Next]_vars => RunInv'
<1> SUFFICES ASSUME FirstRoleOnce, TypeInv, RunInv, [Next]_vars PROVE RunInv'
  OBVIOUS
<1>1. ASSUME NEW p \in Procs, Request(p) PROVE RunInv'
  BY <1>1, StartRuns, RespondRuns, SmallRuns DEF Request
<1>2. ASSUME NEW p \in Procs, Step(p) PROVE RunInv'
  BY <1>2, MetaRuns, CycleRuns, WriteRuns DEF Step
<1>3. CASE ByLoop
  BY <1>3, ContributeRuns, AnswerRuns, OtherRuns DEF ByLoop
<1>4. CASE Crash
  BY <1>4, OtherRuns
<1>5. CASE UNCHANGED vars
  <2>1. UNCHANGED <<thread, deleg, sent, proc>>
    BY <1>5 DEF vars, files
  <2>2. QED
    BY <2>1 DEF RunInv
<1>6. QED
  BY <1>1, <1>2, <1>3, <1>4, <1>5 DEF Next

(***************************************************************************)
(* A delegation that is left running has been dispatched to the agent it   *)
(* waits for, however the requests interleave, wherever they are killed    *)
(* and wherever an operator moves the thread.                              *)
(***************************************************************************)
THEOREM Dispatched ==
    ASSUME FirstRoleOnce
    PROVE  Spec => []RunningWasDispatched
<1>1. TypeInv /\ RunInv => RunningWasDispatched
  BY DEF RunInv, Backed, Told, RunningWasDispatched, DispatchedFor, BagToSet
<1>2. Init => TypeInv /\ RunInv
  BY TypeInit, RunInit
<1>3. TypeInv /\ RunInv /\ [Next]_vars => (TypeInv /\ RunInv)'
  BY TypeNext, RunNext
<1>4. QED
  BY <1>1, <1>2, <1>3, PTL DEF Spec
=============================================================================
