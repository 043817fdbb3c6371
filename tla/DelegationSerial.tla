-------------------------- MODULE DelegationSerial --------------------------
(***************************************************************************)
(* The delegation of a thread when requests do not overlap, for every      *)
(* protocol and wherever everything is killed: a closed thread is frozen,  *)
(* a stop sticks, a phase waits for everybody, and as long as nobody moves *)
(* the thread by hand and nothing is killed the files agree.               *)
(***************************************************************************)
EXTENDS DelegationLoopProofs

-----------------------------------------------------------------------------
(***************************************************************************)
(* The invariant.  A state is placed when it is about the cycle on file    *)
(* and that is in the thread's phase; the files are settled when the state *)
(* is, or when neither it nor a cycle exists.                              *)
(***************************************************************************)
Placed(d, cyc, th) == cyc.phase = th.phase /\ d.phase = cyc.phase /\ d.index = cyc.index

Settled(d, cyc, th) ==
    /\ d = NoDeleg => cyc = NoCycle
    /\ d # NoDeleg => Placed(d, cyc, th)

Ready(ph, parts, said) == Passed(ph, parts, said) /\ ValidOutcomes(ph) # {}

\* A state about to be saved: stopped only when completed, and waiting for a
\* person only when the phase is complete and has an outcome to be given.
SavesWell(r, th, con, d) ==
    /\ r.deleg.stopped => r.deleg.status = "completed"
    /\ r.kind = "stop" => r.deleg.stopped
    /\ r.kind = "wait" => r.deleg.stopped = d.stopped /\ r.deleg.status = d.status
    /\ r.kind # "wait" /\ r.deleg.status = "waiting_for_human" =>
          Ready(r.deleg.phase, th.parts, con[r.deleg.phase])

\* A message about to be sent.
SendsWell(r) ==
    /\ r.kind \in {"start", "respond", "continue"}
    /\ r.deleg.status = "running" /\ ~r.deleg.stopped
    /\ r.otherwise.status = "blocked" /\ ~r.otherwise.stopped

\* A phase about to be left.
LeavesWell(r, th, con) ==
    /\ Passed(r.old.phase, th.parts, con[r.old.phase])
    /\ r.kind = "continue" =>
          ValidOutcomes(r.old.phase) = {} /\ r.next = Following(r.old.phase)
    /\ r.kind = "respond" =>
          Applicable(r.old.phase, r.outcome) /\ r.next = Branch[r.old.phase][r.outcome]

(***************************************************************************)
(* What the one request in flight carries, against the files it finds.     *)
(***************************************************************************)
AlonePoint(r, th, con, d) ==
    /\ r.kind \in {"respond", "continue"} => ~d.stopped
    /\ r.pc \in {"meta", "close"} => th.status = "active"
    /\ r.pc = "close" => r.meta.phase = th.phase
    /\ r.pc \in {"contribute", "cycle"} => r.parts = th.parts
    /\ r.pc = "save" => SavesWell(r, th, con, d)
    /\ r.pc = "send" => SendsWell(r)
    /\ r.pc \in {"advance", "meta"} => LeavesWell(r, th, con)

AloneInv ==
    /\ deleg.stopped => deleg.status = "completed"
    /\ \A q \in Procs : AlonePoint(proc[q], thread, contrib, deleg)
    /\ \A q \in Procs : proc[q].kind = "start" => q \in Pool

(***************************************************************************)
(* The same for the agreement of the files, which a move by hand and a     *)
(* crash end.                                                              *)
(***************************************************************************)
AgreePoint(r, th, cyc, d) ==
    /\ r.pc = "save" => Placed(r.deleg, cyc, th)
    /\ r.pc = "send" => Placed(r.deleg, cyc, th) /\ Placed(r.otherwise, cyc, th)
    /\ r.pc = "cycle" => r.cycle.phase = th.phase
    /\ r.pc \in {"contribute", "advance", "meta"} => r.cycle = cyc /\ r.old = d
    /\ r.pc \in {"contribute", "advance", "meta", "close"} => Settled(d, cyc, th)

Calm == moved = 0 /\ crashes = 0

AgreeInv ==
    Calm => /\ Quiet => Settled(deleg, cycle, thread)
            /\ \A q \in Procs : AgreePoint(proc[q], thread, cycle, deleg)

SerialInv == AloneInv /\ AgreeInv

(***************************************************************************)
(* Only one process is in the middle of anything.                          *)
(***************************************************************************)
Alone(p) == \A q \in Procs \ {p} : proc[q] = Idle

\* When requests do not overlap, a busy one finds everybody else idle.
LEMMA NobodyElse ==
    ASSUME Exclusive, TypeInv, OnceInv, NEW p \in Procs, MayBegin(p) \/ proc[p].pc # "idle"
    PROVE  Alone(p)
<1> SUFFICES ASSUME NEW q \in Procs \ {p} PROVE proc[q] = Idle
  BY DEF Alone
<1>1. proc[q].pc = "idle"
  BY DEF MayBegin, OnceInv, Busy
<1>2. proc[q] \in PointType
  BY DEF TypeInv
<1>3. QED
  BY <1>1, <1>2, PointByPc

\* When a request begins nothing is in flight, and the files are settled.
LEMMA BeginsQuiet ==
    ASSUME Exclusive, SerialInv, NEW p \in Procs, MayBegin(p), Calm
    PROVE  Settled(deleg, cycle, thread)
BY DEF MayBegin, SerialInv, AgreeInv, Quiet

\* A request that is answered carries nothing.
LEMMA IdleSerial ==
    /\ \A th, con, d : AlonePoint(Idle, th, con, d)
    /\ \A th, cyc, d : AgreePoint(Idle, th, cyc, d)
    /\ Idle.kind = "none" /\ Idle.pc = "idle"
BY DEF AlonePoint, AgreePoint, Idle

(***************************************************************************)
(* One step of the one request in flight.                                  *)
(***************************************************************************)
LEMMA SerialMove ==
    ASSUME TypeInv, NEW p \in Procs, Alone(p), NEW r, Goto(p, r),
           r.kind = "start" => p \in Pool,
           AlonePoint(r, thread', contrib', deleg'),
           deleg'.stopped => deleg'.status = "completed",
           Calm' => AgreePoint(r, thread', cycle', deleg'),
           Calm' /\ r.pc = "idle" => Settled(deleg', cycle', thread')
    PROVE  SerialInv'
<1>1. /\ proc'[p] = r
      /\ \A q \in Procs \ {p} : proc'[q] = Idle
  BY DEF Goto, TypeInv, Alone
<1>2. AloneInv'
  BY <1>1, IdleSerial DEF AloneInv
<1>3. AgreeInv'
  <2>1. Calm' => \A q \in Procs : AgreePoint(proc'[q], thread', cycle', deleg')
    BY <1>1, IdleSerial
  <2>2. Calm' /\ Quiet' => Settled(deleg', cycle', thread')
    BY <1>1 DEF Quiet
  <2>3. QED
    BY <2>1, <2>2 DEF AgreeInv
<1>4. QED
  BY <1>2, <1>3 DEF SerialInv

\* A step that only reads.
LEMMA SerialRead ==
    ASSUME TypeInv, SerialInv, NEW p \in Procs, Alone(p), NEW r, Goto(p, r),
           UNCHANGED <<thread, contrib, cycle, deleg, moved, crashes>>,
           r.kind = "start" => p \in Pool,
           AlonePoint(r, thread, contrib, deleg),
           Calm => AgreePoint(r, thread, cycle, deleg),
           Calm /\ r.pc = "idle" => Settled(deleg, cycle, thread)
    PROVE  SerialInv'
<1>1. Calm' => Calm
  BY DEF Calm
<1>2. /\ AlonePoint(r, thread', contrib', deleg')
      /\ deleg'.stopped => deleg'.status = "completed"
      /\ Calm' => AgreePoint(r, thread', cycle', deleg')
      /\ Calm' /\ r.pc = "idle" => Settled(deleg', cycle', thread')
  BY <1>1 DEF SerialInv, AloneInv
<1>3. QED
  BY <1>2, SerialMove

-----------------------------------------------------------------------------
(***************************************************************************)
(* The plans, which are about the cycle they were made for.                *)
(***************************************************************************)
Carries(r, kind, th, con, cyc, d) ==
    /\ r.kind = kind /\ r.pc # "idle"
    /\ AlonePoint(r, th, con, d)
    /\ cyc.phase = th.phase => AgreePoint(r, th, cyc, d)

\* A plan for a state that is about the cycle.
LEMMA PlannedSerial ==
    ASSUME NEW kind \in {"start", "respond", "continue"}, NEW a, NEW d \in Made,
           NEW id \in IdType, NEW running \in Made,
           d.status = a.status, ~d.stopped, running.status = a.status, ~running.stopped,
           NEW th, NEW con, NEW cyc, NEW dg,
           d.phase = cyc.phase, d.index = cyc.index,
           running.phase = cyc.phase, running.index = cyc.index,
           kind # "start" => ~dg.stopped,
           a.status = "waiting_for_human" => Ready(d.phase, th.parts, con[d.phase])
    PROVE  Carries(Planned(kind, a, d, id, running), kind, th, con, cyc, dg)
<1> DEFINE blocked == [d EXCEPT !.status = "blocked"]
           message == [pc |-> "send", kind |-> kind, id |-> id, deleg |-> running,
                       otherwise |-> blocked]
           r == Planned(kind, a, d, id, running)
<1>1. /\ blocked.status = "blocked" /\ ~blocked.stopped
      /\ blocked.phase = d.phase /\ blocked.index = d.index
  BY DEF Made, MadeType
<1> HIDE DEF blocked
<1>2. CASE r = Saving(kind, d)
  <2>1. r.kind = kind /\ r.pc = "save" /\ r.deleg = d
    BY <1>2 DEF Saving
  <2> HIDE DEF r
  <2>2. SavesWell(r, th, con, dg)
    BY <2>1 DEF SavesWell
  <2>3. AlonePoint(r, th, con, dg)
    BY <2>1, <2>2 DEF AlonePoint
  <2>4. cyc.phase = th.phase => AgreePoint(r, th, cyc, dg)
    BY <2>1 DEF AgreePoint, Placed
  <2>5. QED
    BY <2>1, <2>3, <2>4 DEF r, Carries
<1>3. CASE r = Saving(kind, blocked)
  <2>1. r.kind = kind /\ r.pc = "save" /\ r.deleg = blocked
    BY <1>3 DEF Saving
  <2> HIDE DEF r
  <2>2. SavesWell(r, th, con, dg)
    BY <1>1, <2>1 DEF SavesWell
  <2>3. AlonePoint(r, th, con, dg)
    BY <2>1, <2>2 DEF AlonePoint
  <2>4. cyc.phase = th.phase => AgreePoint(r, th, cyc, dg)
    BY <1>1, <2>1 DEF AgreePoint, Placed
  <2>5. QED
    BY <2>1, <2>3, <2>4 DEF r, Carries
<1>4. CASE a.status = "running" /\ r = message
  <2>1. /\ r.kind = kind /\ r.pc = "send"
        /\ r.deleg = running /\ r.otherwise = blocked
    BY <1>4
  <2> HIDE DEF r, message
  <2>2. SendsWell(r)
    BY <1>1, <1>4, <2>1 DEF SendsWell
  <2>3. AlonePoint(r, th, con, dg)
    BY <2>1, <2>2 DEF AlonePoint
  <2>4. cyc.phase = th.phase => AgreePoint(r, th, cyc, dg)
    BY <1>1, <2>1 DEF AgreePoint, Placed
  <2>5. QED
    BY <2>1, <2>3, <2>4 DEF r, Carries
<1>5. QED
  <2>1. CASE a.status # "running"
    <3>1. r = Saving(kind, d)
      BY <2>1 DEF Planned
    <3>2. QED
      BY <3>1, <1>2
  <2>2. CASE a.status = "running" /\ id.phase \notin Direct
    <3>1. r = Saving(kind, blocked)
      BY <2>2 DEF Planned, blocked
    <3>2. QED
      BY <3>1, <1>3
  <2>3. CASE a.status = "running" /\ id.phase \in Direct /\ BagIn(id, sent)
    <3>1. r = Saving(kind, blocked) \/ r = Saving(kind, d)
      BY <2>3 DEF Planned, blocked
    <3>2. QED
      BY <3>1, <1>2, <1>3
  <2>4. CASE a.status = "running" /\ id.phase \in Direct /\ ~BagIn(id, sent)
    <3>1. r = message
      BY <2>4 DEF Planned, blocked
    <3>2. QED
      BY <2>4, <3>1, <1>4
  <2>5. QED
    BY <2>1, <2>2, <2>3, <2>4

\* What nobody has contributed to is complete only when nothing is required.
LEMMA PassedByNobody ==
    ASSUME NEW ph, NEW parts \in Parts, NEW said, Passed(ph, parts, Nobody)
    PROVE  Passed(ph, parts, said)
<1>1. \A i \in DOMAIN parts : parts[i] \in Agents
  BY DEF Parts
<1>2. \A a \in Agents : Nobody[a] = "none"
  BY DEF Nobody
<1>3. QED
  BY <1>1, <1>2 DEF Passed

\* The plan of start and respond.
LEMMA PlanFreshSerial ==
    ASSUME NEW kind \in {"start", "respond"}, NEW cyc \in CycleType, NEW parts \in Parts,
           NEW said, NEW th, NEW con, NEW dg,
           parts = th.parts, kind = "respond" => ~dg.stopped,
           Passed(cyc.phase, parts, said) => Passed(cyc.phase, parts, con[cyc.phase])
    PROVE  Carries(PlanFresh(kind, cyc, parts, said), kind, th, con, cyc, dg)
<1> DEFINE a == Assignment(cyc.phase, parts, said, cyc, FALSE, 0)
           d == NewState(a, cyc)
           id == DispatchId("start", cyc.index, cyc.phase, a.agent)
<1>1. PlanFresh(kind, cyc, parts, said) = Planned(kind, a, d, id, d)
  BY DEF PlanFresh
<1>2. cyc.phase \in PhaseSet /\ cyc.index \in Nat
  BY DEF CycleType
<1>3. Judges(a, cyc.phase, parts, said)
  BY <1>2, VerdictType
<1> HIDE DEF a
<1>4. d \in Made
  BY <1>3, NewStateMade DEF Judges
<1>5. id \in IdType
  BY <1>2, <1>3 DEF DispatchId, IdType, Verdicts, Judges
<1>6. d.status = a.status /\ d.phase = cyc.phase /\ d.index = cyc.index /\ ~d.stopped
  BY DEF NewState
<1>7. a.status = "waiting_for_human" => Ready(cyc.phase, th.parts, con[cyc.phase])
  BY <1>3 DEF Judges, Ready
<1> HIDE DEF d, id
<1>8. QED
  BY <1>1, <1>4, <1>5, <1>6, <1>7, PlannedSerial

\* The plan of the continuation.
LEMMA PlanContinueSerial ==
    ASSUME NEW old \in Made, NEW cyc \in CycleType, NEW parts \in Parts,
           NEW result \in Nat, NEW sick, NEW th, NEW dg, parts = th.parts, ~dg.stopped
    PROVE  Carries(PlanContinue(old, cyc, parts, result, sick), "continue", th, contrib, cyc, dg)
<1> DEFINE said == contrib[cyc.phase]
           first == Assignment(cyc.phase, parts, said, cyc, FALSE, 0)
           limited == Assignment(cyc.phase, parts, said, cyc, sick, old.loop + 1)
           a == IF first.status = "running" THEN limited ELSE first
           d == ContinuedState(old, a, cyc.phase, cyc.index, result)
           id == DispatchId("continue", old.loop + 1, cyc.phase, a.agent)
           running == [d EXCEPT !.loop = old.loop + 1]
<1>1. PlanContinue(old, cyc, parts, result, sick) = Planned("continue", a, d, id, running)
  BY DEF PlanContinue
<1>2. cyc.phase \in PhaseSet /\ cyc.index \in Nat
  BY DEF CycleType
<1>3. Judges(first, cyc.phase, parts, said) /\ Judges(limited, cyc.phase, parts, said)
  <2> HIDE DEF said
  <2> QED BY <1>2, VerdictType
<1>4. Judges(a, cyc.phase, parts, said)
  <2> HIDE DEF first, limited
  <2> QED BY <1>3
<1>5. a.status = "waiting_for_human" => Ready(cyc.phase, th.parts, contrib[cyc.phase])
  <2> HIDE DEF a
  <2> QED BY <1>4 DEF Judges, Ready
<1> HIDE DEF a, said
<1>6. d \in Made
  BY <1>2, <1>4, ContinuedMade DEF Judges
<1>7. old.loop + 1 \in Nat
  BY MadeFields
<1>8. id \in IdType
  BY <1>2, <1>4, <1>7 DEF DispatchId, IdType, Verdicts, Judges
<1>9. d.status = a.status /\ d.phase = cyc.phase /\ d.index = cyc.index /\ ~d.stopped
  BY DEF ContinuedState, Made, MadeType
<1> HIDE DEF d, id
<1>10. /\ running \in Made /\ running.status = d.status
       /\ running.phase = d.phase /\ running.index = d.index /\ running.stopped = d.stopped
  BY <1>6, <1>7 DEF Made, MadeType
<1> HIDE DEF running
<1>11. QED
  BY <1>1, <1>5, <1>6, <1>8, <1>9, <1>10, PlannedSerial

-----------------------------------------------------------------------------
(***************************************************************************)
(* The requests, which begin when nothing is in flight.                    *)
(***************************************************************************)
LEMMA StartSerial ==
    ASSUME Exclusive, TypeInv, OnceInv, SerialInv, NEW p \in Procs, StartRequest(p)
    PROVE  SerialInv'
<1>1. /\ UNCHANGED <<thread, contrib, cycle, deleg, moved, crashes>>
      /\ p \in Pool /\ Alone(p)
      /\ Calm => Settled(deleg, cycle, thread)
  BY NobodyElse, BeginsQuiet DEF StartRequest, files, counters
<1>2. thread.parts \in Parts
  BY DEF TypeInv, FilesType, MetaType
<1>3. CASE cycle = NoCycle
  <2> DEFINE r == [pc |-> "cycle", kind |-> "start", cycle |-> StartCycle(thread.phase),
                   parts |-> thread.parts]
  <2>1. Goto(p, r)
    BY <1>3 DEF StartRequest
  <2>2. AlonePoint(r, thread, contrib, deleg) /\ r.kind = "start" /\ r.pc = "cycle"
    BY DEF AlonePoint
  <2>3. AgreePoint(r, thread, cycle, deleg)
    BY DEF AgreePoint, StartCycle
  <2> HIDE DEF r
  <2>4. QED
    BY <1>1, <2>1, <2>2, <2>3, SerialRead
<1>4. CASE cycle # NoCycle
  <2> DEFINE said == contrib[cycle.phase]
             r == PlanFresh("start", cycle, thread.parts, said)
  <2>1. Goto(p, r)
    BY <1>4 DEF StartRequest
  <2>2. cycle \in CycleType
    BY <1>4 DEF TypeInv, FilesType
  <2>3. Carries(r, "start", thread, contrib, cycle, deleg)
    BY <1>2, <2>2, PlanFreshSerial
  <2>4. Calm => cycle.phase = thread.phase
    BY <1>1, <1>4 DEF Settled, Placed
  <2> HIDE DEF r
  <2>5. QED
    BY <1>1, <2>1, <2>3, <2>4, SerialRead DEF Carries
<1>5. QED
  BY <1>3, <1>4

\* delegate/respond.
LEMMA RespondSerial ==
    ASSUME Exclusive, TypeInv, OnceInv, SerialInv, NEW p \in Procs, NEW o,
           RespondRequest(p, o)
    PROVE  SerialInv'
<1> DEFINE next == Branch[deleg.phase][o]
           r == [pc |-> "advance", kind |-> "respond", next |-> next,
                 parts |-> DefaultParts(thread.parts, next), outcome |-> o,
                 cycle |-> cycle, repeats |-> FALSE, old |-> deleg]
<1>1. /\ UNCHANGED <<thread, contrib, cycle, deleg, moved, crashes>>
      /\ Alone(p)
      /\ Calm => Settled(deleg, cycle, thread)
  BY NobodyElse, BeginsQuiet DEF RespondRequest, files, counters
<1>2. Goto(p, r)
  BY DEF RespondRequest
<1>3. ~deleg.stopped
  BY DEF RespondRequest, SerialInv, AloneInv
<1>4. LeavesWell(r, thread, contrib)
  BY DEF LeavesWell, RespondRequest
<1>5. AlonePoint(r, thread, contrib, deleg) /\ r.kind = "respond" /\ r.pc = "advance"
  BY <1>3, <1>4 DEF AlonePoint
<1>6. Calm => AgreePoint(r, thread, cycle, deleg)
  BY <1>1 DEF AgreePoint
<1> HIDE DEF r
<1>7. QED
  BY <1>1, <1>2, <1>5, <1>6, SerialRead

\* delegate/wait, the stop of the CLI and a close.
LEMMA SmallSerial ==
    ASSUME Exclusive, TypeInv, OnceInv, SerialInv, NEW p \in Procs,
           WaitRequest(p) \/ StopRequest(p) \/ LoadForClose(p)
    PROVE  SerialInv'
<1>1. /\ UNCHANGED <<thread, contrib, cycle, deleg, moved, crashes>>
      /\ Alone(p)
      /\ Calm => Settled(deleg, cycle, thread)
  BY NobodyElse, BeginsQuiet DEF WaitRequest, StopRequest, LoadForClose, files, counters
<1>2. CASE WaitRequest(p)
  <2> DEFINE d == [deleg EXCEPT !.token = ResumeToken(deleg)]
             r == Saving("wait", d)
  <2>1. Goto(p, r)
    BY <1>2 DEF WaitRequest
  <2>2. deleg \in Made /\ deleg # NoDeleg
    BY <1>2 DEF WaitRequest, TypeInv, FilesType, NoDeleg
  <2>3. /\ d.status = deleg.status /\ d.stopped = deleg.stopped
        /\ d.phase = deleg.phase /\ d.index = deleg.index
    BY <2>2 DEF Made, MadeType
  <2> HIDE DEF d
  <2>4. r.pc = "save" /\ r.kind = "wait" /\ r.deleg = d
    BY DEF Saving
  <2> HIDE DEF r
  <2>5. SavesWell(r, thread, contrib, deleg)
    BY <2>3, <2>4 DEF SavesWell, SerialInv, AloneInv
  <2>6. AlonePoint(r, thread, contrib, deleg)
    BY <2>4, <2>5 DEF AlonePoint
  <2>7. Calm => AgreePoint(r, thread, cycle, deleg)
    BY <1>1, <2>2, <2>3, <2>4 DEF AgreePoint, Settled, Placed
  <2>8. QED
    BY <1>1, <2>1, <2>4, <2>6, <2>7, SerialRead
<1>3. CASE StopRequest(p)
  <2> DEFINE d == [deleg EXCEPT !.status = "completed", !.token = NoToken, !.stopped = TRUE]
             r == Saving("stop", d)
  <2>1. Goto(p, r)
    BY <1>3 DEF StopRequest
  <2>2. deleg \in Made /\ deleg # NoDeleg
    BY <1>3 DEF StopRequest, TypeInv, FilesType, NoDeleg
  <2>3. /\ d.status = "completed" /\ d.stopped
        /\ d.phase = deleg.phase /\ d.index = deleg.index
    BY <2>2 DEF Made, MadeType
  <2> HIDE DEF d
  <2>4. r.pc = "save" /\ r.kind = "stop" /\ r.deleg = d
    BY DEF Saving
  <2> HIDE DEF r
  <2>5. SavesWell(r, thread, contrib, deleg)
    BY <2>3, <2>4 DEF SavesWell
  <2>6. AlonePoint(r, thread, contrib, deleg)
    BY <2>4, <2>5 DEF AlonePoint
  <2>7. Calm => AgreePoint(r, thread, cycle, deleg)
    BY <1>1, <2>2, <2>3, <2>4 DEF AgreePoint, Settled, Placed
  <2>8. QED
    BY <1>1, <2>1, <2>4, <2>6, <2>7, SerialRead
<1>4. CASE LoadForClose(p)
  <2> DEFINE meta == [thread EXCEPT !.status = "completed"]
             r == [pc |-> "close", kind |-> "close", meta |-> meta]
  <2>1. Goto(p, r) /\ thread.status = "active"
    BY <1>4 DEF LoadForClose
  <2>2. meta.phase = thread.phase
    BY DEF TypeInv, FilesType, MetaType
  <2> HIDE DEF meta
  <2>3. r.pc = "close" /\ r.kind = "close" /\ r.meta = meta
    OBVIOUS
  <2> HIDE DEF r
  <2>4. AlonePoint(r, thread, contrib, deleg)
    BY <2>1, <2>2, <2>3 DEF AlonePoint
  <2>5. Calm => AgreePoint(r, thread, cycle, deleg)
    BY <1>1, <2>3 DEF AgreePoint
  <2>6. QED
    BY <1>1, <2>1, <2>3, <2>4, <2>5, SerialRead
<1>5. QED
  BY <1>2, <1>3, <1>4

\* The continuation's reads.
LEMMA AnswerSerial ==
    ASSUME Exclusive, TypeInv, OnceInv, SerialInv, NEW a, NEW q, AnswerRequest(a, q)
    PROVE  SerialInv'
<1> DEFINE r == [pc |-> "contribute", kind |-> "continue", agent |-> a, quality |-> q,
                 parts |-> thread.parts, cycle |-> cycle, old |-> deleg, result |-> inputs']
<1>0. Loop \in Procs
  BY DEF Procs
<1>1. /\ UNCHANGED <<thread, contrib, cycle, deleg, moved, crashes>>
      /\ Alone(Loop) /\ Goto(Loop, r)
      /\ Calm => Settled(deleg, cycle, thread)
  BY <1>0, NobodyElse, BeginsQuiet DEF AnswerRequest, files
<1>2. ~deleg.stopped
  BY DEF AnswerRequest, SerialInv, AloneInv
<1>3. AlonePoint(r, thread, contrib, deleg) /\ r.kind = "continue" /\ r.pc = "contribute"
  BY <1>2 DEF AlonePoint
<1>4. Calm => AgreePoint(r, thread, cycle, deleg)
  BY <1>1 DEF AgreePoint
<1> HIDE DEF r
<1>5. QED
  BY <1>0, <1>1, <1>3, <1>4, SerialRead

-----------------------------------------------------------------------------
(***************************************************************************)
(* The steps of the one request in flight.                                 *)
(***************************************************************************)
LEMMA BusyFacts ==
    ASSUME Exclusive, TypeInv, OnceInv, SerialInv, NEW p \in Procs, proc[p].pc # "idle"
    PROVE  /\ Alone(p) /\ proc[p] \in PointType
           /\ AlonePoint(proc[p], thread, contrib, deleg)
           /\ proc[p].kind = "start" => p \in Pool
           /\ Calm => AgreePoint(proc[p], thread, cycle, deleg)
BY NobodyElse DEF TypeInv, SerialInv, AloneInv, AgreeInv

\* The contribution and the judgement of its phase.
LEMMA ContributeSerial ==
    ASSUME Exclusive, TypeInv, OnceInv, SerialInv, Contribute
    PROVE  SerialInv'
<1> DEFINE s == proc[Loop]
           ph == s.old.phase
           a == Assignment(ph, s.parts, contrib'[ph], s.cycle, FALSE, 0)
           blocked == [s.old EXCEPT !.status = "blocked", !.result = s.result, !.stopped = FALSE]
           judged == ContinuedState(s.old, a, ph, s.cycle.index, s.result)
           on == [pc |-> "advance", kind |-> "continue", next |-> Following(ph),
                  parts |-> DefaultParts(s.parts, Following(ph)),
                  cycle |-> s.cycle, old |-> s.old, result |-> s.result]
<1>0. Loop \in Procs /\ s.pc = "contribute"
  BY DEF Procs, Contribute
<1>1. /\ Alone(Loop) /\ s \in AnswerType
      /\ AlonePoint(s, thread, contrib, deleg)
      /\ Calm => AgreePoint(s, thread, cycle, deleg)
  BY <1>0, BusyFacts, PointByPc
<1>2. /\ s.kind = "continue" /\ s.parts \in Parts /\ s.old \in Made
      /\ s.cycle \in CycleType /\ s.cycle.index \in Nat /\ s.result \in Nat
  BY <1>1 DEF AnswerType, CycleType
<1>3. ~deleg.stopped /\ s.parts = thread.parts
  BY <1>0, <1>1, <1>2 DEF AlonePoint
<1>4. /\ Calm => Settled(deleg, cycle, thread) /\ s.cycle = cycle /\ s.old = deleg
      /\ Calm => Placed(s.old, cycle, thread)
  <2>1. Calm => Settled(deleg, cycle, thread) /\ s.cycle = cycle /\ s.old = deleg
    BY <1>0, <1>1 DEF AgreePoint
  <2>2. s.old # NoDeleg
    BY <1>2 DEF Made, MadeType, Statuses, NoDeleg
  <2>3. QED
    BY <2>1, <2>2 DEF Settled
<1>5. ph \in PhaseSet
  BY <1>2, MadeFields
<1>6. UNCHANGED <<thread, cycle, deleg, moved, crashes>>
  BY DEF Contribute, counters
<1>7. Judges(a, ph, s.parts, contrib'[ph])
  <2> HIDE DEF s, ph
  <2> QED BY <1>2, <1>5, VerdictType
<1>8. \/ Goto(Loop, Saving("continue", blocked))
      \/ Goto(Loop, on) /\ a.action = "advance_phase"
      \/ Goto(Loop, Saving("continue", judged))
  BY DEF Contribute
<1>9. s.old.phase = ph
  OBVIOUS
<1> HIDE DEF s, ph, a
<1>10. /\ blocked.status = "blocked" /\ ~blocked.stopped
       /\ blocked.phase = s.old.phase /\ blocked.index = s.old.index
  BY <1>2 DEF Made, MadeType
<1>11. /\ judged.status = a.status /\ ~judged.stopped
       /\ judged.phase = ph /\ judged.index = s.cycle.index
  BY <1>2 DEF ContinuedState, Made, MadeType
<1> HIDE DEF blocked, judged
<1>12. /\ SavesWell(Saving("continue", blocked), thread, contrib', deleg)
       /\ SavesWell(Saving("continue", judged), thread, contrib', deleg)
  BY <1>3, <1>7, <1>10, <1>11 DEF SavesWell, Saving, Judges, Ready
<1>13. \A d : SavesWell(Saving("continue", d), thread, contrib', deleg)
              => AlonePoint(Saving("continue", d), thread, contrib', deleg)
  BY <1>3 DEF AlonePoint, Saving
<1>14. Calm => Placed(blocked, cycle, thread) /\ Placed(judged, cycle, thread)
  BY <1>4, <1>9, <1>10, <1>11 DEF Placed
<1>15. \A d : Placed(d, cycle, thread) => AgreePoint(Saving("continue", d), thread, cycle, deleg)
  BY DEF AgreePoint, Saving
<1>16. ASSUME a.action = "advance_phase"
       PROVE  AlonePoint(on, thread, contrib', deleg) /\ (Calm => AgreePoint(on, thread, cycle, deleg))
  <2>1. LeavesWell(on, thread, contrib')
    BY <1>3, <1>7, <1>9, <1>16 DEF LeavesWell, Judges
  <2>2. AlonePoint(on, thread, contrib', deleg)
    BY <1>3, <2>1 DEF AlonePoint
  <2>3. Calm => AgreePoint(on, thread, cycle, deleg)
    BY <1>4 DEF AgreePoint
  <2>4. QED
    BY <2>2, <2>3
<1>17. /\ \A d : Saving("continue", d).kind = "continue" /\ Saving("continue", d).pc = "save"
       /\ on.kind = "continue" /\ on.pc = "advance"
  BY DEF Saving
<1> HIDE DEF on
<1>18. PICK r : /\ Goto(Loop, r) /\ r.kind = "continue" /\ r.pc # "idle"
                /\ AlonePoint(r, thread, contrib', deleg)
                /\ Calm => AgreePoint(r, thread, cycle, deleg)
  BY <1>8, <1>12, <1>13, <1>14, <1>15, <1>16, <1>17
<1>19. /\ AlonePoint(r, thread', contrib', deleg')
       /\ Calm' => AgreePoint(r, thread', cycle', deleg')
       /\ deleg'.stopped => deleg'.status = "completed"
  BY <1>3, <1>6, <1>18 DEF Calm
<1>20. QED
  BY <1>0, <1>1, <1>18, <1>19, SerialMove

\* The load of the meta, refused on a closed thread.
LEMMA LoadSerial ==
    ASSUME Exclusive, TypeInv, OnceInv, SerialInv, NEW p \in Procs, LoadMeta(p)
    PROVE  SerialInv'
<1> DEFINE s == proc[p]
           r == [s EXCEPT !.pc = "meta"]
<1>0. s.pc = "advance"
  BY DEF LoadMeta
<1>1. /\ Alone(p) /\ s \in CarryType \cup RespondType
      /\ AlonePoint(s, thread, contrib, deleg)
      /\ Calm => AgreePoint(s, thread, cycle, deleg)
  BY <1>0, BusyFacts, PointByPc
<1>2. UNCHANGED <<thread, contrib, cycle, deleg, moved, crashes>>
  BY DEF LoadMeta, files, counters
<1>3. \/ Goto(p, Idle)
      \/ Goto(p, r) /\ thread.status = "active"
  BY DEF LoadMeta
<1> HIDE DEF s
<1>4. /\ r.pc = "meta" /\ r.kind = s.kind /\ r.kind # "start" /\ r.old = s.old
      /\ r.next = s.next /\ r.cycle = s.cycle
      /\ s.kind = "respond" => r.outcome = s.outcome
  BY <1>1 DEF CarryType, RespondType
<1> HIDE DEF r
<1>5. LeavesWell(s, thread, contrib) /\ (s.kind \in {"respond", "continue"} => ~deleg.stopped)
  BY <1>0, <1>1 DEF AlonePoint
<1>6. LeavesWell(r, thread, contrib)
  BY <1>4, <1>5 DEF LeavesWell
<1>7. thread.status = "active" => AlonePoint(r, thread, contrib, deleg)
  BY <1>4, <1>5, <1>6 DEF AlonePoint
<1>8. /\ Calm => AgreePoint(r, thread, cycle, deleg)
      /\ Calm => Settled(deleg, cycle, thread)
  BY <1>0, <1>1, <1>4 DEF AgreePoint
<1>9. QED
  BY <1>1, <1>2, <1>3, <1>4, <1>7, <1>8, IdleSerial, SerialRead

\* An outcome's cycle is in the outcome's phase.
LEMMA AdvanceCyclePhase ==
    ASSUME NEW cyc \in CycleType, NEW o \in DOMAIN Branch[cyc.phase]
    PROVE  AdvanceCycle(cyc, o).phase = Branch[cyc.phase][o]
<1>1. CASE Branch[cyc.phase][o] = cyc.phase
  <2>1. AdvanceCycle(cyc, o) = [cyc EXCEPT !.index = @ + 1, !.status = "active"]
    BY <1>1 DEF AdvanceCycle
  <2>2. [cyc EXCEPT !.index = @ + 1, !.status = "active"].phase = cyc.phase
    BY DEF CycleType
  <2>3. QED
    BY <1>1, <2>1, <2>2
<1>2. CASE Branch[cyc.phase][o] # cyc.phase
  BY <1>2 DEF AdvanceCycle, StartCycle
<1>3. QED
  BY <1>1, <1>2

\* The write of the meta: the thread is in the phase of the cycle to come.
LEMMA StoreSerial ==
    ASSUME Exclusive, TypeInv, OnceInv, SerialInv, NEW p \in Procs, StoreMeta(p)
    PROVE  SerialInv'
<1> DEFINE s == proc[p]
           next == AdvanceCycle(s.cycle, s.outcome)
           repeats == next.phase = s.old.phase /\ next.index > s.cycle.index
           responds == [s EXCEPT !.pc = "cycle", !.cycle = next, !.repeats = repeats]
           continues == [s EXCEPT !.pc = "cycle", !.cycle = StartCycle(s.next)]
<1>0. s.pc = "meta"
  BY DEF StoreMeta
<1>1. /\ Alone(p) /\ s \in CarryType \cup RespondType
      /\ AlonePoint(s, thread, contrib, deleg)
      /\ Calm => AgreePoint(s, thread, cycle, deleg)
  BY <1>0, BusyFacts, PointByPc
<1>2. UNCHANGED <<contrib, cycle, deleg, moved, crashes>>
  BY DEF StoreMeta, counters
<1>3. thread' = [status |-> "active", phase |-> s.next, parts |-> s.parts]
  BY DEF StoreMeta
<1>4. \/ s.kind = "respond" /\ s.outcome \notin ValidOutcomes(s.cycle.phase) /\ Goto(p, Idle)
      \/ s.kind = "respond" /\ Goto(p, responds)
      \/ s.kind # "respond" /\ Goto(p, continues)
  BY DEF StoreMeta
<1> HIDE DEF s
<1>5. /\ s.kind \in {"respond", "continue"} /\ s.old \in Made /\ s.cycle \in CycleType
      /\ s.kind = "respond" => s \in RespondType
      /\ s.kind = "continue" => s \in CarryType
  BY <1>1 DEF CarryType, RespondType
<1>6. LeavesWell(s, thread, contrib) /\ ~deleg.stopped
  BY <1>0, <1>1, <1>5 DEF AlonePoint
<1>7. Calm => s.cycle.phase = s.old.phase
  <2>1. Calm => s.cycle = cycle /\ s.old = deleg /\ Settled(deleg, cycle, thread)
    BY <1>0, <1>1 DEF AgreePoint
  <2>2. s.old # NoDeleg
    BY <1>5 DEF Made, MadeType, Statuses, NoDeleg
  <2>3. QED
    BY <2>1, <2>2 DEF Settled, Placed
<1>8. Calm /\ s.kind = "respond" =>
        /\ s.outcome \in ValidOutcomes(s.cycle.phase)
        /\ next.phase = s.next
  BY <1>5, <1>6, <1>7, AdvanceCyclePhase DEF LeavesWell, Applicable
<1> HIDE DEF next, repeats
<1>9. s.kind = "respond" =>
        /\ responds.pc = "cycle" /\ responds.kind = "respond"
        /\ responds.parts = s.parts /\ responds.cycle = next
  BY <1>5 DEF RespondType
<1>10. s.kind = "continue" =>
        /\ continues.pc = "cycle" /\ continues.kind = "continue"
        /\ continues.parts = s.parts /\ continues.cycle = StartCycle(s.next)
  BY <1>5 DEF CarryType
<1> HIDE DEF responds, continues
<1>11. thread'.parts = s.parts /\ thread'.phase = s.next /\ (Calm' => Calm)
  BY <1>2, <1>3 DEF Calm
<1>12. CASE Goto(p, Idle) /\ ~Calm
  <2>1. deleg'.stopped => deleg'.status = "completed"
    BY <1>2, <1>6
  <2>2. QED
    BY <1>1, <1>11, <1>12, <2>1, IdleSerial, SerialMove
<1>13. ASSUME NEW r, Goto(p, r), r.pc = "cycle", r.kind = s.kind, r.parts = s.parts,
              Calm => r.cycle.phase = s.next
       PROVE  SerialInv'
  <2>1. AlonePoint(r, thread', contrib', deleg')
    BY <1>2, <1>6, <1>11, <1>13 DEF AlonePoint
  <2>2. Calm' => AgreePoint(r, thread', cycle', deleg')
    BY <1>11, <1>13 DEF AgreePoint
  <2>3. deleg'.stopped => deleg'.status = "completed"
    BY <1>2, <1>6
  <2>4. r.kind # "start" /\ r.pc # "idle"
    BY <1>5, <1>13
  <2>5. QED
    BY <1>1, <1>13, <2>1, <2>2, <2>3, <2>4, SerialMove
<1>14. CASE s.kind = "respond" /\ Goto(p, responds)
  BY <1>8, <1>9, <1>13, <1>14
<1>15. CASE s.kind = "continue" /\ Goto(p, continues)
  <2>1. StartCycle(s.next).phase = s.next
    BY DEF StartCycle
  <2>2. QED
    BY <1>10, <1>13, <1>15, <2>1
<1>16. QED
  BY <1>4, <1>5, <1>8, <1>12, <1>14, <1>15

\* The write of the cycle, and the plan that follows.
LEMMA CycleSerial ==
    ASSUME Exclusive, TypeInv, OnceInv, SerialInv, NEW p \in Procs, NEW sick \in BOOLEAN,
           WriteCycle(p, sick)
    PROVE  SerialInv'
<1> DEFINE s == proc[p]
           said == IF s.kind = "respond" /\ s.repeats THEN Nobody ELSE contrib[s.cycle.phase]
           again == PlanContinue(s.old, s.cycle, s.parts, s.result, sick)
           fresh == PlanFresh(s.kind, s.cycle, s.parts, said)
<1>0. s.pc = "cycle"
  BY DEF WriteCycle
<1>1. /\ Alone(p) /\ s \in StartType \cup CarryType \cup RespondType
      /\ AlonePoint(s, thread, contrib, deleg)
      /\ s.kind = "start" => p \in Pool
      /\ Calm => AgreePoint(s, thread, cycle, deleg)
  BY <1>0, BusyFacts, PointByPc
<1>2. UNCHANGED <<thread, contrib, deleg, moved, crashes>> /\ cycle' = s.cycle
  BY DEF WriteCycle, counters
<1>3. \/ s.kind = "continue" /\ Goto(p, again)
      \/ s.kind # "continue" /\ Goto(p, fresh)
  BY DEF WriteCycle
<1> HIDE DEF s
<1>4. /\ s.cycle \in CycleType /\ s.parts \in Parts
      /\ s.kind \in {"start", "continue", "respond"}
  BY <1>1 DEF StartType, CarryType, RespondType
<1>5. /\ s.parts = thread.parts
      /\ s.kind \in {"respond", "continue"} => ~deleg.stopped
      /\ Calm => s.cycle.phase = thread.phase
  BY <1>0, <1>1 DEF AlonePoint, AgreePoint
<1>6. Passed(s.cycle.phase, s.parts, said) => Passed(s.cycle.phase, s.parts, contrib[s.cycle.phase])
  BY <1>4, PassedByNobody
<1>7. s.kind = "continue" => Carries(again, s.kind, thread, contrib, s.cycle, deleg)
  <2>1. s.kind = "continue" => s.old \in Made /\ s.result \in Nat
    BY <1>1 DEF StartType, CarryType, RespondType
  <2>2. QED
    BY <1>4, <1>5, <2>1, PlanContinueSerial
<1> HIDE DEF said
<1>8. s.kind # "continue" => Carries(fresh, s.kind, thread, contrib, s.cycle, deleg)
  BY <1>4, <1>5, <1>6, PlanFreshSerial
<1> HIDE DEF again, fresh
<1>9. PICK r : Goto(p, r) /\ Carries(r, s.kind, thread, contrib, s.cycle, deleg)
  BY <1>3, <1>7, <1>8
<1>10. /\ AlonePoint(r, thread', contrib', deleg')
       /\ deleg'.stopped => deleg'.status = "completed"
       /\ Calm' => AgreePoint(r, thread', cycle', deleg')
       /\ r.kind = s.kind /\ r.pc # "idle"
  BY <1>2, <1>5, <1>9 DEF Carries, SerialInv, AloneInv, Calm
<1>11. QED
  BY <1>1, <1>9, <1>10, SerialMove

\* The message, the state and the close.
LEMMA WriteSerial ==
    ASSUME Exclusive, TypeInv, OnceInv, SerialInv, NEW p \in Procs,
           Send(p) \/ Save(p) \/ Close(p)
    PROVE  SerialInv'
<1> DEFINE s == proc[p]
<1>0. s.pc \in {"send", "save", "close"}
  BY DEF Send, Save, Close
<1>1. /\ Alone(p) /\ s \in PointType
      /\ AlonePoint(s, thread, contrib, deleg)
      /\ s.kind = "start" => p \in Pool
      /\ Calm => AgreePoint(s, thread, cycle, deleg)
  BY <1>0, BusyFacts
<1>2. UNCHANGED <<contrib, cycle, moved, crashes>> /\ (Calm' => Calm)
  BY DEF Send, Save, Close, counters, Calm
<1>3. CASE Send(p)
  <2>1. s.pc = "send" /\ UNCHANGED <<thread, deleg>>
    BY <1>3 DEF Send
  <2>2. \/ Goto(p, Saving(s.kind, s.deleg))
        \/ Goto(p, Saving(s.kind, s.otherwise))
    BY <1>3 DEF Send
  <2> HIDE DEF s
  <2>3. SendsWell(s) /\ (s.kind \in {"respond", "continue"} => ~deleg.stopped)
    BY <1>1, <2>1 DEF AlonePoint
  <2>4. ASSUME NEW d \in {s.deleg, s.otherwise}, Goto(p, Saving(s.kind, d))
        PROVE  SerialInv'
    <3> DEFINE r == Saving(s.kind, d)
    <3>1. r.pc = "save" /\ r.kind = s.kind /\ r.deleg = d
      BY DEF Saving
    <3> HIDE DEF r
    <3>2. SavesWell(r, thread, contrib, deleg)
      BY <2>3, <3>1 DEF SavesWell, SendsWell
    <3>3. AlonePoint(r, thread, contrib, deleg)
      BY <2>3, <3>1, <3>2 DEF AlonePoint
    <3>4. Calm => AgreePoint(r, thread, cycle, deleg)
      BY <1>1, <2>1, <3>1 DEF AgreePoint
    <3>5. Goto(p, r)
      BY <2>4 DEF r
    <3>6. QED
      BY <1>1, <1>2, <2>1, <3>1, <3>3, <3>4, <3>5, SerialRead
  <2>5. QED
    BY <2>2, <2>4
<1>4. CASE Save(p)
  <2>1. s.pc = "save" /\ UNCHANGED thread /\ deleg' = s.deleg /\ Goto(p, Idle)
    BY <1>4 DEF Save
  <2>2. s.deleg \in Made
    BY <1>1, <2>1, PointByPc DEF SaveType
  <2> HIDE DEF s
  <2>3. deleg'.stopped => deleg'.status = "completed"
    BY <1>1, <2>1 DEF AlonePoint, SavesWell
  <2>4. deleg' # NoDeleg
    BY <2>1, <2>2 DEF Made, MadeType, Statuses, NoDeleg
  <2>5. Calm' => Settled(deleg', cycle', thread')
    BY <1>1, <1>2, <2>1, <2>4 DEF AgreePoint, Settled
  <2>6. QED
    BY <1>1, <2>1, <2>3, <2>5, IdleSerial, SerialMove
<1>5. CASE Close(p)
  <2>1. s.pc = "close" /\ UNCHANGED deleg /\ thread' = s.meta /\ Goto(p, Idle)
    BY <1>5 DEF Close
  <2> HIDE DEF s
  <2>2. thread'.phase = thread.phase
    BY <1>1, <2>1 DEF AlonePoint
  <2>3. Calm' => Settled(deleg', cycle', thread')
    BY <1>1, <1>2, <2>1, <2>2 DEF AgreePoint, Settled, Placed
  <2>4. deleg'.stopped => deleg'.status = "completed"
    BY <2>1 DEF SerialInv, AloneInv
  <2>5. QED
    BY <1>1, <2>1, <2>3, <2>4, IdleSerial, SerialMove
<1>6. QED
  BY <1>3, <1>4, <1>5

\* Contributions and moves by hand, and a crash.
LEMMA OtherSerial ==
    ASSUME Exclusive, TypeInv, SerialInv,
           \/ \E a \in Agents, q \in {"short", "full"} : ContributeByHand(a, q)
           \/ \E ph \in PhaseSet : AdvanceByHand(ph)
           \/ Crash
    PROVE  SerialInv'
<1>1. UNCHANGED <<cycle, deleg>> /\ \A q \in Procs : proc'[q] = Idle
  <2>1. CASE Crash
    BY <2>1 DEF Crash, files
  <2>2. CASE MayBegin(Loop) /\ UNCHANGED <<cycle, deleg, proc>>
    <3>1. ASSUME NEW q \in Procs PROVE proc[q] = Idle
      <4>1. proc[q] \in PointType /\ proc[q].pc = "idle"
        BY <2>2 DEF MayBegin, TypeInv
      <4>2. QED
        BY <4>1, PointByPc
    <3>2. QED
      BY <2>2, <3>1
  <2>3. QED
    BY <2>1, <2>2 DEF ContributeByHand, AdvanceByHand
<1>2. AloneInv'
  BY <1>1, IdleSerial DEF AloneInv, SerialInv
<1>3. Calm' => Calm /\ Quiet /\ UNCHANGED thread
  <2>1. moved \in Nat /\ crashes \in Nat
    BY DEF TypeInv, FilesType
  <2>2. CASE Crash
    <3>1. crashes' = crashes + 1
      BY <2>2 DEF Crash
    <3>2. QED
      BY <2>1, <3>1 DEF Calm
  <2>3. CASE \E ph \in PhaseSet : AdvanceByHand(ph)
    <3>1. moved' = moved + 1
      BY <2>3 DEF AdvanceByHand
    <3>2. QED
      BY <2>1, <3>1 DEF Calm
  <2>4. CASE \E a \in Agents, q \in {"short", "full"} : ContributeByHand(a, q)
    BY <2>4 DEF ContributeByHand, MayBegin, Calm, Quiet
  <2>5. QED
    BY <2>2, <2>3, <2>4
<1>4. AgreeInv'
  <2>1. Calm' => Settled(deleg', cycle', thread')
    BY <1>1, <1>3 DEF SerialInv, AgreeInv
  <2>2. QED
    BY <1>1, <2>1, IdleSerial DEF AgreeInv
<1>5. QED
  BY <1>2, <1>4 DEF SerialInv

\* It holds at the start.
LEMMA SerialInit == Init => SerialInv
<1> SUFFICES ASSUME Init PROVE SerialInv
  OBVIOUS
<1>1. /\ \A q \in Procs : proc[q] = Idle
      /\ deleg = NoDeleg /\ cycle = NoCycle /\ deleg.status = "absent" /\ ~deleg.stopped
  BY DEF Init, NoDeleg
<1>2. QED
  BY <1>1, IdleSerial DEF SerialInv, AloneInv, AgreeInv, Settled

\* Every step keeps it when requests do not overlap.
LEMMA SerialNext ==
    Exclusive /\ TypeInv /\ OnceInv /\ SerialInv /\ [Next]_vars => SerialInv'
<1> SUFFICES ASSUME Exclusive, TypeInv, OnceInv, SerialInv, [Next]_vars PROVE SerialInv'
  OBVIOUS
<1>1. ASSUME NEW p \in Procs, Request(p) PROVE SerialInv'
  BY <1>1, StartSerial, RespondSerial, SmallSerial DEF Request
<1>2. ASSUME NEW p \in Procs, Step(p) PROVE SerialInv'
  BY <1>2, LoadSerial, StoreSerial, CycleSerial, WriteSerial DEF Step
<1>3. CASE ByLoop
  BY <1>3, ContributeSerial, AnswerSerial, OtherSerial DEF ByLoop
<1>4. CASE Crash
  BY <1>4, OtherSerial
<1>5. CASE UNCHANGED vars
  <2>1. UNCHANGED <<thread, contrib, cycle, deleg, proc, moved, crashes>>
    BY <1>5 DEF vars, files, counters
  <2>2. QED
    BY <2>1 DEF SerialInv, AloneInv, AgreeInv, Calm, Quiet
<1>6. QED
  BY <1>1, <1>2, <1>3, <1>4, <1>5 DEF Next

WholeInv == TypeInv /\ OnceInv /\ SerialInv

\* All of it together, from the first state on.
LEMMA WholeIsInvariant ==
    ASSUME Exclusive
    PROVE  Spec => []WholeInv
<1>1. Init => WholeInv
  BY TypeInit, OnceInit, SerialInit DEF WholeInv
<1>2. WholeInv /\ [Next]_vars => WholeInv'
  BY TypeNext, OnceStep, SerialNext DEF WholeInv
<1>3. QED
  BY <1>1, <1>2, PTL DEF Spec

-----------------------------------------------------------------------------
(***************************************************************************)
(* Between requests the thread, its cycle and its delegation are in the    *)
(* same phase and cycle, until somebody moves the thread by hand or        *)
(* everything is killed.                                                   *)
(***************************************************************************)
THEOREM FilesAgree ==
    ASSUME Exclusive
    PROVE  Spec => []StoresAgree
<1>1. WholeInv => StoresAgree
  <2> SUFFICES ASSUME WholeInv, Quiet, Calm, deleg.status # "absent"
               PROVE  Placed(deleg, cycle, thread)
    BY DEF StoresAgree, Calm, Placed
  <2>1. deleg # NoDeleg
    BY DEF NoDeleg
  <2>2. QED
    BY <2>1 DEF WholeInv, SerialInv, AgreeInv, Settled
<1>2. QED
  BY <1>1, WholeIsInvariant, PTL

-----------------------------------------------------------------------------
(***************************************************************************)
(* Which steps write the thread, the contributions, the state and the      *)
(* messages.                                                               *)
(***************************************************************************)
Writes(p) == StoreMeta(p) \/ Send(p) \/ Save(p) \/ Close(p)

\* A step of a writer, of the loop, of a person, or none of them changes.
LEMMA WhoWrites ==
    ASSUME [Next]_vars
    PROVE  \/ UNCHANGED <<thread, contrib, deleg, sent>>
           \/ \E p \in Procs : Writes(p)
           \/ Contribute
           \/ \E a \in Agents, q \in {"short", "full"} : ContributeByHand(a, q)
           \/ \E ph \in PhaseSet : AdvanceByHand(ph)
<1>1. ASSUME NEW p \in Procs, Request(p) PROVE UNCHANGED <<thread, contrib, deleg, sent>>
  BY <1>1 DEF Request, StartRequest, WaitRequest, StopRequest, LoadForClose, RespondRequest, files
<1>2. ASSUME NEW p \in Procs, Step(p)
      PROVE  UNCHANGED <<thread, contrib, deleg, sent>> \/ Writes(p)
  BY <1>2 DEF Step, LoadMeta, WriteCycle, Writes, files
<1>3. CASE ByLoop
  BY <1>3 DEF ByLoop, AnswerRequest, files
<1>4. CASE Crash \/ UNCHANGED vars
  BY <1>4 DEF Crash, vars, files
<1>5. QED
  BY <1>1, <1>2, <1>3, <1>4 DEF Next

\* What a writer carries.
LEMMA WriterFacts ==
    ASSUME Exclusive, WholeInv, NEW p \in Procs, Writes(p)
    PROVE  /\ proc[p] \in PointType
           /\ AlonePoint(proc[p], thread, contrib, deleg)
           /\ proc[p].kind = "start" => p \in Pool
           /\ Calm => AgreePoint(proc[p], thread, cycle, deleg)
<1>1. proc[p].pc # "idle"
  BY DEF Writes, StoreMeta, Send, Save, Close
<1>2. QED
  BY <1>1, BusyFacts DEF WholeInv

(***************************************************************************)
(* A closed thread stays closed, and gets no more phases, contributions or *)
(* dispatches: every handler that writes it has looked, and nobody closed  *)
(* it in between.                                                          *)
(***************************************************************************)
FrozenStep == thread.status # "active" => UNCHANGED <<thread, contrib, sent>>

\* No step writes the thread of a status other than active.
LEMMA Freezes == Exclusive /\ WholeInv /\ [Next]_vars => FrozenStep
<1> SUFFICES ASSUME Exclusive, WholeInv, [Next]_vars, thread.status # "active"
             PROVE  UNCHANGED <<thread, contrib, sent>>
  BY DEF FrozenStep
<1>1. ASSUME NEW p \in Procs, Writes(p) PROVE UNCHANGED <<thread, contrib, sent>>
  <2>1. ~StoreMeta(p) /\ ~Close(p)
    BY <1>1, WriterFacts DEF StoreMeta, Close, AlonePoint
  <2>2. QED
    BY <1>1, <2>1 DEF Writes, Send, Save
<1>2. QED
  BY <1>1, WhoWrites DEF Contribute, ContributeByHand, AdvanceByHand

\* As a theorem.
THEOREM ClosedStays ==
    ASSUME Exclusive
    PROVE  Spec => ClosedFrozen
<1>1. WholeInv /\ [Next]_vars => [FrozenStep]_vars
  BY Freezes
<1>2. QED
  BY <1>1, WholeIsInvariant, PTL DEF Spec, ClosedFrozen, FrozenStep

(***************************************************************************)
(* A stopped delegation stays stopped until it is started again: whoever   *)
(* answers or responds has found it running or waiting, and is alone until *)
(* it saves.                                                               *)
(***************************************************************************)
StopStep == deleg.stopped /\ ~deleg'.stopped => \E p \in Pool : proc[p].kind = "start"

\* Only a save of a start request takes the stop back.
LEMMA Sticks == Exclusive /\ WholeInv /\ [Next]_vars => StopStep
<1> SUFFICES ASSUME Exclusive, WholeInv, [Next]_vars, deleg.stopped, ~deleg'.stopped
             PROVE  \E p \in Pool : proc[p].kind = "start"
  BY DEF StopStep
<1>1. PICK p \in Procs : Save(p)
  BY WhoWrites DEF Writes, StoreMeta, Send, Close, Contribute, ContributeByHand, AdvanceByHand
<1>2. proc[p].pc = "save" /\ deleg' = proc[p].deleg
  BY <1>1 DEF Save
<1>3. /\ proc[p] \in PointType
      /\ AlonePoint(proc[p], thread, contrib, deleg)
      /\ proc[p].kind = "start" => p \in Pool
  BY <1>1, WriterFacts DEF Writes
<1>4. proc[p].kind \in Kinds
  BY <1>2, <1>3, PointByPc DEF SaveType
<1>5. proc[p].kind \notin {"stop", "wait", "respond", "continue"}
  BY <1>2, <1>3 DEF AlonePoint, SavesWell
<1>6. QED
  BY <1>3, <1>4, <1>5 DEF Kinds

\* As a theorem.
THEOREM StopStays ==
    ASSUME Exclusive
    PROVE  Spec => StopSticks
<1>1. WholeInv /\ [Next]_vars => [StopStep]_vars
  BY Sticks
<1>2. QED
  BY <1>1, WholeIsInvariant, PTL DEF Spec, StopSticks, StopStep

(***************************************************************************)
(* A person is asked only when everybody has contributed, and a thread     *)
(* leaves a phase only when everybody has and along the protocol.          *)
(***************************************************************************)
AskStep ==
    deleg.status # "waiting_for_human" /\ deleg'.status = "waiting_for_human" =>
        /\ Passed(deleg'.phase, thread.parts, contrib[deleg'.phase])
        /\ ValidOutcomes(deleg'.phase) # {}

LeaveStep ==
    moved' = 0 /\ crashes' = 0 /\ thread'.phase # thread.phase =>
        /\ Passed(thread.phase, thread.parts, contrib[thread.phase])
        /\ \/ thread'.phase = Following(thread.phase) /\ ValidOutcomes(thread.phase) = {}
           \/ \E o \in ValidOutcomes(thread.phase) \cap DOMAIN Branch[thread.phase] :
                    thread'.phase = Branch[thread.phase][o]

\* Only a save makes a delegation wait for a person, and it has counted.
LEMMA Asks == Exclusive /\ WholeInv /\ [Next]_vars => AskStep
<1> SUFFICES ASSUME Exclusive, WholeInv, [Next]_vars, deleg.status # "waiting_for_human",
                    deleg'.status = "waiting_for_human"
             PROVE  Ready(deleg'.phase, thread.parts, contrib[deleg'.phase])
  BY DEF AskStep, Ready
<1>1. PICK p \in Procs : Save(p)
  BY WhoWrites DEF Writes, StoreMeta, Send, Close, Contribute, ContributeByHand, AdvanceByHand
<1>2. proc[p].pc = "save" /\ deleg' = proc[p].deleg
  BY <1>1 DEF Save
<1>3. SavesWell(proc[p], thread, contrib, deleg)
  BY <1>1, <1>2, WriterFacts DEF Writes, AlonePoint
<1>4. QED
  BY <1>2, <1>3 DEF SavesWell

\* The write of the meta, the only step that leaves a phase on its own.
LEMMA Leaves == Exclusive /\ WholeInv /\ [Next]_vars => LeaveStep
<1> SUFFICES ASSUME Exclusive, WholeInv, [Next]_vars, moved' = 0, crashes' = 0,
                    thread'.phase # thread.phase
             PROVE  /\ Passed(thread.phase, thread.parts, contrib[thread.phase])
                    /\ \/ thread'.phase = Following(thread.phase) /\ ValidOutcomes(thread.phase) = {}
                       \/ \E o \in ValidOutcomes(thread.phase) \cap DOMAIN Branch[thread.phase] :
                                thread'.phase = Branch[thread.phase][o]
  BY DEF LeaveStep
<1>1. ~(\E ph \in PhaseSet : AdvanceByHand(ph))
  <2>1. moved \in Nat
    BY DEF WholeInv, TypeInv, FilesType
  <2>2. ASSUME NEW ph \in PhaseSet, AdvanceByHand(ph) PROVE moved' = moved + 1
    BY <2>2 DEF AdvanceByHand
  <2>3. QED
    BY <2>1, <2>2
<1>2. PICK p \in Procs : StoreMeta(p) \/ Close(p)
  BY <1>1, WhoWrites DEF Writes, Send, Save, Contribute, ContributeByHand
<1> DEFINE s == proc[p]
<1>3. /\ s \in PointType
      /\ AlonePoint(s, thread, contrib, deleg)
      /\ Calm => AgreePoint(s, thread, cycle, deleg)
  BY <1>2, WriterFacts DEF Writes
<1>4. ~Close(p)
  BY <1>3 DEF Close, AlonePoint
<1>5. s.pc = "meta" /\ thread'.phase = s.next /\ Calm
  BY <1>2, <1>4 DEF StoreMeta, counters, Calm
<1> HIDE DEF s
<1>6. s \in CarryType \cup RespondType
  BY <1>3, <1>5, PointByPc
<1>7. LeavesWell(s, thread, contrib)
  BY <1>3, <1>5 DEF AlonePoint
<1>8. s.old.phase = thread.phase
  <2>1. s.old = deleg /\ Settled(deleg, cycle, thread)
    BY <1>3, <1>5 DEF AgreePoint
  <2>2. s.old # NoDeleg
    BY <1>6 DEF CarryType, RespondType, Made, MadeType, Statuses, NoDeleg
  <2>3. QED
    BY <2>1, <2>2 DEF Settled, Placed
<1>9. s.kind \in {"continue", "respond"}
  BY <1>6 DEF CarryType, RespondType
<1>10. QED
  BY <1>5, <1>7, <1>8, <1>9 DEF LeavesWell, Applicable

\* Both as a theorem.
THEOREM PhaseWaits ==
    ASSUME Exclusive
    PROVE  Spec => PhaseWaitsForAll
<1>1. WholeInv /\ [Next]_vars => [AskStep]_vars
  BY Asks
<1>2. WholeInv /\ [Next]_vars => [LeaveStep]_vars
  BY Leaves
<1>3. Spec => AsksWhenReady
  BY <1>1, WholeIsInvariant, PTL DEF Spec, AsksWhenReady, AskStep
<1>4. Spec => LeavesWhenReady
  BY <1>2, WholeIsInvariant, PTL DEF Spec, LeavesWhenReady, LeaveStep
<1>5. QED
  BY <1>3, <1>4 DEF PhaseWaitsForAll
=============================================================================
