---------------------------- MODULE ClientsProofs ----------------------------
(***************************************************************************)
(* What the programs of MCClients keep for every value of their constants: *)
(* the HUD's question before a close, the files of the test environment,   *)
(* the thread that is moved on by hand and the turn over a live transport. *)
(***************************************************************************)
EXTENDS LiveTurn, ProtocolByHand, HudNavigator, TestEnv, TLAPS

-----------------------------------------------------------------------------
(***************************************************************************)
(* The HUD.  A confirmation is never pending in the menu; on the screens   *)
(* of a thread it is about that thread; and while the loop waits for a     *)
(* key, the frame that is shown has asked for it.                          *)
(***************************************************************************)
NavOf(screen, index, selected, confirming) ==
    [screen |-> screen, index |-> index, selected |-> selected, confirming |-> confirming]

AsksAbout(n) ==
    /\ n = NavOf(n.screen, n.index, n.selected, n.confirming)
    /\ n.screen \in Screens
    /\ n.confirming # NoThread =>
          /\ n.screen # "menu"
          /\ n.screen \in Details => n.confirming = n.selected

Shows(f, t) ==
    /\ f.asks = t \/ f.blank
    /\ f.screen \in Details => f.thread = t

HudInv ==
    /\ AsksAbout(nav)
    /\ looking /\ nav.confirming # NoThread => Shows(frame, nav.confirming)
    /\ forced # NoThread => Shows(frame, forced)

\* A key on a screen, when no confirmation is pending, leaves none elsewhere.
LEMMA KeyAsks ==
    ASSUME NEW n, NEW k \in Keys, AsksAbout(n), n.confirming = NoThread
    PROVE  AsksAbout(ScreenKey(n, k))
<1>1. CASE n.screen = "menu"
  BY <1>1 DEF ScreenKey, MenuKey, AsksAbout, NavOf, Screens, Details
<1>2. CASE n.screen = "threads"
  <2> DEFINE list == Listed(active)
  <2> HIDE DEF list
  <2>1. ScreenOf(k) \in Details \/ k \notin {"enter", "detail", "validation", "live"}
    BY DEF ScreenOf, Details
  <2>2. AsksAbout(ThreadsKey(n, k))
    BY <1>2, <2>1 DEF ThreadsKey, AsksAbout, NavOf, Screens, Details
  <2>3. QED
    BY <1>2, <2>2 DEF ScreenKey
<1>3. CASE n.screen \in Details
  BY <1>3 DEF ScreenKey, DetailKey, AsksAbout, NavOf, Screens, Details
<1>4. QED
  BY <1>1, <1>2, <1>3 DEF AsksAbout, Screens

\* It holds at the start.
LEMMA HudStarts == HudInit => HudInv
BY DEF HudInit, HudInv, AsksAbout, NavOf, Screens

\* Every step of the HUD, and of the threads beside it, keeps it.
LEMMA HudSteps == HudInv /\ [HudNext]_hudVars => HudInv'
<1> SUFFICES ASSUME HudInv, [HudNext]_hudVars PROVE HudInv'
  OBVIOUS
<1>1. CASE UNCHANGED hudVars \/ ThreadAppears \/ ThreadCloses
  BY <1>1 DEF hudVars, ThreadAppears, ThreadCloses, HudInv, Shows
<1>2. CASE Draw
  <2>1. AsksAbout(nav')
    BY <1>2 DEF Draw, HudInv, AsksAbout, NavOf
  <2>2. forced' = NoThread
    BY <1>2 DEF Draw
  <2>3. ASSUME nav'.confirming # NoThread PROVE Shows(frame', nav'.confirming)
    <3>1. CASE nav.screen = "menu"
      BY <1>2, <2>3, <3>1 DEF Draw, HudInv, AsksAbout, Details
    <3>2. CASE nav.screen = "threads"
      <4>1. nav'.confirming = nav.confirming
        BY <1>2, <3>2 DEF Draw, HudInv, AsksAbout, NavOf, Details
      <4>2. frame' = ListFrame(snapshot'.list, nav.index)
        BY <1>2, <3>2 DEF Draw, Details
      <4>3. QED
        BY <2>3, <4>1, <4>2 DEF ListFrame, Shows, Details
    <3>3. CASE nav.screen \in Details
      <4>1. PICK found \in BOOLEAN : frame' = DetailFrame(found) /\ nav' = nav
        BY <1>2, <3>3 DEF Draw, Details
      <4>2. nav.confirming = nav.selected
        BY <2>3, <3>3, <4>1 DEF HudInv, AsksAbout
      <4>3. QED
        BY <4>1, <4>2 DEF DetailFrame, Shows
    <3>4. QED
      BY <3>1, <3>2, <3>3 DEF HudInv, AsksAbout, Screens
  <2>4. QED
    BY <2>1, <2>2, <2>3 DEF HudInv
<1>3. ASSUME NEW k \in Keys, Press(k) PROVE HudInv'
  <2> DEFINE n == [nav EXCEPT !.confirming = NoThread]
  <2>1. AsksAbout(n) /\ n.confirming = NoThread
    BY DEF HudInv, AsksAbout, NavOf
  <2>2. nav' = ScreenKey(n, k) /\ ~looking' /\ forced' = NoThread
    BY <1>3 DEF Press, OtherKey
  <2> HIDE DEF n
  <2>3. AsksAbout(nav')
    BY <2>1, <2>2, KeyAsks
  <2>4. QED
    BY <2>2, <2>3 DEF HudInv
<1>4. CASE CancelClose \/ NoKey
  BY <1>4 DEF CancelClose, NoKey, HudInv, AsksAbout, NavOf
<1>5. CASE ConfirmClose
  <2>1. AsksAbout(nav')
    BY <1>5 DEF ConfirmClose, AfterClose, HudInv, AsksAbout, NavOf, Screens, Details
  <2>2. ~looking' /\ frame' = frame /\ forced' \in {NoThread, nav.confirming}
    BY <1>5 DEF ConfirmClose
  <2>3. forced' # NoThread => Shows(frame', forced')
    BY <1>5, <2>2 DEF ConfirmClose, HudInv, Shows
  <2>4. QED
    BY <2>1, <2>2, <2>3 DEF HudInv
<1>6. QED
  BY <1>1, <1>2, <1>3, <1>4, <1>5 DEF HudNext

(***************************************************************************)
(* Whatever keys are pressed, however old the snapshot is and whichever    *)
(* threads come and go, a thread is force-closed only when the frame on    *)
(* the screen had asked for it.                                            *)
(***************************************************************************)
THEOREM ClosesWhatIsAsked == HudSpec => []CloseIsConfirmed
<1>1. HudInv => CloseIsConfirmed
  BY DEF HudInv, CloseIsConfirmed, Shows
<1>2. QED
  BY <1>1, HudStarts, HudSteps, PTL DEF HudSpec
-----------------------------------------------------------------------------
(***************************************************************************)
(* The test environment.  While a command has a server it started, the pid *)
(* stays that server's: its parent has not waited for it.  A file that     *)
(* tells who runs under a pid tells of a server that a command started.    *)
(***************************************************************************)
ProcType ==
    [state : {"free", "starting", "serving", "silent", "ended"}, nonce : Nat,
     start : Seconds \cup {0}, parent : Shells \cup {"none"}]

EnvFilesType ==
    [pid : Pids \cup {NoPid}, owner : {"none", "mine", "other"}, pidNamed : Pids \cup {NoPid},
     start : Seconds \cup {0}, nonce : Nat]

Ats == {"idle", "look", "stop", "verify", "clean", "start", "pid", "owner", "identity", "wait"}

CmdType ==
    [at : Ats, named : EnvFilesType, child : Pids \cup {NoPid}, then : {"start", "end"}]

EnvType ==
    /\ procs \in [Pids -> ProcType]
    /\ envFiles \in EnvFilesType
    /\ cmd \in [Shells -> CmdType]
    /\ started \in Nat

Holds(c) ==
    cmd[c].at \in {"pid", "owner", "identity", "wait"} =>
        /\ cmd[c].child \in Pids
        /\ procs[cmd[c].child].parent = c
        /\ procs[cmd[c].child].nonce > 0
        /\ procs[cmd[c].child].state # "free"

Named(f) == f.pidNamed # NoPid => f.nonce > 0

OwnInv ==
    /\ \A c \in Shells : Holds(c)
    /\ Named(envFiles)
    /\ \A c \in Shells : cmd[c].at = "verify" => /\ cmd[c].named.pid = cmd[c].named.pidNamed
                                                 /\ Named(cmd[c].named)
    /\ 0 \notin told

(***************************************************************************)
(* A server of ours that runs and was not told to stop is known by its     *)
(* files, where commands follow one another: by the whole of them, or,     *)
(* while they are written, it is the child of the one command there is.    *)
(***************************************************************************)
Lives(p) ==
    procs[p].state \in {"starting", "serving"} /\ procs[p].nonce > 0 /\ procs[p].nonce \notin told

KnownAs(p) == FilesAgree /\ envFiles.pid = p /\ SameProcess(envFiles)

AllKnown == \A p \in Pids : Lives(p) => KnownAs(p)
NoneLives == \A p \in Pids : ~Lives(p)

Settles(c) ==
    /\ cmd[c].at \in {"look", "stop", "verify", "wait"} => AllKnown
    /\ cmd[c].at = "verify" => cmd[c].named = envFiles
    /\ cmd[c].at \in {"clean", "start"} => NoneLives
    /\ cmd[c].at \in {"pid", "owner", "identity"} => \A p \in Pids : Lives(p) => p = cmd[c].child
    /\ cmd[c].at \in {"owner", "identity"} => envFiles.pid = cmd[c].child
    /\ cmd[c].at = "identity" => OwnerMatches

OneBusy == \A c, d \in Shells : cmd[c].at # "idle" /\ cmd[d].at # "idle" => c = d

TidyInv ==
    tidy => /\ OneBusy
            /\ Resting => AllKnown
            /\ \A c \in Shells : Settles(c)

\* What a command that begins or has ended looks like.
LEMMA RestType == /\ NoFiles \in EnvFilesType
                  /\ AtRest \in CmdType
                  /\ Free \in ProcType
BY TestEnvAssumption DEF NoFiles, AtRest, Free, EnvFilesType, CmdType, ProcType, Ats

\* A command that ends leaves its server to itself, or frees the pid.
LEMMA OrphansType ==
    ASSUME EnvType, NEW c \in Shells
    PROVE  /\ Orphaned(c) \in [Pids -> ProcType]
           /\ \A p \in Pids : /\ procs[p].parent # c => Orphaned(c)[p] = procs[p]
                              /\ \/ Orphaned(c)[p] = Free
                                 \/ /\ Orphaned(c)[p].state = procs[p].state
                                    /\ Orphaned(c)[p].nonce = procs[p].nonce
                                    /\ Orphaned(c)[p].start = procs[p].start
BY RestType DEF Orphaned, EnvType, ProcType

(***************************************************************************)
(* What a command's step does to the commands.                             *)
(***************************************************************************)
Goes(c, at, named, child, then) ==
    /\ cmd' \in [Shells -> CmdType]
    /\ cmd'[c].at = at /\ cmd'[c].named = named /\ cmd'[c].child = child /\ cmd'[c].then = then
    /\ \A d \in Shells \ {c} : cmd'[d] = cmd[d]

\* One that only goes on.
LEMMA GoesOnOnly ==
    ASSUME EnvType, NEW c \in Shells, NEW at, NEW to \in Ats, GoesOn(c, at, to)
    PROVE  Goes(c, to, cmd[c].named, cmd[c].child, cmd[c].then) /\ cmd[c].at = at
BY DEF GoesOn, Goes, EnvType, CmdType

\* One that ends.
LEMMA GoesToRest ==
    ASSUME EnvType, NEW c \in Shells, Ends(c)
    PROVE  Goes(c, "idle", NoFiles, NoPid, "end")
BY RestType DEF Ends, Goes, EnvType, CmdType, AtRest

\* One that begins.
LEMMA GoesFromRest ==
    ASSUME EnvType, NEW c \in Shells
    PROVE  /\ DownBegins(c) => Goes(c, "stop", NoFiles, NoPid, "end")
           /\ UpBegins(c) => Goes(c, "look", NoFiles, NoPid, "start")
<1>1. ASSUME DownBegins(c) PROVE Goes(c, "stop", NoFiles, NoPid, "end")
  BY <1>1, RestType DEF DownBegins, Begins, Goes, EnvType, CmdType, AtRest, Ats
<1>2. ASSUME UpBegins(c) PROVE Goes(c, "look", NoFiles, NoPid, "start")
  BY <1>2, RestType DEF UpBegins, Begins, Goes, EnvType, CmdType, AtRest, Ats
<1>3. QED
  BY <1>1, <1>2

\* The steps of a stop.
LEMMA GoesStopping ==
    ASSUME EnvType, NEW c \in Shells
    PROVE  /\ StopReads(c) => Goes(c, "verify", envFiles, NoPid, cmd[c].then)
           /\ StopFindsNone(c) => Goes(c, "clean", NoFiles, NoPid, cmd[c].then)
           /\ StopSignals(c) => Goes(c, "clean", NoFiles, NoPid, cmd[c].then)
<1>1. ASSUME StopReads(c) PROVE Goes(c, "verify", envFiles, NoPid, cmd[c].then)
  BY <1>1 DEF StopReads, Goes, EnvType, CmdType, Ats
<1>2. ASSUME StopFindsNone(c) PROVE Goes(c, "clean", NoFiles, NoPid, cmd[c].then)
  BY <1>2, RestType DEF StopFindsNone, Goes, EnvType, CmdType, AtRest, Ats
<1>3. ASSUME StopSignals(c) PROVE Goes(c, "clean", NoFiles, NoPid, cmd[c].then)
  BY <1>3, RestType DEF StopSignals, Goes, EnvType, CmdType, AtRest, Ats
<1>4. QED
  BY <1>1, <1>2, <1>3

\* The two ways a start fails.
LEMMA GoesBack ==
    ASSUME EnvType, NEW c \in Shells
    PROVE  /\ TimesOut(c) => Goes(c, "stop", cmd[c].named, cmd[c].child, "end")
           /\ IdentityFails(c) => Goes(c, "clean", cmd[c].named, cmd[c].child, "end")
<1>1. ASSUME TimesOut(c) PROVE Goes(c, "stop", cmd[c].named, cmd[c].child, "end")
  BY <1>1 DEF TimesOut, Goes, EnvType, CmdType, Ats
<1>2. ASSUME IdentityFails(c) PROVE Goes(c, "clean", cmd[c].named, cmd[c].child, "end")
  BY <1>2 DEF IdentityFails, Goes, EnvType, CmdType, Ats
<1>3. QED
  BY <1>1, <1>2

\* The server that a start makes.
StartsOn(c, p, s) ==
    /\ procs[p].state = "free"
    /\ procs' = [procs EXCEPT ![p] = [state |-> "starting", nonce |-> started + 1,
                                      start |-> s, parent |-> c]]
    /\ Goes(c, "pid", cmd[c].named, p, cmd[c].then)

\* A start makes one server, that was free, and goes on to the pid file.
LEMMA GoesStarting ==
    ASSUME EnvType, NEW c \in Shells, Starts(c)
    PROVE  \E p \in Pids, s \in Seconds : StartsOn(c, p, s)
<1>1. PICK p \in Pids, s \in Seconds :
          /\ Spawned(p, [state |-> "starting", nonce |-> started + 1, start |-> s, parent |-> c])
          /\ cmd' = [cmd EXCEPT ![c].at = "pid", ![c].child = p]
  BY DEF Starts
<1>2. Goes(c, "pid", cmd[c].named, p, cmd[c].then)
  BY <1>1 DEF Goes, EnvType, CmdType, Ats
<1>3. QED
  BY <1>1, <1>2 DEF StartsOn, Spawned

\* What goes on when a clean has removed the files.
LEMMA GoesCleaned ==
    ASSUME EnvType, NEW c \in Shells, Cleans(c)
    PROVE  /\ cmd[c].at = "clean" /\ envFiles' = NoFiles
           /\ \/ Goes(c, "start", cmd[c].named, cmd[c].child, cmd[c].then) /\ UNCHANGED procs
              \/ Goes(c, "idle", NoFiles, NoPid, "end") /\ procs' = Orphaned(c)
<1>1. CASE Ends(c)
  BY <1>1, GoesToRest DEF Cleans, Ends
<1>2. CASE cmd' = [cmd EXCEPT ![c].at = "start"] /\ UNCHANGED procs
  BY <1>2 DEF Cleans, Goes, EnvType, CmdType, Ats
<1>3. QED
  BY <1>1, <1>2 DEF Cleans

\* The steps of a command.
CommandSteps(c) ==
    \/ DownBegins(c) \/ StopReads(c) \/ StopFindsNone(c) \/ StopSignals(c) \/ Cleans(c)
    \/ UpBegins(c) \/ UpReuses(c) \/ UpRefuses(c) \/ UpReplaces(c)
    \/ Starts(c) \/ WritesPid(c) \/ WritesOwner(c)
    \/ RecordsIdentity(c) \/ IdentityFails(c) \/ Ready(c) \/ TimesOut(c)
    \/ CommandCut(c)

\* The processes that no command of ours moves.
Outside == OtherStarts \/ Exits \/ ServerListens

\* At the start nothing runs and nothing is known.
LEMMA EnvStarts == EnvInit => EnvType /\ OwnInv /\ TidyInv
<1> SUFFICES ASSUME EnvInit PROVE EnvType /\ OwnInv /\ TidyInv
  OBVIOUS
<1>1. EnvType
  BY RestType, TestEnvAssumption DEF EnvInit, EnvType, Copied, EnvFilesType
<1>2. OwnInv
  BY TestEnvAssumption DEF EnvInit, OwnInv, Holds, Named, Copied, NoFiles, AtRest
<1>3. TidyInv
  BY DEF EnvInit, TidyInv, OneBusy, AllKnown, Settles, Lives, Free, AtRest
<1>4. QED
  BY <1>1, <1>2, <1>3

\* A process outside changes its own entry, and not the one a command waits for.
LEMMA OutsideMoves ==
    ASSUME EnvType, Outside
    PROVE  /\ procs' \in [Pids -> ProcType] /\ started' \in Nat
           /\ UNCHANGED <<envFiles, cmd, told, tidy, cut>>
           /\ \A p \in Pids :
                 \/ procs'[p] = procs[p]
                 \/ procs[p].state = "free" /\ procs'[p].nonce = 0
                 \/ procs[p].parent = "none" /\ procs'[p] = Free
                 \/ /\ procs[p].state # "free" /\ procs'[p].state # "free"
                    /\ procs'[p].state = "serving" => procs[p].state = "starting"
                    /\ procs'[p].state # "starting"
                    /\ procs'[p].nonce = procs[p].nonce /\ procs'[p].start = procs[p].start
                    /\ procs'[p].parent = procs[p].parent
<1>1. CASE OtherStarts
  <2>1. PICK p \in Pids, s \in Seconds, what \in {"serving", "silent"} :
            Spawned(p, [Free EXCEPT !.state = what, !.start = s])
    BY <1>1 DEF OtherStarts
  <2>2. [Free EXCEPT !.state = what, !.start = s] \in ProcType
        /\ [Free EXCEPT !.state = what, !.start = s].nonce = 0
    BY DEF Free, ProcType
  <2>3. QED
    BY <1>1, <2>1, <2>2 DEF OtherStarts, Spawned, EnvType
<1>2. CASE Exits
  <2>1. PICK p \in Pids : /\ procs[p].state \notin {"free", "ended"}
                          /\ procs' = [procs EXCEPT ![p] = IF @.parent = "none" THEN Free
                                                           ELSE [@ EXCEPT !.state = "ended"]]
    BY <1>2 DEF Exits
  <2>2. CASE procs[p].parent = "none"
    BY <1>2, <2>1, <2>2, RestType DEF Exits, EnvType
  <2>3. CASE procs[p].parent # "none"
    <3>1. procs' = [procs EXCEPT ![p] = [procs[p] EXCEPT !.state = "ended"]]
      BY <2>1, <2>3
    <3>2. QED
      BY <1>2, <2>1, <2>3, <3>1 DEF Exits, EnvType, ProcType
  <2>4. QED
    BY <2>2, <2>3
<1>3. CASE ServerListens
  BY <1>3 DEF ServerListens, EnvType, ProcType
<1>4. QED
  BY <1>1, <1>2, <1>3 DEF Outside

\* Types.
LEMMA EnvTyped == EnvType /\ OwnInv /\ [EnvNext]_envVars => EnvType'
<1> SUFFICES ASSUME EnvType, OwnInv, [EnvNext]_envVars PROVE EnvType'
  OBVIOUS
<1>1. CASE UNCHANGED envVars
  BY <1>1 DEF envVars, EnvType
<1>2. CASE Outside
  BY <1>2, OutsideMoves DEF EnvType
<1>3. ASSUME NEW c \in Shells, CommandSteps(c) PROVE EnvType'
  <2>1. CASE DownBegins(c) \/ UpBegins(c)
    BY <2>1, GoesFromRest DEF DownBegins, UpBegins, Begins, EnvType, Goes
  <2>2. CASE StopReads(c) \/ StopFindsNone(c) \/ StopSignals(c)
    BY <2>2, GoesStopping DEF StopReads, StopFindsNone, StopSignals, EnvType, Goes
  <2>3. CASE Cleans(c)
    BY <2>3, RestType, OrphansType, GoesCleaned DEF Cleans, Goes, EnvType
  <2>4. CASE UpReuses(c) \/ UpRefuses(c) \/ Ready(c) \/ CommandCut(c)
    <3>1. Ends(c) /\ UNCHANGED <<envFiles, started>>
      BY <2>4 DEF UpReuses, UpRefuses, Ready, CommandCut
    <3>2. QED
      BY <3>1, OrphansType, GoesToRest DEF Ends, EnvType, Goes
  <2>5. CASE UpReplaces(c) \/ TimesOut(c) \/ IdentityFails(c)
    <3>1. cmd' \in [Shells -> CmdType]
      BY <2>5, GoesBack, GoesOnOnly DEF UpReplaces, Goes, Ats
    <3>2. QED
      BY <2>5, <3>1 DEF UpReplaces, TimesOut, IdentityFails, EnvType
  <2>6. CASE Starts(c)
    <3>1. PICK p \in Pids, s \in Seconds : StartsOn(c, p, s)
      BY <2>6, GoesStarting
    <3>2. [state |-> "starting", nonce |-> started + 1, start |-> s, parent |-> c] \in ProcType
      BY DEF ProcType, EnvType
    <3>3. started' \in Nat /\ UNCHANGED envFiles
      BY <2>6 DEF Starts, Spawned, EnvType
    <3>4. QED
      BY <3>1, <3>2, <3>3 DEF StartsOn, Goes, EnvType
  <2>7. CASE WritesPid(c) \/ WritesOwner(c) \/ RecordsIdentity(c)
    <3>1. cmd' \in [Shells -> CmdType] /\ UNCHANGED <<procs, started>>
      BY <2>7, GoesOnOnly DEF WritesPid, WritesOwner, RecordsIdentity, Goes, Ats
    <3>2. CASE WritesPid(c)
      BY <3>1, <3>2 DEF WritesPid, EnvType, CmdType, EnvFilesType
    <3>3. CASE WritesOwner(c)
      BY <3>1, <3>3 DEF WritesOwner, EnvType, EnvFilesType
    <3>4. CASE RecordsIdentity(c)
      <4>1. cmd[c].child \in Pids
        BY <3>4 DEF RecordsIdentity, GoesOn, OwnInv, Holds
      <4>2. procs[cmd[c].child] \in ProcType
        BY <4>1 DEF EnvType
      <4>3. QED
        BY <3>1, <3>4, <4>1, <4>2 DEF RecordsIdentity, EnvType, EnvFilesType, ProcType
    <3>5. QED
      BY <2>7, <3>2, <3>3, <3>4
  <2>8. QED
    BY <1>3, <2>1, <2>2, <2>3, <2>4, <2>5, <2>6, <2>7 DEF CommandSteps
<1>4. QED
  BY <1>1, <1>2, <1>3 DEF EnvNext, Outside, CommandSteps

\* What a process outside does leaves the servers that a command waits for.
LEMMA OwnOutside == EnvType /\ OwnInv /\ Outside => OwnInv'
<1> SUFFICES ASSUME EnvType, OwnInv, Outside PROVE OwnInv'
  OBVIOUS
<1>1. UNCHANGED <<envFiles, cmd, told>>
  BY OutsideMoves
<1>2. ASSUME NEW c \in Shells, cmd[c].at \in {"pid", "owner", "identity", "wait"}
      PROVE  /\ procs'[cmd[c].child].parent = c
             /\ procs'[cmd[c].child].nonce > 0
             /\ procs'[cmd[c].child].state # "free"
  BY <1>2, OutsideMoves, TestEnvAssumption DEF OwnInv, Holds
<1>3. \A c \in Shells : Holds(c)'
  BY <1>1, <1>2 DEF OwnInv, Holds
<1>4. QED
  BY <1>1, <1>3 DEF OwnInv, Named

\* A command's step leaves the others', if it leaves the pids of their servers.
LEMMA OwnBeside ==
    ASSUME EnvType, OwnInv, NEW c \in Shells,
           \A d \in Shells \ {c} : cmd'[d] = cmd[d],
           \A p \in Pids : procs[p].parent # c /\ procs[p].state # "free" => procs'[p] = procs[p],
           Holds(c)', Named(envFiles)', 0 \notin told',
           cmd'[c].at = "verify" => /\ cmd'[c].named.pid = cmd'[c].named.pidNamed
                                    /\ Named(cmd'[c].named)
    PROVE  OwnInv'
<1>1. ASSUME NEW d \in Shells \ {c} PROVE Holds(d)'
  BY <1>1 DEF OwnInv, Holds
<1>2. QED
  BY <1>1 DEF OwnInv

\* A command that ends.
LEMMA OwnEnds ==
    ASSUME EnvType, OwnInv, NEW c \in Shells, Goes(c, "idle", NoFiles, NoPid, "end"),
           procs' = Orphaned(c), Named(envFiles)', UNCHANGED told
    PROVE  OwnInv'
<1>1. \A p \in Pids : procs[p].parent # c => procs'[p] = procs[p]
  BY OrphansType
<1>2. Holds(c)' /\ 0 \notin told'
  BY DEF Goes, Holds, OwnInv
<1>3. QED
  BY <1>1, <1>2, OwnBeside DEF Goes

\* A command that neither starts nor ends nor signals.
LEMMA OwnGoes ==
    ASSUME EnvType, OwnInv, NEW c \in Shells,
           NEW at, NEW named, NEW child, NEW then, Goes(c, at, named, child, then),
           UNCHANGED <<procs, told>>, Named(envFiles)', at # "verify",
           at \in {"pid", "owner", "identity", "wait"} =>
                /\ cmd[c].at \in {"pid", "owner", "identity", "wait"}
                /\ child = cmd[c].child
    PROVE  OwnInv'
<1>1. Holds(c)'
  BY DEF Goes, Holds, OwnInv
<1>2. QED
  BY <1>1, OwnBeside DEF Goes, OwnInv

\* The invariant of the servers that commands start.
LEMMA OwnSteps == EnvType /\ OwnInv /\ [EnvNext]_envVars => OwnInv'
<1> SUFFICES ASSUME EnvType, OwnInv, [EnvNext]_envVars PROVE OwnInv'
  OBVIOUS
<1>1. CASE UNCHANGED envVars
  BY <1>1 DEF envVars, OwnInv, Holds, Named
<1>2. CASE Outside
  BY <1>2, OwnOutside
<1> USE DEF Named
<1>3. ASSUME NEW c \in Shells, CommandSteps(c) PROVE OwnInv'
  <2>1. CASE DownBegins(c) \/ UpBegins(c)
    BY <2>1, GoesFromRest, OwnGoes DEF DownBegins, UpBegins, Begins, OwnInv
  <2>2. CASE StopReads(c)
    <3>1. Goes(c, "verify", envFiles, NoPid, cmd[c].then) /\ UNCHANGED <<procs, envFiles, told>>
      BY <2>2, GoesStopping DEF StopReads
    <3>2. Holds(c)' /\ envFiles.pid = envFiles.pidNamed /\ 0 \notin told'
      BY <2>2, <3>1 DEF StopReads, FilesAgree, Goes, Holds, OwnInv
    <3>3. QED
      BY <3>1, <3>2, OwnBeside DEF Goes, OwnInv
  <2>3. CASE StopFindsNone(c)
    BY <2>3, GoesStopping, OwnGoes DEF StopFindsNone, OwnInv
  <2>4. CASE StopSignals(c)
    <3>1. /\ Goes(c, "clean", NoFiles, NoPid, cmd[c].then) /\ UNCHANGED <<procs, envFiles>>
          /\ cmd[c].at = "verify"
      BY <2>4, GoesStopping DEF StopSignals
    <3>2. SameProcess(cmd[c].named) => procs[cmd[c].named.pid].nonce > 0
      BY <3>1 DEF SameProcess, SameStart, Running, OwnInv
    <3>3. 0 \notin told'
      BY <2>4, <3>2 DEF StopSignals, OwnInv
    <3>4. Holds(c)'
      BY <3>1 DEF Goes, Holds
    <3>5. QED
      BY <3>1, <3>3, <3>4, OwnBeside DEF Goes, OwnInv
  <2>5. CASE Cleans(c)
    <3>1. Named(envFiles)' /\ UNCHANGED told
      BY <2>5, GoesCleaned DEF Cleans, NoFiles
    <3>2. CASE Goes(c, "start", cmd[c].named, cmd[c].child, cmd[c].then) /\ UNCHANGED procs
      BY <3>1, <3>2, OwnGoes
    <3>3. CASE Goes(c, "idle", NoFiles, NoPid, "end") /\ procs' = Orphaned(c)
      BY <3>1, <3>3, OwnEnds
    <3>4. QED
      BY <2>5, <3>2, <3>3, GoesCleaned
  <2>6. CASE UpReuses(c) \/ UpRefuses(c) \/ Ready(c) \/ CommandCut(c)
    <3>1. Ends(c) /\ UNCHANGED <<envFiles, told>>
      BY <2>6 DEF UpReuses, UpRefuses, Ready, CommandCut
    <3>2. Named(envFiles)'
      BY <3>1 DEF OwnInv
    <3>3. QED
      BY <3>1, <3>2, OwnEnds, GoesToRest DEF Ends
  <2>7. CASE UpReplaces(c)
    BY <2>7, GoesOnOnly, OwnGoes DEF UpReplaces, Ats, OwnInv
  <2>8. CASE TimesOut(c)
    BY <2>8, GoesBack, OwnGoes DEF TimesOut, OwnInv
  <2>9. CASE IdentityFails(c)
    <3>1. /\ Goes(c, "clean", cmd[c].named, cmd[c].child, "end") /\ UNCHANGED <<procs, envFiles>>
          /\ cmd[c].at = "identity" /\ told' = told \cup {procs[cmd[c].child].nonce}
      BY <2>9, GoesBack DEF IdentityFails
    <3>2. 0 \notin told' /\ Holds(c)'
      BY <3>1 DEF OwnInv, Holds, Goes
    <3>3. QED
      BY <3>1, <3>2, OwnBeside DEF Goes, OwnInv
  <2>10. CASE Starts(c)
    <3>1. PICK p \in Pids, s \in Seconds : StartsOn(c, p, s)
      BY <2>10, GoesStarting
    <3>2. UNCHANGED <<envFiles, told>>
      BY <2>10 DEF Starts
    <3>3. Holds(c)'
      BY <3>1 DEF StartsOn, Goes, Holds, EnvType
    <3>4. \A q \in Pids : procs[q].state # "free" => procs'[q] = procs[q]
      BY <3>1 DEF StartsOn, EnvType
    <3>5. QED
      BY <3>1, <3>2, <3>3, <3>4, OwnBeside DEF StartsOn, Goes, OwnInv
  <2>11. CASE WritesPid(c) \/ WritesOwner(c)
    <3>1. /\ UNCHANGED <<procs, told>>
          /\ envFiles'.pidNamed = envFiles.pidNamed /\ envFiles'.nonce = envFiles.nonce
      BY <2>11 DEF WritesPid, WritesOwner, EnvType, EnvFilesType
    <3>2. Named(envFiles)'
      BY <3>1 DEF OwnInv
    <3>3. QED
      BY <2>11, <3>1, <3>2, GoesOnOnly, OwnGoes DEF WritesPid, WritesOwner, Ats
  <2>12. CASE RecordsIdentity(c)
    <3>1. /\ Goes(c, "wait", cmd[c].named, cmd[c].child, cmd[c].then) /\ cmd[c].at = "identity"
          /\ UNCHANGED <<procs, told>>
      BY <2>12, GoesOnOnly DEF RecordsIdentity, Ats
    <3>2. envFiles'.nonce = procs[cmd[c].child].nonce
      BY <2>12 DEF RecordsIdentity, EnvType, EnvFilesType
    <3>3. Named(envFiles)'
      BY <3>1, <3>2 DEF OwnInv, Holds
    <3>4. QED
      BY <3>1, <3>3, OwnGoes
  <2>13. QED
    BY <1>3, <2>1, <2>2, <2>3, <2>4, <2>5, <2>6, <2>7, <2>8, <2>9, <2>10, <2>11, <2>12
       DEF CommandSteps
<1>4. QED
  BY <1>1, <1>2, <1>3 DEF EnvNext, Outside, CommandSteps

(***************************************************************************)
(* However commands overlap, whatever is killed, whoever gets a pid that   *)
(* is freed and whatever the files said at first, no command signals a     *)
(* process that no command of this checkout started.                       *)
(***************************************************************************)
THEOREM SignalsItsOwn == EnvSpec => []StopsOnlyItsOwn
<1>1. EnvType /\ OwnInv => StopsOnlyItsOwn
  BY DEF OwnInv, StopsOnlyItsOwn
<1>2. QED
  BY <1>1, EnvStarts, EnvTyped, OwnSteps, PTL DEF EnvSpec

(***************************************************************************)
(* Servers that go on as they were, or end, are known as they were.        *)
(***************************************************************************)
Unmoved ==
    /\ UNCHANGED told
    /\ \A p \in Pids : procs'[p].state \in {"starting", "serving"} /\ procs'[p].nonce > 0 =>
          /\ procs[p].state \in {"starting", "serving"}
          /\ procs'[p].nonce = procs[p].nonce /\ procs'[p].start = procs[p].start

\* While the servers go on or end, and the note is the same, all stay known.
LEMMA StillKnown ==
    ASSUME Unmoved
    PROVE  /\ \A p \in Pids : Lives(p)' => Lives(p)
           /\ UNCHANGED envFiles /\ AllKnown => AllKnown'
           /\ NoneLives => NoneLives'
<1>1. \A p \in Pids : Lives(p)' => Lives(p)
  BY DEF Lives, Unmoved
<1>2. ASSUME UNCHANGED envFiles, NEW p \in Pids, Lives(p)', KnownAs(p) PROVE KnownAs(p)'
  <2>1. /\ procs'[p].nonce = procs[p].nonce /\ procs'[p].start = procs[p].start
        /\ procs'[p].state \notin {"free", "ended"}
    BY <1>2 DEF Lives, Unmoved
  <2>2. QED
    BY <1>2, <2>1 DEF KnownAs, FilesAgree, OwnerMatches, Running, SameProcess, SameStart
<1>3. QED
  BY <1>1, <1>2 DEF AllKnown, NoneLives

\* A process outside moves no server of ours.
LEMMA OutsideUnmoved == EnvType /\ Outside => Unmoved
<1> SUFFICES ASSUME EnvType, Outside PROVE Unmoved
  OBVIOUS
<1>1. QED
  BY OutsideMoves DEF Unmoved, Free

\* Nor does a command that ends.
LEMMA OrphansUnmoved ==
    ASSUME EnvType, NEW c \in Shells, procs' = Orphaned(c), UNCHANGED told
    PROVE  Unmoved
BY OrphansType DEF Unmoved, Free

\* The one busy command is what the files are judged by.
LEMMA TidyAlone ==
    ASSUME NEW c \in Shells, \A d \in Shells \ {c} : cmd'[d].at = "idle",
           cmd'[c].at = "idle" => AllKnown', Settles(c)'
    PROVE  TidyInv'
<1>1. ASSUME NEW d \in Shells PROVE Settles(d)'
  BY <1>1 DEF Settles
<1>2. Resting' => cmd'[c].at = "idle"
  BY DEF Resting
<1>3. QED
  BY <1>1, <1>2 DEF TidyInv, OneBusy

\* A command that goes on while the files are known, and one that ends.
LEMMA TidyGoes ==
    ASSUME NEW c \in Shells, NEW at, NEW named, NEW child, NEW then,
           Goes(c, at, named, child, then), \A d \in Shells \ {c} : cmd[d].at = "idle",
           AllKnown', at \in {"idle", "look", "stop", "wait"}
    PROVE  TidyInv'
BY TidyAlone DEF Goes, Settles

\* A command that has nobody to look for any more.
LEMMA TidyCleans ==
    ASSUME NEW c \in Shells, NEW at, NEW named, NEW child, NEW then,
           Goes(c, at, named, child, then), \A d \in Shells \ {c} : cmd[d].at = "idle",
           NoneLives', at \in {"idle", "clean", "start"}
    PROVE  TidyInv'
BY TidyAlone DEF Goes, Settles, AllKnown, NoneLives

\* When commands follow one another a command that goes on is alone.
LEMMA TidyFacts ==
    ASSUME TidyInv, tidy, NEW c \in Shells, cmd[c].at # "idle"
    PROVE  (\A d \in Shells \ {c} : cmd[d].at = "idle") /\ Settles(c)
BY DEF TidyInv, OneBusy

\* The invariant of the files.
LEMMA TidySteps == EnvType /\ OwnInv /\ TidyInv /\ [EnvNext]_envVars => TidyInv'
<1> SUFFICES ASSUME EnvType, OwnInv, TidyInv, [EnvNext]_envVars, tidy' PROVE TidyInv'
  BY DEF TidyInv
<1>1. CASE UNCHANGED envVars
  BY <1>1 DEF envVars, TidyInv, OneBusy, Resting, AllKnown, NoneLives, Settles, Lives, KnownAs,
              FilesAgree, OwnerMatches, Running, SameProcess, SameStart
<1>2. CASE Outside
  <2>1. UNCHANGED <<envFiles, cmd, told, tidy>>
    BY <1>2, OutsideMoves
  <2>2. /\ \A p \in Pids : Lives(p)' => Lives(p)
        /\ AllKnown => AllKnown'
        /\ NoneLives => NoneLives'
    BY <1>2, <2>1, OutsideUnmoved, StillKnown
  <2>3. ASSUME NEW c \in Shells PROVE Settles(c)'
    BY <2>1, <2>2 DEF TidyInv, Settles, OwnerMatches
  <2>4. QED
    BY <2>1, <2>2, <2>3 DEF TidyInv, OneBusy, Resting
<1>3. ASSUME NEW c \in Shells, CommandSteps(c) PROVE TidyInv'
  <2>1. CASE DownBegins(c) \/ UpBegins(c)
    <3>1. tidy /\ Resting /\ UNCHANGED <<procs, envFiles, told>>
      BY <2>1 DEF DownBegins, UpBegins, Begins
    <3>2. AllKnown'
      BY <3>1, StillKnown DEF TidyInv, Unmoved
    <3>3. QED
      BY <2>1, <3>1, <3>2, GoesFromRest, TidyGoes DEF Resting
  <2>2. CASE CommandCut(c)
    BY <2>2 DEF CommandCut
  <2>3. CASE ~(DownBegins(c) \/ UpBegins(c) \/ CommandCut(c))
    <3>1. tidy /\ cmd[c].at # "idle"
      BY <1>3, <2>3 DEF CommandSteps, StopReads, StopFindsNone, StopSignals, Cleans, UpReuses,
            UpRefuses, UpReplaces, Starts, WritesPid, WritesOwner, RecordsIdentity,
            IdentityFails, Ready, TimesOut, GoesOn
    <3>2. \A d \in Shells \ {c} : cmd[d].at = "idle"
      BY <3>1, TidyFacts
    <3>3. Settles(c)
      BY <3>1, TidyFacts
    <3>4. CASE StopReads(c)
      <4>1. /\ Goes(c, "verify", envFiles, NoPid, cmd[c].then)
            /\ UNCHANGED <<procs, envFiles, told>> /\ cmd[c].at = "stop"
        BY <3>4, GoesStopping DEF StopReads
      <4>2. AllKnown'
        BY <3>3, <4>1, StillKnown DEF Settles, Unmoved
      <4>3. Settles(c)'
        BY <4>1, <4>2 DEF Goes, Settles
      <4>4. QED
        BY <3>2, <4>1, <4>3, TidyAlone DEF Goes
    <3>5. CASE StopFindsNone(c)
      <4>1. /\ Goes(c, "clean", NoFiles, NoPid, cmd[c].then)
            /\ UNCHANGED <<procs, envFiles, told>> /\ cmd[c].at = "stop" /\ ~FilesAgree
        BY <3>5, GoesStopping DEF StopFindsNone
      <4>2. NoneLives
        BY <3>3, <4>1 DEF Settles, AllKnown, NoneLives, KnownAs
      <4>3. QED
        BY <3>2, <4>1, <4>2, StillKnown, TidyCleans DEF Unmoved
    <3>6. CASE StopSignals(c)
      <4>1. /\ Goes(c, "clean", NoFiles, NoPid, cmd[c].then) /\ UNCHANGED <<procs, envFiles>>
            /\ cmd[c].at = "verify"
        BY <3>6, GoesStopping DEF StopSignals
      <4>2. cmd[c].named = envFiles /\ AllKnown
        BY <3>3, <4>1 DEF Settles
      <4>3. ASSUME NEW p \in Pids, Lives(p)' PROVE FALSE
        <5>1. told \subseteq told'
          BY <3>6 DEF StopSignals
        <5>2. Lives(p)
          BY <4>1, <4>3, <5>1 DEF Lives
        <5>3. envFiles.pid = p /\ SameProcess(envFiles)
          BY <4>2, <5>2 DEF AllKnown, KnownAs
        <5>4. procs[p].nonce \in told'
          BY <3>6, <4>2, <5>3 DEF StopSignals
        <5>5. QED
          BY <4>1, <4>3, <5>4 DEF Lives
      <4>4. QED
        BY <3>2, <4>1, <4>3, TidyCleans DEF NoneLives
    <3>7. CASE Cleans(c)
      <4>1. cmd[c].at = "clean" /\ NoneLives /\ UNCHANGED told
        BY <3>3, <3>7 DEF Cleans, Settles
      <4>2. CASE Goes(c, "start", cmd[c].named, cmd[c].child, cmd[c].then) /\ UNCHANGED procs
        BY <3>2, <4>1, <4>2, StillKnown, TidyCleans DEF Unmoved
      <4>3. CASE Goes(c, "idle", NoFiles, NoPid, "end") /\ procs' = Orphaned(c)
        BY <3>2, <4>1, <4>3, OrphansUnmoved, StillKnown, TidyCleans
      <4>4. QED
        BY <3>7, <4>2, <4>3, GoesCleaned
    <3>8. CASE UpReuses(c) \/ UpRefuses(c) \/ Ready(c)
      <4>1. Ends(c) /\ UNCHANGED <<envFiles, told>> /\ cmd[c].at \in {"look", "wait"}
        BY <3>8 DEF UpReuses, UpRefuses, Ready
      <4>2. AllKnown'
        BY <3>3, <4>1, OrphansUnmoved, StillKnown DEF Settles, Ends
      <4>3. QED
        BY <3>2, <4>1, <4>2, GoesToRest, TidyGoes
    <3>9. CASE UpReplaces(c)
      <4>1. cmd[c].at = "look" /\ AllKnown /\ UNCHANGED <<procs, envFiles, told>>
        BY <3>3, <3>9 DEF UpReplaces, GoesOn, Settles
      <4>2. AllKnown'
        BY <4>1, StillKnown DEF Unmoved
      <4>3. CASE OwnerMatches
        <5>1. Goes(c, "stop", cmd[c].named, cmd[c].child, cmd[c].then)
          BY <3>9, <4>3, GoesOnOnly DEF UpReplaces, Ats
        <5>2. QED
          BY <3>2, <4>2, <5>1, TidyGoes
      <4>4. CASE ~OwnerMatches
        <5>1. Goes(c, "clean", cmd[c].named, cmd[c].child, cmd[c].then)
          BY <3>9, <4>4, GoesOnOnly DEF UpReplaces, Ats
        <5>2. NoneLives
          BY <4>1, <4>4 DEF AllKnown, NoneLives, KnownAs, FilesAgree
        <5>3. QED
          BY <3>2, <4>1, <5>1, <5>2, StillKnown, TidyCleans DEF Unmoved
      <4>5. QED
        BY <4>3, <4>4
    <3>10. CASE TimesOut(c)
      <4>1. /\ Goes(c, "stop", cmd[c].named, cmd[c].child, "end")
            /\ UNCHANGED <<procs, envFiles, told>> /\ cmd[c].at = "wait"
        BY <3>10, GoesBack DEF TimesOut
      <4>2. AllKnown'
        BY <3>3, <4>1, StillKnown DEF Settles, Unmoved
      <4>3. QED
        BY <3>2, <4>1, <4>2, TidyGoes
    <3>11. CASE IdentityFails(c)
      <4>1. /\ Goes(c, "clean", cmd[c].named, cmd[c].child, "end") /\ UNCHANGED <<procs, envFiles>>
            /\ cmd[c].at = "identity" /\ told' = told \cup {procs[cmd[c].child].nonce}
        BY <3>11, GoesBack DEF IdentityFails
      <4>2. NoneLives'
        BY <3>3, <4>1 DEF Settles, NoneLives, Lives
      <4>3. QED
        BY <3>2, <4>1, <4>2, TidyCleans
    <3>12. CASE Starts(c)
      <4>1. PICK p \in Pids, s \in Seconds : StartsOn(c, p, s)
        BY <3>12, GoesStarting
      <4>2. cmd[c].at = "start" /\ UNCHANGED told
        BY <3>12 DEF Starts
      <4>3. \A q \in Pids : Lives(q)' => q = p
        BY <3>3, <4>1, <4>2 DEF StartsOn, Settles, NoneLives, Lives, EnvType
      <4>4. Settles(c)'
        BY <4>1, <4>3 DEF StartsOn, Goes, Settles
      <4>5. QED
        BY <3>2, <4>1, <4>4, TidyAlone DEF StartsOn, Goes
    <3>13. CASE WritesPid(c)
      <4>1. /\ Goes(c, "owner", cmd[c].named, cmd[c].child, cmd[c].then)
            /\ UNCHANGED <<procs, told>> /\ cmd[c].at = "pid" /\ envFiles'.pid = cmd[c].child
        BY <3>13, GoesOnOnly DEF WritesPid, Ats, EnvType, EnvFilesType
      <4>2. Settles(c)'
        BY <3>3, <4>1, StillKnown DEF Goes, Settles, Unmoved
      <4>3. QED
        BY <3>2, <4>1, <4>2, TidyAlone DEF Goes
    <3>14. CASE WritesOwner(c)
      <4>1. /\ Goes(c, "identity", cmd[c].named, cmd[c].child, cmd[c].then)
            /\ UNCHANGED <<procs, told>> /\ cmd[c].at = "owner"
            /\ envFiles'.pid = envFiles.pid /\ envFiles'.owner = "mine"
        BY <3>14, GoesOnOnly DEF WritesOwner, Ats, EnvType, EnvFilesType
      <4>2. Settles(c)'
        BY <3>3, <4>1, StillKnown DEF Goes, Settles, Unmoved, OwnerMatches
      <4>3. QED
        BY <3>2, <4>1, <4>2, TidyAlone DEF Goes
    <3>15. CASE RecordsIdentity(c)
      <4> DEFINE p == cmd[c].child
      <4>1. /\ Goes(c, "wait", cmd[c].named, p, cmd[c].then)
            /\ UNCHANGED <<procs, told>> /\ cmd[c].at = "identity"
        BY <3>15, GoesOnOnly DEF RecordsIdentity, Ats
      <4>2. /\ envFiles'.pid = envFiles.pid /\ envFiles'.owner = envFiles.owner
            /\ envFiles'.pidNamed = p /\ envFiles'.start = procs[p].start
            /\ envFiles'.nonce = procs[p].nonce
        BY <3>15 DEF RecordsIdentity, EnvType, EnvFilesType
      <4>3. envFiles.pid = p /\ OwnerMatches /\ \A q \in Pids : Lives(q) => q = p
        BY <3>3, <4>1 DEF Settles
      <4>4. p \in Pids /\ procs[p].state # "free"
        BY <4>1 DEF OwnInv, Holds
      <4> HIDE DEF p
      <4>5. ASSUME NEW q \in Pids, Lives(q)' PROVE KnownAs(q)'
        <5>1. q = p /\ procs[p].state # "ended"
          BY <4>1, <4>3, <4>5 DEF Lives
        <5>2. QED
          BY <4>1, <4>2, <4>3, <4>4, <5>1, TestEnvAssumption
             DEF KnownAs, FilesAgree, OwnerMatches, Running, SameProcess, SameStart
      <4>6. AllKnown'
        BY <4>5 DEF AllKnown
      <4>7. QED
        BY <3>2, <4>1, <4>6, TidyGoes
    <3>16. QED
      BY <1>3, <2>3, <3>4, <3>5, <3>6, <3>7, <3>8, <3>9, <3>10, <3>11, <3>12, <3>13, <3>14, <3>15
         DEF CommandSteps
  <2>4. QED
    BY <2>1, <2>2, <2>3
<1>4. QED
  BY <1>1, <1>2, <1>3 DEF EnvNext, Outside, CommandSteps

(***************************************************************************)
(* Where commands follow one another and none is killed, no server of ours *)
(* runs that its files do not tell of, unless it has been told to stop:    *)
(* `up` leaves none behind, whichever way it ends, and `down` finds it.    *)
(***************************************************************************)
THEOREM ServersAreFound == EnvSpec => []ServerIsKnown
<1>1. EnvType /\ OwnInv /\ TidyInv => ServerIsKnown
  BY DEF TidyInv, ServerIsKnown, AllKnown, Lives, KnownAs
<1>2. QED
  BY <1>1, EnvStarts, EnvTyped, OwnSteps, TidySteps, PTL DEF EnvSpec
-----------------------------------------------------------------------------
(***************************************************************************)
(* A thread moved on by hand.  What a command carries, by how far it is.   *)
(***************************************************************************)
Given == {NoOutcome} \cup UNION {DOMAIN Branch[ph] : ph \in PhaseSet}

MetaType == [status : {"active", "completed"}, phase : PhaseSet, parts : {Members}]
CycleType == [phase : PhaseSet, index : Nat, status : {"active", "completed"}]
SaidType == [Actors -> Quality]
BindingType == [agent : Agents \cup {NoAgent}, status : {"absent", "active", "closed"}, old : BOOLEAN]
ReportType == [from : PhaseSet, index : Nat, to : PhaseSet \cup {NoPhase}, then : Nat]

EnsureType == [pc : {"ensure"}, meta : MetaType, said : SaidType, outcome : Given]
MoveRecord ==
    [pc : {"server", "load", "save", "cycle"}, meta : MetaType, outcome : Given,
     next : PhaseSet \cup {NoPhase}, cycle : CycleType]
Leads(r) ==
    r.next # NoPhase /\ r.outcome # NoOutcome =>
        r.outcome \in DOMAIN Branch[r.cycle.phase] /\ r.next = Branch[r.cycle.phase][r.outcome]
MoveType == {r \in MoveRecord : Leads(r)}
SentType == [pc : {"report"}, said : ReportType]
ContributeType ==
    [pc : {"contribute"}, phase : PhaseSet, actor : Actors, quality : {"short", "full"}]
ObserveType == [pc : {"observe"}, binding : BindingType, event : {"UserPromptSubmit", "Stop"}]
StaleType == [pc : {"stale"}, binding : BindingType]

CommandType ==
    {NoCommand} \cup EnsureType \cup MoveType \cup SentType \cup ContributeType
    \cup ObserveType \cup StaleType

HandType ==
    /\ meta \in MetaType
    /\ said \in [PhaseSet -> SaidType]
    /\ cycleFile \in CycleType \cup {NoCycleFile}
    /\ mailbox \in Seq(ReportType)
    /\ binding \in BindingType
    /\ command \in [Commands -> CommandType]
    /\ letGo \in [Actors -> PhaseSet \cup {NoPhase}]
    /\ kills \in Nat

\* What a command carries, by its pc.
LEMMA CommandByPc ==
    ASSUME NEW r \in CommandType
    PROVE  /\ r.pc = "none" => r = NoCommand
           /\ r.pc = "ensure" => r \in EnsureType
           /\ r.pc \in {"server", "load", "save", "cycle"} => r \in MoveType
           /\ r.pc = "report" => r \in SentType
           /\ r.pc = "contribute" => r \in ContributeType
           /\ r.pc = "observe" => r \in ObserveType
           /\ r.pc = "stale" => r \in StaleType
BY DEF CommandType, NoCommand, EnsureType, MoveType, MoveRecord, SentType, ContributeType,
       ObserveType, StaleType

\* The phase that follows, if there is one, is a phase of the protocol.
LEMMA FollowingPhase ==
    ASSUME NEW ph \in PhaseSet
    PROVE  Following(ph) \in PhaseSet \cup {NoPhase}
<1> DEFINE at == CHOOSE i \in DOMAIN Phases : Phases[i] = ph
<1>1. at \in DOMAIN Phases
  BY DEF PhaseSet
<1>2. Phases \in Seq(PhaseSet) /\ Default[ph] \in PhaseSet \cup {NoPhase}
  BY ProtocolAssumption
<1>3. at < Len(Phases) => Phases[at + 1] \in PhaseSet
  BY <1>1, <1>2
<1> HIDE DEF at
<1>4. \/ Following(ph) = Default[ph]
      \/ at < Len(Phases) /\ Following(ph) = Phases[at + 1]
      \/ Following(ph) = NoPhase
  BY DEF Following, at
<1>5. QED
  BY <1>2, <1>3, <1>4

\* A phase to go to is one of the protocol, and the outcome given leads there.
LEMMA TargetPhase ==
    ASSUME NEW r \in EnsureType
    PROVE  /\ Action(r) = "advance_phase" => Target(r) \in PhaseSet
           /\ Action(r) = "advance_phase" /\ r.outcome # NoOutcome =>
                 /\ r.outcome \in DOMAIN Branch[r.meta.phase]
                 /\ Target(r) = Branch[r.meta.phase][r.outcome]
<1>1. r.meta.phase \in PhaseSet
  BY DEF EnsureType, MetaType
<1>2. CASE r.outcome = NoOutcome
  BY <1>1, <1>2, FollowingPhase DEF Action, Target, SuggestedAction
<1>3. CASE r.outcome # NoOutcome
  <2>1. Action(r) = "advance_phase" => Applicable(r.meta.phase, r.outcome)
    BY <1>3 DEF Action
  <2>2. QED
    BY <1>1, <1>3, <2>1, ProtocolAssumption DEF Target, Applicable
<1>4. QED
  BY <1>2, <1>3

\* The cycle a command makes sure of is one of its phase.
LEMMA EnsuredCycle ==
    ASSUME HandType, NEW ph \in PhaseSet
    PROVE  Ensured(ph) \in CycleType /\ Ensured(ph).phase = ph
BY ProtocolAssumption DEF HandType, Ensured, StartCycle, CycleType, NoCycleFile

\* A cycle advanced over a transition is one of the phase that leads to.
LEMMA AdvanceOver ==
    ASSUME NEW cyc \in CycleType, NEW o \in DOMAIN Branch[cyc.phase],
           Branch[cyc.phase][o] \in PhaseSet
    PROVE  /\ AdvanceCycle(cyc, o) \in CycleType
           /\ AdvanceCycle(cyc, o).phase = Branch[cyc.phase][o]
<1>1. CASE Branch[cyc.phase][o] = cyc.phase
  <2> DEFINE next == [cyc EXCEPT !.index = cyc.index + 1, !.status = "active"]
  <2>1. AdvanceCycle(cyc, o) = next
    BY <1>1 DEF AdvanceCycle
  <2>2. cyc.index + 1 \in Nat
    BY DEF CycleType
  <2>3. next \in CycleType /\ next.phase = cyc.phase
    BY <2>2 DEF CycleType
  <2>4. QED
    BY <1>1, <2>1, <2>3
<1>2. CASE Branch[cyc.phase][o] # cyc.phase
  <2>1. AdvanceCycle(cyc, o) = StartCycle(Branch[cyc.phase][o])
    BY <1>2 DEF AdvanceCycle
  <2>2. QED
    BY <2>1 DEF StartCycle, CycleType
<1>3. QED
  BY <1>1, <1>2

\* The cycle a command writes after a move.
LEMMA NextCycleType ==
    ASSUME NEW r \in MoveType
    PROVE  /\ NextCycle(r) \in CycleType
           /\ r.next = NoPhase => NextCycle(r).phase = r.cycle.phase
           /\ r.next # NoPhase => NextCycle(r).phase = r.next
<1>1. r.cycle \in CycleType /\ r.next \in PhaseSet \cup {NoPhase} /\ Leads(r)
  BY DEF MoveType, MoveRecord
<1>2. CASE r.next = NoPhase
  BY <1>1, <1>2 DEF NextCycle, CycleType
<1>3. CASE r.next # NoPhase /\ r.outcome = NoOutcome
  BY <1>1, <1>3 DEF NextCycle, StartCycle, CycleType
<1>4. CASE r.next # NoPhase /\ r.outcome # NoOutcome
  <2>1. /\ r.outcome \in DOMAIN Branch[r.cycle.phase]
        /\ Branch[r.cycle.phase][r.outcome] = r.next /\ r.next \in PhaseSet
    BY <1>1, <1>4 DEF Leads
  <2>2. /\ AdvanceCycle(r.cycle, r.outcome) \in CycleType
        /\ AdvanceCycle(r.cycle, r.outcome).phase = r.next
    BY <1>1, <2>1, AdvanceOver
  <2>3. QED
    BY <1>4, <2>2 DEF NextCycle
<1>5. QED
  BY <1>2, <1>3, <1>4

\* A command that goes on to r, of the right type.
LEMMA NowType ==
    ASSUME HandType, NEW p \in Commands, NEW r \in CommandType, Now(p, r)
    PROVE  /\ command' \in [Commands -> CommandType]
           /\ command'[p] = r
           /\ \A q \in Commands \ {p} : command'[q] = command[q]
BY DEF Now, HandType

\* One that goes on with what it carries.
LEMMA OnwardType ==
    ASSUME NEW r \in MoveType
    PROVE  /\ [r EXCEPT !.pc = "cycle"] \in MoveType
           /\ \A m \in MetaType : [r EXCEPT !.pc = "save", !.meta = m] \in MoveType
<1>1. [r EXCEPT !.pc = "cycle"] \in MoveType
  BY DEF MoveType, MoveRecord, Leads
<1>2. ASSUME NEW m \in MetaType PROVE [r EXCEPT !.pc = "save", !.meta = m] \in MoveType
  BY DEF MoveType, MoveRecord, Leads
<1>3. QED
  BY <1>1, <1>2

\* Nothing is carried that is not of some type.
LEMMA Carried ==
    /\ NoCommand \in CommandType
    /\ EnsureType \subseteq CommandType /\ MoveType \subseteq CommandType
    /\ SentType \subseteq CommandType /\ ContributeType \subseteq CommandType
    /\ ObserveType \subseteq CommandType /\ StaleType \subseteq CommandType
BY DEF CommandType

\* What a thread becomes.
LEMMA MetaMoves ==
    ASSUME NEW m \in MetaType
    PROVE  /\ \A ph \in PhaseSet : Advanced(m, ph) \in MetaType /\ Advanced(m, ph).phase = ph
                                   /\ Advanced(m, ph).status = m.status
           /\ Closed(m) \in MetaType /\ Closed(m).phase = m.phase /\ Closed(m).status = "completed"
BY DEF MetaType, Advanced, Closed

\* The steps of a command that moves the thread.
ByMover(p) ==
    EnsureCycle(p) \/ ServerStep(p) \/ LoadThread(p) \/ SaveThread(p) \/ SaveCycle(p) \/ ReportStep(p)

\* What each of them does, with the types of what it carries and writes.
LEMMA EnsureMoves ==
    ASSUME HandType, NEW p \in Commands, EnsureCycle(p)
    PROVE  /\ command[p] \in EnsureType
           /\ cycleFile' = Ensured(command[p].meta.phase)
           /\ cycleFile' \in CycleType /\ cycleFile'.phase = command[p].meta.phase
           /\ UNCHANGED <<meta, said, mailbox, binding, letGo, kills>>
           /\ \/ Now(p, NoCommand)
              \/ \E r \in MoveType : /\ r.pc \in {"server", "load"} /\ r.cycle = cycleFile'
                                     /\ Now(p, r)
<1> DEFINE r == command[p]
<1> DEFINE onward == IF mode = "attached" THEN "server" ELSE "load"
<1> DEFINE on(next) == [pc |-> onward, meta |-> r.meta, outcome |-> r.outcome, next |-> next,
                        cycle |-> cycleFile']
<1>1. r.pc = "ensure" /\ cycleFile' = Ensured(r.meta.phase)
      /\ UNCHANGED <<meta, said, mailbox, binding, letGo, kills>>
  BY DEF EnsureCycle
<1>2. r \in EnsureType
  BY <1>1, CommandByPc DEF HandType
<1>3. r.meta.phase \in PhaseSet /\ r.meta \in MetaType /\ r.outcome \in Given
  BY <1>2 DEF EnsureType, MetaType
<1>4. cycleFile' \in CycleType /\ cycleFile'.phase = r.meta.phase
  BY <1>1, <1>3, EnsuredCycle
<1>5. CASE Action(r) = "advance_phase" /\ Now(p, on(Target(r)))
  <2>1. on(Target(r)) \in MoveRecord
    BY <1>2, <1>3, <1>4, <1>5, TargetPhase DEF MoveRecord
  <2>2. Leads(on(Target(r)))
    BY <1>2, <1>4, <1>5, TargetPhase DEF Leads
  <2>3. QED
    BY <1>1, <1>2, <1>4, <1>5, <2>1, <2>2 DEF MoveType
<1>6. CASE Now(p, on(NoPhase))
  <2>1. on(NoPhase) \in MoveRecord /\ Leads(on(NoPhase))
    BY <1>3, <1>4 DEF MoveRecord, Leads
  <2>2. QED
    BY <1>1, <1>2, <1>4, <1>6, <2>1 DEF MoveType
<1>7. CASE Now(p, NoCommand)
  BY <1>1, <1>2, <1>4, <1>7
<1>8. QED
  BY <1>5, <1>6, <1>7 DEF EnsureCycle

\* The thread as a move leaves it.
Shifted(r, m) == IF r.next = NoPhase THEN Closed(m) ELSE Advanced(m, r.next)

\* The steps that change the thread, with the server or without.
LEMMA ThreadMoves ==
    ASSUME HandType, NEW p \in Commands, ServerStep(p) \/ LoadThread(p) \/ SaveThread(p)
    PROVE  /\ command[p] \in MoveType
           /\ UNCHANGED <<said, cycleFile, mailbox, binding, letGo, kills>>
           /\ \/ Now(p, NoCommand) /\ UNCHANGED meta
              \/ /\ command[p].pc = "server" /\ meta' = Shifted(command[p], meta)
                 /\ command[p].next # NoPhase => meta.status = "active"
                 /\ Now(p, [command[p] EXCEPT !.pc = "cycle"])
              \/ /\ command[p].pc = "load" /\ UNCHANGED meta
                 /\ command[p].next # NoPhase => meta.status = "active"
                 /\ Now(p, [command[p] EXCEPT !.pc = "save", !.meta = Shifted(command[p], meta)])
              \/ /\ command[p].pc = "save" /\ meta' = command[p].meta
                 /\ Now(p, [command[p] EXCEPT !.pc = "cycle"])
<1> DEFINE r == command[p]
<1>1. /\ r.pc \in {"server", "load", "save"}
      /\ UNCHANGED <<said, cycleFile, mailbox, binding, letGo, kills>>
  BY DEF ServerStep, LoadThread, SaveThread
<1>2. r \in MoveType
  BY <1>1, CommandByPc DEF HandType
<1>3. CASE ServerStep(p)
  BY <1>1, <1>2, <1>3 DEF ServerStep, Granted, Shifted
<1>4. CASE LoadThread(p)
  BY <1>1, <1>2, <1>4 DEF LoadThread, Shifted
<1>5. CASE SaveThread(p)
  BY <1>1, <1>2, <1>5 DEF SaveThread
<1>6. QED
  BY <1>3, <1>4, <1>5

\* A thread that is moved is still one.
LEMMA ShiftedType ==
    ASSUME NEW r \in MoveType, NEW m \in MetaType
    PROVE  /\ Shifted(r, m) \in MetaType
           /\ r.next = NoPhase => Shifted(r, m).phase = m.phase /\ Shifted(r, m).status = "completed"
           /\ r.next # NoPhase => Shifted(r, m).phase = r.next /\ Shifted(r, m).status = m.status
BY MetaMoves DEF Shifted, MoveType, MoveRecord

\* The cycle and the report after it.
LEMMA CycleMoves ==
    ASSUME HandType, NEW p \in Commands, SaveCycle(p)
    PROVE  /\ command[p] \in MoveType /\ command[p].pc = "cycle"
           /\ cycleFile' = NextCycle(command[p]) /\ cycleFile' \in CycleType
           /\ UNCHANGED <<meta, said, mailbox, binding, letGo, kills>>
           /\ \E r \in SentType :
                 /\ r.said = [from |-> command[p].cycle.phase, index |-> command[p].cycle.index,
                              to |-> command[p].next, then |-> cycleFile'.index]
                 /\ Now(p, r)
<1> DEFINE r == command[p]
<1> DEFINE tells == [from |-> r.cycle.phase, index |-> r.cycle.index,
                     to |-> r.next, then |-> cycleFile'.index]
<1>1. /\ r.pc = "cycle" /\ cycleFile' = NextCycle(r)
      /\ UNCHANGED <<meta, said, mailbox, binding, letGo, kills>>
      /\ Now(p, [pc |-> "report", said |-> tells])
  BY DEF SaveCycle
<1>2. r \in MoveType
  BY <1>1, CommandByPc DEF HandType
<1>3. cycleFile' \in CycleType
  BY <1>1, <1>2, NextCycleType
<1>4. tells \in ReportType
  BY <1>2, <1>3 DEF ReportType, MoveType, MoveRecord, CycleType
<1>5. [pc |-> "report", said |-> tells] \in SentType
  BY <1>4 DEF SentType
<1>6. QED
  BY <1>1, <1>2, <1>3, <1>5

\* The report.
LEMMA ReportMoves ==
    ASSUME HandType, NEW p \in Commands, ReportStep(p)
    PROVE  /\ command[p] \in SentType /\ command[p].said \in ReportType
           /\ mailbox' = Append(mailbox, command[p].said)
           /\ UNCHANGED <<meta, said, cycleFile, binding, letGo, kills>>
           /\ Now(p, NoCommand)
BY CommandByPc DEF ReportStep, HandType, SentType

(***************************************************************************)
(* What an agent was let go with: the phase asks nothing of it, or it has  *)
(* given what is asked, and nothing of it was replaced since.              *)
(***************************************************************************)
Released(ph, a, w) ==
    \/ ph \notin Templated \cap Structured
    \/ a \notin ArtifactActors(ph, Members)
    \/ Matches(ph, w[ph][a])

LetInv == \A a \in Actors : letGo[a] # NoPhase => Released(letGo[a], a, said)

\* A contribution, whoever of the commands brings it.
LEMMA ContributeKeeps ==
    ASSUME HandType, LetInv, NEW ph \in PhaseSet, NEW a \in Actors, NEW q \in {"short", "full"},
           Contribute(ph, a, q)
    PROVE  /\ said' \in [PhaseSet -> SaidType]
           /\ letGo' \in [Actors -> PhaseSet \cup {NoPhase}]
           /\ LetInv'
<1>1. /\ said' = [said EXCEPT ![ph] = [said[ph] EXCEPT ![a] = q]]
      /\ letGo' = [letGo EXCEPT ![a] = NoPhase]
  BY DEF Contribute
<1>2. said[ph] \in SaidType /\ q \in Quality
  BY DEF HandType, Quality
<1>3. [said[ph] EXCEPT ![a] = q] \in SaidType
  BY <1>2 DEF SaidType
<1>4. said' \in [PhaseSet -> SaidType] /\ letGo' \in [Actors -> PhaseSet \cup {NoPhase}]
  BY <1>1, <1>3 DEF HandType
<1>5. ASSUME NEW b \in Actors, letGo'[b] # NoPhase PROVE Released(letGo'[b], b, said')
  <2>1. b # a /\ letGo'[b] = letGo[b] /\ letGo[b] \in PhaseSet
    BY <1>1, <1>5 DEF HandType
  <2>2. said'[letGo[b]][b] = said[letGo[b]][b]
    BY <1>1, <1>2, <2>1 DEF HandType, SaidType
  <2>3. Released(letGo[b], b, said)
    BY <2>1, ProtocolAssumption DEF LetInv
  <2>4. Released(letGo[b], b, said')
    BY <2>2, <2>3 DEF Released, Matches
  <2>5. QED
    BY <2>1, <2>4
<1>6. QED
  BY <1>4, <1>5 DEF LetInv

\* A hook that judges a Stop, or any other event.
LEMMA JudgeKeeps ==
    ASSUME HandType, LetInv, NEW a \in Agents \cup {NoAgent}, NEW event, Judge(a, event), UNCHANGED said
    PROVE  /\ letGo' \in [Actors -> PhaseSet \cup {NoPhase}]
           /\ LetInv'
<1>1. meta.phase \in PhaseSet /\ meta.parts = Members
  BY DEF HandType, MetaType
<1>2. CASE a = NoAgent
  BY <1>2 DEF Judge, HandType, LetInv
<1>3. CASE a # NoAgent
  <2> DEFINE ph == IF event = "Stop" /\ StopAllowed(a) THEN meta.phase ELSE NoPhase
  <2>1. letGo' = [letGo EXCEPT ![a] = ph] /\ ph \in PhaseSet \cup {NoPhase} /\ a \in Actors
    BY <1>1, <1>3 DEF Judge, Actors
  <2>2. ph # NoPhase => ph = meta.phase /\ StopAllowed(a)
    OBVIOUS
  <2> HIDE DEF ph
  <2>3. ph # NoPhase => Released(ph, a, said)
    BY <1>1, <2>2 DEF StopAllowed, Released
  <2>4. QED
    BY <2>1, <2>3 DEF HandType, LetInv
<1>4. QED
  BY <1>2, <1>3

\* What a command carries away.
LEMMA BoundType == HandType => binding \in BindingType
BY DEF HandType

\* The steps of the commands beside the mover, and of the person.
Beside ==
    \/ \E p \in Commands : SaveContribution(p) \/ Observe(p) \/ CloseBinding(p) \/ Kill(p)
    \/ \E p \in Others :
          \/ ClearBinding(p) \/ ShowBinding(p)
          \/ \E a \in Actors, q \in {"short", "full"} : Submit(p, a, q)
          \/ \E a \in Agents \cup {NoAgent}, event \in {"UserPromptSubmit", "Stop"} : Hook(p, a, event)
          \/ \E a \in Agents \ {User} : Bind(p, a)
    \/ DayPasses

\* None of them moves the thread, the cycle or the mailbox.
LEMMA BesideTyped ==
    ASSUME HandType, LetInv, Beside
    PROVE  /\ HandType' /\ LetInv'
           /\ UNCHANGED <<meta, cycleFile, mailbox>>
<1> USE Carried, BoundType
<1>1. ASSUME NEW p \in Commands, SaveContribution(p)
      PROVE  HandType' /\ LetInv' /\ UNCHANGED <<meta, cycleFile, mailbox>>
  <2>1. command[p] \in ContributeType
    BY <1>1, CommandByPc DEF SaveContribution, HandType
  <2>2. /\ command' \in [Commands -> CommandType]
        /\ UNCHANGED <<meta, cycleFile, mailbox, binding, kills>>
    BY <1>1, NowType DEF SaveContribution
  <2>3. CASE Contribute(command[p].phase, command[p].actor, command[p].quality)
    BY <2>1, <2>2, <2>3, ContributeKeeps DEF ContributeType, HandType
  <2>4. CASE UNCHANGED <<said, letGo>>
    BY <2>2, <2>4 DEF HandType, LetInv
  <2>5. QED
    BY <1>1, <2>2, <2>3, <2>4 DEF SaveContribution
<1>2. ASSUME NEW p \in Commands, Observe(p)
      PROVE  HandType' /\ LetInv' /\ UNCHANGED <<meta, cycleFile, mailbox>>
  <2>1. command[p] \in ObserveType
    BY <1>2, CommandByPc DEF Observe, HandType
  <2>2. command[p].binding \in BindingType /\ command[p].binding.agent \in Agents \cup {NoAgent}
    BY <2>1 DEF ObserveType, BindingType
  <2>3. /\ command' \in [Commands -> CommandType]
        /\ UNCHANGED <<meta, said, cycleFile, mailbox, kills>>
        /\ binding' = [command[p].binding EXCEPT !.old = FALSE]
        /\ Judge(command[p].binding.agent, command[p].event)
    BY <1>2, NowType DEF Observe
  <2>4. binding' \in BindingType
    BY <2>2, <2>3 DEF BindingType
  <2>5. letGo' \in [Actors -> PhaseSet \cup {NoPhase}] /\ LetInv'
    BY <2>2, <2>3, JudgeKeeps
  <2>6. QED
    BY <2>3, <2>4, <2>5 DEF HandType
<1>3. ASSUME NEW p \in Commands, CloseBinding(p)
      PROVE  HandType' /\ LetInv' /\ UNCHANGED <<meta, cycleFile, mailbox>>
  <2>1. command[p] \in StaleType
    BY <1>3, CommandByPc DEF CloseBinding, HandType
  <2>2. binding' \in BindingType
    BY <1>3, <2>1 DEF CloseBinding, StaleType, BindingType
  <2>3. QED
    BY <1>3, <2>2, NowType DEF CloseBinding, HandType, LetInv
<1>4. ASSUME NEW p \in Commands, Kill(p)
      PROVE  HandType' /\ LetInv' /\ UNCHANGED <<meta, cycleFile, mailbox>>
  BY <1>4, NowType DEF Kill, HandType, LetInv
<1>5. ASSUME NEW p \in Others, ClearBinding(p)
      PROVE  HandType' /\ LetInv' /\ UNCHANGED <<meta, cycleFile, mailbox>>
  BY <1>5 DEF ClearBinding, HandType, LetInv, BindingType, NoBinding
<1>6. ASSUME NEW p \in Others, ShowBinding(p)
      PROVE  HandType' /\ LetInv' /\ UNCHANGED <<meta, cycleFile, mailbox>>
  <2>1. [pc |-> "stale", binding |-> binding] \in StaleType
    BY DEF StaleType
  <2>2. QED
    BY <1>6, <2>1, NowType DEF ShowBinding, Commands, HandType, LetInv
<1>7. ASSUME NEW p \in Others, NEW a \in Actors, NEW q \in {"short", "full"}, Submit(p, a, q)
      PROVE  HandType' /\ LetInv' /\ UNCHANGED <<meta, cycleFile, mailbox>>
  <2>1. meta.phase \in PhaseSet /\ UNCHANGED <<meta, cycleFile, mailbox, binding, kills>>
    BY <1>7 DEF Submit, HandType, MetaType
  <2>2. CASE Contribute(meta.phase, a, q) /\ UNCHANGED command
    BY <2>1, <2>2, ContributeKeeps DEF HandType
  <2>3. CASE /\ Now(p, [pc |-> "contribute", phase |-> meta.phase, actor |-> a, quality |-> q])
             /\ UNCHANGED <<said, letGo>>
    <3>1. [pc |-> "contribute", phase |-> meta.phase, actor |-> a, quality |-> q] \in ContributeType
      BY <2>1 DEF ContributeType
    <3>2. QED
      BY <2>1, <2>3, <3>1, NowType DEF Commands, HandType, LetInv
  <2>4. QED
    BY <1>7, <2>2, <2>3 DEF Submit
<1>8. ASSUME NEW p \in Others, NEW a \in Agents \cup {NoAgent},
             NEW event \in {"UserPromptSubmit", "Stop"}, Hook(p, a, event)
      PROVE  HandType' /\ LetInv' /\ UNCHANGED <<meta, cycleFile, mailbox>>
  <2>1. UNCHANGED <<meta, said, cycleFile, mailbox, binding, kills>>
    BY <1>8 DEF Hook
  <2>2. CASE Now(p, [pc |-> "observe", binding |-> binding, event |-> event]) /\ UNCHANGED letGo
    <3>1. [pc |-> "observe", binding |-> binding, event |-> event] \in ObserveType
      BY DEF ObserveType
    <3>2. QED
      BY <2>1, <2>2, <3>1, NowType DEF Commands, HandType, LetInv
  <2>3. CASE Judge(a, event) /\ UNCHANGED command
    BY <2>1, <2>3, JudgeKeeps DEF HandType
  <2>4. QED
    BY <1>8, <2>2, <2>3 DEF Hook
<1>9. ASSUME NEW p \in Others, NEW a \in Agents \ {User}, Bind(p, a)
      PROVE  HandType' /\ LetInv' /\ UNCHANGED <<meta, cycleFile, mailbox>>
  BY <1>9 DEF Bind, HandType, LetInv, BindingType
<1>10. CASE DayPasses
  BY <1>10 DEF DayPasses, HandType, LetInv, BindingType
<1>11. QED
  BY <1>1, <1>2, <1>3, <1>4, <1>5, <1>6, <1>7, <1>8, <1>9, <1>10 DEF Beside

\* A step of the thread's mover is typed.
LEMMA MoverTyped ==
    ASSUME HandType, NEW p \in Commands, ByMover(p)
    PROVE  HandType' /\ UNCHANGED <<said, letGo>>
<1> USE Carried
<1>1. CASE EnsureCycle(p)
  BY <1>1, EnsureMoves, NowType DEF HandType
<1>2. CASE ServerStep(p) \/ LoadThread(p) \/ SaveThread(p)
  <2>1. /\ command[p] \in MoveType /\ command[p].meta \in MetaType /\ meta \in MetaType
        /\ UNCHANGED <<said, cycleFile, mailbox, binding, letGo, kills>>
    BY <1>2, ThreadMoves DEF MoveType, MoveRecord, HandType
  <2>2. /\ Shifted(command[p], meta) \in MetaType
        /\ [command[p] EXCEPT !.pc = "cycle"] \in CommandType
        /\ [command[p] EXCEPT !.pc = "save", !.meta = Shifted(command[p], meta)] \in CommandType
    BY <2>1, ShiftedType, OnwardType
  <2>3. meta' \in MetaType /\ command' \in [Commands -> CommandType]
    BY <1>2, <2>1, <2>2, ThreadMoves, NowType
  <2>4. QED
    BY <2>1, <2>3 DEF HandType
<1>3. CASE SaveCycle(p)
  BY <1>3, CycleMoves, NowType DEF HandType
<1>4. CASE ReportStep(p)
  <2>1. /\ mailbox' \in Seq(ReportType)
        /\ UNCHANGED <<meta, said, cycleFile, binding, letGo, kills>>
        /\ command' \in [Commands -> CommandType]
    <3>1. /\ mailbox \in Seq(ReportType) /\ command[p].said \in ReportType
          /\ mailbox' = Append(mailbox, command[p].said) /\ Now(p, NoCommand)
          /\ UNCHANGED <<meta, said, cycleFile, binding, letGo, kills>>
      BY <1>4, ReportMoves DEF HandType
    <3>2. command' \in [Commands -> CommandType]
      BY <3>1, NowType
    <3>3. mailbox' \in Seq(ReportType)
      BY <3>1
    <3>4. QED
      BY <3>1, <3>2, <3>3
  <2>2. QED
    BY <2>1 DEF HandType
<1>5. QED
  BY <1>1, <1>2, <1>3, <1>4 DEF ByMover

\* So is the start of a move, and a close.
LEMMA OtherTyped ==
    ASSUME HandType,
           \/ ForceClose
           \/ \E p \in Movers : CloseThread(p) \/ \E o \in Given : ApplyNext(p, o)
    PROVE  HandType' /\ UNCHANGED <<said, letGo, cycleFile, mailbox>>
<1> USE Carried
<1>1. meta \in MetaType /\ Closed(meta) \in MetaType
  BY MetaMoves DEF HandType
<1>2. CASE ForceClose
  BY <1>1, <1>2 DEF ForceClose, HandType
<1>3. ASSUME NEW p \in Movers, CloseThread(p) PROVE HandType' /\ UNCHANGED <<said, letGo, cycleFile, mailbox>>
  BY <1>1, <1>3 DEF CloseThread, HandType
<1>4. ASSUME NEW p \in Movers, NEW o \in Given, ApplyNext(p, o)
      PROVE  HandType' /\ UNCHANGED <<said, letGo, cycleFile, mailbox>>
  <2>1. [pc |-> "ensure", meta |-> meta, said |-> said[meta.phase], outcome |-> o] \in EnsureType
    BY <1>1 DEF EnsureType, HandType, MetaType
  <2>2. QED
    BY <1>4, <2>1, NowType DEF ApplyNext, Commands, HandType
<1>5. QED
  BY <1>2, <1>3, <1>4

\* Every step of the commands is one of these.
LEMMA HandSplit ==
    ASSUME HandNext
    PROVE  \/ Beside \/ ForceClose
           \/ \E p \in Commands : ByMover(p)
           \/ \E p \in Movers : CloseThread(p) \/ \E o \in Given : ApplyNext(p, o)
BY DEF HandNext, HandStep, ByMover, Beside, Given

\* Types, and what agents were let go with.
LEMMA HandTyped == HandType /\ LetInv /\ [HandNext]_handVars => HandType' /\ LetInv'
<1> SUFFICES ASSUME HandType, LetInv, [HandNext]_handVars PROVE HandType' /\ LetInv'
  OBVIOUS
<1>1. CASE UNCHANGED handVars
  BY <1>1 DEF handVars, HandType, LetInv
<1>2. CASE Beside
  BY <1>2, BesideTyped
<1>3. CASE HandType' /\ UNCHANGED <<said, letGo>>
  BY <1>3 DEF LetInv
<1>4. QED
  BY <1>1, <1>2, <1>3, HandSplit, MoverTyped, OtherTyped

\* They hold at the start.
LEMMA HandStarts == HandInit => HandType /\ LetInv
<1> SUFFICES ASSUME HandInit PROVE HandType /\ LetInv
  OBVIOUS
<1>1. Phases[1] \in PhaseSet
  BY ProtocolAssumption DEF PhaseSet
<1>2. meta \in MetaType /\ binding \in BindingType
  BY <1>1 DEF HandInit, MetaType, BindingType, NoBinding
<1>3. said \in [PhaseSet -> SaidType]
  BY DEF HandInit, SaidType, Quality
<1>4. command \in [Commands -> CommandType] /\ letGo = [a \in Actors |-> NoPhase]
  BY Carried DEF HandInit
<1>5. QED
  BY <1>2, <1>3, <1>4 DEF HandInit, HandType, LetInv

\* The template of a phase is filled in by its participants, or by the person.
RequiredIsGiven == Required \subseteq Structured \cup DecidedByUser

(***************************************************************************)
(* Whatever commands move the thread, contribute and are killed, and       *)
(* however many there are: when the Stop hook has let every participant of *)
(* a phase go, the gate lets the thread leave it.  The hook asks nothing   *)
(* of a phase whose actions are not to contribute or to decide, and the    *)
(* gate asks what its template requires all the same; so this is of        *)
(* protocols that have no such phase.                                      *)
(***************************************************************************)
THEOREM LetGoLeaves ==
    ASSUME RequiredIsGiven
    PROVE  HandSpec => []LetGoMeansComplete
<1>1. HandType /\ LetInv => LetGoMeansComplete
  <2> SUFFICES ASSUME HandType, LetInv, meta.phase \notin DecidedByUser, meta.phase \in Required,
                      \A a \in Range(meta.parts) : letGo[a] = meta.phase,
                      NEW i \in DOMAIN meta.parts
               PROVE  said[meta.phase][meta.parts[i]] = "full"
    BY DEF LetGoMeansComplete, Complete, Passed
  <2> DEFINE a == meta.parts[i]
  <2>1. meta.phase \in PhaseSet /\ meta.parts = Members /\ meta.phase # NoPhase
    BY ProtocolAssumption DEF HandType, MetaType
  <2>2. a \in Range(Members) /\ Members # <<>> /\ a \in Actors
    BY <2>1 DEF Range, Actors, Agents
  <2>3. letGo[a] = meta.phase
    BY <2>1, <2>2
  <2>4. Released(meta.phase, a, said)
    BY <2>1, <2>2, <2>3 DEF LetInv
  <2>5. meta.phase \in Templated \cap Structured /\ a \in ArtifactActors(meta.phase, Members)
    BY <2>2, HandAssumption DEF RequiredIsGiven, ArtifactActors
  <2>6. QED
    BY <2>4, <2>5 DEF Released, Matches
<1>2. QED
  BY <1>1, HandStarts, HandTyped, PTL DEF HandSpec
-----------------------------------------------------------------------------
(***************************************************************************)
(* One command at a time moves the thread.  What it has read of the thread *)
(* and of the cycle is then still so when it writes, up to the write it is *)
(* about; r is what it carries, m the thread, c the cycle, k the kills.    *)
(***************************************************************************)
OneMover == \A p, q \in Movers : p = q

Underway == {"server", "load", "save", "cycle", "report"}

OnTrack(r, m, c, k) ==
    /\ r.pc = "ensure" => r.meta.phase = m.phase
    /\ r.pc \in {"server", "load", "save"} => r.cycle = c /\ r.cycle.phase = m.phase
    /\ r.pc = "save" =>
          /\ r.next = NoPhase => r.meta.phase = m.phase /\ r.meta.status = "completed"
          /\ r.next # NoPhase => r.meta.phase = r.next /\ (k = 0 => m.status = "active")
    /\ r.pc = "cycle" =>
          /\ r.cycle = c
          /\ r.next = NoPhase => r.cycle.phase = m.phase /\ m.status = "completed"
          /\ r.next # NoPhase => r.next = m.phase
    /\ r.pc = "report" =>
          /\ c.phase = m.phase /\ r.said.then = c.index
          /\ r.said.to = NoPhase => m.status = "completed"
          /\ r.said.to # NoPhase => r.said.to = m.phase

TrackInv ==
    \A p \in Commands : command[p].pc \in Underway \cup {"ensure"} =>
        p \in Movers /\ OnTrack(command[p], meta, cycleFile, kills)

(***************************************************************************)
(* What the mailbox b says, while nothing is killed: the reports follow on *)
(* one another, the last one ends where the thread is, or where the one    *)
(* who moves it has found it.                                              *)
(***************************************************************************)
LastOf(b) == b[Len(b)]

Chained(b) ==
    \A i \in 1 .. Len(b) - 1 :
        b[i].to # NoPhase => b[i + 1].from = b[i].to /\ b[i + 1].index = b[i].then

Closing(m, b) == b # <<>> /\ LastOf(b).to = NoPhase => m.status = "completed"

Abreast(m, c, b) ==
    /\ c # NoCycleFile => c.phase = m.phase
    /\ b # <<>> /\ LastOf(b).to # NoPhase =>
          c # NoCycleFile /\ LastOf(b).to = m.phase /\ LastOf(b).then = c.index

FollowsOn(r, b) ==
    b # <<>> /\ LastOf(b).to # NoPhase =>
        /\ r.pc \in {"server", "load", "save", "cycle"} =>
              LastOf(b).to = r.cycle.phase /\ LastOf(b).then = r.cycle.index
        /\ r.pc = "report" => LastOf(b).to = r.said.from /\ LastOf(b).then = r.said.index

MailInv ==
    kills = 0 =>
        /\ Chained(mailbox) /\ Closing(meta, mailbox)
        /\ (\A p \in Movers : command[p].pc \notin Underway) => Abreast(meta, cycleFile, mailbox)
        /\ \A p \in Commands : FollowsOn(command[p], mailbox)

\* A step of the one mover.
LEMMA TrackAlone ==
    ASSUME OneMover, TrackInv, NEW p \in Movers,
           \A q \in Commands \ {p} : command'[q] = command[q],
           OnTrack(command'[p], meta', cycleFile', kills')
    PROVE  TrackInv'
BY DEF TrackInv, OneMover

\* The same for the mailbox.
LEMMA MailAlone ==
    ASSUME OneMover, TrackInv, NEW p \in Movers,
           \A q \in Commands \ {p} : command'[q] = command[q],
           kills' = 0 => /\ Chained(mailbox') /\ Closing(meta', mailbox')
                         /\ command'[p].pc \notin Underway => Abreast(meta', cycleFile', mailbox')
                         /\ FollowsOn(command'[p], mailbox')
    PROVE  MailInv'
<1>1. ASSUME NEW q \in Commands, q # p PROVE FollowsOn(command'[q], mailbox')
  BY <1>1 DEF TrackInv, OneMover, FollowsOn, Underway
<1>2. QED
  BY <1>1 DEF MailInv

\* What the one who moves the thread may rely on.
LEMMA MoverFacts ==
    ASSUME OneMover, HandType, TrackInv, MailInv, NEW p \in Commands,
           command[p].pc \in Underway \cup {"ensure"}
    PROVE  /\ p \in Movers
           /\ OnTrack(command[p], meta, cycleFile, kills)
           /\ kills = 0 => /\ Chained(mailbox) /\ Closing(meta, mailbox)
                           /\ command[p].pc = "ensure" => Abreast(meta, cycleFile, mailbox)
                           /\ FollowsOn(command[p], mailbox)
<1>1. p \in Movers /\ OnTrack(command[p], meta, cycleFile, kills)
  BY DEF TrackInv
<1>2. command[p].pc = "ensure" => \A q \in Movers : command[q].pc \notin Underway
  BY <1>1 DEF OneMover, Underway
<1>3. QED
  BY <1>1, <1>2 DEF MailInv

\* A command that has ended, or not begun, is of no concern.
LEMMA NoneMoves ==
    /\ \A m, c, k : OnTrack(NoCommand, m, c, k)
    /\ \A b : FollowsOn(NoCommand, b)
    /\ NoCommand.pc \notin Underway
BY DEF OnTrack, FollowsOn, NoCommand, Underway

\* Making sure of a cycle keeps the one there is, if it is of the phase.
LEMMA EnsureTracks ==
    ASSUME OneMover, HandType, TrackInv, MailInv, NEW p \in Commands, EnsureCycle(p)
    PROVE  TrackInv' /\ MailInv'
<1>1. /\ command[p] \in EnsureType /\ command[p].pc = "ensure"
      /\ cycleFile' = Ensured(command[p].meta.phase)
      /\ cycleFile' \in CycleType /\ cycleFile'.phase = command[p].meta.phase
      /\ UNCHANGED <<meta, mailbox, kills>>
  BY EnsureMoves DEF EnsureCycle
<1>2. /\ p \in Movers /\ OnTrack(command[p], meta, cycleFile, kills)
      /\ kills = 0 => Chained(mailbox) /\ Closing(meta, mailbox) /\ Abreast(meta, cycleFile, mailbox)
  BY <1>1, MoverFacts
<1>3. cycleFile'.phase = meta.phase
  BY <1>1, <1>2 DEF OnTrack
<1>4. kills = 0 => Abreast(meta, cycleFile', mailbox)
  BY <1>1, <1>2, <1>3 DEF Abreast, Ensured
<1>5. CASE Now(p, NoCommand)
  <2>1. command'[p] = NoCommand /\ \A q \in Commands \ {p} : command'[q] = command[q]
    BY <1>5, Carried, NowType
  <2>2. TrackInv'
    BY <1>2, <2>1, NoneMoves, TrackAlone
  <2>3. MailInv'
    BY <1>1, <1>2, <1>4, <2>1, NoneMoves, MailAlone
  <2>4. QED
    BY <2>2, <2>3
<1>6. CASE \E r \in MoveType : r.pc \in {"server", "load"} /\ r.cycle = cycleFile' /\ Now(p, r)
  <2>1. PICK r \in MoveType : r.pc \in {"server", "load"} /\ r.cycle = cycleFile' /\ Now(p, r)
    BY <1>6
  <2>2. command'[p] = r /\ \A q \in Commands \ {p} : command'[q] = command[q]
    BY <2>1, Carried, NowType
  <2>3. OnTrack(r, meta, cycleFile', kills)
    BY <1>3, <2>1 DEF OnTrack
  <2>4. kills = 0 => FollowsOn(r, mailbox)
    BY <1>3, <1>4, <2>1 DEF FollowsOn, Abreast
  <2>5. r.pc \in Underway
    BY <2>1 DEF Underway
  <2>6. TrackInv'
    BY <1>1, <1>2, <2>2, <2>3, TrackAlone
  <2>7. MailInv'
    BY <1>1, <1>2, <2>2, <2>4, <2>5, MailAlone
  <2>8. QED
    BY <2>6, <2>7
<1>7. QED
  BY <1>5, <1>6, EnsureMoves

\* The write of the thread, by the server or by the command.
LEMMA ThreadTracks ==
    ASSUME OneMover, HandType, TrackInv, MailInv, NEW p \in Commands,
           ServerStep(p) \/ LoadThread(p) \/ SaveThread(p)
    PROVE  TrackInv' /\ MailInv'
<1> DEFINE r == command[p]
<1>1. /\ r \in MoveType /\ r.pc \in {"server", "load", "save"}
      /\ UNCHANGED <<cycleFile, mailbox, kills>>
  BY ThreadMoves DEF ServerStep, LoadThread, SaveThread
<1>2. /\ p \in Movers /\ OnTrack(r, meta, cycleFile, kills)
      /\ kills = 0 => Chained(mailbox) /\ Closing(meta, mailbox) /\ FollowsOn(r, mailbox)
  BY <1>1, MoverFacts DEF Underway
<1>3. r.cycle = cycleFile /\ r.cycle.phase = meta.phase /\ r.cycle # NoCycleFile
  BY <1>1, <1>2, ProtocolAssumption DEF OnTrack, MoveType, MoveRecord, CycleType, NoCycleFile
<1>4. meta \in MetaType /\ r \in MoveRecord
  BY <1>1 DEF HandType, MoveType
<1>5. CASE Now(p, NoCommand) /\ UNCHANGED meta
  <2>1. command'[p] = NoCommand /\ \A q \in Commands \ {p} : command'[q] = command[q]
    BY <1>5, Carried, NowType
  <2>2. kills = 0 => Abreast(meta, cycleFile, mailbox)
    BY <1>1, <1>2, <1>3 DEF FollowsOn, Abreast
  <2>3. TrackInv'
    BY <1>2, <2>1, NoneMoves, TrackAlone
  <2>4. MailInv'
    BY <1>1, <1>2, <1>5, <2>1, <2>2, NoneMoves, MailAlone
  <2>5. QED
    BY <2>3, <2>4
<1>6. ASSUME NEW s \in MoveType, Now(p, s), s.next = r.next, s.cycle = r.cycle,
             s.pc \in {"save", "cycle"}, OnTrack(s, meta', cycleFile, kills),
             kills = 0 => Closing(meta', mailbox)
      PROVE  TrackInv' /\ MailInv'
  <2>1. command'[p] = s /\ \A q \in Commands \ {p} : command'[q] = command[q]
    BY <1>6, Carried, NowType
  <2>2. kills = 0 => FollowsOn(s, mailbox)
    BY <1>1, <1>2, <1>6 DEF FollowsOn
  <2>3. s.pc \in Underway
    BY <1>6 DEF Underway
  <2>4. TrackInv'
    BY <1>1, <1>2, <1>6, <2>1, TrackAlone
  <2>5. MailInv'
    BY <1>1, <1>2, <1>6, <2>1, <2>2, <2>3, MailAlone
  <2>6. QED
    BY <2>4, <2>5
<1> DEFINE after == [r EXCEPT !.pc = "cycle"]
<1>7. /\ after \in MoveType /\ after.pc = "cycle" /\ after.next = r.next /\ after.cycle = r.cycle
  BY <1>1, <1>4, OnwardType DEF MoveRecord
<1>8. CASE r.pc = "server" /\ meta' = Shifted(r, meta) /\ Now(p, after)
  <2>1. /\ r.next = NoPhase => meta'.phase = meta.phase /\ meta'.status = "completed"
        /\ r.next # NoPhase => meta'.phase = r.next /\ meta'.status = meta.status
    BY <1>1, <1>4, <1>8, ShiftedType
  <2> HIDE DEF after
  <2>2. OnTrack(after, meta', cycleFile, kills)
    BY <1>3, <1>7, <2>1 DEF OnTrack
  <2>3. kills = 0 => Closing(meta', mailbox)
    BY <1>2, <2>1 DEF Closing
  <2>4. QED
    BY <1>6, <1>7, <1>8, <2>2, <2>3
<1>9. CASE r.pc = "save" /\ meta' = r.meta /\ Now(p, after)
  <2>1. /\ r.next = NoPhase => meta'.phase = meta.phase /\ meta'.status = "completed"
        /\ r.next # NoPhase => meta'.phase = r.next /\ (kills = 0 => meta.status = "active")
    BY <1>2, <1>9 DEF OnTrack
  <2> HIDE DEF after
  <2>2. OnTrack(after, meta', cycleFile, kills)
    BY <1>3, <1>7, <2>1 DEF OnTrack
  <2>3. kills = 0 => Closing(meta', mailbox)
    BY <1>2, <2>1 DEF Closing
  <2>4. QED
    BY <1>6, <1>7, <1>9, <2>2, <2>3
<1> DEFINE saving == [r EXCEPT !.pc = "save", !.meta = Shifted(r, meta)]
<1>10. CASE /\ r.pc = "load" /\ UNCHANGED meta
            /\ r.next # NoPhase => meta.status = "active"
            /\ Now(p, saving)
  <2>1. /\ Shifted(r, meta) \in MetaType
        /\ r.next = NoPhase => Shifted(r, meta).phase = meta.phase /\ Shifted(r, meta).status = "completed"
        /\ r.next # NoPhase => Shifted(r, meta).phase = r.next
    BY <1>1, <1>4, ShiftedType
  <2>2. /\ saving \in MoveType /\ saving.pc = "save" /\ saving.next = r.next
        /\ saving.cycle = r.cycle /\ saving.meta = Shifted(r, meta)
    BY <1>1, <1>4, <2>1, OnwardType DEF MoveRecord
  <2> HIDE DEF saving
  <2>3. OnTrack(saving, meta', cycleFile, kills)
    BY <1>3, <1>10, <2>1, <2>2 DEF OnTrack
  <2>4. kills = 0 => Closing(meta', mailbox)
    BY <1>2, <1>10
  <2>5. QED
    BY <1>6, <1>10, <2>2, <2>3, <2>4
<1>11. QED
  BY <1>5, <1>8, <1>9, <1>10, ThreadMoves

\* The write of the cycle.
LEMMA CycleTracks ==
    ASSUME OneMover, HandType, TrackInv, MailInv, NEW p \in Commands, SaveCycle(p)
    PROVE  TrackInv' /\ MailInv'
<1> DEFINE r == command[p]
<1>1. /\ r \in MoveType /\ r.pc = "cycle"
      /\ cycleFile' = NextCycle(r) /\ UNCHANGED <<meta, mailbox, kills>>
  BY CycleMoves
<1>2. /\ p \in Movers /\ OnTrack(r, meta, cycleFile, kills)
      /\ kills = 0 => Chained(mailbox) /\ Closing(meta, mailbox) /\ FollowsOn(r, mailbox)
  BY <1>1, MoverFacts DEF Underway
<1>3. PICK s \in SentType :
          /\ s.said = [from |-> r.cycle.phase, index |-> r.cycle.index,
                       to |-> r.next, then |-> cycleFile'.index]
          /\ Now(p, s)
  BY CycleMoves
<1>4. /\ s.pc = "report" /\ s.said.from = r.cycle.phase /\ s.said.index = r.cycle.index
      /\ s.said.to = r.next /\ s.said.then = cycleFile'.index
  BY <1>3 DEF SentType
<1>5. command'[p] = s /\ \A q \in Commands \ {p} : command'[q] = command[q]
  BY <1>3, Carried, NowType
<1>6. cycleFile'.phase = meta.phase
  BY <1>1, <1>2, NextCycleType DEF OnTrack
<1>7. OnTrack(s, meta, cycleFile', kills)
  BY <1>1, <1>2, <1>4, <1>6 DEF OnTrack
<1>8. kills = 0 => FollowsOn(s, mailbox)
  BY <1>1, <1>2, <1>4 DEF FollowsOn
<1>9. s.pc \in Underway
  BY <1>4 DEF Underway
<1>10. TrackInv'
  BY <1>1, <1>2, <1>5, <1>7, TrackAlone
<1>11. MailInv'
  BY <1>1, <1>2, <1>5, <1>8, <1>9, MailAlone
<1>12. QED
  BY <1>10, <1>11

\* A report is put behind the ones there are.
LEMMA ReportLast ==
    ASSUME NEW b \in Seq(ReportType), NEW e \in ReportType
    PROVE  /\ Append(b, e) # <<>> /\ LastOf(Append(b, e)) = e
           /\ /\ Chained(b)
              /\ b # <<>> /\ LastOf(b).to # NoPhase =>
                    e.from = LastOf(b).to /\ e.index = LastOf(b).then
              => Chained(Append(b, e))
<1> DEFINE n == Len(b)
<1> DEFINE c == Append(b, e)
<1>1. /\ n \in Nat /\ Len(c) = n + 1 /\ c[n + 1] = e
      /\ \A i \in 1 .. n : c[i] = b[i]
  OBVIOUS
<1>2. c # <<>> /\ LastOf(c) = e
  BY <1>1 DEF LastOf
<1>3. ASSUME Chained(b),
             b # <<>> /\ LastOf(b).to # NoPhase =>
                e.from = LastOf(b).to /\ e.index = LastOf(b).then
      PROVE  Chained(c)
  <2> HIDE DEF c
  <2> SUFFICES ASSUME NEW i \in 1 .. n, c[i].to # NoPhase
               PROVE  c[i + 1].from = c[i].to /\ c[i + 1].index = c[i].then
    BY <1>1 DEF Chained
  <2>1. CASE i = n
    BY <1>1, <1>3, <2>1 DEF LastOf
  <2>2. CASE i # n
    BY <1>1, <1>3, <2>2 DEF Chained
  <2>3. QED
    BY <2>1, <2>2
<1>4. QED
  BY <1>2, <1>3

\* The report itself.
LEMMA ReportTracks ==
    ASSUME OneMover, HandType, TrackInv, MailInv, NEW p \in Commands, ReportStep(p)
    PROVE  TrackInv' /\ MailInv'
<1> DEFINE e == command[p].said
<1>1. /\ command[p].pc = "report" /\ e \in ReportType /\ mailbox' = Append(mailbox, e)
      /\ UNCHANGED <<meta, cycleFile, kills>> /\ Now(p, NoCommand)
  BY ReportMoves DEF ReportStep
<1>2. /\ p \in Movers /\ OnTrack(command[p], meta, cycleFile, kills)
      /\ kills = 0 => Chained(mailbox) /\ FollowsOn(command[p], mailbox)
  BY <1>1, MoverFacts DEF Underway
<1>3. command'[p] = NoCommand /\ \A q \in Commands \ {p} : command'[q] = command[q]
  BY <1>1, Carried, NowType
<1>4. /\ cycleFile.phase = meta.phase /\ e.then = cycleFile.index
      /\ e.to = NoPhase => meta.status = "completed"
      /\ e.to # NoPhase => e.to = meta.phase
  BY <1>1, <1>2 DEF OnTrack
<1>5. cycleFile # NoCycleFile
  BY <1>4, ProtocolAssumption DEF HandType, MetaType, NoCycleFile
<1>6. kills = 0 /\ mailbox # <<>> /\ LastOf(mailbox).to # NoPhase =>
          e.from = LastOf(mailbox).to /\ e.index = LastOf(mailbox).then
  BY <1>1, <1>2 DEF FollowsOn
<1>7. mailbox \in Seq(ReportType)
  BY DEF HandType
<1> HIDE DEF e
<1>8. /\ mailbox' # <<>> /\ LastOf(mailbox') = e
      /\ kills = 0 => Chained(mailbox')
  BY <1>1, <1>2, <1>6, <1>7, ReportLast
<1>9. Closing(meta, mailbox') /\ Abreast(meta, cycleFile, mailbox')
  BY <1>4, <1>5, <1>8 DEF Closing, Abreast
<1>10. TrackInv'
  BY <1>2, <1>3, NoneMoves, TrackAlone
<1>11. MailInv'
  BY <1>1, <1>2, <1>3, <1>8, <1>9, NoneMoves, MailAlone
<1>12. QED
  BY <1>10, <1>11

\* The other commands: none of them begins a move, and only a kill ends one.
LEMMA BesideLeaves ==
    ASSUME HandType, Beside
    PROVE  /\ \A q \in Commands :
                 \/ command'[q] = command[q]
                 \/ command'[q].pc \notin Underway \cup {"ensure"}
           /\ \/ kills' = kills + 1
              \/ /\ kills' = kills
                 /\ \A q \in Commands : command[q].pc \in Underway => command'[q] = command[q]
<1> USE DEF HandType
<1>1. ASSUME NEW p \in Commands, NEW r, Now(p, r), r.pc \notin Underway \cup {"ensure"},
             \/ kills' = kills + 1
             \/ kills' = kills /\ command[p].pc \notin Underway
      PROVE  /\ \A q \in Commands :
                   \/ command'[q] = command[q]
                   \/ command'[q].pc \notin Underway \cup {"ensure"}
             /\ \/ kills' = kills + 1
                \/ /\ kills' = kills
                   /\ \A q \in Commands : command[q].pc \in Underway => command'[q] = command[q]
  BY <1>1 DEF Now
<1>2. CASE \E p \in Commands : SaveContribution(p) \/ Observe(p) \/ CloseBinding(p)
  <2>1. PICK p \in Commands : SaveContribution(p) \/ Observe(p) \/ CloseBinding(p)
    BY <1>2
  <2>2. Now(p, NoCommand) /\ kills' = kills /\ command[p].pc \notin Underway
    BY <2>1 DEF SaveContribution, Observe, CloseBinding, Underway
  <2>3. QED
    BY <1>1, <2>2 DEF NoCommand, Underway
<1>3. CASE \E p \in Commands : Kill(p)
  <2>1. PICK p \in Commands : Kill(p)
    BY <1>3
  <2>2. Now(p, NoCommand) /\ kills' = kills + 1
    BY <2>1 DEF Kill
  <2>3. QED
    BY <1>1, <2>2 DEF NoCommand, Underway
<1>4. CASE DayPasses \/ \E p \in Others : ClearBinding(p) \/ \E a \in Agents \ {User} : Bind(p, a)
  BY <1>4 DEF DayPasses, ClearBinding, Bind
<1> DEFINE Sets(p) ==
              /\ kills' = kills /\ command[p].pc = "none"
              /\ \/ UNCHANGED command
                 \/ \E r : Now(p, r) /\ r.pc \in {"stale", "contribute", "observe"}
<1>5. ASSUME NEW p \in Others, ShowBinding(p) PROVE Sets(p)
  <2> DEFINE r == [pc |-> "stale", binding |-> binding]
  <2>1. Now(p, r) /\ r.pc = "stale" /\ kills' = kills /\ command[p].pc = "none"
    BY <1>5 DEF ShowBinding
  <2> HIDE DEF r
  <2>2. QED
    BY <2>1
<1>6. ASSUME NEW p \in Others, NEW a \in Actors, NEW q \in {"short", "full"}, Submit(p, a, q)
      PROVE  Sets(p)
  <2> DEFINE r == [pc |-> "contribute", phase |-> meta.phase, actor |-> a, quality |-> q]
  <2>1. /\ kills' = kills /\ command[p].pc = "none" /\ r.pc = "contribute"
        /\ Now(p, r) \/ UNCHANGED command
    BY <1>6 DEF Submit
  <2> HIDE DEF r
  <2>2. QED
    BY <2>1
<1>7. ASSUME NEW p \in Others, NEW a \in Agents \cup {NoAgent},
             NEW event \in {"UserPromptSubmit", "Stop"}, Hook(p, a, event)
      PROVE  Sets(p)
  <2> DEFINE r == [pc |-> "observe", binding |-> binding, event |-> event]
  <2>1. /\ kills' = kills /\ command[p].pc = "none" /\ r.pc = "observe"
        /\ Now(p, r) \/ UNCHANGED command
    BY <1>7 DEF Hook
  <2> HIDE DEF r
  <2>2. QED
    BY <2>1
<1>8. CASE \/ \E p \in Others : ShowBinding(p)
           \/ \E p \in Others, a \in Actors, q \in {"short", "full"} : Submit(p, a, q)
           \/ \E p \in Others, a \in Agents \cup {NoAgent}, event \in {"UserPromptSubmit", "Stop"} :
                 Hook(p, a, event)
  <2> HIDE DEF Sets
  <2>0. \E p \in Commands : Sets(p)
    BY <1>5, <1>6, <1>7, <1>8 DEF Commands
  <2> USE DEF Sets
  <2>1. PICK p \in Commands : Sets(p)
    BY <2>0
  <2>2. CASE UNCHANGED command
    BY <2>1, <2>2
  <2>3. CASE \E r : Now(p, r) /\ r.pc \in {"stale", "contribute", "observe"}
    <3>1. PICK r : Now(p, r) /\ r.pc \in {"stale", "contribute", "observe"}
      BY <2>3
    <3>2. r.pc \notin Underway \cup {"ensure"} /\ command[p].pc \notin Underway
      BY <2>1, <3>1 DEF Underway
    <3>3. QED
      BY <1>1, <2>1, <3>1, <3>2
  <2>4. QED
    BY <2>1, <2>2, <2>3
<1>9. QED
  BY <1>2, <1>3, <1>4, <1>8 DEF Beside

\* So what the mover relies on stays.
LEMMA BesideTracks ==
    ASSUME HandType, LetInv, TrackInv, MailInv, Beside
    PROVE  TrackInv' /\ MailInv'
<1>1. UNCHANGED <<meta, cycleFile, mailbox>> /\ kills \in Nat
  BY BesideTyped DEF HandType
<1>2. kills' = 0 => kills = 0
  BY <1>1, BesideLeaves
<1>3. TrackInv'
  <2> SUFFICES ASSUME NEW q \in Commands, command'[q].pc \in Underway \cup {"ensure"}
               PROVE  q \in Movers /\ OnTrack(command'[q], meta', cycleFile', kills')
    BY DEF TrackInv
  <2>1. command'[q] = command[q]
    BY BesideLeaves
  <2>2. q \in Movers /\ OnTrack(command[q], meta, cycleFile, kills)
    BY <2>1 DEF TrackInv
  <2>3. QED
    BY <1>1, <1>2, <2>1, <2>2 DEF OnTrack
<1>4. MailInv'
  <2> SUFFICES ASSUME kills' = 0 PROVE MailInv'
    BY DEF MailInv
  <2>1. kills = 0 /\ kills' # kills + 1
    BY <1>1, <1>2
  <2>2. \A q \in Commands : command[q].pc \in Underway => command'[q] = command[q]
    BY <2>1, BesideLeaves
  <2>3. ASSUME NEW q \in Commands PROVE FollowsOn(command'[q], mailbox)
    <3>1. CASE command'[q] = command[q]
      BY <2>1, <3>1 DEF MailInv
    <3>2. CASE command'[q].pc \notin Underway
      BY <3>2 DEF FollowsOn, Underway
    <3>3. QED
      BY <3>1, <3>2, BesideLeaves
  <2>4. (\A q \in Movers : command'[q].pc \notin Underway) =>
            \A q \in Movers : command[q].pc \notin Underway
    BY <2>2 DEF Commands
  <2>5. QED
    BY <1>1, <2>1, <2>3, <2>4 DEF MailInv
<1>5. QED
  BY <1>3, <1>4

\* The start of a move, and a close.
LEMMA OtherTracks ==
    ASSUME OneMover, HandType, TrackInv, MailInv,
           \/ ForceClose
           \/ \E p \in Movers : CloseThread(p) \/ \E o \in Given : ApplyNext(p, o)
    PROVE  TrackInv' /\ MailInv'
<1>1. UNCHANGED <<cycleFile, mailbox>> /\ kills \in Nat
  BY OtherTyped DEF HandType
<1>2. Closed(meta).phase = meta.phase /\ Closed(meta).status = "completed"
  BY MetaMoves DEF HandType
<1>3. CASE ForceClose
  <2>1. meta' = Closed(meta) /\ kills' = kills + 1 /\ UNCHANGED command
    BY <1>3 DEF ForceClose
  <2>2. kills' # 0
    BY <1>1, <2>1
  <2>3. ASSUME NEW q \in Commands, OnTrack(command[q], meta, cycleFile, kills)
        PROVE  OnTrack(command[q], meta', cycleFile, kills')
    BY <1>2, <2>1, <2>2, <2>3 DEF OnTrack
  <2>4. QED
    BY <1>1, <2>1, <2>2, <2>3 DEF TrackInv, MailInv
<1>4. ASSUME NEW p \in Movers, CloseThread(p) PROVE TrackInv' /\ MailInv'
  <2>1. meta' = Closed(meta) /\ UNCHANGED <<command, kills>> /\ command[p].pc = "none"
    BY <1>4 DEF CloseThread
  <2>2. p \in Commands /\ command[p].pc \notin Underway
    BY <2>1 DEF Commands, Underway
  <2>3. OnTrack(command[p], meta', cycleFile', kills')
    BY <2>1 DEF OnTrack
  <2>4. kills = 0 => /\ Chained(mailbox) /\ Abreast(meta, cycleFile, mailbox)
                     /\ FollowsOn(command[p], mailbox)
    BY <2>2 DEF MailInv, OneMover
  <2>5. Closing(meta', mailbox)
    BY <1>2, <2>1 DEF Closing
  <2>6. kills = 0 => Abreast(meta', cycleFile, mailbox)
    BY <1>2, <2>1, <2>4 DEF Abreast
  <2>7. TrackInv'
    BY <2>1, <2>3, TrackAlone
  <2>8. MailInv'
    BY <1>1, <2>1, <2>4, <2>5, <2>6, MailAlone
  <2>9. QED
    BY <2>7, <2>8
<1>5. ASSUME NEW p \in Movers, NEW o \in Given, ApplyNext(p, o) PROVE TrackInv' /\ MailInv'
  <2> DEFINE r == [pc |-> "ensure", meta |-> meta, said |-> said[meta.phase], outcome |-> o]
  <2>1. Now(p, r) /\ UNCHANGED <<meta, kills>> /\ command[p].pc = "none" /\ p \in Commands
    BY <1>5 DEF ApplyNext, Commands
  <2>2. command'[p] = r /\ \A q \in Commands \ {p} : command'[q] = command[q]
    BY <2>1 DEF Now, HandType
  <2>3. r.pc = "ensure" /\ r.meta = meta
    OBVIOUS
  <2> HIDE DEF r
  <2>4. OnTrack(r, meta, cycleFile, kills) /\ FollowsOn(r, mailbox) /\ r.pc \notin Underway
    BY <2>3 DEF OnTrack, FollowsOn, Underway
  <2>5. kills = 0 => /\ Chained(mailbox) /\ Closing(meta, mailbox)
                     /\ Abreast(meta, cycleFile, mailbox)
    BY <2>1 DEF MailInv, OneMover, Underway
  <2>6. TrackInv'
    BY <1>1, <2>1, <2>2, <2>4, TrackAlone
  <2>7. MailInv'
    BY <1>1, <2>1, <2>2, <2>4, <2>5, MailAlone
  <2>8. QED
    BY <2>6, <2>7
<1>6. QED
  BY <1>3, <1>4, <1>5

\* What one mover keeps, and its types.
HandInv == HandType /\ LetInv /\ TrackInv /\ MailInv

\* At the start nothing moves, and the mailbox is empty.
LEMMA TrackStarts == HandInit => HandInv
<1> SUFFICES ASSUME HandInit PROVE TrackInv /\ MailInv
  BY HandStarts DEF HandInv
<1>1. \A p \in Commands : command[p] = NoCommand
  BY DEF HandInit
<1>2. mailbox = <<>> /\ cycleFile = NoCycleFile
  BY DEF HandInit
<1>3. TrackInv
  BY <1>1 DEF TrackInv, NoCommand, Underway
<1>4. Chained(mailbox) /\ Closing(meta, mailbox) /\ Abreast(meta, cycleFile, mailbox)
  BY <1>2 DEF Chained, Closing, Abreast
<1>5. QED
  BY <1>1, <1>3, <1>4, NoneMoves DEF MailInv

\* Every step keeps it.
LEMMA TrackSteps ==
    ASSUME OneMover
    PROVE  HandInv /\ [HandNext]_handVars => HandInv'
<1> SUFFICES ASSUME HandInv, [HandNext]_handVars PROVE HandInv'
  OBVIOUS
<1> USE DEF HandInv
<1>1. HandType' /\ LetInv'
  BY HandTyped
<1>2. CASE UNCHANGED handVars
  BY <1>1, <1>2 DEF handVars, TrackInv, MailInv
<1>3. CASE Beside
  BY <1>1, <1>3, BesideTracks
<1>4. ASSUME NEW p \in Commands, ByMover(p) PROVE TrackInv' /\ MailInv'
  BY <1>4, EnsureTracks, ThreadTracks, CycleTracks, ReportTracks DEF ByMover
<1>5. QED
  BY <1>1, <1>2, <1>3, <1>4, OtherTracks, HandSplit

(***************************************************************************)
(* Where one command at a time moves the thread, whatever is contributed,  *)
(* closed, bound and killed beside it: once a move has written its cycle,  *)
(* it is a cycle of the phase the thread is in, and without a kill it is   *)
(* so whenever nothing moves (_ensure_phase_cycle_state).                  *)
(***************************************************************************)
THEOREM CycleFollows ==
    ASSUME OneMover
    PROVE  HandSpec => []CycleFollowsThread
<1>1. HandInv => CycleFollowsThread
  <2> SUFFICES ASSUME HandInv,
                      \/ \E p \in Movers : command[p].pc = "report"
                      \/ NobodyMoves /\ kills = 0 /\ cycleFile # NoCycleFile
               PROVE  cycleFile.phase = meta.phase
    BY DEF CycleFollowsThread
  <2>1. CASE \E p \in Movers : command[p].pc = "report"
    BY <2>1 DEF HandInv, TrackInv, OnTrack, Underway, Commands
  <2>2. CASE NobodyMoves /\ kills = 0 /\ cycleFile # NoCycleFile
    BY <2>2 DEF HandInv, MailInv, NobodyMoves, Underway, Abreast
  <2>3. QED
    BY <2>1, <2>2
<1>2. QED
  BY <1>1, TrackStarts, TrackSteps, PTL DEF HandSpec

(***************************************************************************)
(* The same for the mailbox: as long as nothing is killed, the reports of  *)
(* the steps are a way through the protocol that ends where the thread is, *)
(* at the cycle it is in, whenever nothing moves.                          *)
(***************************************************************************)
THEOREM ReportsLeadHere ==
    ASSUME OneMover
    PROVE  HandSpec => []ReportsAreTheWay
<1>1. HandInv => ReportsAreTheWay
  <2> SUFFICES ASSUME HandInv, NobodyMoves, kills = 0, mailbox # <<>>
               PROVE  /\ Chained(mailbox)
                      /\ IF LastOf(mailbox).to = NoPhase THEN meta.status = "completed"
                         ELSE /\ LastOf(mailbox).to = meta.phase
                              /\ LastOf(mailbox).then = cycleFile.index
    BY DEF ReportsAreTheWay, Chained, LastOf
  <2>1. Chained(mailbox) /\ Closing(meta, mailbox) /\ Abreast(meta, cycleFile, mailbox)
    BY DEF HandInv, MailInv, NobodyMoves, Underway
  <2>2. QED
    BY <2>1 DEF Closing, Abreast
<1>2. QED
  BY <1>1, TrackStarts, TrackSteps, PTL DEF HandSpec
-----------------------------------------------------------------------------
(***************************************************************************)
(* The turn over a live transport.  What the process says in answer to a   *)
(* prompt is of the kinds TurnKinds.                                       *)
(***************************************************************************)
TurnKinds == {"started", "delta", "final", "complete", "idle"}
SaidKinds == TurnKinds \cup {"initialize", "thread", "system", "answer"}
AskedKinds == {"initialize", "thread", "turn"}

EventOf(kinds) == [kind : kinds, n : Nat]

ProcessType ==
    [id : Nat, input : Seq(EventOf(AskedKinds)), output : Seq(EventOf(SaidKinds)),
     open : BOOLEAN, at : Nat, todo : SUBSET SaidKinds]

AdapterType ==
    [queue : Seq(EventOf(SaidKinds \cup {"end"})), first : Seq(EventOf({"started"})),
     asked : {"-", "initialize", "thread", "answer"}, answer : {"-", "ok", "closed"},
     reading : BOOLEAN]

Unheld == {"spawn", "initialize", "thread", "ready", "stop", "failed"}

TurnPcs == Unheld \cup {"idle", "send", "sent", "read", "done"}

TurnType ==
    [pc : TurnPcs, n : Nat, then : {"-", "spawn", "failed"}, active : Nat,
     deltas : SUBSET Nat, final : SUBSET Nat, complete : BOOLEAN,
     grace : {"-", "idle", "post"}, startup : BOOLEAN]

LiveType ==
    /\ process \in ProcessType /\ adapter \in AdapterType /\ turn \in TurnType
    /\ held \in BOOLEAN

(***************************************************************************)
(* There is one process at most, and somebody is answerable for it.        *)
(***************************************************************************)
OwnerInv ==
    /\ alive \subseteq {process.id}
    /\ turn.pc \in Unheld => ~held
    /\ held \/ turn.pc \in {"initialize", "thread", "ready", "stop"} \/ alive = {}
    /\ turn.pc = "stop" => turn.then \in {"spawn", "failed"}

(***************************************************************************)
(* What may be under way between a process p and an adapter a: nothing of  *)
(* a turn (Quiet), or what is of turn n (OnlyOf).  A process that has      *)
(* closed its output says nothing more, whatever it was asked.             *)
(***************************************************************************)
Untold(s) == \A i \in DOMAIN s : s[i].kind \notin TurnKinds
ToldOf(s, n) == \A i \in DOMAIN s : s[i].kind \in TurnKinds => s[i].n = n
Unasked(s) == \A i \in DOMAIN s : s[i].kind # "turn"
AskedOf(s, n) == \A i \in DOMAIN s : s[i].kind = "turn" => s[i].n = n
AskedOnce(s) == \A i, j \in DOMAIN s : s[i].kind = "turn" /\ s[j].kind = "turn" => i = j
HasResult(s) == \E i \in DOMAIN s : s[i].kind = "complete"

Silent(p) == p.open => p.todo \cap TurnKinds = {} /\ Unasked(p.input)

Quiet(p, a) == Untold(a.queue) /\ Untold(a.first) /\ Untold(p.output) /\ Silent(p)

OnlyOf(p, a, n) ==
    /\ ToldOf(a.queue, n) /\ ToldOf(a.first, n) /\ ToldOf(p.output, n)
    /\ p.open => /\ p.todo \cap TurnKinds # {} => p.at = n
                 /\ AskedOf(p.input, n)

(***************************************************************************)
(* At any time: one prompt is asked; behind the end of the output there is *)
(* nothing; and the result of claude is the last it says of a turn.        *)
(***************************************************************************)
OneRequest(p) ==
    p.open => AskedOnce(p.input) /\ (p.todo \cap TurnKinds # {} => Unasked(p.input))

EndsLast(p, a) ==
    \A i \in DOMAIN a.queue : a.queue[i].kind = "end" =>
        i = Len(a.queue) /\ ~p.open /\ p.output = <<>> /\ ~a.reading

ResultLast(s) ==
    \A i, j \in DOMAIN s : s[i].kind = "complete" /\ s[j].kind \in TurnKinds => j <= i

ResultEnds(p, a) ==
    /\ a.first = <<>>
    /\ p.todo \cap TurnKinds \subseteq {"delta", "complete"}
    /\ ResultLast(a.queue) /\ ResultLast(p.output)
    /\ HasResult(a.queue) => Untold(p.output)
    /\ HasResult(a.queue) \/ HasResult(p.output) => Silent(p)

PipeInv(p, a) ==
    /\ OneRequest(p) /\ EndsLast(p, a)
    /\ provider # "codex" => ResultEnds(p, a)

StageInv(p, a, t, h) ==
    /\ t.deltas \subseteq {t.n} /\ t.final \subseteq {t.n} /\ t.active \in {0, t.n}
    /\ t.pc \in {"initialize", "thread", "ready", "send"} => Quiet(p, a)
    /\ t.pc \in {"idle", "done"} /\ h => Quiet(p, a)
    /\ t.pc \in {"sent", "read"} => OnlyOf(p, a, t.n)
    /\ provider # "codex" => t.pc # "sent"

\* What taking the first event away leaves.
LEMMA TailLeaves ==
    ASSUME NEW K, NEW s \in Seq(EventOf(K)), s # <<>>
    PROVE  /\ Tail(s) \in Seq(EventOf(K)) /\ Head(s) \in EventOf(K)
           /\ Len(s) \in Nat \ {0} /\ Len(Tail(s)) = Len(s) - 1 /\ Head(s) = s[1]
           /\ DOMAIN s = 1 .. Len(s) /\ DOMAIN Tail(s) = 1 .. Len(s) - 1
           /\ \A i \in 1 .. Len(s) - 1 : Tail(s)[i] = s[i + 1]
OBVIOUS

\* What follows for the events that are left.
LEMMA TailKeeps ==
    ASSUME NEW K, NEW s \in Seq(EventOf(K)), s # <<>>
    PROVE  /\ Untold(s) => Untold(Tail(s)) /\ Head(s).kind \notin TurnKinds
           /\ \A n : ToldOf(s, n) => /\ ToldOf(Tail(s), n)
                                     /\ Head(s).kind \in TurnKinds => Head(s).n = n
           /\ Unasked(s) => Unasked(Tail(s)) /\ Head(s).kind # "turn"
           /\ \A n : AskedOf(s, n) => /\ AskedOf(Tail(s), n)
                                      /\ Head(s).kind = "turn" => Head(s).n = n
           /\ AskedOnce(s) => /\ AskedOnce(Tail(s))
                              /\ Head(s).kind = "turn" => Unasked(Tail(s))
           /\ HasResult(Tail(s)) \/ Head(s).kind = "complete" => HasResult(s)
           /\ ResultLast(s) => /\ ResultLast(Tail(s))
                               /\ Head(s).kind = "complete" => Untold(Tail(s))
<1> DEFINE t == Tail(s)
<1>1. /\ Len(s) \in Nat \ {0} /\ Head(s) = s[1]
      /\ DOMAIN s = 1 .. Len(s) /\ DOMAIN t = 1 .. Len(s) - 1
      /\ \A i \in 1 .. Len(s) - 1 : t[i] = s[i + 1]
  BY TailLeaves
<1> HIDE DEF t
<1>2. \A i \in DOMAIN t : i \in Nat /\ i + 1 \in DOMAIN s /\ t[i] = s[i + 1]
  BY <1>1
<1>3. 1 \in DOMAIN s
  BY <1>1
<1>4. Untold(s) => Untold(t) /\ Head(s).kind \notin TurnKinds
  BY <1>1, <1>2, <1>3 DEF Untold
<1>5. ASSUME NEW n, ToldOf(s, n)
      PROVE  ToldOf(t, n) /\ (Head(s).kind \in TurnKinds => Head(s).n = n)
  BY <1>1, <1>2, <1>3, <1>5 DEF ToldOf
<1>6. Unasked(s) => Unasked(t) /\ Head(s).kind # "turn"
  BY <1>1, <1>2, <1>3 DEF Unasked
<1>7. ASSUME NEW n, AskedOf(s, n)
      PROVE  AskedOf(t, n) /\ (Head(s).kind = "turn" => Head(s).n = n)
  BY <1>1, <1>2, <1>3, <1>7 DEF AskedOf
<1>8. HasResult(t) \/ Head(s).kind = "complete" => HasResult(s)
  BY <1>1, <1>2, <1>3 DEF HasResult
<1>9. ResultLast(s) => ResultLast(t)
  <2> SUFFICES ASSUME ResultLast(s), NEW i \in DOMAIN t, NEW j \in DOMAIN t,
                      t[i].kind = "complete", t[j].kind \in TurnKinds
               PROVE  j <= i
    BY DEF ResultLast
  <2>1. j + 1 <= i + 1 /\ i \in Nat /\ j \in Nat
    BY <1>2 DEF ResultLast
  <2>2. QED
    BY <2>1
<1>10. ResultLast(s) /\ Head(s).kind = "complete" => Untold(t)
  <2> SUFFICES ASSUME ResultLast(s), s[1].kind = "complete", NEW i \in DOMAIN t,
                      t[i].kind \in TurnKinds
               PROVE  FALSE
    BY <1>1 DEF Untold
  <2>1. i + 1 <= 1 /\ i \in 1 .. Len(s) - 1
    BY <1>1, <1>2, <1>3 DEF ResultLast
  <2>2. QED
    BY <1>1, <2>1
<1>11. AskedOnce(s) => AskedOnce(t) /\ (Head(s).kind = "turn" => Unasked(t))
  <2> SUFFICES ASSUME AskedOnce(s), NEW i \in DOMAIN t, t[i].kind = "turn"
               PROVE  Head(s).kind # "turn" /\ \A j \in DOMAIN t : t[j].kind = "turn" => i = j
    BY DEF AskedOnce, Unasked
  <2>1. \A j \in DOMAIN s : s[j].kind = "turn" => i + 1 = j
    BY <1>2 DEF AskedOnce
  <2>2. Head(s).kind # "turn"
    BY <1>1, <1>2, <1>3, <2>1
  <2>3. ASSUME NEW j \in DOMAIN t, t[j].kind = "turn" PROVE i = j
    BY <1>2, <2>1, <2>3
  <2>4. QED
    BY <2>2, <2>3
<1>12. QED
  BY <1>4, <1>5, <1>6, <1>7, <1>8, <1>9, <1>10, <1>11 DEF t

\* What putting an event behind the others makes.
LEMMA AppendLeaves ==
    ASSUME NEW K, NEW s \in Seq(EventOf(K)), NEW e \in EventOf(K)
    PROVE  /\ Append(s, e) \in Seq(EventOf(K))
           /\ Len(s) \in Nat /\ Len(Append(s, e)) = Len(s) + 1
           /\ DOMAIN s = 1 .. Len(s) /\ DOMAIN Append(s, e) = 1 .. Len(s) + 1
           /\ \A i \in 1 .. Len(s) : Append(s, e)[i] = s[i]
           /\ Append(s, e)[Len(s) + 1] = e
OBVIOUS

\* What follows for the events that are there then.
LEMMA AppendKeeps ==
    ASSUME NEW K, NEW s \in Seq(EventOf(K)), NEW e \in EventOf(K)
    PROVE  /\ Untold(s) /\ e.kind \notin TurnKinds => Untold(Append(s, e))
           /\ \A n : ToldOf(s, n) /\ (e.kind \in TurnKinds => e.n = n) => ToldOf(Append(s, e), n)
           /\ Unasked(s) /\ e.kind # "turn" => Unasked(Append(s, e))
           /\ \A n : AskedOf(s, n) /\ (e.kind = "turn" => e.n = n) => AskedOf(Append(s, e), n)
           /\ Unasked(s) \/ (AskedOnce(s) /\ e.kind # "turn") => AskedOnce(Append(s, e))
           /\ HasResult(Append(s, e)) => HasResult(s) \/ e.kind = "complete"
           /\ ResultLast(s) /\ (e.kind \in TurnKinds => ~HasResult(s)) => ResultLast(Append(s, e))
<1> DEFINE t == Append(s, e)
<1>1. /\ Len(s) \in Nat
      /\ DOMAIN s = 1 .. Len(s) /\ DOMAIN t = 1 .. Len(s) + 1
      /\ \A i \in 1 .. Len(s) : t[i] = s[i]
      /\ t[Len(s) + 1] = e
  BY AppendLeaves
<1> HIDE DEF t
<1>2. \A i \in DOMAIN t : \/ i \in DOMAIN s /\ t[i] = s[i]
                          \/ i = Len(s) + 1 /\ t[i] = e
  BY <1>1
<1>3. Untold(s) /\ e.kind \notin TurnKinds => Untold(t)
  BY <1>2 DEF Untold
<1>4. \A n : ToldOf(s, n) /\ (e.kind \in TurnKinds => e.n = n) => ToldOf(t, n)
  BY <1>2 DEF ToldOf
<1>5. Unasked(s) /\ e.kind # "turn" => Unasked(t)
  BY <1>2 DEF Unasked
<1>6. \A n : AskedOf(s, n) /\ (e.kind = "turn" => e.n = n) => AskedOf(t, n)
  BY <1>2 DEF AskedOf
<1>7. HasResult(t) => HasResult(s) \/ e.kind = "complete"
  BY <1>2 DEF HasResult
<1>8. ResultLast(s) /\ (e.kind \in TurnKinds => ~HasResult(s)) => ResultLast(t)
  <2> SUFFICES ASSUME ResultLast(s), e.kind \in TurnKinds => ~HasResult(s),
                      NEW i \in DOMAIN t, NEW j \in DOMAIN t,
                      t[i].kind = "complete", t[j].kind \in TurnKinds
               PROVE  j <= i
    BY DEF ResultLast
  <2>1. CASE i \in DOMAIN s /\ t[i] = s[i]
    <3>1. HasResult(s)
      BY <2>1 DEF HasResult
    <3>2. j \in DOMAIN s /\ t[j] = s[j]
      BY <1>2, <3>1
    <3>3. QED
      BY <2>1, <3>2 DEF ResultLast
  <2>2. CASE i = Len(s) + 1
    BY <1>1, <2>2
  <2>3. QED
    BY <1>2, <2>1, <2>2
<1>9. Unasked(s) \/ (AskedOnce(s) /\ e.kind # "turn") => AskedOnce(t)
  BY <1>2 DEF Unasked, AskedOnce
<1>10. QED
  BY <1>3, <1>4, <1>5, <1>6, <1>7, <1>8, <1>9 DEF t

\* The event a turn reads next: the answer to its request comes first.
LEMMA PendingFirst ==
    ASSUME LiveType
    PROVE  /\ adapter.first \in Seq(EventOf({"started"}))
           /\ adapter.queue \in Seq(EventOf(SaidKinds \cup {"end"}))
           /\ Pending = <<>> => adapter.first = <<>> /\ adapter.queue = <<>>
           /\ adapter.first # <<>> => Pending # <<>> /\ Head(Pending) = Head(adapter.first)
           /\ adapter.first = <<>> => Pending = adapter.queue
<1> DEFINE f == adapter.first
<1> DEFINE q == adapter.queue
<1> DEFINE E == EventOf(SaidKinds \cup {"end"})
<1>1. f \in Seq(EventOf({"started"})) /\ q \in Seq(E)
  BY DEF LiveType, AdapterType
<1>2. EventOf({"started"}) \subseteq E
  BY DEF EventOf, SaidKinds, TurnKinds
<1> HIDE DEF f, q, E
<1>3. f \in Seq(E)
  <2>1. f \in [1 .. Len(f) -> E] /\ Len(f) \in Nat
    BY <1>1, <1>2
  <2>2. QED
    BY <2>1
<1>4. /\ f \o q = <<>> => f = <<>> /\ q = <<>>
      /\ f = <<>> => f \o q = q
  BY <1>3, <1>1
<1>5. ASSUME f # <<>> PROVE f \o q # <<>> /\ Head(f \o q) = Head(f)
  <2>1. Len(f) \in Nat \ {0} /\ Len(q) \in Nat /\ Len(f \o q) = Len(f) + Len(q)
    BY <1>1, <1>3, <1>5
  <2>2. f \o q \in Seq(E) /\ Len(f \o q) # 0
    BY <1>1, <1>3, <2>1
  <2>3. (f \o q)[1] = f[1]
    BY <1>1, <1>3, <2>1
  <2>4. Head(f \o q) = (f \o q)[1] /\ Head(f) = f[1]
    BY <1>3, <1>4, <2>2
  <2>5. QED
    BY <2>2, <2>3, <2>4
<1>6. QED
  BY <1>1, <1>4, <1>5 DEF Pending, f, q, E

\* A process that has not begun to speak of a turn.
LEMMA NothingYet ==
    /\ Untold(<<>>) /\ Unasked(<<>>) /\ AskedOnce(<<>>) /\ ResultLast(<<>>)
    /\ ~HasResult(<<>>)
    /\ \A n : ToldOf(<<>>, n) /\ AskedOf(<<>>, n)
BY DEF Untold, Unasked, AskedOnce, ResultLast, HasResult, ToldOf, AskedOf

LiveInv == LiveType /\ OwnerInv /\ PipeInv(process, adapter) /\ StageInv(process, adapter, turn, held)

\* A step of the process, or of the adapter's reader, leaves the turn alone.
BehindTheTurn ==
    /\ process' \in ProcessType /\ adapter' \in AdapterType
    /\ process'.id = process.id /\ alive' \subseteq alive
    /\ UNCHANGED <<provider, turn, held, saved>>

\* A step behind the turn keeps the invariant when the pipe does and the turn sees no more.
LEMMA PipeStep ==
    ASSUME LiveInv, BehindTheTurn, PipeInv(process', adapter'),
           Quiet(process, adapter) => Quiet(process', adapter'),
           OnlyOf(process, adapter, turn.n) => OnlyOf(process', adapter', turn.n)
    PROVE  LiveInv'
<1>1. provider' = provider /\ turn' = turn /\ held' = held
  BY DEF BehindTheTurn
<1>2. LiveType' /\ OwnerInv'
  BY <1>1 DEF LiveInv, LiveType, OwnerInv, BehindTheTurn
<1>3. StageInv(process', adapter', turn, held)
  BY DEF LiveInv, StageInv
<1>4. PipeInv(process, adapter)'
  BY <1>1 DEF PipeInv, ResultEnds
<1>5. StageInv(process, adapter, turn, held)'
  BY <1>1, <1>3 DEF StageInv
<1>6. QED
  BY <1>2, <1>4, <1>5 DEF LiveInv

\* The process takes a request; only one that still speaks answers it.
LEMMA TakesKeeps == ASSUME LiveInv, ProviderTakes PROVE LiveInv' /\ UNCHANGED saved
<1> DEFINE p == process
<1> DEFINE a == adapter
<1> DEFINE q == process'
<1> DEFINE request == Head(p.input)
<1>1. /\ p \in ProcessType /\ a \in AdapterType /\ p.input # <<>> /\ p.todo = {}
      /\ OneRequest(p) /\ EndsLast(p, a) /\ (provider # "codex" => ResultEnds(p, a))
      /\ UNCHANGED <<provider, alive, adapter, held, turn, session, saved, faults>>
  BY DEF ProviderTakes, LiveInv, LiveType, PipeInv
<1>2. p.input \in Seq(EventOf(AskedKinds)) /\ request \in EventOf(AskedKinds)
      /\ Tail(p.input) \in Seq(EventOf(AskedKinds))
  BY <1>1, TailLeaves DEF ProcessType
<1>3. PICK at \in Nat, todo \in SUBSET SaidKinds :
          /\ q = [p EXCEPT !.input = Tail(p.input), !.at = at, !.todo = todo]
          /\ request.kind # "turn" => todo \cap TurnKinds = {}
          /\ request.kind = "turn" =>
                at = request.n /\ (provider # "codex" => todo \cap TurnKinds \subseteq {"delta", "complete"})
  <2>1. CASE request.kind = "turn"
    <3>1. PICK kinds \in SUBSET {"delta", "final", "idle"} :
              q = [p EXCEPT !.input = Tail(p.input), !.at = request.n, !.todo = Answers(kinds)]
      BY <2>1 DEF ProviderTakes
    <3>2. /\ Answers(kinds) \in SUBSET SaidKinds /\ request.n \in Nat
          /\ provider # "codex" => Answers(kinds) \subseteq {"delta", "complete"}
      BY <1>2 DEF Answers, SaidKinds, TurnKinds, EventOf
    <3> HIDE DEF p, q, request
    <3>3. QED
      BY <2>1, <3>1, <3>2
  <2>2. CASE request.kind # "turn"
    <3>1. q = [p EXCEPT !.input = Tail(p.input), !.at = 0, !.todo = {request.kind}]
      BY <2>2 DEF ProviderTakes
    <3>2. request.kind \in {"initialize", "thread"}
      BY <1>2, <2>2 DEF EventOf, AskedKinds
    <3>3. {request.kind} \in SUBSET SaidKinds /\ {request.kind} \cap TurnKinds = {}
      BY <3>2 DEF SaidKinds, TurnKinds
    <3> HIDE DEF p, q, request
    <3>4. QED
      BY <2>2, <3>1, <3>3
  <2>3. QED
    BY <2>1, <2>2
<1>4. /\ q \in ProcessType /\ q.id = p.id /\ q.input = Tail(p.input) /\ q.output = p.output
      /\ q.open = p.open /\ q.at = at /\ q.todo = todo
  BY <1>1, <1>2, <1>3 DEF ProcessType
<1> HIDE DEF p, a, q, request
<1>5. /\ AskedOnce(p.input) => AskedOnce(q.input) /\ (request.kind = "turn" => Unasked(q.input))
      /\ Unasked(p.input) => Unasked(q.input) /\ request.kind # "turn"
      /\ \A n : AskedOf(p.input, n) =>
            AskedOf(q.input, n) /\ (request.kind = "turn" => request.n = n)
  BY <1>1, <1>2, <1>4, TailKeeps DEF request
<1>6. OneRequest(q)
  BY <1>1, <1>3, <1>4, <1>5 DEF OneRequest
<1>7. EndsLast(q, a)
  BY <1>1, <1>4 DEF EndsLast
<1>8. Silent(p) => Silent(q)
  BY <1>3, <1>4, <1>5 DEF Silent
<1>9. provider # "codex" => ResultEnds(q, a)
  BY <1>1, <1>3, <1>4, <1>8 DEF ResultEnds
<1>10. Quiet(p, a) => Quiet(q, a)
  BY <1>4, <1>8 DEF Quiet
<1>11. ASSUME NEW n, OnlyOf(p, a, n) PROVE OnlyOf(q, a, n)
  BY <1>3, <1>4, <1>5, <1>11 DEF OnlyOf
<1>12. PipeInv(q, a)
  BY <1>6, <1>7, <1>9 DEF PipeInv
<1>13. BehindTheTurn
  BY <1>1, <1>4 DEF BehindTheTurn, a, p, q
<1>14. QED
  BY <1>1, <1>10, <1>11, <1>12, <1>13, PipeStep DEF p, a, q

\* It says what it has left to say of the request it is at.
LEMMA SaysKeeps == ASSUME LiveInv, ProviderSays PROVE LiveInv' /\ UNCHANGED saved
<1> DEFINE p == process
<1> DEFINE a == adapter
<1> DEFINE q == process'
<1>1. /\ p \in ProcessType /\ a \in AdapterType /\ p.open
      /\ OneRequest(p) /\ EndsLast(p, a) /\ (provider # "codex" => ResultEnds(p, a))
      /\ UNCHANGED <<provider, alive, adapter, held, turn, session, saved, faults>>
  BY DEF ProviderSays, LiveInv, LiveType, PipeInv
<1>2. PICK kind \in p.todo :
          /\ SaidBefore(kind) \cap p.todo = {}
          /\ q = [p EXCEPT !.todo = p.todo \ {kind}, !.output = Append(p.output, Event(kind, p.at))]
  BY DEF ProviderSays
<1> DEFINE e == Event(kind, p.at)
<1>3. e \in EventOf(SaidKinds) /\ p.output \in Seq(EventOf(SaidKinds)) /\ e.kind = kind /\ e.n = p.at
  BY <1>1, <1>2 DEF Event, EventOf, ProcessType
<1>4. Append(p.output, e) \in Seq(EventOf(SaidKinds))
  BY <1>3, AppendLeaves
<1>5. /\ q \in ProcessType /\ q.id = p.id /\ q.input = p.input /\ q.output = Append(p.output, e)
      /\ q.open = p.open /\ q.at = p.at /\ q.todo = p.todo \ {kind}
  BY <1>1, <1>2, <1>4 DEF ProcessType
<1> HIDE DEF p, a, q, e
<1>6. /\ Untold(p.output) /\ kind \notin TurnKinds => Untold(q.output)
      /\ \A n : ToldOf(p.output, n) /\ (kind \in TurnKinds => p.at = n) => ToldOf(q.output, n)
      /\ HasResult(q.output) => HasResult(p.output) \/ kind = "complete"
      /\ ResultLast(p.output) /\ (kind \in TurnKinds => ~HasResult(p.output)) => ResultLast(q.output)
  BY <1>3, <1>5, AppendKeeps
<1>7. OneRequest(q)
  BY <1>1, <1>5 DEF OneRequest
<1>8. EndsLast(q, a)
  BY <1>1, <1>5 DEF EndsLast
<1>9. Silent(p) => Silent(q) /\ kind \notin TurnKinds
  BY <1>1, <1>2, <1>5 DEF Silent
<1>10. ASSUME provider # "codex" PROVE ResultEnds(q, a)
  <2>1. ResultEnds(p, a)
    BY <1>1, <1>10
  <2>2. kind \in TurnKinds => ~HasResult(p.output) /\ ~HasResult(a.queue)
    BY <1>9, <2>1 DEF ResultEnds
  <2>3. kind = "complete" => Silent(q)
    <3>1. kind = "complete" => q.todo \cap TurnKinds = {}
      BY <1>2, <1>5, <2>1 DEF ResultEnds, SaidBefore
    <3>2. kind = "complete" => Unasked(q.input)
      BY <1>1, <1>2, <1>5 DEF OneRequest, TurnKinds
    <3>3. QED
      BY <3>1, <3>2 DEF Silent
  <2>4. ResultLast(q.output)
    BY <1>6, <2>1, <2>2 DEF ResultEnds
  <2>5. HasResult(a.queue) => Untold(q.output)
    BY <1>6, <2>1, <2>2 DEF ResultEnds
  <2>6. HasResult(a.queue) \/ HasResult(q.output) => Silent(q)
    BY <1>6, <1>9, <2>1, <2>3 DEF ResultEnds
  <2>7. QED
    BY <1>5, <2>1, <2>4, <2>5, <2>6 DEF ResultEnds
<1>11. Quiet(p, a) => Quiet(q, a)
  BY <1>6, <1>9 DEF Quiet
<1>12. ASSUME NEW n, OnlyOf(p, a, n) PROVE OnlyOf(q, a, n)
  <2>1. kind \in TurnKinds => p.at = n
    BY <1>1, <1>2, <1>12 DEF OnlyOf
  <2>2. QED
    BY <1>5, <1>6, <1>12, <2>1 DEF OnlyOf
<1>13. PipeInv(q, a)
  BY <1>7, <1>8, <1>10 DEF PipeInv
<1>14. BehindTheTurn
  BY <1>1, <1>5 DEF BehindTheTurn, a, p, q
<1>15. QED
  BY <1>1, <1>11, <1>12, <1>13, <1>14, PipeStep DEF p, a, q

\* It dies, or closes its output and runs on.
LEMMA StopsKeeps == ASSUME LiveInv, ProviderStops PROVE LiveInv' /\ UNCHANGED saved
<1> DEFINE p == process
<1> DEFINE a == adapter
<1> DEFINE q == process'
<1>1. /\ p \in ProcessType /\ a \in AdapterType
      /\ OneRequest(p) /\ EndsLast(p, a) /\ (provider # "codex" => ResultEnds(p, a))
      /\ UNCHANGED <<provider, adapter, held, turn, session, saved>> /\ alive' \subseteq alive
  BY DEF ProviderStops, LiveInv, LiveType, PipeInv
<1>2. /\ q \in ProcessType /\ q.id = p.id /\ q.output = p.output /\ ~q.open /\ q.todo \subseteq p.todo
  BY <1>1 DEF ProviderStops, ProcessType
<1> HIDE DEF p, a, q
<1>3. PipeInv(q, a)
  BY <1>1, <1>2 DEF PipeInv, OneRequest, EndsLast, ResultEnds, Silent
<1>4. Quiet(p, a) => Quiet(q, a)
  BY <1>2 DEF Quiet, Silent
<1>5. ASSUME NEW n, OnlyOf(p, a, n) PROVE OnlyOf(q, a, n)
  BY <1>2, <1>5 DEF OnlyOf
<1>6. BehindTheTurn
  BY <1>1, <1>2 DEF BehindTheTurn, a, p, q
<1>7. QED
  BY <1>1, <1>3, <1>4, <1>5, <1>6, PipeStep DEF p, a, q

\* The reader moves a line on.
LEMMA LineKeeps == ASSUME LiveInv, PumpLine PROVE LiveInv' /\ UNCHANGED saved
<1> DEFINE p == process
<1> DEFINE a == adapter
<1> DEFINE q == process'
<1> DEFINE b == adapter'
<1> DEFINE e == Head(p.output)
<1> DEFINE All == EventOf(SaidKinds \cup {"end"})
<1>1. /\ p \in ProcessType /\ a \in AdapterType /\ a.reading /\ p.output # <<>>
      /\ OneRequest(p) /\ EndsLast(p, a) /\ (provider # "codex" => ResultEnds(p, a))
      /\ q = [p EXCEPT !.output = Tail(p.output)] /\ b = HeardLine(e)
      /\ UNCHANGED <<provider, alive, held, turn, session, saved, faults>>
  BY DEF PumpLine, LiveInv, LiveType, PipeInv
<1>2. /\ p.output \in Seq(EventOf(SaidKinds)) /\ Tail(p.output) \in Seq(EventOf(SaidKinds))
      /\ e \in EventOf(SaidKinds) /\ a.queue \in Seq(All)
  BY <1>1, TailLeaves DEF ProcessType, AdapterType
<1>3. e \in All /\ e.kind \in SaidKinds /\ e.kind # "end"
  BY <1>2 DEF EventOf, SaidKinds, TurnKinds
<1>4. Append(a.queue, e) \in Seq(All)
  BY <1>2, <1>3, AppendLeaves
<1>5. /\ q \in ProcessType /\ q.id = p.id /\ q.input = p.input /\ q.output = Tail(p.output)
      /\ q.open = p.open /\ q.at = p.at /\ q.todo = p.todo
  BY <1>1, <1>2 DEF ProcessType
<1> HIDE DEF e
<1>6. /\ b \in AdapterType /\ b.first = a.first /\ b.reading = a.reading
      /\ \/ b.queue = Append(a.queue, e)
         \/ b.queue = a.queue /\ e.kind \notin TurnKinds
  <2>1. CASE e.kind \in {"initialize", "thread", "answer"}
    BY <1>1, <2>1 DEF HeardLine, AdapterType, TurnKinds
  <2>2. CASE e.kind \notin {"initialize", "thread", "answer"}
    <3>1. b = [a EXCEPT !.queue = Append(a.queue, e)]
      BY <1>1, <2>2 DEF HeardLine
    <3>2. QED
      BY <1>1, <1>4, <3>1 DEF AdapterType
  <2>3. QED
    BY <2>1, <2>2
<1> HIDE DEF p, a, q, b
<1>7. /\ Untold(p.output) => Untold(q.output) /\ e.kind \notin TurnKinds
      /\ \A n : ToldOf(p.output, n) => ToldOf(q.output, n) /\ (e.kind \in TurnKinds => e.n = n)
      /\ HasResult(q.output) \/ e.kind = "complete" => HasResult(p.output)
      /\ ResultLast(p.output) => ResultLast(q.output) /\ (e.kind = "complete" => Untold(q.output))
  BY <1>1, <1>2, <1>5, TailKeeps DEF e
<1>8. /\ Untold(a.queue) /\ e.kind \notin TurnKinds => Untold(b.queue)
      /\ \A n : ToldOf(a.queue, n) /\ (e.kind \in TurnKinds => e.n = n) => ToldOf(b.queue, n)
      /\ HasResult(b.queue) => HasResult(a.queue) \/ e.kind = "complete"
      /\ ResultLast(a.queue) /\ (e.kind \in TurnKinds => ~HasResult(a.queue)) => ResultLast(b.queue)
  <2>1. CASE b.queue = Append(a.queue, e)
    BY <1>2, <1>3, <2>1, AppendKeeps
  <2>2. CASE b.queue = a.queue
    BY <2>2
  <2>3. QED
    BY <1>6, <2>1, <2>2
<1>9. OneRequest(q) /\ (Silent(p) => Silent(q))
  BY <1>1, <1>5 DEF OneRequest, Silent
<1>10. EndsLast(q, b)
  <2>1. \A i \in DOMAIN a.queue : a.queue[i].kind # "end"
    BY <1>1 DEF EndsLast
  <2>2. \A i \in DOMAIN b.queue : b.queue[i].kind # "end"
    <3>1. CASE b.queue = Append(a.queue, e)
      <4>1. \A i \in DOMAIN b.queue : b.queue[i] = e \/ (i \in DOMAIN a.queue /\ b.queue[i] = a.queue[i])
        BY <1>2, <1>3, <3>1, AppendLeaves
      <4>2. QED
        BY <1>3, <2>1, <4>1
    <3>2. QED
      BY <1>6, <2>1, <3>1
  <2>3. QED
    BY <2>2 DEF EndsLast
<1>11. ASSUME provider # "codex" PROVE ResultEnds(q, b)
  <2>1. ResultEnds(p, a)
    BY <1>1, <1>11
  <2>2. HasResult(a.queue) => Untold(q.output) /\ e.kind \notin TurnKinds
    BY <1>7, <2>1 DEF ResultEnds
  <2>3. ResultLast(b.queue) /\ ResultLast(q.output)
    BY <1>7, <1>8, <2>1, <2>2 DEF ResultEnds
  <2>4. HasResult(b.queue) => Untold(q.output)
    BY <1>7, <1>8, <2>1, <2>2 DEF ResultEnds
  <2>5. HasResult(b.queue) \/ HasResult(q.output) => Silent(q)
    BY <1>7, <1>8, <1>9, <2>1 DEF ResultEnds
  <2>6. QED
    BY <1>5, <1>6, <2>1, <2>3, <2>4, <2>5 DEF ResultEnds
<1>12. Quiet(p, a) => Quiet(q, b)
  BY <1>6, <1>7, <1>8, <1>9 DEF Quiet
<1>13. ASSUME NEW n, OnlyOf(p, a, n) PROVE OnlyOf(q, b, n)
  BY <1>5, <1>6, <1>7, <1>8, <1>13 DEF OnlyOf
<1>14. PipeInv(q, b)
  BY <1>9, <1>10, <1>11 DEF PipeInv
<1>15. BehindTheTurn
  BY <1>1, <1>5, <1>6 DEF BehindTheTurn, a, p, q, b
<1>16. QED
  BY <1>1, <1>12, <1>13, <1>14, <1>15, PipeStep DEF p, a, q, b

\* The reader comes to the end of the output.
LEMMA EndKeeps == ASSUME LiveInv, PumpEnds PROVE LiveInv' /\ UNCHANGED saved
<1> DEFINE p == process
<1> DEFINE a == adapter
<1> DEFINE b == adapter'
<1> DEFINE All == EventOf(SaidKinds \cup {"end"})
<1>1. /\ p \in ProcessType /\ a \in AdapterType /\ a.reading /\ p.output = <<>> /\ ~p.open
      /\ OneRequest(p) /\ EndsLast(p, a) /\ (provider # "codex" => ResultEnds(p, a))
      /\ UNCHANGED <<provider, process, alive, held, turn, session, saved, faults>>
  BY DEF PumpEnds, LiveInv, LiveType, PipeInv
<1>2. a.queue \in Seq(All) /\ StreamEnd \in All /\ StreamEnd.kind = "end"
  BY <1>1 DEF AdapterType, StreamEnd, Event, EventOf
<1>3. Append(a.queue, StreamEnd) \in Seq(All)
  BY <1>2, AppendLeaves
<1>4. /\ b \in AdapterType /\ b.first = a.first /\ ~b.reading
      /\ b.queue = Append(a.queue, StreamEnd)
  BY <1>1, <1>3 DEF PumpEnds, AdapterType
<1> HIDE DEF p, a, b
<1>5. StreamEnd.kind \notin TurnKinds /\ StreamEnd.kind # "complete"
  BY <1>2 DEF TurnKinds
<1>6. /\ Untold(a.queue) => Untold(b.queue)
      /\ \A n : ToldOf(a.queue, n) => ToldOf(b.queue, n)
      /\ HasResult(b.queue) => HasResult(a.queue)
      /\ ResultLast(a.queue) => ResultLast(b.queue)
  BY <1>2, <1>4, <1>5, AppendKeeps
<1>7. EndsLast(p, b)
  <2>1. \A i \in DOMAIN a.queue : a.queue[i].kind # "end"
    BY <1>1 DEF EndsLast
  <2>2. \A i \in DOMAIN b.queue :
            i = Len(b.queue) \/ (i \in DOMAIN a.queue /\ b.queue[i] = a.queue[i])
    BY <1>2, <1>4, AppendLeaves
  <2>3. QED
    BY <1>1, <1>4, <2>1, <2>2 DEF EndsLast
<1>8. PipeInv(p, b)
  BY <1>1, <1>4, <1>6, <1>7 DEF PipeInv, ResultEnds
<1>9. Quiet(p, a) => Quiet(p, b)
  BY <1>4, <1>6 DEF Quiet
<1>10. ASSUME NEW n, OnlyOf(p, a, n) PROVE OnlyOf(p, b, n)
  BY <1>4, <1>6, <1>10 DEF OnlyOf
<1>11. BehindTheTurn
  BY <1>1, <1>4 DEF BehindTheTurn, a, p, b
<1>12. QED
  BY <1>1, <1>8, <1>9, <1>10, <1>11, PipeStep DEF p, a, b

\* A step of the turn that leaves the process and the adapter as they are.
LEMMA TurnMoves ==
    ASSUME LiveInv, UNCHANGED <<provider, process, alive, adapter>>,
           turn' \in TurnType, held' \in BOOLEAN,
           turn'.pc \in Unheld => ~held',
           held' \/ turn'.pc \in {"initialize", "thread", "ready", "stop"} \/ alive = {},
           turn'.pc = "stop" => turn'.then \in {"spawn", "failed"},
           StageInv(process, adapter, turn', held')
    PROVE  LiveInv'
<1>1. LiveType' /\ OwnerInv'
  BY DEF LiveInv, LiveType, OwnerInv
<1>2. PipeInv(process, adapter)'
  BY DEF LiveInv, PipeInv, ResultEnds
<1>3. StageInv(process, adapter, turn, held)'
  BY DEF StageInv
<1>4. QED
  BY <1>1, <1>2, <1>3 DEF LiveInv

\* What a turn is after it goes on, or has failed.
LEMMA TurnGoes ==
    ASSUME LiveInv, NEW pc \in TurnPcs
    PROVE  /\ TurnTo(pc) => /\ turn' \in TurnType /\ turn'.pc = pc /\ turn'.then = turn.then
                            /\ turn'.n = turn.n /\ turn'.deltas = turn.deltas
                            /\ turn'.final = turn.final /\ turn'.active = turn.active
           /\ turn' = [turn EXCEPT !.pc = "stop", !.then = "failed"] =>
                 /\ turn' \in TurnType /\ turn'.pc = "stop" /\ turn'.then = "failed"
                 /\ turn'.n = turn.n /\ turn'.deltas = turn.deltas
                 /\ turn'.final = turn.final /\ turn'.active = turn.active
<1>1. turn \in TurnType /\ "stop" \in TurnPcs
  BY DEF LiveInv, LiveType, TurnPcs, Unheld
<1>2. ASSUME TurnTo(pc)
      PROVE  /\ turn' \in TurnType /\ turn'.pc = pc /\ turn'.then = turn.then
             /\ turn'.n = turn.n /\ turn'.deltas = turn.deltas
             /\ turn'.final = turn.final /\ turn'.active = turn.active
  BY <1>1, <1>2 DEF TurnTo, TurnType
<1>3. ASSUME turn' = [turn EXCEPT !.pc = "stop", !.then = "failed"]
      PROVE  /\ turn' \in TurnType /\ turn'.pc = "stop" /\ turn'.then = "failed"
             /\ turn'.n = turn.n /\ turn'.deltas = turn.deltas
             /\ turn'.final = turn.final /\ turn'.active = turn.active
  BY <1>1, <1>3 DEF TurnType
<1>4. QED
  BY <1>2, <1>3

\* A turn that fails lets go of the adapter, or never had it.
LEMMA FailKeeps ==
    ASSUME LiveInv, UNCHANGED <<provider, process, alive, adapter>>,
           turn' = [turn EXCEPT !.pc = "stop", !.then = "failed"],
           held' = FALSE
    PROVE  LiveInv'
<1>1. /\ turn' \in TurnType /\ turn'.pc = "stop" /\ turn'.then = "failed"
      /\ turn'.n = turn.n /\ turn'.deltas = turn.deltas
      /\ turn'.final = turn.final /\ turn'.active = turn.active
  BY TurnGoes DEF TurnPcs
<1>2. StageInv(process, adapter, turn', held')
  BY <1>1 DEF LiveInv, StageInv
<1>3. QED
  BY <1>1, <1>2, TurnMoves DEF Unheld

\* The start of a turn, with the process of the one before or without.
LEMMA BeginKeeps == ASSUME LiveInv, BeginTurn PROVE LiveInv' /\ UNCHANGED saved
<1>1. PICK changed \in BOOLEAN :
          /\ turn' = [NoTurn EXCEPT
                !.n = turn.n + 1, !.startup = TimeoutPolicy,
                !.pc = IF ~held THEN "spawn" ELSE IF changed \/ ~ProcessRuns THEN "stop" ELSE "send",
                !.then = "spawn"]
          /\ held' = (held /\ ~changed /\ ProcessRuns)
  BY DEF BeginTurn
<1>2. turn.n + 1 \in Nat /\ TimeoutPolicy \in BOOLEAN /\ held \in BOOLEAN
  BY DEF LiveInv, LiveType, TurnType, TimeoutPolicy
<1>3. /\ turn' \in TurnType /\ turn'.then = "spawn"
      /\ turn'.deltas = {} /\ turn'.final = {} /\ turn'.active = 0
      /\ \/ turn'.pc = "spawn" /\ ~held /\ ~held'
         \/ turn'.pc = "stop" /\ ~held'
         \/ turn'.pc = "send" /\ held /\ held'
  BY <1>1, <1>2 DEF NoTurn, TurnType, TurnPcs, Unheld
<1>4. UNCHANGED <<provider, process, alive, adapter, saved>> /\ turn.pc = "idle"
  BY DEF BeginTurn
<1>5. StageInv(process, adapter, turn', held')
  BY <1>3, <1>4 DEF LiveInv, StageInv
<1>6. ~held => alive = {}
  BY <1>4 DEF LiveInv, OwnerInv
<1>7. held' \in BOOLEAN
  BY <1>1
<1>8. QED
  BY <1>3, <1>4, <1>5, <1>6, <1>7, TurnMoves DEF Unheld

\* A turn whose program is missing; one that fails as it starts or waits.
LEMMA GivesUpKeeps ==
    ASSUME LiveInv, SpawnFails \/ StartFails \/ SendFails \/ DeadlineOver
    PROVE  LiveInv' /\ UNCHANGED saved
<1>1. CASE SpawnFails
  <2>1. /\ turn' \in TurnType /\ turn'.pc = "failed" /\ turn'.then = turn.then
        /\ turn'.n = turn.n /\ turn'.deltas = turn.deltas
        /\ turn'.final = turn.final /\ turn'.active = turn.active
    BY <1>1, TurnGoes DEF SpawnFails, TurnPcs, Unheld
  <2>2. /\ ~held /\ held' = held /\ held' \in BOOLEAN /\ alive = {}
        /\ UNCHANGED <<provider, process, alive, adapter, saved>>
    BY <1>1 DEF SpawnFails, LiveInv, LiveType, OwnerInv, Unheld
  <2>3. StageInv(process, adapter, turn', held')
    BY <2>1 DEF LiveInv, StageInv
  <2>4. QED
    BY <2>1, <2>2, <2>3, TurnMoves
<1>2. CASE StartFails
  <2>1. held' = FALSE
    BY <1>2 DEF StartFails, LiveInv, LiveType, OwnerInv, Unheld
  <2>2. QED
    BY <1>2, <2>1, FailKeeps DEF StartFails
<1>3. CASE SendFails \/ DeadlineOver
  BY <1>3, FailKeeps DEF SendFails, DeadlineOver, FailTurn
<1>4. QED
  BY <1>1, <1>2, <1>3

\* The grace is over when there is nothing left to wait for.
LEMMA GraceKeeps == ASSUME LiveInv, GraceOver PROVE LiveInv' /\ UNCHANGED saved
<1>1. /\ UNCHANGED <<provider, process, alive, adapter, held, saved>>
      /\ turn.pc = "read" /\ Pending = <<>> /\ process.output = <<>>
      /\ process.todo = {} /\ process.input = <<>>
  BY DEF GraceOver
<1>2. /\ turn' \in TurnType /\ turn'.pc = "done"
      /\ turn'.n = turn.n /\ turn'.deltas = turn.deltas
      /\ turn'.final = turn.final /\ turn'.active = turn.active
  BY TurnGoes DEF GraceOver, TurnPcs
<1>3. adapter.first = <<>> /\ adapter.queue = <<>>
  BY <1>1, PendingFirst DEF LiveInv
<1>4. Quiet(process, adapter)
  BY <1>1, <1>3, NothingYet DEF Quiet, Silent
<1>5. StageInv(process, adapter, turn', held')
  BY <1>2, <1>4 DEF LiveInv, StageInv
<1>6. held \in BOOLEAN /\ (held \/ alive = {})
  BY <1>1 DEF LiveInv, LiveType, OwnerInv
<1>7. QED
  BY <1>1, <1>2, <1>5, <1>6, TurnMoves DEF Unheld

\* A turn's answer is saved, its failure, or the session recovers.
LEMMA SaveKeeps == ASSUME LiveInv, SaveAnswer \/ SaveFailure PROVE LiveInv'
<1>1. /\ UNCHANGED <<provider, process, alive, adapter, held>> /\ turn.pc \in {"done", "failed"}
      /\ turn' = [NoTurn EXCEPT !.n = turn.n]
  BY DEF SaveAnswer, SaveFailure
<1>2. /\ turn' \in TurnType /\ turn'.pc = "idle"
      /\ turn'.deltas = {} /\ turn'.final = {} /\ turn'.active = 0
  BY <1>1 DEF NoTurn, TurnType, TurnPcs, LiveInv, LiveType
<1>3. /\ held' = held /\ held' \in BOOLEAN
      /\ held' \/ alive = {}
      /\ turn.pc = "failed" => ~held
  BY <1>1 DEF LiveInv, LiveType, OwnerInv, Unheld
<1>4. StageInv(process, adapter, turn', held')
  BY <1>1, <1>2, <1>3 DEF LiveInv, StageInv
<1>5. QED
  BY <1>1, <1>2, <1>3, <1>4, TurnMoves DEF Unheld

\* A step that changes both, part by part.
LEMMA BothMove ==
    ASSUME provider' = provider,
           process' \in ProcessType, adapter' \in AdapterType, turn' \in TurnType, held' \in BOOLEAN,
           OwnerInv', PipeInv(process', adapter'), StageInv(process', adapter', turn', held')
    PROVE  LiveInv'
<1>1. LiveType'
  BY DEF LiveType
<1>2. PipeInv(process, adapter)'
  BY DEF PipeInv, ResultEnds
<1>3. StageInv(process, adapter, turn, held)'
  BY DEF StageInv
<1>4. QED
  BY <1>1, <1>2, <1>3 DEF LiveInv

\* A new process, with an adapter that has heard nothing.
LEMMA SpawnKeeps == ASSUME LiveInv, SpawnProcess PROVE LiveInv' /\ UNCHANGED saved
<1> DEFINE p == process'
<1> DEFINE a == adapter'
<1> DEFINE asks == IF provider = "codex" THEN <<Event("initialize", 0)>> ELSE <<>>
<1> DEFINE has == IF provider = "codex" THEN {} ELSE {"system"}
<1> DEFINE waits == IF provider = "codex" THEN "initialize" ELSE "-"
<1>1. /\ turn.pc = "spawn" /\ UNCHANGED <<provider, held, session, saved, faults>>
      /\ alive' = alive \cup {process.id + 1}
      /\ p = [NoProcess EXCEPT !.id = process.id + 1, !.open = TRUE, !.input = asks,
                 !.todo = has]
      /\ a = [NewAdapter EXCEPT !.asked = waits]
      /\ TurnTo(IF provider = "codex" THEN "initialize" ELSE "ready")
  BY DEF SpawnProcess
<1>2. process.id + 1 \in Nat /\ alive = {} /\ ~held /\ held \in BOOLEAN
  BY <1>1 DEF LiveInv, LiveType, ProcessType, OwnerInv, Unheld
<1>3. asks \in Seq(EventOf(AskedKinds)) /\ Unasked(asks)
  <2>1. CASE asks = <<>>
    BY <2>1, NothingYet
  <2>2. CASE asks = <<Event("initialize", 0)>>
    <3> DEFINE e == Event("initialize", 0)
    <3>1. e \in EventOf(AskedKinds) /\ e.kind = "initialize"
      BY DEF Event, EventOf, AskedKinds
    <3> HIDE DEF e, asks
    <3>2. asks = <<e>>
      BY <2>2 DEF e
    <3>3. asks \in Seq(EventOf(AskedKinds)) /\ DOMAIN asks = {1} /\ asks[1] = e
      BY <3>1, <3>2
    <3>4. QED
      BY <3>1, <3>3 DEF Unasked
  <2>3. QED
    BY <2>1, <2>2
<1>4. has \in SUBSET SaidKinds /\ has \cap TurnKinds = {} /\ waits \in {"-", "initialize"}
  BY DEF SaidKinds, TurnKinds
<1> HIDE DEF asks, has, waits
<1>5. p = [id |-> process.id + 1, input |-> asks, output |-> <<>>, open |-> TRUE, at |-> 0, todo |-> has]
  BY <1>1 DEF NoProcess
<1>6. a = [queue |-> <<>>, first |-> <<>>, asked |-> waits, answer |-> "-", reading |-> TRUE]
  BY <1>1 DEF NewAdapter
<1> HIDE DEF p, a
<1>7. /\ p \in ProcessType /\ p.id = process.id + 1 /\ p.input = asks /\ p.output = <<>>
      /\ p.open /\ p.todo = has
  BY <1>2, <1>3, <1>4, <1>5 DEF ProcessType
<1>8. a \in AdapterType /\ a.queue = <<>> /\ a.first = <<>>
  BY <1>4, <1>6 DEF AdapterType
<1>9. /\ turn' \in TurnType /\ turn'.pc \in {"initialize", "ready"}
      /\ turn'.n = turn.n /\ turn'.deltas = turn.deltas
      /\ turn'.final = turn.final /\ turn'.active = turn.active
  BY <1>1, TurnGoes DEF TurnPcs, Unheld
<1>10. OwnerInv'
  BY <1>1, <1>2, <1>7, <1>9 DEF OwnerInv, p
<1>11. Silent(p) /\ Quiet(p, a)
  BY <1>3, <1>4, <1>7, <1>8, NothingYet DEF Silent, Quiet
<1>12. AskedOnce(p.input)
  BY <1>3, <1>7 DEF AskedOnce, Unasked
<1>13. PipeInv(p, a)
  BY <1>3, <1>4, <1>7, <1>8, <1>12, NothingYet DEF PipeInv, OneRequest, EndsLast, ResultEnds
<1>14. StageInv(p, a, turn', held')
  BY <1>1, <1>2, <1>9, <1>11 DEF LiveInv, StageInv
<1>15. held' \in BOOLEAN
  BY <1>1, <1>2
<1>16. QED
  BY <1>1, <1>7, <1>8, <1>9, <1>10, <1>13, <1>14, <1>15, BothMove DEF p, a

\* What asking the process does.
LEMMA AskLeaves ==
    ASSUME LiveInv, NEW kind \in {"thread", "answer"}, NEW n \in Nat, AskProvider(kind, n)
    PROVE  /\ process' \in ProcessType /\ adapter' \in AdapterType
           /\ \E e \in EventOf(AskedKinds) :
                 /\ e.kind = (IF kind = "answer" THEN "turn" ELSE kind) /\ e.n = n
                 /\ process'.input = Append(process.input, e)
           /\ process'.id = process.id /\ process'.output = process.output
           /\ process'.open = process.open /\ process'.at = process.at /\ process'.todo = process.todo
           /\ adapter'.queue = adapter.queue /\ adapter'.first = adapter.first
           /\ adapter'.reading = adapter.reading
<1> DEFINE e == Event(IF kind = "answer" THEN "turn" ELSE kind, n)
<1>1. process \in ProcessType /\ adapter \in AdapterType
  BY DEF LiveInv, LiveType
<1>2. e \in EventOf(AskedKinds) /\ e.kind = (IF kind = "answer" THEN "turn" ELSE kind) /\ e.n = n
  BY DEF Event, EventOf, AskedKinds
<1>3. process' = [process EXCEPT !.input = Append(process.input, e)]
  BY DEF AskProvider
<1>4. adapter' = [adapter EXCEPT !.asked = IF provider = "codex" THEN kind ELSE adapter.asked, !.answer = "-"]
  BY DEF AskProvider
<1> HIDE DEF e
<1>5. Append(process.input, e) \in Seq(EventOf(AskedKinds))
  BY <1>1, <1>2, AppendLeaves DEF ProcessType
<1>6. /\ process' \in ProcessType /\ process'.input = Append(process.input, e)
      /\ process'.id = process.id /\ process'.output = process.output
      /\ process'.open = process.open /\ process'.at = process.at /\ process'.todo = process.todo
  BY <1>1, <1>3, <1>5 DEF ProcessType
<1>7. /\ adapter' \in AdapterType
      /\ adapter'.queue = adapter.queue /\ adapter'.first = adapter.first
      /\ adapter'.reading = adapter.reading
  BY <1>1, <1>4 DEF AdapterType
<1>8. QED
  BY <1>2, <1>6, <1>7

\* A request of the start, and a prompt, where nothing of a turn is under way.
LEMMA AskKeeps ==
    ASSUME LiveInv, provider' = provider, Quiet(process, adapter)
    PROVE  /\ AskProvider("thread", 0) => PipeInv(process', adapter') /\ Quiet(process', adapter')
           /\ AskProvider("answer", turn.n) =>
                 PipeInv(process', adapter') /\ OnlyOf(process', adapter', turn.n)
<1> DEFINE p == process
<1> DEFINE a == adapter
<1> DEFINE q == process'
<1> DEFINE b == adapter'
<1>1. /\ p.input \in Seq(EventOf(AskedKinds)) /\ turn.n \in Nat
      /\ OneRequest(p) /\ EndsLast(p, a) /\ (provider # "codex" => ResultEnds(p, a))
  BY DEF LiveInv, LiveType, PipeInv, ProcessType, TurnType
<1>2. ASSUME NEW kind \in {"thread", "answer"}, NEW n \in Nat, AskProvider(kind, n)
      PROVE  /\ EndsLast(q, b)
             /\ q.open => AskedOnce(q.input)
             /\ q.open => q.todo \cap TurnKinds = {}
             /\ provider # "codex" => b.first = <<>> /\ ResultLast(b.queue) /\ ResultLast(q.output)
             /\ Untold(b.queue) /\ Untold(b.first) /\ Untold(q.output)
             /\ ~HasResult(b.queue) /\ ~HasResult(q.output)
             /\ provider # "codex" => q.todo \cap TurnKinds \subseteq {"delta", "complete"}
             /\ q.open /\ kind = "thread" => Unasked(q.input)
             /\ q.open /\ kind = "answer" => AskedOf(q.input, n)
  <2>1. PICK e \in EventOf(AskedKinds) :
            /\ e.kind = (IF kind = "answer" THEN "turn" ELSE kind) /\ e.n = n
            /\ q.input = Append(p.input, e)
    BY <1>2, AskLeaves
  <2>2. /\ q.output = p.output /\ q.open = p.open /\ q.todo = p.todo
        /\ b.queue = a.queue /\ b.first = a.first /\ b.reading = a.reading
    BY <1>2, AskLeaves
  <2> HIDE DEF p, a, q, b
  <2>3. Untold(a.queue) /\ Untold(a.first) /\ Untold(p.output) /\ Silent(p)
    BY DEF Quiet, p, a
  <2>4. p.open => Unasked(p.input) /\ p.todo \cap TurnKinds = {}
    BY <2>3 DEF Silent
  <2>5. p.open => /\ AskedOnce(q.input)
                  /\ kind = "thread" => Unasked(q.input)
                  /\ kind = "answer" => AskedOf(q.input, n)
    <3>1. Unasked(p.input) => AskedOf(p.input, n)
      BY DEF Unasked, AskedOf
    <3>2. kind = "thread" => e.kind # "turn"
      BY <2>1
    <3>3. QED
      BY <1>1, <2>1, <2>4, <3>1, <3>2, AppendKeeps
  <2>6. EndsLast(q, b)
    BY <1>1, <2>2 DEF EndsLast
  <2>7. ~HasResult(a.queue) /\ ~HasResult(p.output)
    BY <2>3 DEF Untold, HasResult, TurnKinds
  <2>8. QED
    BY <1>1, <2>2, <2>3, <2>4, <2>5, <2>6, <2>7 DEF ResultEnds
<1> HIDE DEF p, a, q, b
<1>3. ASSUME AskProvider("thread", 0) PROVE PipeInv(q, b) /\ Quiet(q, b)
  <2>1. Silent(q)
    BY <1>2, <1>3 DEF Silent
  <2>2. Quiet(q, b)
    BY <1>2, <1>3, <2>1 DEF Quiet
  <2>3. PipeInv(q, b)
    BY <1>2, <1>3 DEF PipeInv, OneRequest, ResultEnds
  <2>4. QED
    BY <2>2, <2>3
<1>4. ASSUME AskProvider("answer", turn.n) PROVE PipeInv(q, b) /\ OnlyOf(q, b, turn.n)
  <2>1. OnlyOf(q, b, turn.n)
    BY <1>1, <1>2, <1>4 DEF OnlyOf, Untold, ToldOf
  <2>2. PipeInv(q, b)
    BY <1>1, <1>2, <1>4 DEF PipeInv, OneRequest, ResultEnds
  <2>3. QED
    BY <2>1, <2>2
<1>5. QED
  BY <1>3, <1>4 DEF q, b

\* The start of a session with codex, and the prompt to either.
LEMMA RequestKeeps == ASSUME LiveInv, CodexStart \/ SendTurn PROVE LiveInv' /\ UNCHANGED saved
<1>1. /\ turn.pc \in {"initialize", "thread", "send"} /\ Quiet(process, adapter)
      /\ provider' = provider /\ alive' = alive /\ saved' = saved /\ turn.n \in Nat
  BY DEF CodexStart, SendTurn, LiveInv, LiveType, TurnType, StageInv
<1>2. ASSUME NEW pc \in TurnPcs, TurnTo(pc)
      PROVE  /\ turn' \in TurnType /\ turn'.pc = pc
             /\ turn'.n = turn.n /\ turn'.deltas = turn.deltas
             /\ turn'.final = turn.final /\ turn'.active = turn.active
  BY <1>2, TurnGoes
<1>3. CASE turn.pc = "initialize" /\ AskProvider("thread", 0) /\ TurnTo("thread") /\ UNCHANGED held
  <2>1. /\ turn' \in TurnType /\ turn'.pc = "thread"
        /\ turn'.n = turn.n /\ turn'.deltas = turn.deltas
        /\ turn'.final = turn.final /\ turn'.active = turn.active
    BY <1>2, <1>3 DEF TurnPcs, Unheld
  <2>2. process' \in ProcessType /\ adapter' \in AdapterType /\ process'.id = process.id
    BY <1>3, AskLeaves
  <2>3. PipeInv(process', adapter') /\ Quiet(process', adapter')
    BY <1>1, <1>3, AskKeeps
  <2>4. ~held /\ held' = held /\ held' \in BOOLEAN
    BY <1>3 DEF LiveInv, LiveType, OwnerInv, Unheld
  <2>5. OwnerInv'
    BY <1>1, <2>1, <2>2, <2>4 DEF OwnerInv, LiveInv
  <2>6. StageInv(process', adapter', turn', held')
    BY <1>1, <2>1, <2>3 DEF StageInv, LiveInv
  <2>7. QED
    BY <1>1, <2>1, <2>2, <2>3, <2>4, <2>5, <2>6, BothMove
<1>4. CASE turn.pc = "thread" /\ held' = TRUE /\ TurnTo("send") /\ UNCHANGED <<process, adapter>>
  <2>1. /\ turn' \in TurnType /\ turn'.pc = "send"
        /\ turn'.n = turn.n /\ turn'.deltas = turn.deltas
        /\ turn'.final = turn.final /\ turn'.active = turn.active
    BY <1>2, <1>4 DEF TurnPcs
  <2>2. StageInv(process, adapter, turn', held')
    BY <1>1, <2>1 DEF StageInv, LiveInv
  <2>3. QED
    BY <1>1, <1>4, <2>1, <2>2, TurnMoves DEF Unheld
<1>5. CASE SendTurn
  <2> DEFINE pc == IF provider = "codex" THEN "sent" ELSE "read"
  <2>1. /\ AskProvider("answer", turn.n) /\ TurnTo(pc) /\ held' = held
        /\ pc \in {"sent", "read"} /\ (provider # "codex" => pc = "read")
    BY <1>5 DEF SendTurn
  <2> HIDE DEF pc
  <2>2. /\ turn' \in TurnType /\ turn'.pc = pc
        /\ turn'.n = turn.n /\ turn'.deltas = turn.deltas
        /\ turn'.final = turn.final /\ turn'.active = turn.active
    BY <1>2, <2>1 DEF TurnPcs
  <2>3. process' \in ProcessType /\ adapter' \in AdapterType /\ process'.id = process.id
    BY <1>1, <2>1, AskLeaves
  <2>4. PipeInv(process', adapter') /\ OnlyOf(process', adapter', turn.n)
    BY <1>1, <2>1, AskKeeps
  <2>5. /\ held' \in BOOLEAN
        /\ held' \/ alive = {}
    BY <1>5, <2>1 DEF LiveInv, LiveType, OwnerInv, SendTurn
  <2>6. OwnerInv'
    BY <1>1, <2>1, <2>2, <2>3, <2>5 DEF OwnerInv, LiveInv, Unheld
  <2>7. StageInv(process', adapter', turn', held')
    BY <1>1, <2>1, <2>2, <2>4 DEF StageInv, LiveInv
  <2>8. QED
    BY <1>1, <2>2, <2>3, <2>4, <2>5, <2>6, <2>7, BothMove
<1>6. QED
  BY <1>3, <1>4, <1>5 DEF CodexStart

\* The start of a session with claude.
LEMMA ReadyKeeps == ASSUME LiveInv, ClaudeReady PROVE LiveInv' /\ UNCHANGED saved
<1>1. /\ turn.pc = "ready" /\ Quiet(process, adapter) /\ ~held /\ held \in BOOLEAN
      /\ UNCHANGED <<provider, process, alive, adapter, session, saved, faults>>
  BY DEF ClaudeReady, LiveInv, LiveType, OwnerInv, StageInv, Unheld
<1>2. CASE held' = TRUE /\ TurnTo("send")
  <2>1. /\ turn' \in TurnType /\ turn'.pc = "send"
        /\ turn'.n = turn.n /\ turn'.deltas = turn.deltas
        /\ turn'.final = turn.final /\ turn'.active = turn.active
    BY <1>2, TurnGoes DEF TurnPcs
  <2>2. StageInv(process, adapter, turn', held')
    BY <1>1, <2>1 DEF StageInv, LiveInv
  <2>3. QED
    BY <1>1, <1>2, <2>1, <2>2, TurnMoves DEF Unheld
<1>3. CASE turn' = [turn EXCEPT !.pc = "stop", !.then = "failed"] /\ UNCHANGED held
  <2>1. held' = FALSE
    BY <1>1, <1>3
  <2>2. QED
    BY <1>1, <1>3, <2>1, FailKeeps
<1>4. QED
  BY <1>2, <1>3 DEF ClaudeReady

\* codex has answered the prompt: the first event of the turn.
LEMMA AnsweredKeeps == ASSUME LiveInv, SendAnswered PROVE LiveInv' /\ UNCHANGED saved
<1> DEFINE p == process
<1> DEFINE a == adapter
<1> DEFINE b == adapter'
<1> DEFINE e == Event("started", turn.n)
<1>1. /\ turn.pc = "sent" /\ UNCHANGED <<provider, process, alive, held, session, saved, faults>>
      /\ a \in AdapterType /\ turn.n \in Nat /\ turn \in TurnType /\ process \in ProcessType
      /\ PipeInv(p, a) /\ StageInv(p, a, turn, held)
      /\ b = [a EXCEPT !.first = Append(a.first, e)]
  BY DEF SendAnswered, LiveInv, LiveType, TurnType
<1>2. e \in EventOf({"started"}) /\ e.n = turn.n /\ a.first \in Seq(EventOf({"started"}))
  BY <1>1 DEF Event, EventOf, AdapterType
<1> HIDE DEF e
<1>3. Append(a.first, e) \in Seq(EventOf({"started"}))
  BY <1>2, AppendLeaves
<1>4. b \in AdapterType /\ b.first = Append(a.first, e) /\ b.queue = a.queue /\ b.reading = a.reading
  BY <1>1, <1>3 DEF AdapterType
<1> HIDE DEF p, a, b
<1>5. provider = "codex" /\ OnlyOf(p, a, turn.n)
  BY <1>1 DEF StageInv
<1>6. ToldOf(b.first, turn.n)
  BY <1>2, <1>4, <1>5, AppendKeeps DEF OnlyOf
<1>7. OnlyOf(p, b, turn.n)
  BY <1>4, <1>5, <1>6 DEF OnlyOf
<1>8. PipeInv(p, b)
  BY <1>1, <1>4, <1>5 DEF PipeInv, EndsLast
<1>9. /\ turn' \in TurnType /\ turn'.pc = "read"
      /\ turn'.n = turn.n /\ turn'.deltas = turn.deltas
      /\ turn'.final = turn.final /\ turn'.active = turn.active
  BY TurnGoes DEF SendAnswered, TurnPcs
<1>10. StageInv(p, b, turn', held')
  BY <1>1, <1>5, <1>7, <1>9 DEF StageInv
<1>11. held' = held /\ held' \in BOOLEAN /\ (held' \/ alive = {})
  BY <1>1 DEF LiveInv, LiveType, OwnerInv
<1>12. OwnerInv'
  BY <1>1, <1>9, <1>11 DEF LiveInv, OwnerInv, Unheld
<1>13. QED
  BY <1>1, <1>4, <1>8, <1>9, <1>10, <1>11, <1>12, BothMove DEF p, b

\* _shutdown_process leaves nothing running, and nothing that speaks.
LEMMA StopKeeps == ASSUME LiveInv, StopProcess PROVE LiveInv' /\ UNCHANGED saved
<1> DEFINE p == process
<1> DEFINE a == adapter
<1> DEFINE q == process'
<1> DEFINE b == adapter'
<1>1. /\ turn.pc = "stop" /\ UNCHANGED <<provider, held, session, saved, faults>>
      /\ p \in ProcessType /\ a \in AdapterType /\ PipeInv(p, a) /\ StageInv(p, a, turn, held)
      /\ ~held /\ held \in BOOLEAN /\ turn.then \in {"spawn", "failed"} /\ TurnTo(turn.then)
      /\ alive' = alive \ {process.id} /\ alive \subseteq {process.id}
  BY DEF StopProcess, LiveInv, LiveType, OwnerInv, Unheld
<1>2. /\ q \in ProcessType /\ q.id = p.id /\ q.output = p.output /\ ~q.open /\ q.todo = {}
  BY <1>1 DEF StopProcess, ProcessType
<1>3. /\ b \in AdapterType /\ b.queue = a.queue /\ b.first = a.first /\ ~b.reading
  BY <1>1 DEF StopProcess, AdapterType
<1> HIDE DEF p, a, q, b
<1>4. PipeInv(q, b)
  BY <1>1, <1>2, <1>3 DEF PipeInv, OneRequest, EndsLast, ResultEnds, Silent
<1>5. /\ turn' \in TurnType /\ turn'.pc \in {"spawn", "failed"}
      /\ turn'.n = turn.n /\ turn'.deltas = turn.deltas
      /\ turn'.final = turn.final /\ turn'.active = turn.active
  BY <1>1, TurnGoes DEF TurnPcs, Unheld
<1>6. StageInv(q, b, turn', held')
  BY <1>1, <1>5 DEF StageInv
<1>7. held' = held /\ held' \in BOOLEAN /\ alive' = {}
  BY <1>1
<1>8. OwnerInv'
  BY <1>1, <1>5, <1>7 DEF OwnerInv
<1>9. QED
  BY <1>1, <1>2, <1>3, <1>4, <1>5, <1>6, <1>7, <1>8, BothMove DEF q, b

\* Taking the next event away.
LEMMA TakeLeaves ==
    ASSUME LiveInv, turn.pc = "read", Pending # <<>>, adapter' = TakeFirst
    PROVE  /\ adapter' \in AdapterType
           /\ PipeInv(process, adapter') /\ OnlyOf(process, adapter', turn.n)
           /\ Head(Pending).n \in Nat
           /\ Head(Pending).kind \in TurnKinds => Head(Pending).n = turn.n
           /\ Head(Pending).kind = "end" => Quiet(process, adapter')
           /\ Head(Pending).kind = "complete" /\ provider # "codex" => Quiet(process, adapter')
<1> DEFINE p == process
<1> DEFINE a == adapter
<1> DEFINE b == adapter'
<1> DEFINE e == Head(Pending)
<1> DEFINE All == EventOf(SaidKinds \cup {"end"})
<1>1. /\ a \in AdapterType /\ OneRequest(p) /\ EndsLast(p, a)
      /\ provider # "codex" => ResultEnds(p, a)
      /\ ToldOf(a.queue, turn.n) /\ ToldOf(a.first, turn.n) /\ OnlyOf(p, a, turn.n)
  BY DEF LiveInv, LiveType, PipeInv, StageInv, OnlyOf
<1>2. /\ a.first \in Seq(EventOf({"started"})) /\ a.queue \in Seq(All)
      /\ a.first # <<>> => e = Head(a.first)
      /\ a.first = <<>> => e = Head(a.queue) /\ a.queue # <<>>
  BY PendingFirst DEF LiveInv
<1>3. CASE a.first # <<>>
  <2>1. e \in EventOf({"started"}) /\ Tail(a.first) \in Seq(EventOf({"started"}))
    BY <1>2, <1>3, TailLeaves
  <2>2. b = [a EXCEPT !.first = Tail(a.first)]
    BY <1>3 DEF TakeFirst
  <2>3. /\ b \in AdapterType /\ b.first = Tail(a.first) /\ b.queue = a.queue
        /\ b.reading = a.reading
    BY <1>1, <2>1, <2>2 DEF AdapterType
  <2>4. ToldOf(Tail(a.first), turn.n) /\ (e.kind \in TurnKinds => e.n = turn.n)
    BY <1>1, <1>2, <1>3, TailKeeps
  <2>5. e.kind = "started" /\ e.n \in Nat
    BY <2>1 DEF EventOf
  <2>6. provider = "codex"
    BY <1>1, <1>3 DEF ResultEnds
  <2> HIDE DEF p, a, b, e
  <2>7. OnlyOf(p, b, turn.n)
    BY <1>1, <2>3, <2>4 DEF OnlyOf
  <2>8. PipeInv(p, b)
    BY <1>1, <2>3, <2>6 DEF PipeInv, EndsLast
  <2>9. QED
    BY <2>3, <2>4, <2>5, <2>6, <2>7, <2>8 DEF p, b, e
<1>4. CASE a.first = <<>>
  <2> DEFINE t == Tail(a.queue)
  <2>1. e \in All /\ t \in Seq(All) /\ e = Head(a.queue) /\ e = a.queue[1]
    BY <1>2, <1>4, TailLeaves
  <2>2. b = [a EXCEPT !.queue = t]
    BY <1>4 DEF TakeFirst
  <2>3. /\ Len(a.queue) \in Nat \ {0} /\ Len(t) = Len(a.queue) - 1
        /\ DOMAIN a.queue = 1 .. Len(a.queue) /\ DOMAIN t = 1 .. Len(a.queue) - 1
        /\ \A i \in 1 .. Len(a.queue) - 1 : t[i] = a.queue[i + 1]
    BY <1>2, <1>4, TailLeaves
  <2>4. /\ ToldOf(t, turn.n) /\ (e.kind \in TurnKinds => e.n = turn.n)
        /\ HasResult(t) \/ e.kind = "complete" => HasResult(a.queue)
        /\ ResultLast(a.queue) => ResultLast(t) /\ (e.kind = "complete" => Untold(t))
    BY <1>1, <1>2, <1>4, <2>1, TailKeeps
  <2> HIDE DEF t
  <2>5. /\ b \in AdapterType /\ b.queue = t /\ b.first = <<>> /\ b.reading = a.reading
    BY <1>1, <1>4, <2>1, <2>2 DEF AdapterType
  <2> HIDE DEF p, a, b, e
  <2>6. OnlyOf(p, b, turn.n)
    BY <1>1, <2>4, <2>5, NothingYet DEF OnlyOf
  <2>7. EndsLast(p, b)
    <3> SUFFICES ASSUME NEW i \in DOMAIN t, t[i].kind = "end"
                 PROVE  i = Len(t) /\ ~p.open /\ p.output = <<>> /\ ~a.reading
      BY <2>5 DEF EndsLast
    <3>1. i + 1 \in DOMAIN a.queue /\ a.queue[i + 1].kind = "end" /\ i \in Nat
      BY <2>3
    <3>2. i + 1 = Len(a.queue) /\ ~p.open /\ p.output = <<>> /\ ~a.reading
      BY <1>1, <3>1 DEF EndsLast
    <3>3. QED
      BY <2>3, <3>1, <3>2
  <2>8. provider # "codex" => ResultEnds(p, b)
    BY <1>1, <2>4, <2>5 DEF ResultEnds
  <2>9. e.kind = "end" => Quiet(p, b)
    <3> SUFFICES ASSUME e.kind = "end" PROVE Quiet(p, b)
      OBVIOUS
    <3>1. 1 \in DOMAIN a.queue /\ a.queue[1].kind = "end"
      BY <2>1, <2>3
    <3>2. Len(a.queue) = 1 /\ ~p.open /\ p.output = <<>>
      BY <1>1, <3>1 DEF EndsLast
    <3>3. DOMAIN t = {}
      BY <2>3, <3>2
    <3>4. QED
      BY <2>5, <3>2, <3>3, NothingYet DEF Quiet, Silent, Untold
  <2>10. e.kind = "complete" /\ provider # "codex" => Quiet(p, b)
    BY <1>1, <2>4, <2>5, NothingYet DEF ResultEnds, Quiet
  <2>11. e.n \in Nat
    BY <2>1 DEF EventOf
  <2>12. PipeInv(p, b)
    BY <1>1, <2>7, <2>8 DEF PipeInv
  <2>13. QED
    BY <2>4, <2>5, <2>6, <2>9, <2>10, <2>11, <2>12 DEF p, b, e
<1>5. QED
  BY <1>3, <1>4

\* What an event of the turn makes of the turn.
LEMMA TakesOwn ==
    ASSUME turn \in TurnType, turn.pc = "read", NEW e, e.n \in Nat,
           e.kind \in TurnKinds => e.n = turn.n,
           turn.deltas \subseteq {turn.n}, turn.final \subseteq {turn.n}, turn.active \in {0, turn.n},
           NEW t, t = (IF provider = "codex" THEN CodexTakes(e) ELSE ClaudeTakes(e))
    PROVE  /\ t \in TurnType /\ t.n = turn.n
           /\ t.deltas \subseteq {t.n} /\ t.final \subseteq {t.n} /\ t.active \in {0, t.n}
           /\ \/ t.pc = "read"
              \/ t.pc = "done" /\ provider # "codex" /\ e.kind = "complete"
<1>1. CASE provider = "codex"
  <2>1. e.kind = "complete" => turn.active \in {0, e.n}
    BY DEF TurnKinds
  <2>2. CASE e.kind = "started"
    <3>1. t = [turn EXCEPT !.active = e.n, !.grace = IF turn.grace = "idle" THEN "-" ELSE turn.grace]
      BY <1>1, <2>2 DEF CodexTakes
    <3>2. e.n = turn.n
      BY <2>2 DEF TurnKinds
    <3>3. QED
      BY <3>1, <3>2 DEF TurnType
  <2>3. CASE e.kind = "delta"
    <3>1. t = [turn EXCEPT !.deltas = turn.deltas \cup {e.n}] /\ e.n = turn.n
      BY <1>1, <2>3 DEF CodexTakes, TurnKinds
    <3>2. QED
      BY <3>1 DEF TurnType
  <2>4. CASE e.kind = "final"
    <3>1. t = [turn EXCEPT !.final = {e.n}] /\ e.n = turn.n
      BY <1>1, <2>4 DEF CodexTakes, TurnKinds
    <3>2. QED
      BY <3>1 DEF TurnType
  <2>5. CASE e.kind = "complete"
    <3>1. t \in {turn, [turn EXCEPT !.complete = TRUE, !.grace = "post"]}
      BY <1>1, <2>1, <2>5 DEF CodexTakes
    <3>2. QED
      BY <3>1 DEF TurnType
  <2>6. CASE e.kind \notin {"started", "delta", "final", "complete"}
    <3>1. t \in {turn, [turn EXCEPT !.grace = "idle"]}
      BY <1>1, <2>6 DEF CodexTakes
    <3>2. QED
      BY <3>1 DEF TurnType
  <2>7. QED
    BY <2>2, <2>3, <2>4, <2>5, <2>6
<1>2. CASE provider # "codex"
  <2>1. CASE e.kind = "delta"
    <3>1. t = [turn EXCEPT !.deltas = turn.deltas \cup {e.n}] /\ e.n = turn.n
      BY <1>2, <2>1 DEF ClaudeTakes, TurnKinds
    <3>2. QED
      BY <3>1 DEF TurnType
  <2>2. CASE e.kind = "complete"
    <3> DEFINE final == IF turn.deltas = {} THEN {e.n} ELSE turn.final
    <3>1. t = [turn EXCEPT !.pc = "done", !.final = final]
      BY <1>2, <2>2 DEF ClaudeTakes
    <3>2. final \subseteq {turn.n} /\ final \in SUBSET Nat
      BY <2>2 DEF TurnKinds, TurnType
    <3> HIDE DEF final
    <3>3. QED
      BY <1>2, <2>2, <3>1, <3>2 DEF TurnType, TurnPcs
  <2>3. CASE e.kind \notin {"delta", "complete"}
    BY <1>2, <2>3 DEF ClaudeTakes
  <2>4. QED
    BY <2>1, <2>2, <2>3
<1>3. QED
  BY <1>1, <1>2

\* The loop over the events.
LEMMA ReadKeeps == ASSUME LiveInv, ReadEvent PROVE LiveInv' /\ UNCHANGED saved
<1> DEFINE e == Head(Pending)
<1>1. /\ turn.pc = "read" /\ Pending # <<>> /\ adapter' = TakeFirst
      /\ UNCHANGED <<provider, process, alive, session, saved, faults>>
      /\ turn \in TurnType /\ process \in ProcessType /\ held \in BOOLEAN
      /\ turn.deltas \subseteq {turn.n} /\ turn.final \subseteq {turn.n} /\ turn.active \in {0, turn.n}
      /\ held \/ alive = {}
      /\ alive \subseteq {process.id}
  BY DEF ReadEvent, LiveInv, LiveType, StageInv, OwnerInv
<1>2. /\ adapter' \in AdapterType
      /\ PipeInv(process, adapter') /\ OnlyOf(process, adapter', turn.n)
      /\ e.n \in Nat
      /\ e.kind \in TurnKinds => e.n = turn.n
      /\ e.kind = "end" => Quiet(process, adapter')
      /\ e.kind = "complete" /\ provider # "codex" => Quiet(process, adapter')
  BY <1>1, TakeLeaves
<1>3. ASSUME turn' \in TurnType, turn'.n = turn.n, turn'.deltas \subseteq {turn'.n},
             turn'.final \subseteq {turn'.n}, turn'.active \in {0, turn'.n}, UNCHANGED held,
             \/ turn'.pc = "read"
             \/ turn'.pc = "done" /\ Quiet(process, adapter')
      PROVE  LiveInv'
  <2>1. held' = held /\ held' \in BOOLEAN /\ (held' \/ alive = {})
    BY <1>1, <1>3
  <2>2. OwnerInv'
    BY <1>1, <1>3, <2>1 DEF OwnerInv, Unheld
  <2>3. StageInv(process, adapter', turn', held')
    BY <1>2, <1>3 DEF StageInv
  <2>4. QED
    BY <1>1, <1>2, <1>3, <2>1, <2>2, <2>3, BothMove
<1> HIDE DEF e
<1>4. CASE e # StreamEnd
  <2>1. /\ turn' = (IF provider = "codex" THEN CodexTakes(e) ELSE ClaudeTakes(e))
        /\ UNCHANGED held
    BY <1>4 DEF ReadEvent, e
  <2>2. /\ turn' \in TurnType /\ turn'.n = turn.n
        /\ turn'.deltas \subseteq {turn'.n} /\ turn'.final \subseteq {turn'.n}
        /\ turn'.active \in {0, turn'.n}
        /\ \/ turn'.pc = "read"
           \/ turn'.pc = "done" /\ provider # "codex" /\ e.kind = "complete"
    BY <1>1, <1>2, <2>1, TakesOwn
  <2>3. QED
    BY <1>1, <1>2, <1>3, <2>1, <2>2
<1>5. CASE e = StreamEnd /\ TurnTo("done") /\ UNCHANGED held
  <2>1. /\ turn' \in TurnType /\ turn'.pc = "done"
        /\ turn'.n = turn.n /\ turn'.deltas = turn.deltas
        /\ turn'.final = turn.final /\ turn'.active = turn.active
    BY <1>5, TurnGoes DEF TurnPcs
  <2>2. Quiet(process, adapter')
    BY <1>2, <1>5 DEF StreamEnd, Event
  <2>3. QED
    BY <1>1, <1>3, <1>5, <2>1, <2>2
<1>6. CASE e = StreamEnd /\ FailTurn
  <2>1. /\ turn' \in TurnType /\ turn'.pc = "stop" /\ turn'.then = "failed"
        /\ turn'.n = turn.n /\ turn'.deltas = turn.deltas
        /\ turn'.final = turn.final /\ turn'.active = turn.active /\ held' = FALSE
    BY <1>6, TurnGoes DEF FailTurn, TurnPcs
  <2>2. OwnerInv'
    BY <1>1, <2>1 DEF OwnerInv
  <2>3. StageInv(process, adapter', turn', held')
    BY <1>1, <2>1 DEF StageInv
  <2>4. held' \in BOOLEAN
    BY <2>1
  <2>5. QED
    BY <1>1, <1>2, <2>1, <2>2, <2>3, <2>4, BothMove
<1>7. QED
  BY <1>4, <1>5, <1>6 DEF ReadEvent, e

\* The answers there are.
SavedInv ==
    /\ saved \in [Turns -> [ok : BOOLEAN, text : SUBSET Nat]]
    /\ AnswerIsOwn

\* A session that recovers is all that changes.
LEMMA RecoverKeeps == ASSUME LiveInv, RecoverSession PROVE LiveInv' /\ UNCHANGED saved
<1>1. UNCHANGED <<provider, process, alive, adapter, held, turn, saved>>
  BY DEF RecoverSession
<1>2. QED
  BY <1>1 DEF LiveInv, LiveType, OwnerInv, PipeInv, ResultEnds, StageInv

\* A turn that is not saving saves nothing.
LEMMA LiveSteps ==
    LiveInv /\ [LiveNext]_liveVars => LiveInv' /\ (SaveAnswer \/ SaveFailure \/ UNCHANGED saved)
<1> SUFFICES ASSUME LiveInv, [LiveNext]_liveVars
             PROVE  LiveInv' /\ (SaveAnswer \/ SaveFailure \/ UNCHANGED saved)
  OBVIOUS
<1>1. CASE UNCHANGED liveVars
  BY <1>1 DEF liveVars, LiveInv, LiveType, OwnerInv, PipeInv, ResultEnds, StageInv
<1>2. CASE ProviderTakes \/ ProviderSays \/ ProviderStops \/ PumpLine \/ PumpEnds
  BY <1>2, TakesKeeps, SaysKeeps, StopsKeeps, LineKeeps, EndKeeps
<1>3. CASE BeginTurn \/ SpawnProcess \/ SpawnFails \/ CodexStart \/ ClaudeReady \/ StartFails
  BY <1>3, BeginKeeps, SpawnKeeps, GivesUpKeeps, RequestKeeps, ReadyKeeps
<1>4. CASE SendTurn \/ SendAnswered \/ SendFails \/ ReadEvent \/ GraceOver \/ DeadlineOver
  BY <1>4, RequestKeeps, AnsweredKeeps, GivesUpKeeps, ReadKeeps, GraceKeeps
<1>5. CASE StopProcess \/ SaveAnswer \/ SaveFailure \/ RecoverSession
  BY <1>5, StopKeeps, SaveKeeps, RecoverKeeps
<1>6. QED
  BY <1>1, <1>2, <1>3, <1>4, <1>5 DEF LiveNext, TurnStep

\* At the start nothing runs.
LEMMA LiveStarts == LiveInit => LiveInv /\ SavedInv
<1> SUFFICES ASSUME LiveInit PROVE LiveInv /\ SavedInv
  OBVIOUS
<1>1. process = NoProcess /\ alive = {} /\ held = FALSE /\ turn = NoTurn
  BY DEF LiveInit
<1>2. adapter = [queue |-> <<>>, first |-> <<>>, asked |-> "-", answer |-> "-", reading |-> FALSE]
  BY DEF LiveInit, NewAdapter
<1>3. process \in ProcessType
  BY <1>1 DEF NoProcess, ProcessType
<1>4. adapter \in AdapterType
  BY <1>2 DEF AdapterType
<1>5. turn \in TurnType
  BY <1>1 DEF NoTurn, TurnType, TurnPcs
<1>6. OwnerInv
  BY <1>1 DEF OwnerInv, NoTurn, Unheld
<1>7. PipeInv(process, adapter)
  BY <1>1, <1>2, NothingYet DEF NoProcess, PipeInv, OneRequest, EndsLast, ResultEnds, Silent
<1>8. StageInv(process, adapter, turn, held)
  BY <1>1 DEF StageInv, NoTurn
<1>9. SavedInv
  BY DEF LiveInit, SavedInv, AnswerIsOwn
<1>10. QED
  BY <1>1, <1>3, <1>4, <1>5, <1>6, <1>7, <1>8, <1>9 DEF LiveInv, LiveType

\* An answer is saved with what the turn has heard, which is its own.
LEMMA SavedKeeps == LiveInv /\ SavedInv /\ [LiveNext]_liveVars => SavedInv'
<1> SUFFICES ASSUME LiveInv, SavedInv, [LiveNext]_liveVars PROVE SavedInv'
  OBVIOUS
<1>1. /\ turn.deltas \subseteq {turn.n} /\ turn.final \subseteq {turn.n} /\ turn.n \in Nat
  BY DEF LiveInv, LiveType, TurnType, StageInv
<1>2. CASE SaveAnswer
  <2> DEFINE text == IF turn.final # {} THEN turn.final ELSE turn.deltas
  <2>1. saved' = [saved EXCEPT ![turn.n] = [ok |-> TRUE, text |-> text]]
    BY <1>2 DEF SaveAnswer
  <2>2. text \subseteq {turn.n} /\ text \in SUBSET Nat
    BY <1>1
  <2> HIDE DEF text
  <2>3. QED
    BY <2>1, <2>2 DEF SavedInv, AnswerIsOwn
<1>3. CASE SaveFailure
  BY <1>3 DEF SaveFailure, SavedInv, AnswerIsOwn
<1>4. CASE UNCHANGED saved
  BY <1>4 DEF SavedInv, AnswerIsOwn
<1>5. QED
  BY <1>2, <1>3, <1>4, LiveSteps

(***************************************************************************)
(* Whatever the provider says, leaves unsaid or closes, and whenever it    *)
(* dies: the answer that is saved for a prompt is made of what was said to *)
(* that prompt.  The argument is about what a turn leaves behind: a turn   *)
(* that ends well leaves nothing of itself in the queue, the pipe or the   *)
(* process, and one that does not leaves the process to be stopped.        *)
(***************************************************************************)
THEOREM AnswersOwnPrompt == LiveSpec => []AnswerIsOwn
<1>1. SavedInv => AnswerIsOwn
  BY DEF SavedInv
<1>2. QED
  BY <1>1, LiveStarts, LiveSteps, SavedKeeps, PTL DEF LiveSpec

(***************************************************************************)
(* A provider process that runs is the one the adapter started last, and   *)
(* it is held, or a turn is starting or stopping it.                       *)
(***************************************************************************)
THEOREM NoneIsLeftBehind == LiveSpec => []NoOrphan
<1>1. LiveInv => NoOrphan
  BY DEF LiveInv, OwnerInv, NoOrphan
<1>2. QED
  BY <1>1, LiveStarts, LiveSteps, PTL DEF LiveSpec
=============================================================================
