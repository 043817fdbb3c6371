------------------------------ MODULE TestEnv -------------------------------
(***************************************************************************)
(* The isolated test environment of main.py, `btwin test-env up`, `hud`    *)
(* and `down`: one API server of this checkout in the background, known by *)
(* three files.  Commands may overlap and be killed, servers die by        *)
(* themselves, the system gives a freed pid to other programs, and another *)
(* checkout's server may hold the same port.  The workspace that `up`      *)
(* prepares and the output of `status` are left out.                       *)
(***************************************************************************)
EXTENDS Integers, FiniteSets

CONSTANTS
    Shells,         \* commands that may run at once
    Pids,
    NoPid,
    Seconds,        \* start times as `ps` tells them, to the second
    MaxStarted,     \* bound: processes ever started
    MaxCut          \* bound: commands killed

ASSUME TestEnvAssumption ==
    /\ NoPid \notin Pids /\ "none" \notin Shells
    /\ MaxStarted \in Nat /\ MaxCut \in Nat

VARIABLES
    procs,          \* what runs under each pid; nonce 0 is another program
    envFiles,       \* serve-api.pid, its .owner and its .identity
    cmd,            \* the commands: how far each is and what it has read
    started,        \* processes started so far
    told,           \* nonces of the processes that were sent a SIGTERM
    tidy,           \* no two commands have overlapped and none was killed
    cut             \* commands killed so far

envVars == <<procs, envFiles, cmd, started, told, tidy, cut>>

NoFiles == [pid |-> NoPid, owner |-> "none", pidNamed |-> NoPid, start |-> 0, nonce |-> 0]
Free == [state |-> "free", nonce |-> 0, start |-> 0, parent |-> "none"]
AtRest == [at |-> "idle", named |-> NoFiles, child |-> NoPid, then |-> "end"]

Resting == \A c \in Shells : cmd[c].at = "idle"

-----------------------------------------------------------------------------
(***************************************************************************)
(* What the command asks of the system.  A process that has ended keeps    *)
(* its pid until its parent has: it is still "running" and has a start     *)
(* time, but its command line is gone.                                     *)
(***************************************************************************)
\* _test_env_pid_is_running
Running(pid) == pid # NoPid /\ procs[pid].state # "free"

\* _test_env_owner_matches
OwnerMatches == envFiles.owner = "mine"

\* _test_env_api_is_healthy: a server may always be too slow to answer.
MayBeHealthy == \E p \in Pids : procs[p].state = "serving"

SameStart(named) == Running(named.pid) /\ procs[named.pid].start = named.start

SameStartOnly(named) == SameStart(named)    \* mutant: the nonce is not compared

\* _test_env_process_start_time and _test_env_wrapper_nonce_matches
SameProcess(named) ==
    /\ SameStart(named)
    /\ procs[named.pid].state # "ended" /\ procs[named.pid].nonce = named.nonce

-----------------------------------------------------------------------------
(***************************************************************************)
(* Processes outside the command.                                          *)
(***************************************************************************)
Spawned(p, proc) ==
    /\ started < MaxStarted /\ procs[p].state = "free"
    /\ started' = started + 1
    /\ procs' = [procs EXCEPT ![p] = proc]

OtherStarts ==
    /\ \E p \in Pids, s \in Seconds, what \in {"serving", "silent"} :
          /\ what = "serving" => ~MayBeHealthy
          /\ Spawned(p, [Free EXCEPT !.state = what, !.start = s])
    /\ UNCHANGED <<envFiles, cmd, told, tidy, cut>>

Exits ==
    /\ \E p \in Pids :
          /\ procs[p].state \notin {"free", "ended"}
          /\ procs' = [procs EXCEPT ![p] = IF @.parent = "none" THEN Free
                                           ELSE [@ EXCEPT !.state = "ended"]]
    /\ UNCHANGED <<envFiles, cmd, started, told, tidy, cut>>

ServerListens ==        \* a second server of the port fails and exits instead
    /\ ~MayBeHealthy
    /\ \E p \in Pids :
          /\ procs[p].state = "starting"
          /\ procs' = [procs EXCEPT ![p].state = "serving"]
    /\ UNCHANGED <<envFiles, cmd, started, told, tidy, cut>>

-----------------------------------------------------------------------------
(***************************************************************************)
(* A command begins, goes on, and ends; with it ends the wait for the      *)
(* children that have ended before it.                                     *)
(***************************************************************************)
Begins(c, rec) ==
    /\ cmd[c].at = "idle"
    /\ cmd' = [cmd EXCEPT ![c] = rec]
    /\ tidy' = (tidy /\ Resting)
    /\ UNCHANGED <<procs, started, told, cut>>

GoesOn(c, at, to) == cmd[c].at = at /\ cmd' = [cmd EXCEPT ![c].at = to]

Orphaned(c) ==
    [p \in Pids |-> IF procs[p].parent # c THEN procs[p]
                    ELSE IF procs[p].state = "ended" THEN Free
                    ELSE [procs[p] EXCEPT !.parent = "none"]]

Ends(c) == cmd' = [cmd EXCEPT ![c] = AtRest] /\ procs' = Orphaned(c)

CommandCut(c) ==
    /\ cut < MaxCut /\ cmd[c].at # "idle"
    /\ Ends(c)
    /\ cut' = cut + 1 /\ tidy' = FALSE
    /\ UNCHANGED <<envFiles, started, told>>

(***************************************************************************)
(* _stop_owned_test_env_process: a process is signalled when the files     *)
(* agree with one another and with what runs under the pid; in any case    *)
(* the files go.  No pid is taken to change hands between the last `ps`    *)
(* and the signal.                                                         *)
(***************************************************************************)
DownBegins(c) == Begins(c, [AtRest EXCEPT !.at = "stop"]) /\ UNCHANGED envFiles

FilesAgree ==
    /\ OwnerMatches /\ Running(envFiles.pid)
    /\ envFiles.pidNamed = envFiles.pid

StopReads(c) ==
    /\ cmd[c].at = "stop" /\ FilesAgree
    /\ cmd' = [cmd EXCEPT ![c].named = envFiles, ![c].at = "verify", ![c].child = NoPid]
    /\ UNCHANGED <<procs, envFiles, started, told, tidy, cut>>

StopFindsNone(c) ==
    /\ cmd[c].at = "stop" /\ ~FilesAgree
    /\ cmd' = [cmd EXCEPT ![c] = [AtRest EXCEPT !.at = "clean", !.then = cmd[c].then]]
    /\ UNCHANGED <<procs, envFiles, started, told, tidy, cut>>

StopSignals(c) ==
    /\ cmd[c].at = "verify"
    /\ cmd' = [cmd EXCEPT ![c] = [AtRest EXCEPT !.at = "clean", !.then = cmd[c].then]]
    /\ told' = IF SameProcess(cmd[c].named)
               THEN told \cup {procs[cmd[c].named.pid].nonce} ELSE told
    /\ UNCHANGED <<procs, envFiles, started, tidy, cut>>

\* _cleanup_test_env_pid_files
Cleans(c) ==
    /\ cmd[c].at = "clean"
    /\ envFiles' = NoFiles
    /\ \/ cmd[c].then = "start" /\ cmd' = [cmd EXCEPT ![c].at = "start"] /\ UNCHANGED procs
       \/ cmd[c].then = "end" /\ Ends(c)
    /\ UNCHANGED <<started, told, tidy, cut>>

(***************************************************************************)
(* _ensure_test_env_up.  Whether the API answers is asked twice, and it is *)
(* not asked who answers.                                                  *)
(***************************************************************************)
UpBegins(c) ==
    /\ Begins(c, [AtRest EXCEPT !.at = "look", !.then = "start"])
    /\ UNCHANGED envFiles

UpReuses(c) ==
    /\ cmd[c].at = "look"
    /\ OwnerMatches /\ Running(envFiles.pid) /\ MayBeHealthy
    /\ Ends(c)
    /\ UNCHANGED <<envFiles, started, told, tidy, cut>>

UpRefuses(c) ==
    /\ cmd[c].at = "look" /\ MayBeHealthy
    /\ Ends(c)
    /\ UNCHANGED <<envFiles, started, told, tidy, cut>>

UpReplaces(c) ==
    /\ GoesOn(c, "look", IF OwnerMatches THEN "stop" ELSE "clean")
    /\ UNCHANGED <<procs, envFiles, started, told, tidy, cut>>

(***************************************************************************)
(* _start_test_env_process: the server runs before any file tells of it.   *)
(***************************************************************************)
Starts(c) ==
    /\ cmd[c].at = "start"
    /\ \E p \in Pids, s \in Seconds :
          /\ Spawned(p, [state |-> "starting", nonce |-> started + 1, start |-> s, parent |-> c])
          /\ cmd' = [cmd EXCEPT ![c].at = "pid", ![c].child = p]
    /\ UNCHANGED <<envFiles, told, tidy, cut>>

WritesPid(c) ==
    /\ GoesOn(c, "pid", "owner")
    /\ envFiles' = [envFiles EXCEPT !.pid = cmd[c].child]
    /\ UNCHANGED <<procs, started, told, tidy, cut>>

WritesOwner(c) ==
    /\ GoesOn(c, "owner", "identity")
    /\ envFiles' = [envFiles EXCEPT !.owner = "mine"]
    /\ UNCHANGED <<procs, started, told, tidy, cut>>

RecordsIdentity(c) ==
    /\ GoesOn(c, "identity", "wait")
    /\ LET child == procs[cmd[c].child]
       IN  envFiles' = [envFiles EXCEPT !.pidNamed = cmd[c].child,
                                        !.start = child.start, !.nonce = child.nonce]
    /\ UNCHANGED <<procs, started, told, tidy, cut>>

IdentityFails(c) ==     \* `ps` fails: the new server is stopped again
    /\ cmd[c].at = "identity"
    /\ told' = told \cup {procs[cmd[c].child].nonce}
    /\ cmd' = [cmd EXCEPT ![c].at = "clean", ![c].then = "end"]
    /\ UNCHANGED <<procs, envFiles, started, tidy, cut>>

\* _wait_for_test_env_api
Ready(c) ==
    /\ cmd[c].at = "wait" /\ MayBeHealthy
    /\ Ends(c)
    /\ UNCHANGED <<envFiles, started, told, tidy, cut>>

TimesOutCleaning(c) ==  \* mutant: only the files of the late server go
    /\ cmd[c].at = "wait"
    /\ cmd' = [cmd EXCEPT ![c].at = "clean", ![c].then = "end"]
    /\ UNCHANGED <<procs, envFiles, started, told, tidy, cut>>

TimesOut(c) ==
    /\ cmd[c].at = "wait"
    /\ cmd' = [cmd EXCEPT ![c].at = "stop", ![c].then = "end"]
    /\ UNCHANGED <<procs, envFiles, started, told, tidy, cut>>

-----------------------------------------------------------------------------
(***************************************************************************)
(* The directory may be a copy of another checkout's, files included.      *)
(***************************************************************************)
Copied == {[pid |-> p, owner |-> "other", pidNamed |-> p, start |-> s, nonce |-> MaxStarted + 1] :
               p \in Pids, s \in Seconds}

EnvInit ==
    /\ procs = [p \in Pids |-> Free]
    /\ envFiles \in Copied \cup {NoFiles}
    /\ cmd = [c \in Shells |-> AtRest]
    /\ started = 0 /\ cut = 0
    /\ told = {}
    /\ tidy = TRUE

EnvNext ==
    \/ OtherStarts \/ Exits \/ ServerListens
    \/ \E c \in Shells :
          \/ DownBegins(c) \/ StopReads(c) \/ StopFindsNone(c) \/ StopSignals(c) \/ Cleans(c)
          \/ UpBegins(c) \/ UpReuses(c) \/ UpRefuses(c) \/ UpReplaces(c)
          \/ Starts(c) \/ WritesPid(c) \/ WritesOwner(c)
          \/ RecordsIdentity(c) \/ IdentityFails(c) \/ Ready(c) \/ TimesOut(c)
          \/ CommandCut(c)

EnvSpec == EnvInit /\ [][EnvNext]_envVars

-----------------------------------------------------------------------------
(***************************************************************************)
(* No command signals a process that no command of this checkout started,  *)
(* whatever the files say, whoever got the pid meanwhile and however       *)
(* commands overlap (_stop_owned_test_env_process).                        *)
(***************************************************************************)
StopsOnlyItsOwn == 0 \notin told

(***************************************************************************)
(* Where commands do not overlap and none is killed, a server that was     *)
(* started is known by its files, so that `down` can stop it, or has been  *)
(* told to stop (_ensure_test_env_up and its ways out).                    *)
(***************************************************************************)
ServerIsKnown ==
    tidy /\ Resting =>
        \A p \in Pids : procs[p].state \in {"starting", "serving"} /\ procs[p].nonce > 0 =>
            \/ procs[p].nonce \in told
            \/ FilesAgree /\ envFiles.pid = p /\ SameProcess(envFiles)
=============================================================================
