------------------------------- MODULE DaemonLock -------------------------------
(***************************************************************************)
(* How lynttyd processes of one home directory make room for each other:   *)
(* daemon.state.json (persistence.ts, controlClient.ts), the lock file     *)
(* daemon.state.json.lock and the heartbeat that looks for another daemon  *)
(* (daemon/run.ts).  A process here is one `daemon start-sync`; a command  *)
(* that only looks whether a daemon runs is one that ends after looking.   *)
(***************************************************************************)
EXTENDS Naturals, FiniteSets

CONSTANTS
    Proc,           \* processes, each with a pid of its own
    Outdated,       \* those of the old version
    None,
    MaxAttempts,    \* attempts to create the lock file (5 in the code)
    MaxOverlaps,    \* bound on heartbeats that start while another one is under way
    MaxTroubles     \* bound on unanswered health checks, requests to stop and crashes

ASSUME ProcAssumption == None \notin Proc /\ Outdated \subseteq Proc
ASSUME BoundsAssumption ==
    MaxAttempts \in Nat \ {0} /\ MaxOverlaps \in Nat /\ MaxTroubles \in Nat

VARIABLES
    state,          \* the pid in daemon.state.json, or None
    lock,           \* the lock file: who created it, and whether its pid is written
    pc,             \* where each process is
    seen,           \* the pid it read from the state file
    attempt,        \* its attempts to create the lock file
    beat,           \* its heartbeat: none under way, or whose state it read
    held,           \* history: the processes that created a lock file
    slow,           \* history: health checks that a living daemon did not answer
    overlaps, troubles

files == <<state, lock>>
procs == <<pc, seen, attempt, beat, held>>
bounds == <<slow, overlaps, troubles>>
vars == <<files, procs, bounds>>

-----------------------------------------------------------------------------
(* Types *)

LockFile == [owner : Proc, written : BOOLEAN]

ASSUME LockAssumption == None \notin LockFile

\* Looking for a daemon: check, ping, version, clear-state, clear-lock.  Stopping it:
\* stop, wait.  The lock: lock, unlink, pid.  Starting: start.  The daemon:
\* running, closing.  Its end: end-state, end-lock, release, exited.
Step ==
    {"idle", "check", "ping", "version", "clear-state", "clear-lock", "stop", "wait",
     "lock", "unlink", "pid", "start", "running", "closing",
     "end-state", "end-lock", "release", "exited"}

TypeOK ==
    /\ state \in Proc \cup {None}
    /\ lock \in LockFile \cup {None}
    /\ pc \in [Proc -> Step]
    /\ seen \in [Proc -> Proc \cup {None}]
    /\ attempt \in [Proc -> 1 .. MaxAttempts]
    /\ beat \in [Proc -> {"none", "own", "other"}]
    /\ held \subseteq Proc
    /\ slow \in 0 .. troubles
    /\ overlaps \in 0 .. MaxOverlaps /\ troubles \in 0 .. MaxTroubles

Init ==
    /\ state = None
    /\ lock = None
    /\ pc = [p \in Proc |-> "idle"]
    /\ seen = [p \in Proc |-> None]
    /\ attempt = [p \in Proc |-> 1]
    /\ beat = [p \in Proc |-> "none"]
    /\ held = {}
    /\ slow = 0 /\ overlaps = 0 /\ troubles = 0

Alive(p) == pc[p] \notin {"idle", "exited"}
Trouble == troubles < MaxTroubles /\ troubles' = troubles + 1
Go(p, from, to) == pc[p] = from /\ pc' = [pc EXCEPT ![p] = to]

-----------------------------------------------------------------------------
(* checkIfDaemonRunningAndCleanupStaleState *)

Start(p) ==
    /\ Go(p, "idle", "check")
    /\ UNCHANGED <<files, seen, attempt, beat, held, bounds>>

\* No state: nobody runs.  A dead pid: the files are stale.
Check(p) ==
    /\ IF state = None THEN Go(p, "check", "stop")
       ELSE IF Alive(state) THEN Go(p, "check", "ping")
       ELSE Go(p, "check", "clear-state")
    /\ seen' = [seen EXCEPT ![p] = state]
    /\ UNCHANGED <<files, attempt, beat, held, bounds>>

PingAnswered(p) ==
    /\ Go(p, "ping", "version")
    /\ pc[seen[p]] \in {"running", "closing"}
    /\ UNCHANGED <<files, seen, attempt, beat, held, bounds>>

SameVersion(p, q) == (p \in Outdated) = (q \in Outdated)

\* The state is read again: a daemon of this version is left alone, another one
\* is to be stopped.
CompareVersion(p) ==
    /\ IF state # None /\ SameVersion(p, state)
       THEN Go(p, "version", "exited")
       ELSE Go(p, "version", "stop")
    /\ UNCHANGED <<files, seen, attempt, beat, held, bounds>>

\* No answer within two seconds: the process is gone, has closed its server,
\* or is only slow.  The pid is taken for somebody else's.
PingFails(p) ==
    /\ Go(p, "ping", "clear-state")
    /\ IF pc[seen[p]] = "running"
       THEN Trouble /\ slow' = slow + 1
       ELSE UNCHANGED <<slow, troubles>>
    /\ UNCHANGED <<files, seen, attempt, beat, held, overlaps>>

\* clearDaemonState unlinks whatever state and lock are there by then.
ClearState(p) ==
    /\ \/ Go(p, "clear-state", "clear-lock")
       \/ Go(p, "end-state", "end-lock")
    /\ state' = None
    /\ UNCHANGED <<lock, seen, attempt, beat, held, bounds>>

ClearLock(p) ==
    /\ \/ Go(p, "clear-lock", "stop")
       \/ Go(p, "end-lock", "release")
    /\ lock' = None
    /\ UNCHANGED <<state, seen, attempt, beat, held, bounds>>

-----------------------------------------------------------------------------
(* stopDaemon *)

\* The state is read again; a daemon that answers begins to close.
StopDaemon(p) ==
    /\ pc[p] = "stop"
    /\ seen' = [seen EXCEPT ![p] = state]
    /\ pc' = IF state = None THEN [pc EXCEPT ![p] = "lock"]
             ELSE IF pc[state] = "running" THEN [pc EXCEPT ![p] = "wait", ![state] = "closing"]
             ELSE [pc EXCEPT ![p] = "wait"]
    /\ UNCHANGED <<files, attempt, beat, held, bounds>>

WaitForProcessDeath(p) ==
    /\ Go(p, "wait", "lock")
    /\ ~Alive(seen[p])
    /\ UNCHANGED <<files, seen, attempt, beat, held, bounds>>

\* Two seconds are over: SIGKILL.
ForceKill(p) ==
    /\ pc[p] = "wait"
    /\ Alive(seen[p])
    /\ pc' = [pc EXCEPT ![p] = "lock", ![seen[p]] = "exited"]
    /\ beat' = [beat EXCEPT ![seen[p]] = "none"]
    /\ UNCHANGED <<files, seen, attempt, held, bounds>>

-----------------------------------------------------------------------------
(* acquireDaemonLock *)

CreateLock(p) ==
    /\ Go(p, "lock", "pid")
    /\ lock = None
    /\ lock' = [owner |-> p, written |-> FALSE]
    /\ held' = held \cup {p}
    /\ UNCHANGED <<state, seen, attempt, beat, bounds>>

\* The pid goes to the file this process opened, even if the name is gone or
\* is another file's by now.
WritePid(p) ==
    /\ Go(p, "pid", "start")
    /\ lock' = IF lock # None /\ lock.owner = p THEN [lock EXCEPT !.written = TRUE] ELSE lock
    /\ UNCHANGED <<state, seen, attempt, beat, held, bounds>>

\* Bug: a file without a pid counts as stale.
StaleWithoutPid == lock # None /\ (lock.written => ~Alive(lock.owner))

StaleLock == lock # None /\ lock.written /\ ~Alive(lock.owner)

FoundStale(p) ==
    /\ Go(p, "lock", "unlink")
    /\ StaleLock
    /\ UNCHANGED <<files, seen, attempt, beat, held, bounds>>

\* Bug: one attempt too many.
OneAttemptMore(p, from) ==
    IF attempt[p] <= MaxAttempts
    THEN attempt' = [attempt EXCEPT ![p] = @ + 1] /\ Go(p, from, "lock")
    ELSE Go(p, from, "exited") /\ UNCHANGED attempt

NextAttempt(p, from) ==
    IF attempt[p] < MaxAttempts
    THEN /\ attempt' = [attempt EXCEPT ![p] = @ + 1]
         /\ Go(p, from, "lock")
    ELSE /\ Go(p, from, "exited")
         /\ UNCHANGED attempt

\* Unlinks the name, whose file may be another one by then.
UnlinkStale(p) ==
    /\ NextAttempt(p, "unlink")
    /\ lock' = None
    /\ UNCHANGED <<state, seen, beat, held, bounds>>

\* A living owner, or a file without a pid.
LockHeld(p) ==
    /\ lock # None
    /\ ~StaleLock
    /\ NextAttempt(p, "lock")
    /\ UNCHANGED <<files, seen, beat, held, bounds>>

-----------------------------------------------------------------------------
(* startDaemon and its heartbeat *)

\* Registered with the relay, the daemon publishes its state.
Ready(p) ==
    /\ Go(p, "start", "running")
    /\ state' = p
    /\ UNCHANGED <<lock, seen, attempt, beat, held, bounds>>

\* Starting failed: process.exit(1), with the lock file left.
StartFails(p) ==
    /\ Go(p, "start", "exited")
    /\ Trouble
    /\ UNCHANGED <<files, seen, attempt, beat, held, slow, overlaps>>

\* Reading and writing are milliseconds apart and a heartbeat comes once a
\* minute: those of two daemons overlap, but not for ever.
HeartbeatReads(p) ==
    /\ pc[p] = "running"
    /\ beat[p] = "none"
    /\ IF \A q \in Proc : beat[q] = "none" THEN UNCHANGED overlaps
       ELSE overlaps < MaxOverlaps /\ overlaps' = overlaps + 1
    /\ beat' = [beat EXCEPT ![p] = IF state \in {None, p} THEN "own" ELSE "other"]
    /\ UNCHANGED <<files, pc, seen, attempt, held, slow, troubles>>

\* Bug: another daemon's state does not end this one.
OverwritesOnly(p) ==
    /\ beat[p] # "none"
    /\ Alive(p)
    /\ beat' = [beat EXCEPT ![p] = "none"]
    /\ state' = p
    /\ UNCHANGED <<lock, pc, seen, attempt, held, bounds>>

\* Bug: a state file that is gone is not written again.
RefreshesOnly(p) ==
    /\ beat[p] # "none"
    /\ Alive(p)
    /\ beat' = [beat EXCEPT ![p] = "none"]
    /\ pc' = IF beat[p] = "other" /\ pc[p] = "running"
             THEN [pc EXCEPT ![p] = "closing"] ELSE pc
    /\ state' = IF state = None THEN None ELSE p
    /\ UNCHANGED <<lock, seen, attempt, held, bounds>>

\* After the read everything is one step: a foreign state asks for a shutdown,
\* and the state is overwritten all the same.
HeartbeatWrites(p) ==
    /\ beat[p] # "none"
    /\ Alive(p)
    /\ beat' = [beat EXCEPT ![p] = "none"]
    /\ pc' = IF beat[p] = "other" /\ pc[p] = "running"
             THEN [pc EXCEPT ![p] = "closing"] ELSE pc
    /\ state' = p
    /\ UNCHANGED <<lock, seen, attempt, held, bounds>>

\* /stop, a signal, the app, or the hand-off to a replaced bundle.
StopRequested(p) ==
    /\ Go(p, "running", "closing")
    /\ Trouble
    /\ UNCHANGED <<files, seen, attempt, beat, held, slow, overlaps>>

\* cleanupAndShutdown closes the control server, then clears the files.
ServerClosed(p) ==
    /\ Go(p, "closing", "end-state")
    /\ UNCHANGED <<files, seen, attempt, beat, held, bounds>>

\* releaseDaemonLock unlinks the name once more.
ReleaseLock(p) ==
    /\ Go(p, "release", "exited")
    /\ lock' = None
    /\ beat' = [beat EXCEPT ![p] = "none"]
    /\ UNCHANGED <<state, seen, attempt, held, bounds>>

Crash(p) ==
    /\ Alive(p)
    /\ Trouble
    /\ pc' = [pc EXCEPT ![p] = "exited"]
    /\ beat' = [beat EXCEPT ![p] = "none"]
    /\ UNCHANGED <<files, seen, attempt, held, slow, overlaps>>

-----------------------------------------------------------------------------

ProcStep(p) ==
    \/ Check(p) \/ PingAnswered(p) \/ PingFails(p) \/ CompareVersion(p)
    \/ ClearState(p) \/ ClearLock(p)
    \/ StopDaemon(p) \/ WaitForProcessDeath(p) \/ ForceKill(p)
    \/ CreateLock(p) \/ WritePid(p) \/ FoundStale(p) \/ UnlinkStale(p) \/ LockHeld(p)
    \/ Ready(p) \/ HeartbeatReads(p) \/ HeartbeatWrites(p) \/ ServerClosed(p) \/ ReleaseLock(p)

Next == \E p \in Proc : Start(p) \/ ProcStep(p) \/ StartFails(p) \/ StopRequested(p) \/ Crash(p)

Spec == Init /\ [][Next]_vars

\* A living process goes on, and its heartbeat timer fires again and again,
\* however often those of the others fire.
Fairness == \A p \in Proc : WF_vars(ProcStep(p)) /\ SF_vars(HeartbeatReads(p))

FairSpec == Spec /\ Fairness

-----------------------------------------------------------------------------
(* Properties *)

Serving == {p \in Proc : pc[p] = "running"}

\* The comment of acquireDaemonLock: the lock file "prevents multiple instances".
OneDaemon == Cardinality(Serving) <= 1

\* No health check of a living daemon failed, and nobody who created a lock
\* file was stopped, failed or was killed.
Undisturbed ==
    /\ slow = 0
    /\ \A p \in held : pc[p] \in {"pid", "start", "running"}

\* Until then at most one process is past the lock, however many start at once
\* (acquireDaemonLock).
OneDaemonUntilDisturbed == Undisturbed => \A p, q \in held : p = q

\* Two daemons do not stay side by side: the heartbeat of one finds the state
\* of the other and shuts its own down (startDaemon).
DuplicatesDieOut == <>[]OneDaemon

\* The daemon that stays is the one the state file leads to, also after the
\* cleanup of another one, or a health check it did not answer, removed it.
SurvivorIsFound == <>[](Serving # {} => state \in Serving)
=============================================================================
