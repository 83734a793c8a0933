--------------------------- MODULE DaemonLock_proofs ---------------------------
(***************************************************************************)
(* Proofs about DaemonLock: until something disturbs the processes that    *)
(* created a lock file there is only one of them.                          *)
(***************************************************************************)
EXTENDS DaemonLock, TLAPS

\* Past the creation of a lock file; `exited' may also be an early end.
PastLock ==
    {"pid", "start", "running", "closing", "end-state", "end-lock", "release"}

\* held is exactly the processes past the lock, and those of them that ended.
HeldPath ==
    \A p \in Proc :
        /\ p \in held => pc[p] \in PastLock \cup {"exited"}
        /\ pc[p] \in PastLock => p \in held

\* The lock file is that of the one process past it.
LockIsHeld == IF held = {} THEN lock = None ELSE lock # None /\ held = {lock.owner}

\* Whoever the state file or a health check leads to is serving, and so is
\* whoever has a heartbeat under way.
StateIsServed ==
    /\ state # None => pc[state] = "running"
    /\ \A p \in Proc : pc[p] = "ping" => seen[p] \in Proc /\ pc[seen[p]] = "running"
    /\ \A p \in Proc : beat[p] # "none" => pc[p] = "running"

\* Nobody has judged the files stale.
NobodyCleans == \A p \in Proc : pc[p] \notin {"clear-state", "clear-lock", "unlink"}

Clean == LockIsHeld /\ StateIsServed /\ NobodyCleans

IInv == TypeOK /\ HeldPath /\ (Undisturbed => Clean)

-----------------------------------------------------------------------------

\* The variables keep their types (all of persistence.ts and the heartbeat).
LEMMA TypeInit == Init => TypeOK
BY ProcAssumption, BoundsAssumption DEF Init, TypeOK, Step, LockFile

\* A step of a daemon process keeps the types of files and program counters.
LEMMA TypeNext == TypeOK /\ [Next]_vars => TypeOK'
<1> SUFFICES ASSUME TypeOK, [Next]_vars PROVE TypeOK'
    OBVIOUS
<1> USE ProcAssumption, BoundsAssumption
<1>1. CASE UNCHANGED vars
    BY <1>1 DEF TypeOK, vars, files, procs, bounds
<1>2. ASSUME NEW p \in Proc,
             Start(p) \/ ProcStep(p) \/ StartFails(p) \/ StopRequested(p) \/ Crash(p)
      PROVE TypeOK'
    <2>1. CASE Start(p)
        BY <2>1 DEF TypeOK, Start, Go, Step, files, bounds
    <2>2. CASE Check(p)
        BY <2>2 DEF TypeOK, Check, Go, Step, files, bounds
    <2>3. CASE PingAnswered(p)
        BY <2>3 DEF TypeOK, PingAnswered, Go, Step, files, bounds
    <2>4. CASE PingFails(p)
        BY <2>4 DEF TypeOK, PingFails, Go, Step, Trouble, files, bounds
    <2>5. CASE CompareVersion(p)
        BY <2>5 DEF TypeOK, CompareVersion, Go, Step, files, bounds
    <2>6. CASE ClearState(p)
        BY <2>6 DEF TypeOK, ClearState, Go, Step, bounds
    <2>7. CASE ClearLock(p)
        BY <2>7 DEF TypeOK, ClearLock, Go, Step, bounds
    <2>8. CASE StopDaemon(p)
        BY <2>8 DEF TypeOK, StopDaemon, Step, files, bounds
    <2>9. CASE WaitForProcessDeath(p)
        BY <2>9 DEF TypeOK, WaitForProcessDeath, Go, Step, files, bounds
    <2>10. CASE ForceKill(p)
        BY <2>10 DEF TypeOK, ForceKill, Step, files, bounds
    <2>11. CASE CreateLock(p)
        BY <2>11 DEF TypeOK, CreateLock, Go, Step, LockFile, bounds
    <2>12. CASE WritePid(p)
        BY <2>12 DEF TypeOK, WritePid, Go, Step, LockFile, bounds
    <2>13. CASE FoundStale(p)
        BY <2>13 DEF TypeOK, FoundStale, Go, Step, files, bounds
    <2>14. CASE UnlinkStale(p)
        BY <2>14 DEF TypeOK, UnlinkStale, NextAttempt, Go, Step, bounds
    <2>15. CASE LockHeld(p)
        BY <2>15 DEF TypeOK, LockHeld, NextAttempt, Go, Step, files, bounds
    <2>16. CASE Ready(p)
        BY <2>16 DEF TypeOK, Ready, Go, Step, bounds
    <2>17. CASE HeartbeatReads(p)
        BY <2>17 DEF TypeOK, HeartbeatReads, Step, files
    <2>18. CASE HeartbeatWrites(p)
        BY <2>18 DEF TypeOK, HeartbeatWrites, Step, bounds
    <2>19. CASE ServerClosed(p)
        BY <2>19 DEF TypeOK, ServerClosed, Go, Step, files, bounds
    <2>20. CASE ReleaseLock(p)
        BY <2>20 DEF TypeOK, ReleaseLock, Go, Step, bounds
    <2>21. CASE StartFails(p)
        BY <2>21 DEF TypeOK, StartFails, Go, Step, Trouble, files
    <2>22. CASE StopRequested(p)
        BY <2>22 DEF TypeOK, StopRequested, Go, Step, Trouble, files
    <2>23. CASE Crash(p)
        BY <2>23 DEF TypeOK, Crash, Step, Trouble, files
    <2> QED
        BY <1>2, <2>1, <2>2, <2>3, <2>4, <2>5, <2>6, <2>7, <2>8, <2>9, <2>10, <2>11,
           <2>12, <2>13, <2>14, <2>15, <2>16, <2>17, <2>18, <2>19, <2>20, <2>21, <2>22,
           <2>23 DEF ProcStep
<1> QED
    BY <1>1, <1>2 DEF Next

\* Type correctness of the whole specification.
THEOREM TypeCorrect == Spec => []TypeOK
BY TypeInit, TypeNext, PTL DEF Spec

-----------------------------------------------------------------------------

\* Only CreateLock adds to held, and from the lock there is no way back.
LEMMA HeldStep == TypeOK /\ HeldPath /\ [Next]_vars => HeldPath'
<1> SUFFICES ASSUME TypeOK, HeldPath, [Next]_vars PROVE HeldPath'
    OBVIOUS
<1> USE ProcAssumption DEF TypeOK, HeldPath, PastLock, Step
<1>1. CASE UNCHANGED vars
    BY <1>1 DEF vars, files, procs, bounds
<1>2. ASSUME NEW p \in Proc,
             Start(p) \/ ProcStep(p) \/ StartFails(p) \/ StopRequested(p) \/ Crash(p)
      PROVE HeldPath'
    <2>1. CASE Start(p)
        BY <2>1 DEF Start, Go, files, bounds
    <2>2. CASE Check(p)
        BY <2>2 DEF Check, Go, files, bounds
    <2>3. CASE PingAnswered(p)
        BY <2>3 DEF PingAnswered, Go, files, bounds
    <2>4. CASE PingFails(p)
        BY <2>4 DEF PingFails, Go, Trouble, files, bounds
    <2>5. CASE CompareVersion(p)
        BY <2>5 DEF CompareVersion, Go, files, bounds
    <2>6. CASE ClearState(p)
        BY <2>6 DEF ClearState, Go, files, bounds
    <2>7. CASE ClearLock(p)
        BY <2>7 DEF ClearLock, Go, files, bounds
    <2>8. CASE StopDaemon(p)
        BY <2>8 DEF StopDaemon, files, bounds
    <2>9. CASE WaitForProcessDeath(p)
        BY <2>9 DEF WaitForProcessDeath, Go, files, bounds
    <2>10. CASE ForceKill(p)
        BY <2>10 DEF ForceKill, files, bounds, Alive
    <2>11. CASE CreateLock(p)
        BY <2>11 DEF CreateLock, Go, files, bounds
    <2>12. CASE WritePid(p)
        BY <2>12 DEF WritePid, Go, files, bounds
    <2>13. CASE FoundStale(p)
        BY <2>13 DEF FoundStale, Go, files, bounds
    <2>14. CASE UnlinkStale(p)
        BY <2>14 DEF UnlinkStale, Go, NextAttempt, files, bounds
    <2>15. CASE LockHeld(p)
        BY <2>15 DEF LockHeld, Go, NextAttempt, files, bounds
    <2>16. CASE Ready(p)
        BY <2>16 DEF Ready, Go, files, bounds
    <2>17. CASE HeartbeatReads(p)
        BY <2>17 DEF HeartbeatReads, files, bounds
    <2>18. CASE HeartbeatWrites(p)
        BY <2>18 DEF HeartbeatWrites, files, bounds, Alive
    <2>19. CASE ServerClosed(p)
        BY <2>19 DEF ServerClosed, Go, files, bounds
    <2>20. CASE ReleaseLock(p)
        BY <2>20 DEF ReleaseLock, Go, files, bounds
    <2>21. CASE StartFails(p)
        BY <2>21 DEF StartFails, Go, Trouble, files, bounds
    <2>22. CASE StopRequested(p)
        BY <2>22 DEF StopRequested, Go, Trouble, files, bounds
    <2>23. CASE Crash(p)
        BY <2>23 DEF Crash, Trouble, files, bounds, Alive
    <2> QED
        BY <1>2, <2>1, <2>2, <2>3, <2>4, <2>5, <2>6, <2>7, <2>8, <2>9, <2>10, <2>11, <2>12,
           <2>13, <2>14, <2>15, <2>16, <2>17, <2>18, <2>19, <2>20, <2>21, <2>22, <2>23 DEF ProcStep
<1> QED
    BY <1>1, <1>2 DEF Next

\* What is disturbed stays so: a process that was stopped, failed or was killed
\* does not come back.
LEMMA UndisturbedBefore ==
  TypeOK /\ HeldPath /\ [Next]_vars /\ Undisturbed' => Undisturbed
<1> SUFFICES ASSUME TypeOK, HeldPath, [Next]_vars, Undisturbed' PROVE Undisturbed
    OBVIOUS
<1> USE ProcAssumption DEF TypeOK, HeldPath, PastLock, Step, Undisturbed
<1>1. CASE UNCHANGED vars
    BY <1>1 DEF vars, files, procs, bounds
<1>2. ASSUME NEW p \in Proc,
             Start(p) \/ ProcStep(p) \/ StartFails(p) \/ StopRequested(p) \/ Crash(p)
      PROVE Undisturbed
    <2>1. CASE Start(p)
        BY <2>1 DEF Start, Go, files, bounds
    <2>2. CASE Check(p)
        BY <2>2 DEF Check, Go, files, bounds
    <2>3. CASE PingAnswered(p)
        BY <2>3 DEF PingAnswered, Go, files, bounds
    <2>4. CASE PingFails(p)
        BY <2>4 DEF PingFails, Go, Trouble, files, bounds
    <2>5. CASE CompareVersion(p)
        BY <2>5 DEF CompareVersion, Go, files, bounds
    <2>6. CASE ClearState(p)
        BY <2>6 DEF ClearState, Go, files, bounds
    <2>7. CASE ClearLock(p)
        BY <2>7 DEF ClearLock, Go, files, bounds
    <2>8. CASE StopDaemon(p)
        BY <2>8 DEF StopDaemon, files, bounds
    <2>9. CASE WaitForProcessDeath(p)
        BY <2>9 DEF WaitForProcessDeath, Go, files, bounds
    <2>10. CASE ForceKill(p)
        BY <2>10 DEF ForceKill, files, bounds, Alive
    <2>11. CASE CreateLock(p)
        BY <2>11 DEF CreateLock, Go, files, bounds
    <2>12. CASE WritePid(p)
        BY <2>12 DEF WritePid, Go, files, bounds
    <2>13. CASE FoundStale(p)
        BY <2>13 DEF FoundStale, Go, files, bounds
    <2>14. CASE UnlinkStale(p)
        BY <2>14 DEF UnlinkStale, Go, NextAttempt, files, bounds
    <2>15. CASE LockHeld(p)
        BY <2>15 DEF LockHeld, Go, NextAttempt, files, bounds
    <2>16. CASE Ready(p)
        BY <2>16 DEF Ready, Go, files, bounds
    <2>17. CASE HeartbeatReads(p)
        BY <2>17 DEF HeartbeatReads, files, bounds
    <2>18. CASE HeartbeatWrites(p)
        BY <2>18 DEF HeartbeatWrites, files, bounds, Alive
    <2>19. CASE ServerClosed(p)
        BY <2>19 DEF ServerClosed, Go, files, bounds
    <2>20. CASE ReleaseLock(p)
        BY <2>20 DEF ReleaseLock, Go, files, bounds
    <2>21. CASE StartFails(p)
        BY <2>21 DEF StartFails, Go, Trouble, files, bounds
    <2>22. CASE StopRequested(p)
        BY <2>22 DEF StopRequested, Go, Trouble, files, bounds
    <2>23. CASE Crash(p)
        BY <2>23 DEF Crash, Trouble, files, bounds, Alive
    <2> QED
        BY <1>2, <2>1, <2>2, <2>3, <2>4, <2>5, <2>6, <2>7, <2>8, <2>9, <2>10, <2>11, <2>12,
           <2>13, <2>14, <2>15, <2>16, <2>17, <2>18, <2>19, <2>20, <2>21, <2>22, <2>23 DEF ProcStep
<1> QED
    BY <1>1, <1>2 DEF Next

\* While nobody is disturbed every step keeps the files those of the one
\* process past the lock.
LEMMA CleanStep ==
  /\ TypeOK /\ HeldPath /\ Undisturbed /\ Clean
  /\ [Next]_vars
  /\ HeldPath' /\ Undisturbed'
  => Clean'
<1> SUFFICES ASSUME TypeOK, HeldPath, Undisturbed, Clean, [Next]_vars, HeldPath', Undisturbed'
             PROVE  Clean'
    OBVIOUS
<1> USE ProcAssumption, LockAssumption DEF TypeOK, HeldPath, PastLock, Step, Undisturbed, Clean, LockIsHeld,
        StateIsServed, NobodyCleans
<1>1. CASE UNCHANGED vars
    BY <1>1 DEF vars, files, procs, bounds
<1>2. ASSUME NEW p \in Proc,
             Start(p) \/ ProcStep(p) \/ StartFails(p) \/ StopRequested(p) \/ Crash(p)
      PROVE Clean'
    <2>1. CASE Start(p)
        BY <2>1 DEF Start, Go, files, bounds
    <2>2. CASE Check(p)
        BY <2>2 DEF Check, Go, files, bounds, Alive
    <2>3. CASE PingAnswered(p)
        BY <2>3 DEF PingAnswered, Go, files, bounds
    <2>4. CASE PingFails(p)
        BY <2>4 DEF PingFails, Go, Trouble, files, bounds
    <2>5. CASE CompareVersion(p)
        BY <2>5 DEF CompareVersion, Go, files, bounds
    <2>6. CASE ClearState(p)
        BY <2>6 DEF ClearState, Go, files, bounds
    <2>7. CASE ClearLock(p)
        BY <2>7 DEF ClearLock, Go, files, bounds
    <2>8. CASE StopDaemon(p)
        BY <2>8 DEF StopDaemon, files, bounds
    <2>9. CASE WaitForProcessDeath(p)
        BY <2>9 DEF WaitForProcessDeath, Go, files, bounds, Alive
    <2>10. CASE ForceKill(p)
        BY <2>10 DEF ForceKill, files, bounds, Alive
    <2>11. CASE CreateLock(p)
        <3>1. held' = {p}
            BY <2>11 DEF CreateLock
        <3>2. lock' \in LockFile /\ lock'.owner = p
            BY <2>11 DEF CreateLock, LockFile
        <3>3. LockIsHeld'
            BY <3>1, <3>2
        <3> QED
            BY <2>11, <3>3 DEF CreateLock, Go, bounds
    <2>12. CASE WritePid(p)
        <3>1. p \in held /\ lock # None /\ lock.owner = p
            BY <2>12 DEF WritePid, Go
        <3>2. lock' = [lock EXCEPT !.written = TRUE] /\ lock' \in LockFile /\ lock'.owner = p
            BY <2>12, <3>1 DEF WritePid, LockFile
        <3>3. held' = {p}
            BY <2>12, <3>1 DEF WritePid
        <3>4. LockIsHeld'
            BY <3>2, <3>3
        <3> QED
            BY <2>12, <3>4 DEF WritePid, Go, bounds
    <2>13. CASE FoundStale(p)
        BY <2>13 DEF FoundStale, Go, files, bounds, StaleLock, Alive
    <2>14. CASE UnlinkStale(p)
        BY <2>14 DEF UnlinkStale, Go, NextAttempt, files, bounds
    <2>15. CASE LockHeld(p)
        BY <2>15 DEF LockHeld, Go, NextAttempt, files, bounds, StaleLock, Alive
    <2>16. CASE Ready(p)
        BY <2>16 DEF Ready, Go, files, bounds
    <2>17. CASE HeartbeatReads(p)
        BY <2>17 DEF HeartbeatReads, files, bounds
    <2>18. CASE HeartbeatWrites(p)
        BY <2>18 DEF HeartbeatWrites, files, bounds, Alive
    <2>19. CASE ServerClosed(p)
        BY <2>19 DEF ServerClosed, Go, files, bounds
    <2>20. CASE ReleaseLock(p)
        BY <2>20 DEF ReleaseLock, Go, files, bounds
    <2>21. CASE StartFails(p)
        BY <2>21 DEF StartFails, Go, Trouble, files, bounds
    <2>22. CASE StopRequested(p)
        BY <2>22 DEF StopRequested, Go, Trouble, files, bounds
    <2>23. CASE Crash(p)
        BY <2>23 DEF Crash, Trouble, files, bounds, Alive
    <2> QED
        BY <1>2, <2>1, <2>2, <2>3, <2>4, <2>5, <2>6, <2>7, <2>8, <2>9, <2>10, <2>11, <2>12,
           <2>13, <2>14, <2>15, <2>16, <2>17, <2>18, <2>19, <2>20, <2>21, <2>22, <2>23 DEF ProcStep
<1> QED
    BY <1>1, <1>2 DEF Next

\* As many processes as there may be, of any versions, at most one gets past the
\* lock until a health check of a living daemon fails, or one that got past it
\* is stopped, fails or is killed (acquireDaemonLock, startDaemon).
THEOREM OneUntilDisturbed == Spec => []OneDaemonUntilDisturbed
<1>1. Init => IInv
    BY TypeInit, ProcAssumption
    DEF Init, IInv, HeldPath, PastLock, Clean, LockIsHeld, StateIsServed, NobodyCleans
<1>2. IInv /\ [Next]_vars => IInv'
    BY TypeNext, HeldStep, UndisturbedBefore, CleanStep DEF IInv
<1>3. IInv => OneDaemonUntilDisturbed
    BY DEF IInv, Clean, LockIsHeld, OneDaemonUntilDisturbed
<1> QED
    BY <1>1, <1>2, <1>3, PTL DEF Spec
=============================================================================
