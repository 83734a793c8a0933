---------------------------- MODULE InstallLock_proofs ----------------------------
(***************************************************************************)
(* Any number of installers exclude each other until one of them is killed *)
(* inside: until then nobody finds a stale lock, so nobody claims one.     *)
(***************************************************************************)
EXTENDS InstallLock, TLAPS

NobodyDied == \A p \in Installer : pc[p] # "dead"

\* Without a death nobody claims a lock, and the lock names exactly the
\* invocation that is inside.
LockInv ==
    /\ TypeOK
    /\ NobodyDied =>
         \A p \in Installer :
            /\ pc[p] \notin {"claim", "republish"}
            /\ Inside(p) <=> lock = p

\* No step of acquireInstallLock or release lets a second live installer in.
LEMMA LockStep ==
  ASSUME Nobody \notin Installer, LockInv, [Next]_vars
  PROVE  LockInv'
<1> USE DEF LockInv, TypeOK, NobodyDied, Inside, Alive, Go, Step
<1>1. ASSUME NEW p \in Installer, publishLock(p) PROVE LockInv'
  BY <1>1 DEF publishLock
<1>2. ASSUME NEW p \in Installer, existingLockIsActive(p) PROVE LockInv'
  BY <1>2 DEF existingLockIsActive
<1>3. ASSUME NEW p \in Installer, claimAndRemoveStaleLock(p) PROVE LockInv'
  BY <1>3 DEF claimAndRemoveStaleLock
<1>4. ASSUME NEW p \in Installer, PublishAgain(p) PROVE LockInv'
  BY <1>4 DEF PublishAgain
<1>5. ASSUME NEW p \in Installer, Release(p) PROVE LockInv'
  BY <1>5 DEF Release
<1>6. ASSUME NEW p \in Installer, Remove(p) PROVE LockInv'
  BY <1>6 DEF Remove
<1>7. ASSUME NEW p \in Installer, Crash(p) PROVE LockInv'
  BY <1>7 DEF Crash
<1>8. CASE UNCHANGED vars
  BY <1>8 DEF vars
<1> QED BY <1>1, <1>2, <1>3, <1>4, <1>5, <1>6, <1>7, <1>8 DEF Next

\* Until an installer is killed while it holds the lock, at most one is inside
\* (acquireInstallLock, release).
THEOREM ExclusiveUntilCrash ==
  ASSUME Nobody \notin Installer
  PROVE  Spec => []OneInstallerUntilCrash
<1>1. Init => LockInv
  BY DEF Init, LockInv, TypeOK, NobodyDied, Inside, Step
<1>2. LockInv => OneInstallerUntilCrash
  BY DEF LockInv, TypeOK, NobodyDied, OneInstallerUntilCrash, OneInstaller
<1> QED BY <1>1, <1>2, LockStep, PTL DEF Spec
==============================================================================
