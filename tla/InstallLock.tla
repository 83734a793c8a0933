------------------------------- MODULE InstallLock -------------------------------
(***************************************************************************)
(* The lock of the installer (distribution/installLock.ts): a directory    *)
(* .install.lock, published with its owner by one rename, so it is either  *)
(* absent or names its owner.  A lock whose owner process is gone is       *)
(* stale: it is renamed away and published anew.                           *)
(***************************************************************************)
CONSTANTS
    Installer,      \* invocations of the installer, each a process of its own
    Nobody          \* no owner: not one of Installer

VARIABLES
    lock,           \* the owner the lock directory names, or Nobody
    pc              \* where each invocation is

vars == <<lock, pc>>

\* "dead": killed while it held the lock.  "ended": any other end.
Step == {"idle", "judge", "claim", "republish", "held", "removing", "ended", "dead"}

TypeOK ==
    /\ lock \in Installer \cup {Nobody}
    /\ pc \in [Installer -> Step]

Init ==
    /\ lock = Nobody
    /\ pc = [p \in Installer |-> "idle"]

Go(p, from, to) == pc[p] = from /\ pc' = [pc EXCEPT ![p] = to]

\* Between publishing the lock and removing it: the transaction.
Inside(p) == pc[p] \in {"held", "removing"}

Alive(p) == pc[p] \notin {"ended", "dead"}

\* The rename of the prepared directory succeeds only where there is no lock.
publishLock(p) ==
    \/ Go(p, "idle", "held") /\ lock = Nobody /\ lock' = p
    \/ Go(p, "idle", "judge") /\ lock # Nobody /\ UNCHANGED lock

\* existingLockIsActive: a live owner, or a lock gone meanwhile, ends the
\* attempt with an error.
existingLockIsActive(p) ==
    /\ IF lock # Nobody /\ ~Alive(lock) THEN Go(p, "judge", "claim") ELSE Go(p, "judge", "ended")
    /\ UNCHANGED lock

\* Renames away whatever lock there is by now.
claimAndRemoveStaleLock(p) ==
    /\ Go(p, "claim", "republish")
    /\ lock' = Nobody

PublishAgain(p) ==
    \/ Go(p, "republish", "held") /\ lock = Nobody /\ lock' = p
    \/ Go(p, "republish", "ended") /\ lock # Nobody /\ UNCHANGED lock

\* release() reads the owner first, and removes the directory afterwards.
Release(p) ==
    /\ IF lock = p THEN Go(p, "held", "removing") ELSE Go(p, "held", "ended")
    /\ UNCHANGED lock

Remove(p) ==
    /\ Go(p, "removing", "ended")
    /\ lock' = Nobody

Crash(p) ==
    /\ Alive(p)
    /\ pc' = [pc EXCEPT ![p] = IF Inside(p) THEN "dead" ELSE "ended"]
    /\ UNCHANGED lock

Next ==
    \E p \in Installer :
        \/ publishLock(p) \/ existingLockIsActive(p) \/ claimAndRemoveStaleLock(p)
        \/ PublishAgain(p) \/ Release(p) \/ Remove(p) \/ Crash(p)

Spec == Init /\ [][Next]_vars

-----------------------------------------------------------------------------
(* Properties *)

\* The test of acquireInstallLock says that it "admits only one concurrent
\* transaction".
OneInstaller == \A p, q \in Installer : Inside(p) /\ Inside(q) => p = q

\* It does as long as no invocation is killed while it holds the lock.
OneInstallerUntilCrash == (\A p \in Installer : pc[p] # "dead") => OneInstaller
=============================================================================
