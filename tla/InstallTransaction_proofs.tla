----------------------- MODULE InstallTransaction_proofs -----------------------
(***************************************************************************)
(* Proofs about InstallTransaction, for any releases and any number of     *)
(* failures and kills: the invariant behind every promise of the           *)
(* installer, and that it implements an atomic one.                        *)
(***************************************************************************)
EXTENDS MCInstallTransaction, TLAPS

\* The groups of variables are only names in UNCHANGED.
USE DEF disk, service, local, bounds

------------------------------------------------------------------------------
(* Facts about the types.                                                   *)

\* The bounds are numbers, and an absent file is no release.
LEMMA Bounds == MaxFaults \in Nat /\ MaxCrashes \in Nat /\ None \notin Release
BY BoundsAssumption, NoneAssumption DEF BoundsAssumption, NoneAssumption

\* A journal or state that is present is a record.
LEMMA Records ==
    ASSUME TypeOK
    PROVE  /\ journal # None => journal \in InstallJournal
           /\ mem # None => mem \in InstallJournal
           /\ state # None => state \in InstallState
           /\ before # None => before \in InstallState
           /\ None \notin InstallState /\ None \notin InstallJournal
BY RecordAssumption DEF RecordAssumption, TypeOK

\* Only the phase changes when one phase follows another.
LEMMA ProceedEffect ==
    ASSUME TypeOK, mem # None, NEW phase \in InstallTransactionPhase,
           mem' = [mem EXCEPT !.phase = phase]
    PROVE  /\ mem' \in InstallJournal /\ mem' # None
           /\ mem'.phase = phase
           /\ mem'.candidate = mem.candidate /\ mem'.previous = mem.previous
           /\ mem'.created = mem.created /\ mem'.service = mem.service
           /\ mem'.extensionExisted = mem.extensionExisted
           /\ mem'.launcherExisted = mem.launcherExisted
BY Records DEF InstallJournal

\* A fault is counted, or there was none.
LEMMA FaultIsCounted ==
    ASSUME TypeOK, Fault \/ UNCHANGED faults
    PROVE  faults' \in 0 .. MaxFaults
BY Bounds DEF TypeOK, Fault

\* A machine on which nothing was ever installed.
LEMMA InitIInv == Init => IInv
<1> SUFFICES ASSUME Init PROVE IInv
    OBVIOUS
<1>1. faults \in 0 .. MaxFaults /\ crashes \in 0 .. MaxCrashes
    BY Bounds DEF Init
<1>2. TypeOK
    BY <1>1 DEF Init, TypeOK, Step, Goal
<1>3. StateSound /\ RollbackReady /\ JournalSound
    BY DEF Init, StateSound, RollbackReady, JournalSound, Whole, CurrentOf
<1>4. MemorySound /\ BeforeSound /\ PhaseSound /\ UndoSound /\ RestSound
    BY DEF Init, MemorySound, BeforeSound, PhaseSound, UndoSound, RestSound, Installing,
       Undoing
<1> QED
    BY <1>2, <1>3, <1>4 DEF IInv

------------------------------------------------------------------------------
(* What a step that changes little keeps.                                   *)

\* What is said of install-state.json alone survives whatever leaves it alone.
LEMMA KeepsState ==
    ASSUME StateSound, RollbackReady, UNCHANGED state,
           versions \subseteq versions', snapshots \subseteq snapshots'
    PROVE  StateSound' /\ RollbackReady'
BY DEF StateSound, RollbackReady

\* A journal stays undoable while state, unit and backup do.
LEMMA KeepsUndoable ==
    ASSUME NEW j, Undoable(j), UNCHANGED <<state, backup>>,
           unit => unit' \/ j.service = "not-installed"
    PROVE  Undoable(j)'
BY DEF Undoable, CurrentOf

\* The end of an invocation that leaves the disk as it was.
LEMMA LeaveIInv ==
    ASSUME IInv, Leave, UNCHANGED <<disk, service>>,
           faults' \in 0 .. MaxFaults, crashes' \in 0 .. MaxCrashes
    PROVE  IInv'
<1>1. TypeOK'
    BY DEF IInv, TypeOK, Leave, Step, Goal
<1>2. StateSound' /\ RollbackReady' /\ JournalSound'
    BY KeepsState DEF IInv, JournalSound, Whole, IsCommitted, Undoable, CurrentOf
<1>3. MemorySound' /\ BeforeSound' /\ PhaseSound' /\ UndoSound' /\ RestSound'
    BY DEF Leave, MemorySound, BeforeSound, PhaseSound, UndoSound, RestSound, Installing,
       Undoing
<1> QED
    BY <1>1, <1>2, <1>3 DEF IInv

\* While it installs behind its first journal, or undoes, an invocation can be
\* undone by whoever comes next.
LEMMA JournalOnDisk ==
    ASSUME IInv, (Installing /\ pc # "journal") \/ Undoing
    PROVE  /\ mem # None /\ mem \in InstallJournal /\ Undoable(mem)
           /\ journal # None /\ Undoable(journal) /\ journal.service = mem.service
BY Records DEF IInv, MemorySound, FirstJournal, Installing, Undoing

\* A step of the installation that leaves the journal on disk as it is.
LEMMA WorkKeeps ==
    ASSUME IInv, Installing, pc # "journal",
           pc' \in {"journal", "work", "snapshot", "restart"},
           mem' \in InstallJournal, Undoable(mem)',
           mem'.candidate = mem.candidate, mem'.service = mem.service,
           UNCHANGED <<state, journal, backup, before, want, goal>>,
           versions \subseteq versions', snapshots \subseteq snapshots', unit => unit'
    PROVE  /\ StateSound' /\ RollbackReady' /\ JournalSound'
           /\ MemorySound' /\ BeforeSound' /\ UndoSound' /\ RestSound'
<1>1. StateSound' /\ RollbackReady'
    BY KeepsState DEF IInv
<1>2. /\ Undoable(journal)' /\ journal' # None /\ journal'.service = mem'.service
      /\ mem' # None
    BY JournalOnDisk, Records DEF IInv, Undoable, CurrentOf
<1>3. JournalSound' /\ MemorySound'
    BY <1>2 DEF JournalSound, MemorySound, FirstJournal
<1>4. BeforeSound' /\ UndoSound' /\ RestSound'
    BY DEF IInv, BeforeSound, UndoSound, RestSound, Installing, Undoing
<1> QED
    BY <1>1, <1>3, <1>4

\* Work that is followed by writing down the next phase.
LEMMA ProceedKeeps ==
    ASSUME IInv, Installing, pc # "journal",
           NEW phase \in InstallTransactionPhase, Proceed(phase),
           UNCHANGED <<state, journal, backup, before, want, goal>>,
           versions \subseteq versions', snapshots \subseteq snapshots', unit => unit'
    PROVE  /\ StateSound' /\ RollbackReady' /\ JournalSound'
           /\ MemorySound' /\ BeforeSound' /\ UndoSound' /\ RestSound'
           /\ mem' \in InstallJournal /\ mem'.phase = phase
<1>1. mem # None /\ Undoable(mem)
    BY JournalOnDisk
<1>2. /\ mem' \in InstallJournal /\ mem'.phase = phase
      /\ mem'.candidate = mem.candidate /\ mem'.service = mem.service
      /\ mem'.previous = mem.previous /\ mem'.created = mem.created
      /\ mem'.extensionExisted = mem.extensionExisted
      /\ mem'.launcherExisted = mem.launcherExisted
    BY <1>1, ProceedEffect DEF Proceed, IInv
<1>3. Undoable(mem)'
    BY <1>1, <1>2 DEF Undoable, CurrentOf
<1> QED
    BY <1>2, <1>3, WorkKeeps DEF Proceed

\* A step of the undoing that leaves the journal and the releases as they are.
LEMMA UndoKeeps ==
    ASSUME IInv, Undoing,
           pc' \in {"undo-current", "undo-launcher", "undo-extension", "undo-service",
                    "undo-files"},
           UNCHANGED <<state, journal, backup, versions, snapshots, local>>,
           goal # "manual", unit => unit' \/ mem.service = "not-installed"
    PROVE  /\ StateSound' /\ RollbackReady' /\ JournalSound'
           /\ MemorySound' /\ BeforeSound' /\ PhaseSound' /\ RestSound'
<1>1. StateSound' /\ RollbackReady'
    BY KeepsState DEF IInv
<1>2. /\ Undoable(journal)' /\ journal' # None /\ journal'.service = mem'.service
      /\ mem' # None /\ Undoable(mem)'
    BY JournalOnDisk, KeepsUndoable
<1>3. JournalSound' /\ MemorySound'
    BY <1>2 DEF JournalSound, MemorySound
<1>4. BeforeSound' /\ PhaseSound' /\ RestSound'
    BY DEF IInv, BeforeSound, PhaseSound, RestSound, Installing, Undoing
<1> QED
    BY <1>1, <1>3, <1>4

------------------------------------------------------------------------------
(* The actions.                                                             *)

\* Invocations that end where they are.
LEMMA RefuseIInv ==
    ASSUME IInv, Refuse
    PROVE  IInv'
<1>1. faults' \in 0 .. MaxFaults /\ crashes' \in 0 .. MaxCrashes
    BY Bounds DEF IInv, TypeOK, Refuse
<1> QED
    BY <1>1, LeaveIInv DEF Refuse

\* A failure before the first journal leaves nothing to undo.
LEMMA StartFailsIInv ==
    ASSUME IInv, StartFails
    PROVE  IInv'
<1>1. faults' \in 0 .. MaxFaults /\ crashes' \in 0 .. MaxCrashes
    BY Bounds DEF IInv, TypeOK, StartFails, Fault
<1> QED
    BY <1>1, LeaveIInv DEF StartFails

\* A committed journal that cannot be removed is left to the next invocation.
LEMMA DiscardFailsIInv ==
    ASSUME IInv, DiscardFails
    PROVE  IInv'
<1>1. faults' \in 0 .. MaxFaults /\ crashes' \in 0 .. MaxCrashes
    BY Bounds DEF IInv, TypeOK, DiscardFails, Fault
<1> QED
    BY <1>1, LeaveIInv DEF DiscardFails

\* Killing an invocation anywhere loses only its memory.
LEMMA CrashIInv ==
    ASSUME IInv, Crash
    PROVE  IInv'
<1>1. faults' \in 0 .. MaxFaults /\ crashes' \in 0 .. MaxCrashes
    BY Bounds DEF IInv, TypeOK, Crash
<1> QED
    BY <1>1, LeaveIInv DEF Crash

\* The work of a phase that needs a further step.
LEMMA SwapExtensionIInv ==
    ASSUME IInv, SwapExtension
    PROVE  IInv'
<1>1. Installing /\ pc # "journal"
    BY DEF SwapExtension, Go, Working, Installing
<1>2. /\ StateSound' /\ RollbackReady' /\ JournalSound' /\ MemorySound' /\ BeforeSound'
      /\ UndoSound' /\ RestSound'
    BY <1>1, JournalOnDisk, KeepsUndoable, WorkKeeps DEF SwapExtension, Go, Working
<1>3. TypeOK'
    BY Bounds, <1>1, <1>2 DEF IInv, TypeOK, SwapExtension, Go, Working, BeforeSound, Step
<1>4. PhaseSound'
    BY <1>1, Bounds DEF IInv, PhaseSound, SwapExtension, Go, Working, Installing,
       FirstJournal, PastPreparing, PastExtension, PastPointer, PastLauncher
<1> QED
    BY <1>2, <1>3, <1>4 DEF IInv

\* The old pointer is renamed away before the new one is made (replaceOwnedSymlink).
LEMMA ClaimPointerIInv ==
    ASSUME IInv, ClaimPointer
    PROVE  IInv'
<1>1. Installing /\ pc # "journal"
    BY DEF ClaimPointer, Go, Working, Installing
<1>2. /\ StateSound' /\ RollbackReady' /\ JournalSound' /\ MemorySound' /\ BeforeSound'
      /\ UndoSound' /\ RestSound'
    BY <1>1, JournalOnDisk, KeepsUndoable, WorkKeeps DEF ClaimPointer, Go, Working
<1>3. TypeOK'
    BY Bounds, <1>1, <1>2 DEF IInv, TypeOK, ClaimPointer, Go, Working, BeforeSound, Step
<1>4. PhaseSound'
    BY <1>1, Bounds DEF IInv, PhaseSound, ClaimPointer, Go, Working, Installing,
       FirstJournal, PastPreparing, PastExtension, PastPointer, PastLauncher
<1> QED
    BY <1>2, <1>3, <1>4 DEF IInv

\* The unit exists before the daemon is restarted (install).
LEMMA InstallServiceIInv ==
    ASSUME IInv, InstallService
    PROVE  IInv'
<1>1. Installing /\ pc # "journal"
    BY DEF InstallService, Go, Working, Installing
<1>2. /\ StateSound' /\ RollbackReady' /\ JournalSound' /\ MemorySound' /\ BeforeSound'
      /\ UndoSound' /\ RestSound'
    BY <1>1, JournalOnDisk, KeepsUndoable, WorkKeeps DEF InstallService, Go, Working
<1>3. TypeOK'
    BY Bounds, <1>1, <1>2 DEF IInv, TypeOK, InstallService, Go, Working, BeforeSound, Step
<1>4. PhaseSound'
    BY <1>1, Bounds DEF IInv, PhaseSound, InstallService, Go, Working, Installing,
       FirstJournal, PastPreparing, PastExtension, PastPointer, PastLauncher
<1> QED
    BY <1>2, <1>3, <1>4 DEF IInv

\* The work of a phase that ends it.
LEMMA StopServiceIInv ==
    ASSUME IInv, StopService
    PROVE  IInv'
<1>1. Installing /\ pc # "journal"
    BY DEF StopService, Working, Installing
<1>2. /\ StateSound' /\ RollbackReady' /\ JournalSound' /\ MemorySound' /\ BeforeSound'
      /\ UndoSound' /\ RestSound'
      /\ mem' \in InstallJournal /\ mem'.phase = "extension-swapping"
    BY <1>1, ProceedKeeps DEF StopService, InstallTransactionPhase
<1>3. faults' \in 0 .. MaxFaults
    BY FaultIsCounted DEF IInv, StopService, Stopped
<1>4. /\ running' \in Release \cup {None} /\ stray' \in BOOLEAN
      /\ running' # None => unit' \/ stray'
    BY DEF IInv, TypeOK, StopService, Stopped
<1>5. TypeOK'
    BY <1>3, <1>4, Bounds, <1>1, <1>2 DEF IInv, TypeOK, StopService, Working, Proceed,
       BeforeSound, PhaseSound, Step, InstallState
<1>6. PhaseSound'
    BY <1>1, <1>2, Bounds, JournalOnDisk DEF IInv, PhaseSound, StopService, Working,
       Proceed, Installing, FirstJournal, MemorySound, Undoable, BeforeSound, CurrentOf,
       PastPreparing, PastExtension, PastPointer, PastLauncher
<1> QED
    BY <1>2, <1>5, <1>6 DEF IInv

\* Both extension texts are kept before the pointer moves.
LEMMA KeepSnapshotsIInv ==
    ASSUME IInv, KeepSnapshots
    PROVE  IInv'
<1>1. Installing /\ pc # "journal"
    BY DEF KeepSnapshots, Working, Installing
<1>2. /\ StateSound' /\ RollbackReady' /\ JournalSound' /\ MemorySound' /\ BeforeSound'
      /\ UndoSound' /\ RestSound'
      /\ mem' \in InstallJournal /\ mem'.phase = "current-swapping"
    BY <1>1, ProceedKeeps DEF KeepSnapshots, InstallTransactionPhase
<1>3. TypeOK'
    BY Bounds, <1>1, <1>2 DEF IInv, TypeOK, KeepSnapshots, Working, Proceed, BeforeSound,
       PhaseSound, Step, InstallState, BeforeSound
<1>4. PhaseSound'
    BY <1>1, <1>2, Bounds, JournalOnDisk DEF IInv, PhaseSound, KeepSnapshots, Working,
       Proceed, Installing, FirstJournal, MemorySound, Undoable, BeforeSound, CurrentOf,
       PastPreparing, PastExtension, PastPointer, PastLauncher, BeforeSound
<1> QED
    BY <1>2, <1>3, <1>4 DEF IInv

\* The pointer names the candidate only after the extension does.
LEMMA PublishPointerIInv ==
    ASSUME IInv, PublishPointer
    PROVE  IInv'
<1>1. Installing /\ pc # "journal"
    BY DEF PublishPointer, Working, Installing
<1>2. /\ StateSound' /\ RollbackReady' /\ JournalSound' /\ MemorySound' /\ BeforeSound'
      /\ UndoSound' /\ RestSound'
      /\ mem' \in InstallJournal /\ mem'.phase = "launcher-swapping"
    BY <1>1, ProceedKeeps DEF PublishPointer, InstallTransactionPhase
<1>3. TypeOK'
    BY Bounds, <1>1, <1>2 DEF IInv, TypeOK, PublishPointer, Working, Proceed, BeforeSound,
       PhaseSound, Step, InstallState
<1>4. PhaseSound'
    BY <1>1, <1>2, Bounds, JournalOnDisk DEF IInv, PhaseSound, PublishPointer, Working,
       Proceed, Installing, FirstJournal, MemorySound, Undoable, BeforeSound, CurrentOf,
       PastPreparing, PastExtension, PastPointer, PastLauncher
<1> QED
    BY <1>2, <1>3, <1>4 DEF IInv

\* The launcher link follows the pointer.
LEMMA SwapLauncherIInv ==
    ASSUME IInv, SwapLauncher
    PROVE  IInv'
<1>1. Installing /\ pc # "journal"
    BY DEF SwapLauncher, Working, Installing
<1>2. /\ StateSound' /\ RollbackReady' /\ JournalSound' /\ MemorySound' /\ BeforeSound'
      /\ UndoSound' /\ RestSound'
      /\ mem' \in InstallJournal /\ mem'.phase = "service-starting"
    BY <1>1, ProceedKeeps DEF SwapLauncher, InstallTransactionPhase
<1>3. TypeOK'
    BY Bounds, <1>1, <1>2 DEF IInv, TypeOK, SwapLauncher, Working, Proceed, BeforeSound,
       PhaseSound, Step, InstallState
<1>4. PhaseSound'
    BY <1>1, <1>2, Bounds, JournalOnDisk DEF IInv, PhaseSound, SwapLauncher, Working,
       Proceed, Installing, FirstJournal, MemorySound, Undoable, BeforeSound, CurrentOf,
       PastPreparing, PastExtension, PastPointer, PastLauncher
<1> QED
    BY <1>2, <1>3, <1>4 DEF IInv

\* The restarted daemon is the candidate's, whose unit exists.
LEMMA RestartServiceIInv ==
    ASSUME IInv, RestartService
    PROVE  IInv'
<1>1. Installing /\ pc # "journal"
    BY DEF RestartService, Working, Installing
<1>2. /\ StateSound' /\ RollbackReady' /\ JournalSound' /\ MemorySound' /\ BeforeSound'
      /\ UndoSound' /\ RestSound'
      /\ mem' \in InstallJournal /\ mem'.phase = "health-checking"
    BY <1>1, ProceedKeeps DEF RestartService, InstallTransactionPhase
<1>3. TypeOK'
    BY Bounds, <1>1, <1>2 DEF IInv, TypeOK, RestartService, Working, Proceed, BeforeSound,
       PhaseSound, Step, InstallState
<1>4. PhaseSound'
    BY <1>1, <1>2, Bounds, JournalOnDisk DEF IInv, PhaseSound, RestartService, Working,
       Proceed, Installing, FirstJournal, MemorySound, Undoable, BeforeSound, CurrentOf,
       PastPreparing, PastExtension, PastPointer, PastLauncher
<1> QED
    BY <1>2, <1>3, <1>4 DEF IInv

\* Committing begins only when the daemon of the candidate answered.
LEMMA HealthCheckIInv ==
    ASSUME IInv, HealthCheck
    PROVE  IInv'
<1>1. Installing /\ pc # "journal"
    BY DEF HealthCheck, Working, Installing
<1>2. /\ StateSound' /\ RollbackReady' /\ JournalSound' /\ MemorySound' /\ BeforeSound'
      /\ UndoSound' /\ RestSound'
      /\ mem' \in InstallJournal /\ mem'.phase = "committing"
    BY <1>1, ProceedKeeps DEF HealthCheck, InstallTransactionPhase
<1>3. TypeOK'
    BY Bounds, <1>1, <1>2 DEF IInv, TypeOK, HealthCheck, Working, Proceed, BeforeSound,
       PhaseSound, Step, InstallState
<1>4. PhaseSound'
    BY <1>1, <1>2, Bounds, JournalOnDisk DEF IInv, PhaseSound, HealthCheck, Working,
       Proceed, Installing, FirstJournal, MemorySound, Undoable, BeforeSound, CurrentOf,
       PastPreparing, PastExtension, PastPointer, PastLauncher
<1> QED
    BY <1>2, <1>3, <1>4 DEF IInv

\* The steps of the undoing.
LEMMA UndoStopIInv ==
    ASSUME IInv, UndoStop
    PROVE  IInv'
<1>1. Undoing /\ goal # "manual"
    BY DEF IInv, UndoSound, UndoStop, Go, Undoing
<1>2. /\ StateSound' /\ RollbackReady' /\ JournalSound' /\ MemorySound' /\ BeforeSound'
      /\ PhaseSound' /\ RestSound'
    BY <1>1, UndoKeeps DEF UndoStop, Go
<1>3. faults' \in 0 .. MaxFaults
    BY FaultIsCounted DEF IInv, UndoStop, Stopped
<1>4. /\ running' \in Release \cup {None} /\ stray' \in BOOLEAN
      /\ running' # None => unit' \/ stray'
  <2>1. TypeOK /\ Stopped /\ unit' = unit
    BY DEF IInv, UndoStop
  <2> QED
    BY <2>1 DEF TypeOK, Stopped
<1>5. TypeOK'
    BY <1>3, <1>4, Bounds, Records, <1>1, JournalOnDisk DEF IInv, TypeOK, UndoStop, Go,
       Undoable, UndoSound, Step, InstallJournal, CurrentOf
<1>6. UndoSound'
    BY <1>1, JournalOnDisk, Bounds DEF IInv, UndoSound, UndoStop, Go, Undoing, Undoable,
       Whole, CurrentOf
<1> QED
    BY <1>2, <1>5, <1>6 DEF IInv

\* Undoing takes the pointer away before it restores it.
LEMMA UndoClaimIInv ==
    ASSUME IInv, UndoClaim
    PROVE  IInv'
<1>1. Undoing /\ goal # "manual"
    BY DEF IInv, UndoSound, UndoClaim, Go, Undoing
<1>2. /\ StateSound' /\ RollbackReady' /\ JournalSound' /\ MemorySound' /\ BeforeSound'
      /\ PhaseSound' /\ RestSound'
    BY <1>1, UndoKeeps DEF UndoClaim, Go
<1>3. TypeOK'
    BY Bounds, Records, <1>1, JournalOnDisk DEF IInv, TypeOK, UndoClaim, Go, Undoable,
       UndoSound, Step, InstallJournal, CurrentOf
<1>4. UndoSound'
    BY <1>1, JournalOnDisk, Bounds DEF IInv, UndoSound, UndoClaim, Go, Undoing, Undoable,
       Whole, CurrentOf
<1> QED
    BY <1>2, <1>3, <1>4 DEF IInv

\* The pointer is restored to the release the journal calls previous.
LEMMA UndoPublishIInv ==
    ASSUME IInv, UndoPublish
    PROVE  IInv'
<1>1. Undoing /\ goal # "manual"
    BY DEF IInv, UndoSound, UndoPublish, Go, Undoing
<1>2. /\ StateSound' /\ RollbackReady' /\ JournalSound' /\ MemorySound' /\ BeforeSound'
      /\ PhaseSound' /\ RestSound'
    BY <1>1, UndoKeeps DEF UndoPublish, Go
<1>3. TypeOK'
    BY Bounds, Records, <1>1, JournalOnDisk DEF IInv, TypeOK, UndoPublish, Go, Undoable,
       UndoSound, Step, InstallJournal, CurrentOf
<1>4. UndoSound'
    BY <1>1, JournalOnDisk, Bounds DEF IInv, UndoSound, UndoPublish, Go, Undoing,
       Undoable, Whole, CurrentOf
<1> QED
    BY <1>2, <1>3, <1>4 DEF IInv

\* The launcher is restored to what the journal says existed.
LEMMA restoreLauncherIInv ==
    ASSUME IInv, restoreLauncher
    PROVE  IInv'
<1>1. Undoing /\ goal # "manual"
    BY DEF IInv, UndoSound, restoreLauncher, Go, Undoing
<1>2. /\ StateSound' /\ RollbackReady' /\ JournalSound' /\ MemorySound' /\ BeforeSound'
      /\ PhaseSound' /\ RestSound'
    BY <1>1, UndoKeeps DEF restoreLauncher, Go
<1>3. TypeOK'
    BY Bounds, Records, <1>1, JournalOnDisk DEF IInv, TypeOK, restoreLauncher, Go,
       Undoable, UndoSound, Step, InstallJournal, CurrentOf
<1>4. UndoSound'
    BY <1>1, JournalOnDisk, Bounds DEF IInv, UndoSound, restoreLauncher, Go, Undoing,
       Undoable, Whole, CurrentOf
<1> QED
    BY <1>2, <1>3, <1>4 DEF IInv

\* The extension is restored from the backup, or removed if there was none.
LEMMA restoreExtensionIInv ==
    ASSUME IInv, restoreExtension
    PROVE  IInv'
<1>1. Undoing /\ goal # "manual"
    BY DEF IInv, UndoSound, restoreExtension, Go, Undoing
<1>2. /\ StateSound' /\ RollbackReady' /\ JournalSound' /\ MemorySound' /\ BeforeSound'
      /\ PhaseSound' /\ RestSound'
    BY <1>1, UndoKeeps DEF restoreExtension, Go
<1>3. TypeOK'
    BY Bounds, Records, <1>1, JournalOnDisk DEF IInv, TypeOK, restoreExtension, Go,
       Undoable, UndoSound, Step, InstallJournal, CurrentOf, BackupLost
<1>4. UndoSound'
    BY <1>1, JournalOnDisk, Bounds DEF IInv, UndoSound, restoreExtension, Go, Undoing,
       Undoable, Whole, CurrentOf, BackupLost
<1> QED
    BY <1>2, <1>3, <1>4 DEF IInv

\* The daemon is that of the restored release, or was left running and is counted as such.
LEMMA restoreServiceIInv ==
    ASSUME IInv, restoreService
    PROVE  IInv'
<1>1. Undoing /\ goal # "manual"
    BY DEF IInv, UndoSound, restoreService, Go, Undoing
<1>2. /\ StateSound' /\ RollbackReady' /\ JournalSound' /\ MemorySound' /\ BeforeSound'
      /\ PhaseSound' /\ RestSound'
    BY <1>1, UndoKeeps DEF restoreService, Go
<1>3. faults' \in 0 .. MaxFaults
    BY FaultIsCounted DEF IInv, restoreService
<1>4. /\ running' \in Release \cup {None} /\ stray' \in BOOLEAN /\ unit' \in BOOLEAN
      /\ running' # None => unit' \/ stray'
    BY <1>1, JournalOnDisk DEF IInv, TypeOK, restoreService, Undoable
<1>5. TypeOK'
    BY <1>3, <1>4, Bounds, Records, <1>1, JournalOnDisk DEF IInv, TypeOK, restoreService,
       Go, Undoable, UndoSound, Step, InstallJournal, CurrentOf
<1>6. UndoSound'
    BY <1>1, JournalOnDisk, Bounds DEF IInv, UndoSound, restoreService, Go, Undoing,
       Undoable, Whole, CurrentOf
<1> QED
    BY <1>2, <1>5, <1>6 DEF IInv

\* A candidate that is recorded as the previous release is one.
LEMMA BeginsIInv ==
    ASSUME IInv, rollbackInstallCandidate \/ \E r \in Release : Begin(r)
    PROVE  IInv'
<1>1. TypeOK'
    BY Records DEF IInv, TypeOK, rollbackInstallCandidate, Begin, Go, Step
<1>2. StateSound' /\ RollbackReady' /\ JournalSound'
    BY KeepsState DEF IInv, JournalSound, Whole, IsCommitted, Undoable, CurrentOf,
       rollbackInstallCandidate, Begin
<1>3. MemorySound' /\ BeforeSound' /\ PhaseSound' /\ UndoSound' /\ RestSound'
    BY Records DEF IInv, RollbackReady, rollbackInstallCandidate, Begin, Go, RestSound,
       MemorySound, BeforeSound, PhaseSound, UndoSound, Installing, Undoing, TypeOK,
       InstallState
<1> QED
    BY <1>1, <1>2, <1>3 DEF IInv

\* Applying the installed release changes nothing but may start the service again.
LEMMA SameReleaseIInv ==
    ASSUME IInv, SameRelease
    PROVE  IInv'
<1>1. TypeOK'
    BY DEF IInv, TypeOK, SameRelease, Go, Step
<1>2. StateSound' /\ RollbackReady' /\ JournalSound'
    BY KeepsState DEF IInv, JournalSound, Whole, IsCommitted, Undoable, CurrentOf,
       SameRelease
<1>3. MemorySound' /\ BeforeSound' /\ PhaseSound' /\ UndoSound' /\ RestSound'
    BY DEF IInv, SameRelease, Go, RestSound, MemorySound, BeforeSound, PhaseSound,
       UndoSound, Installing, Undoing
<1> QED
    BY <1>1, <1>2, <1>3 DEF IInv

\* What is found on disk is committed, and only to be removed, or to be undone.
LEMMA RecoverIInv ==
    ASSUME IInv, Recover
    PROVE  IInv'
<1>1. TypeOK'
    BY Records DEF IInv, TypeOK, Recover, Step, Goal
<1>2. StateSound' /\ RollbackReady' /\ JournalSound'
    BY KeepsState DEF IInv, JournalSound, Whole, IsCommitted, Undoable, CurrentOf, Recover
<1>3. MemorySound' /\ BeforeSound' /\ PhaseSound'
    BY DEF IInv, Recover, JournalSound, Undoable, CurrentOf, MemorySound, BeforeSound,
       PhaseSound, Installing, Undoing
<1>4. UndoSound' /\ RestSound'
    BY DEF IInv, Recover, JournalSound, Whole, Undoable, CurrentOf, IsCommitted,
       UndoSound, RestSound, Undoing
<1> QED
    BY <1>1, <1>2, <1>3, <1>4 DEF IInv

\* The service that is verified is that of the installed release.
LEMMA VerifyServiceIInv ==
    ASSUME IInv, VerifyService
    PROVE  IInv'
<1>1. faults' \in 0 .. MaxFaults
    BY FaultIsCounted DEF IInv, VerifyService
<1>2. journal = None /\ Whole /\ (pointer = None \/ pointer \in Release)
    BY DEF IInv, VerifyService, Go, RestSound, JournalSound, TypeOK
<1>3. TypeOK'
    BY <1>1, <1>2 DEF IInv, TypeOK, VerifyService, Leave, Step, Goal
<1>4. StateSound' /\ RollbackReady' /\ JournalSound'
    BY <1>2, KeepsState DEF IInv, VerifyService, JournalSound, Whole, CurrentOf
<1>5. MemorySound' /\ BeforeSound' /\ PhaseSound' /\ UndoSound' /\ RestSound'
    BY DEF VerifyService, Leave, RestSound, MemorySound, BeforeSound, PhaseSound,
       UndoSound, Installing, Undoing
<1> QED
    BY <1>3, <1>4, <1>5 DEF IInv

\* With no journal the machine is whole, so what is written down is the installed
\* release's.
LEMMA StartTransactionIInv ==
    ASSUME IInv, StartTransaction
    PROVE  IInv'
<1>1. journal = None /\ Whole /\ want \in Release
    BY DEF IInv, StartTransaction, Go, RestSound, JournalSound
<1>2. ServiceState \in DaemonServiceState /\ CurrentOf(state) \in Release \cup {None}
    BY Records DEF IInv, TypeOK, ServiceState, DaemonServiceState, CurrentOf, InstallState
<1>3. /\ mem' \in InstallJournal /\ mem' # None /\ mem'.phase = "preparing"
      /\ mem'.candidate = want /\ mem'.previous = CurrentOf(state) /\ ~mem'.created
      /\ mem'.extensionExisted = (extension # None) /\ mem'.launcherExisted = launcher
      /\ mem'.service = ServiceState
  <2> DEFINE found == extension # None
  <2>1. found \in BOOLEAN /\ launcher \in BOOLEAN
    BY DEF IInv, TypeOK
  <2>2. mem' = [phase |-> "preparing", candidate |-> want, previous |-> CurrentOf(state),
                created |-> FALSE, extensionExisted |-> found,
                launcherExisted |-> launcher, service |-> ServiceState]
    BY DEF StartTransaction
  <2> HIDE DEF found
  <2>3. mem' \in InstallJournal
    BY <1>2, <1>1, <2>1, <2>2 DEF InstallJournal, InstallTransactionPhase
  <2>4. mem' # None
    BY <2>3, RecordAssumption DEF RecordAssumption
  <2> QED
    BY <2>2, <2>3, <2>4 DEF found
<1>4. TypeOK'
    BY <1>3 DEF IInv, TypeOK, StartTransaction, Go, Step
<1>5. StateSound' /\ RollbackReady' /\ JournalSound'
    BY <1>1, KeepsState DEF IInv, StartTransaction, JournalSound, Whole, CurrentOf
<1>6. Undoable(mem)'
    BY <1>1, <1>3, Records, Bounds DEF IInv, TypeOK, StartTransaction, Undoable, Whole,
       ServiceState, CurrentOf, InstallState
<1>7. MemorySound' /\ BeforeSound' /\ PhaseSound' /\ UndoSound' /\ RestSound'
    BY <1>1, <1>3, <1>6 DEF IInv, StartTransaction, Go, MayInstall, FirstJournal,
       RestSound, MemorySound, BeforeSound, PhaseSound, UndoSound, Installing, Undoing,
       PastPreparing, PastExtension, PastPointer, PastLauncher
<1> QED
    BY <1>4, <1>5, <1>7 DEF IInv

\* Each phase is written after the work of the one before it.
LEMMA writeJournalIInv ==
    ASSUME IInv, writeJournal
    PROVE  IInv'
<1>1. Installing /\ mem # None /\ mem \in InstallJournal /\ Undoable(mem)
    BY Records DEF IInv, writeJournal, Go, Installing, MemorySound
<1>2. TypeOK'
    BY <1>1 DEF IInv, TypeOK, writeJournal, Go, Step
<1>3. Undoable(mem)' /\ journal' = mem' /\ UNCHANGED <<mem, want, goal>>
    BY <1>1, KeepsUndoable DEF writeJournal
<1>4. StateSound' /\ RollbackReady' /\ JournalSound'
    BY <1>1, <1>3, KeepsState DEF IInv, JournalSound, writeJournal
<1>5. MemorySound' /\ BeforeSound' /\ PhaseSound' /\ UndoSound' /\ RestSound'
    BY <1>1, <1>3 DEF IInv, writeJournal, Go, RestSound, FirstJournal, MemorySound,
       BeforeSound, PhaseSound, UndoSound, Installing, Undoing, PastPreparing,
       PastExtension, PastPointer, PastLauncher
<1> QED
    BY <1>2, <1>4, <1>5 DEF IInv

\* A directory that has to be created is not that of the previous release.
LEMMA prepareCandidateIInv ==
    ASSUME IInv, prepareCandidate
    PROVE  IInv'
<1>1. Installing /\ pc # "journal"
    BY DEF prepareCandidate, Working, Installing
<1>2. mem # None /\ mem \in InstallJournal /\ Undoable(mem) /\ want = mem.candidate
    BY <1>1, JournalOnDisk DEF IInv, BeforeSound
<1>3. /\ mem' \in InstallJournal /\ mem'.phase = "service-stopping"
      /\ mem'.created = (want \notin versions)
      /\ mem'.candidate = mem.candidate /\ mem'.previous = mem.previous
      /\ mem'.service = mem.service /\ mem'.extensionExisted = mem.extensionExisted
      /\ mem'.launcherExisted = mem.launcherExisted
    BY <1>2 DEF prepareCandidate, InstallJournal, InstallTransactionPhase
<1>4. want \in Release /\ (want \notin versions /\ state # None => want # state.previous)
    BY <1>1, Bounds DEF IInv, RestSound, RollbackReady, Installing
<1>5. Undoable(mem)'
    BY <1>4, <1>2, <1>3 DEF prepareCandidate, Undoable, CurrentOf
<1>6. /\ StateSound' /\ RollbackReady' /\ JournalSound' /\ MemorySound' /\ BeforeSound'
      /\ UndoSound' /\ RestSound'
    BY <1>1, <1>2, <1>3, <1>5, WorkKeeps DEF prepareCandidate
<1>7. TypeOK'
    BY <1>1, <1>3 DEF IInv, TypeOK, prepareCandidate, BeforeSound, Step
<1>8. PhaseSound'
    BY <1>1, <1>3, JournalOnDisk DEF PhaseSound, prepareCandidate, FirstJournal,
       PastPreparing, PastExtension, PastPointer, PastLauncher
<1> QED
    BY <1>6, <1>7, <1>8 DEF IInv

\* By the commit every part is the candidate's.
LEMMA CommitIInv ==
    ASSUME IInv, Commit
    PROVE  IInv'
<1>1. /\ Installing /\ pc # "journal" /\ journal = mem /\ before = state
      /\ mem.phase = "committing" /\ want = mem.candidate /\ want \in Release
    BY DEF IInv, Commit, Working, Installing, PhaseSound, BeforeSound
<1>2. /\ pointer = want /\ extension = want /\ launcher /\ running = want
      /\ want \in versions \cap snapshots
      /\ state # None => state.current \in snapshots /\ want \notin state.quarantined
    BY <1>1 DEF IInv, PhaseSound, BeforeSound, PastPreparing, PastExtension, PastPointer,
       PastLauncher
<1>3. /\ state' \in InstallState /\ state' # None /\ state'.current = want
      /\ state'.previous = CurrentOf(state)
      /\ state'.good = {want} \cup (IF state = None THEN {} ELSE state.good)
      /\ state'.quarantined = IF state = None THEN {} ELSE state.quarantined
    BY <1>1, Records DEF IInv, TypeOK, Commit, InstallState, CurrentOf
<1>4. TypeOK'
    BY <1>3 DEF IInv, TypeOK, Commit, Step, Goal
<1>5. StateSound' /\ RollbackReady'
    BY <1>1, <1>2, <1>3 DEF IInv, StateSound, RollbackReady, Commit, CurrentOf
<1>6. Whole' /\ JournalSound'
    BY <1>1, <1>2, <1>3, JournalOnDisk DEF Whole, JournalSound, IsCommitted, Commit,
       CurrentOf
<1>7. MemorySound' /\ BeforeSound' /\ PhaseSound' /\ UndoSound' /\ RestSound'
    BY <1>1, <1>6 DEF IInv, Commit, RestSound, MemorySound, BeforeSound, PhaseSound,
       UndoSound, Installing, Undoing
<1> QED
    BY <1>4, <1>5, <1>6, <1>7 DEF IInv

\* Where the installation stops does not matter: the journal in memory and the
\* one on disk both tell how to undo it.
LEMMA FailIInv ==
    ASSUME IInv, Fail
    PROVE  IInv'
<1>1. /\ mem # None /\ mem \in InstallJournal /\ Undoable(mem) /\ Installing
      /\ want = mem.candidate
    BY Records DEF IInv, MemorySound, BeforeSound, Fail, Installing
<1>2. journal # None /\ Undoable(journal) /\ journal.service = mem.service
    BY <1>1 DEF IInv, MemorySound, Fail, FirstJournal
<1>3. /\ mem' \in InstallJournal /\ mem' # None
      /\ mem'.created => mem.created \/ want \notin versions
      /\ mem'.candidate = mem.candidate /\ mem'.previous = mem.previous
      /\ mem'.service = mem.service /\ mem'.extensionExisted = mem.extensionExisted
      /\ mem'.launcherExisted = mem.launcherExisted
    BY <1>1, Records DEF IInv, Fail, InstallJournal
<1>4. want \in Release /\ (want \notin versions /\ state # None => want # state.previous)
    BY <1>1, Bounds DEF IInv, RestSound, RollbackReady, Installing
<1>5. Undoable(mem)' /\ Undoable(journal)' /\ UNCHANGED <<journal, before, want, state>>
    BY <1>4, <1>1, <1>2, <1>3 DEF Fail, Undoable, CurrentOf
<1>6. faults' \in 0 .. MaxFaults
    BY FaultIsCounted DEF IInv, Fail
<1>7. TypeOK'
    BY <1>1, <1>3, <1>6, Records DEF IInv, TypeOK, BeforeSound, Fail, Step, Goal,
       CurrentOf, InstallState
<1>8. StateSound' /\ RollbackReady' /\ JournalSound'
    BY <1>2, <1>5, KeepsState DEF IInv, JournalSound, Fail
<1>9. MemorySound' /\ BeforeSound' /\ PhaseSound' /\ UndoSound' /\ RestSound'
    BY <1>1, <1>2, <1>3, <1>5 DEF IInv, Fail, RestSound, FirstJournal, MemorySound,
       BeforeSound, PhaseSound, UndoSound, Installing, Undoing
<1> QED
    BY <1>7, <1>8, <1>9 DEF IInv

\* With the last step of the undoing the machine is whole again.
LEMMA RemoveCandidateIInv ==
    ASSUME IInv, RemoveCandidate
    PROVE  IInv'
<1>1. Undoing /\ Whole /\ goal \in {"check", "fail"}
    BY DEF IInv, UndoSound, RemoveCandidate, Undoing
<1>2. /\ mem # None /\ Undoable(mem) /\ journal # None /\ Undoable(journal)
      /\ journal.service = mem.service
    BY <1>1, JournalOnDisk
<1>3. TypeOK'
    BY DEF IInv, TypeOK, RemoveCandidate, Step
<1>4. StateSound' /\ RollbackReady'
    BY <1>2, Records, Bounds DEF IInv, TypeOK, StateSound, RollbackReady, RemoveCandidate,
       Undoable, CurrentOf, InstallState
<1>5. Whole' /\ Undoable(mem)' /\ Undoable(journal)' /\ JournalSound'
    BY <1>1, <1>2, KeepsUndoable DEF Whole, RemoveCandidate, JournalSound, CurrentOf
<1>6. MemorySound' /\ BeforeSound' /\ PhaseSound' /\ UndoSound' /\ RestSound'
    BY <1>1, <1>2, <1>5 DEF IInv, RemoveCandidate, RestSound, MemorySound, BeforeSound,
       PhaseSound, UndoSound, Installing, Undoing
<1> QED
    BY <1>3, <1>4, <1>5, <1>6 DEF IInv

\* An undoing that fails leaves its journal.
LEMMA UndoFailsIInv ==
    ASSUME IInv, UndoFails
    PROVE  IInv'
<1>1. Undoing /\ goal \in {"check", "fail"}
    BY DEF IInv, UndoSound, UndoFails, Undoing
<1>2. /\ mem # None /\ Undoable(mem) /\ journal # None /\ Undoable(journal)
      /\ journal.service = mem.service
    BY <1>1, JournalOnDisk
<1>3. faults' \in 0 .. MaxFaults
    BY FaultIsCounted DEF IInv, UndoFails
<1>4. TypeOK'
    BY <1>1, <1>3 DEF IInv, TypeOK, UndoFails, Leave, Step, Goal
<1>5. Undoable(mem) => Undoable(mem)' \/ pc' = "idle"
    BY KeepsUndoable DEF UndoFails, Undoable, CurrentOf, Leave
<1>6. StateSound' /\ RollbackReady' /\ JournalSound'
    BY <1>2, KeepsState, KeepsUndoable DEF IInv, JournalSound, UndoFails
<1>7. MemorySound' /\ BeforeSound' /\ PhaseSound' /\ UndoSound' /\ RestSound'
    BY <1>1, <1>2, <1>5, KeepsUndoable DEF IInv, UndoFails, Leave, RestSound, MemorySound,
       BeforeSound, PhaseSound, UndoSound, Installing, Undoing
<1> QED
    BY <1>4, <1>6, <1>7 DEF IInv

\* The failed candidate is not the installed release.
LEMMA QuarantineIInv ==
    ASSUME IInv, Quarantine
    PROVE  IInv'
<1>1. Undoing /\ goal \in {"fail", "manual"} /\ before = state /\ want = mem.candidate
    BY DEF IInv, UndoSound, BeforeSound, Quarantine, Undoing
<1>2. /\ mem # None /\ Undoable(mem) /\ journal # None /\ Undoable(journal)
    BY <1>1, JournalOnDisk
<1>3. /\ state' # None <=> state # None
      /\ state' \in InstallState \cup {None}
      /\ CurrentOf(state') = CurrentOf(state)
      /\ state # None => /\ state'.previous = state.previous /\ state'.good = state.good
                         /\ state'.current = state.current
                         /\ state'.quarantined \subseteq state.quarantined \cup {want}
    BY <1>1, Records DEF IInv, TypeOK, BeforeSound, Quarantine, InstallState, CurrentOf
<1>4. faults' \in 0 .. MaxFaults
    BY FaultIsCounted DEF IInv, Quarantine
<1>5. TypeOK'
    BY <1>3, <1>4 DEF IInv, TypeOK, Quarantine, Leave, Step, Goal
<1>6. StateSound' /\ RollbackReady'
    BY <1>1, <1>2, <1>3 DEF IInv, StateSound, RollbackReady, Quarantine, Undoable, CurrentOf
<1>7. Undoable(journal)' /\ JournalSound'
    BY <1>2, <1>3 DEF JournalSound, Quarantine, Undoable
<1>8. MemorySound' /\ BeforeSound' /\ PhaseSound' /\ UndoSound' /\ RestSound'
    BY <1>1, <1>3 DEF IInv, Quarantine, Leave, RestSound, Whole, MemorySound, BeforeSound,
       PhaseSound, UndoSound, Installing, Undoing
<1> QED
    BY <1>5, <1>6, <1>7, <1>8 DEF IInv

\* The journal goes only when the machine is whole.
LEMMA RemoveJournalIInv ==
    ASSUME IInv, RemoveJournal
    PROVE  IInv'
<1>1. Whole /\ pc = "discard" /\ UNCHANGED <<state, pc, goal>>
    BY DEF IInv, RestSound, RemoveJournal
<1>2. Whole'
    BY <1>1 DEF Whole, RemoveJournal, CurrentOf
<1>3. TypeOK'
    BY DEF IInv, TypeOK, RemoveJournal
<1>4. StateSound' /\ RollbackReady' /\ JournalSound'
    BY <1>2, KeepsState DEF IInv, JournalSound, RemoveJournal, IsCommitted, Undoable,
       CurrentOf
<1>5. MemorySound' /\ BeforeSound' /\ PhaseSound' /\ UndoSound' /\ RestSound'
    BY <1>1, <1>2 DEF IInv, RemoveJournal, RestSound, MemorySound, BeforeSound,
       PhaseSound, UndoSound, Installing, Undoing
<1> QED
    BY <1>3, <1>4, <1>5 DEF IInv

\* The backup goes once everything is restored or committed.
LEMMA RemoveBackupIInv ==
    ASSUME IInv, RemoveBackup
    PROVE  IInv'
<1>1. Whole /\ pc = "discard" /\ UNCHANGED <<state, pc, goal>>
    BY DEF IInv, RestSound, RemoveBackup
<1>2. Whole'
    BY <1>1 DEF Whole, RemoveBackup, CurrentOf
<1>3. TypeOK'
    BY DEF IInv, TypeOK, RemoveBackup
<1>4. StateSound' /\ RollbackReady' /\ JournalSound'
    BY <1>2, KeepsState DEF IInv, JournalSound, RemoveBackup, IsCommitted, Undoable,
       CurrentOf
<1>5. MemorySound' /\ BeforeSound' /\ PhaseSound' /\ UndoSound' /\ RestSound'
    BY <1>1, <1>2 DEF IInv, RemoveBackup, RestSound, MemorySound, BeforeSound, PhaseSound,
       UndoSound, Installing, Undoing
<1> QED
    BY <1>3, <1>4, <1>5 DEF IInv

\* With the journal gone the invocation goes on, or ends.
LEMMA DiscardedIInv ==
    ASSUME IInv, Discarded
    PROVE  IInv'
<1>1. Whole /\ journal = None
    BY DEF IInv, RestSound, Discarded
<1>2. TypeOK'
    BY DEF IInv, TypeOK, Discarded, Leave, Step, Goal
<1>3. StateSound' /\ RollbackReady' /\ JournalSound'
    BY <1>1, KeepsState DEF IInv, JournalSound, Whole, Discarded, CurrentOf
<1>4. MemorySound' /\ BeforeSound' /\ PhaseSound' /\ UndoSound' /\ RestSound'
    BY <1>1 DEF IInv, Discarded, Leave, RestSound, MemorySound, BeforeSound, PhaseSound,
       UndoSound, Installing, Undoing
<1> QED
    BY <1>2, <1>3, <1>4 DEF IInv

------------------------------------------------------------------------------
(* The invariant, and what follows from it.                                 *)

\* Every step of an invocation, finished, failed or killed, keeps the invariant.
LEMMA NextIInv ==
    ASSUME IInv, [Next]_vars
    PROVE  IInv'
<1>1. CASE UNCHANGED vars
  <2>1. TypeOK' /\ StateSound' /\ RollbackReady' /\ JournalSound'
    BY <1>1 DEF IInv, vars, TypeOK, StateSound, RollbackReady, JournalSound, Whole,
                IsCommitted, Undoable, CurrentOf
  <2>2. MemorySound' /\ BeforeSound' /\ PhaseSound' /\ UndoSound' /\ RestSound'
    BY <1>1 DEF IInv, vars, MemorySound, BeforeSound, PhaseSound, UndoSound, RestSound,
                Installing, Undoing, FirstJournal, Undoable, Whole, CurrentOf
  <2> QED
    BY <2>1, <2>2 DEF IInv
<1>2. CASE Next
    BY <1>2, BeginsIInv, RecoverIInv, RefuseIInv, SameReleaseIInv, VerifyServiceIInv,
       StartTransactionIInv, StartFailsIInv, writeJournalIInv, prepareCandidateIInv,
       StopServiceIInv, SwapExtensionIInv, KeepSnapshotsIInv, ClaimPointerIInv,
       PublishPointerIInv, SwapLauncherIInv, InstallServiceIInv, RestartServiceIInv,
       HealthCheckIInv, CommitIInv, FailIInv, UndoStopIInv, UndoClaimIInv, UndoPublishIInv,
       restoreLauncherIInv, restoreExtensionIInv, restoreServiceIInv, RemoveCandidateIInv,
       UndoFailsIInv, QuarantineIInv, RemoveJournalIInv, RemoveBackupIInv, DiscardedIInv,
       DiscardFailsIInv, CrashIInv DEF Next
<1> QED
    BY <1>1, <1>2

\* At every moment the disk holds either one whole release or a journal from
\* which the next invocation can restore one, and the running invocation's
\* memory agrees with it.
THEOREM Invariance == Spec => []IInv
<1>1. Init => IInv
    BY InitIInv
<1>2. IInv /\ [Next]_vars => IInv'
    BY NextIInv
<1> QED
    BY <1>1, <1>2, PTL DEF Spec

\* Every variable keeps its type.
THEOREM InstallTypes == Spec => []TypeOK
<1>1. IInv => TypeOK
    BY DEF IInv
<1> QED
    BY <1>1, Invariance, PTL

\* Without a journal every part is of the installed release.
LEMMA WholeAtRest ==
    ASSUME IInv, AtRest
    PROVE  Whole /\ Parts = {CurrentOf(state)}
BY DEF IInv, AtRest, JournalSound, Whole, Parts

\* Whatever failed or was killed, a machine at rest is of one release.
THEOREM RestIsConsistent == Spec => []ConsistentAtRest
<1>1. IInv => ConsistentAtRest
    BY WholeAtRest DEF IInv, ConsistentAtRest, Whole, StateSound
<1> QED
    BY <1>1, Invariance, PTL

\* The recorded previous release can be rolled back to at any time.
THEOREM RollbackStaysReady == Spec => []RollbackReady
<1>1. IInv => RollbackReady
    BY DEF IInv
<1> QED
    BY <1>1, Invariance, PTL

\* The installed release was never quarantined.
THEOREM InstalledIsSound == Spec => []QuarantinedNotInstalled
<1>1. IInv => QuarantinedNotInstalled
    BY DEF IInv, StateSound, QuarantinedNotInstalled
<1> QED
    BY <1>1, Invariance, PTL

------------------------------------------------------------------------------
(* The installer implements an atomic one.                                  *)

\* A step that leaves the state file alone begins an installation, works on
\* it, or finishes it.
LEMMA QuietStep ==
    ASSUME IInv', UNCHANGED state, pc # "idle" \/ pc' # "idle"
    PROVE  Promise!Next
<1>1. /\ CurrentOf(state') = CurrentOf(state)
      /\ (IF state = None THEN {} ELSE state.quarantined)' =
             IF state = None THEN {} ELSE state.quarantined
    BY DEF CurrentOf
<1>2. CASE ~AtRest'
    BY <1>1, <1>2 DEF Promise!Next, Promise!Begin
<1>3. CASE AtRest'
  <2>1. ~AtRest
    BY <1>3 DEF AtRest
  <2>2. Parts' = {CurrentOf(state')}
    BY <1>3 DEF AtRest, IInv, JournalSound, Whole, Parts, CurrentOf
  <2> QED
    BY <1>1, <1>3, <2>1, <2>2 DEF Promise!Next, Promise!Finish
<1> QED
    BY <1>2, <1>3

\* Writing install-state.json is the one moment the installed release changes.
LEMMA CommitStep ==
    ASSUME IInv, IInv', Commit
    PROVE  Promise!Commit
<1>1. /\ Installing /\ pc = "work" /\ before = state /\ mem.phase = "committing"
      /\ want \in Release /\ (state # None => want \notin state.quarantined)
    BY DEF IInv, Commit, Working, Installing, BeforeSound
<1>2. pointer = want /\ extension = want /\ running = want
    BY <1>1 DEF IInv, PhaseSound, PastPreparing, PastExtension, PastPointer, PastLauncher
<1>3. CurrentOf(state') = want /\ state' # None
      /\ (IF state = None THEN {} ELSE state.quarantined)' =
             IF state = None THEN {} ELSE state.quarantined
    BY <1>1, Records DEF IInv, TypeOK, Commit, InstallState, CurrentOf, RestSound
<1>4. Parts' = {want}
    BY <1>2, <1>3 DEF Parts, Commit, CurrentOf
<1>5. ~AtRest /\ ~AtRest'
    BY <1>1 DEF AtRest, Commit
<1> QED
  <2>1. want \in Release \ (IF state = None THEN {} ELSE state.quarantined)
    BY <1>1
  <2>2. (~AtRest)' = ~AtRest
    BY <1>5
  <2> QED
    BY <1>3, <1>4, <1>5, <2>1, <2>2 DEF Promise!Commit

\* Quarantining is that of the atomic installer: what failed is not what is installed.
LEMMA QuarantineStep ==
    ASSUME IInv, IInv', Quarantine
    PROVE  Promise!Next
<1>1. /\ Undoing /\ before = state /\ want = mem.candidate /\ want \in Release
      /\ goal \in {"fail", "manual"}
    BY DEF IInv, Quarantine, UndoSound, BeforeSound, Undoing
<1>2. want # CurrentOf(state) /\ journal # None /\ pc = "quarantine"
    BY <1>1, JournalOnDisk DEF Undoable, Quarantine
<1>3. CASE UNCHANGED state
    BY <1>2, <1>3, QuietStep
<1>4. CASE state # None /\ state' = [state EXCEPT !.quarantined = @ \cup {want}]
  <2>1. /\ state' # None /\ CurrentOf(state') = CurrentOf(state)
        /\ state'.quarantined = state.quarantined \cup {want}
    BY <1>1, <1>4, Records DEF IInv, TypeOK, InstallState, CurrentOf
  <2>2. Parts' = Parts
    BY <2>1 DEF Parts, Quarantine
  <2>3. ~AtRest /\ ~AtRest'
    BY <1>2 DEF AtRest, Quarantine
  <2> QED
    BY <1>1, <1>2, <1>4, <2>1, <2>2, <2>3 DEF Promise!Next, Promise!Quarantine
<1> QED
    BY <1>1, <1>3, <1>4 DEF Quarantine

\* Every step of the installer is a step of the atomic one, or invisible to it.
LEMMA StepRefines ==
    ASSUME IInv, IInv', [Next]_vars
    PROVE  [Promise!Next]_Promise!vars
<1>1. CASE UNCHANGED vars
    BY <1>1 DEF vars, Promise!vars, CurrentOf, AtRest, Parts
<1>2. CASE Commit
    BY <1>2, CommitStep DEF Promise!Next
<1>3. CASE Quarantine
    BY <1>3, QuarantineStep
<1>4. CASE Next /\ ~Commit /\ ~Quarantine
  <2>1. UNCHANGED state /\ (pc # "idle" \/ pc' # "idle")
    BY <1>4 DEF Next, Go, Leave, FirstJournal, Working, Begin, rollbackInstallCandidate,
       Recover, Refuse, SameRelease, VerifyService, StartTransaction, StartFails,
       writeJournal, prepareCandidate, StopService, SwapExtension, KeepSnapshots,
       ClaimPointer, PublishPointer, SwapLauncher, InstallService, RestartService,
       HealthCheck, Fail, UndoStop, UndoClaim, UndoPublish, restoreLauncher,
       restoreExtension, restoreService, RemoveCandidate, UndoFails, RemoveJournal,
       RemoveBackup, Discarded, DiscardFails, Crash
  <2> QED
    BY <2>1, QuietStep
<1> QED
    BY <1>1, <1>2, <1>3, <1>4

\* Installations, failures, undoings, kills and recoveries together are those of
\* an installer that replaces the installed release in one step.
THEOREM InstallerIsAtomic == Spec => ImplementsAtomicInstall
<1>1. Init => Promise!Init
    BY DEF Init, Promise!Init, CurrentOf, AtRest, Parts
<1>2. IInv /\ IInv' /\ [Next]_vars => [Promise!Next]_Promise!vars
    BY StepRefines
<1> QED
    BY <1>1, <1>2, Invariance, PTL DEF Spec, ImplementsAtomicInstall, Promise!Spec
================================================================================
