--------------------------- MODULE InstallTransaction ---------------------------
(***************************************************************************)
(* The transactional installer of the command line tool                    *)
(* (distribution/installTransaction.ts): `update apply` and `update        *)
(* rollback`, run one at a time (the lock between them is module           *)
(* InstallLock), any of which may fail at a step or be killed between two. *)
(*                                                                         *)
(* A journal under transactions/active tells the next invocation what was  *)
(* under way.  install-state.json is the commit point: until it names the  *)
(* candidate, a failure or the next invocation undoes everything from the  *)
(* journal; afterwards only the journal is left to remove.                 *)
(*                                                                         *)
(* A release stands for everything that belongs to it: its directory, its  *)
(* digest, the text of its Pi extension and the daemon built from it.      *)
(***************************************************************************)
EXTENDS FiniteSets, Naturals

CONSTANTS
    Release,
    None,           \* an absent file, pointer, daemon, journal or state
    MaxFaults,      \* bound on steps that fail
    MaxCrashes      \* bound on invocations killed half way

ASSUME NoneAssumption == None \notin Release
ASSUME BoundsAssumption == MaxFaults \in Nat /\ MaxCrashes \in Nat

VARIABLES
    \* on disk
    state,          \* install-state.json, or None
    journal,        \* transactions/active/journal.json, or None
    backup,         \* transactions/active/extension.before: whose extension
    versions,       \* the release directories under versions/
    snapshots,      \* the releases whose extension text is kept
    extension,      \* the release whose extension Pi loads
    pointer,        \* the release versions/current points at
    launcher,       \* the managed launcher link exists
    \* the service manager
    unit,           \* a service definition exists
    running,        \* the release of the daemon it runs, or None
    stray,          \* history: this daemon was to be stopped at the end of an undoing
    \* the one running invocation
    pc,             \* its next step
    mem,            \* its copy of the journal
    before,         \* the state it found
    want,           \* the candidate
    goal,           \* what follows the undoing or the cleaning up
    \* bounds
    faults,
    crashes

disk == <<state, journal, backup, versions, snapshots, extension, pointer, launcher>>
service == <<unit, running, stray>>
local == <<mem, before, want, goal>>
bounds == <<faults, crashes>>
vars == <<disk, service, pc, local, bounds>>

-----------------------------------------------------------------------------
(* Types *)

InstallTransactionPhase ==
    {"preparing", "service-stopping", "extension-swapping", "current-swapping",
     "launcher-swapping", "service-starting", "health-checking", "committing"}

DaemonServiceState == {"running", "stopped", "not-installed"}

InstallJournal ==
    [phase : InstallTransactionPhase,
     candidate : Release,
     previous : Release \cup {None},
     created : BOOLEAN,
     extensionExisted : BOOLEAN,
     launcherExisted : BOOLEAN,
     service : DaemonServiceState]

InstallState ==
    [current : Release,
     previous : Release \cup {None},
     good : SUBSET Release,
     quarantined : SUBSET Release]

ASSUME RecordAssumption == None \notin InstallJournal \cup InstallState

Step ==
    {"idle", "recover", "check", "verify", "journal", "work", "snapshot", "restart",
     "undo-stop", "undo-current", "undo-launcher", "undo-extension", "undo-service",
     "undo-files", "quarantine", "discard"}

\* "check": go on with the installation; "done": the candidate is committed;
\* "fail": report the failure; "manual": so did the undoing.
Goal == {"none", "check", "done", "fail", "manual"}

TypeOK ==
    /\ state \in InstallState \cup {None}
    /\ journal \in InstallJournal \cup {None}
    /\ backup \in Release \cup {None}
    /\ versions \subseteq Release
    /\ snapshots \subseteq Release
    /\ extension \in Release \cup {None}
    /\ pointer \in Release \cup {None}
    /\ launcher \in BOOLEAN
    /\ unit \in BOOLEAN
    /\ running \in Release \cup {None}
    /\ stray \in BOOLEAN
    /\ running # None => unit \/ stray
    /\ pc \in Step
    /\ mem \in InstallJournal \cup {None}
    /\ before \in InstallState \cup {None}
    /\ want \in Release \cup {None}
    /\ goal \in Goal
    /\ faults \in 0 .. MaxFaults
    /\ crashes \in 0 .. MaxCrashes

Init ==
    /\ state = None /\ journal = None /\ backup = None
    /\ versions = {} /\ snapshots = {}
    /\ extension = None /\ pointer = None /\ launcher = FALSE
    /\ unit = FALSE /\ running = None /\ stray = FALSE
    /\ pc = "idle"
    /\ mem = None /\ before = None /\ want = None /\ goal = "none"
    /\ faults = 0 /\ crashes = 0

-----------------------------------------------------------------------------
(* Helpers *)

CurrentOf(s) == IF s = None THEN None ELSE s.current

\* status(): what the service manager reports.
ServiceState ==
    IF ~unit THEN "not-installed" ELSE IF running # None THEN "running" ELSE "stopped"

\* Bug: a journal that reached its last phase is taken for committed.
PhaseAlone(j) == j.phase = "committing"

\* recoverInterruptedInstall's test: the state already names the candidate.
IsCommitted(j) == j.phase = "committing" /\ CurrentOf(state) = j.candidate

Fault == faults < MaxFaults /\ faults' = faults + 1

\* stop() ignores a service manager that refuses: the daemon may live on.
Stopped ==
    \/ running' = None /\ stray' = FALSE /\ UNCHANGED faults
    \/ running # None /\ Fault /\ UNCHANGED <<running, stray>>

Go(from, to) == pc = from /\ pc' = to

\* The invocation ends: it reports, releases the lock and exits.
Leave ==
    /\ pc' = "idle"
    /\ mem' = None /\ before' = None /\ want' = None /\ goal' = "none"

\* The work of a phase: what it does is followed by writing the next phase.
Working(phase) == pc = "work" /\ mem.phase = phase
Proceed(phase) == pc' = "journal" /\ mem' = [mem EXCEPT !.phase = phase]

-----------------------------------------------------------------------------
(* Starting, recovering and checking *)

\* `update apply` of a verified candidate.
Begin(r) ==
    /\ Go("idle", "recover")
    /\ want' = r
    /\ UNCHANGED <<disk, service, mem, before, goal, bounds>>

\* `update rollback`: the candidate is the recorded previous release.
rollbackInstallCandidate ==
    /\ Go("idle", "recover")
    /\ state # None
    /\ state.previous \in state.good \cap versions \cap snapshots
    /\ want' = state.previous
    /\ UNCHANGED <<disk, service, mem, before, goal, bounds>>

\* recoverInterruptedInstall: nothing to do, only cleaning up, or undoing.
Recover ==
    /\ pc = "recover"
    /\ IF journal = None
       THEN pc' = "check" /\ UNCHANGED <<mem, goal>>
       ELSE /\ goal' = "check"
            /\ mem' = journal
            /\ pc' = IF IsCommitted(journal) THEN "discard" ELSE "undo-stop"
    /\ UNCHANGED <<disk, service, before, want, bounds>>

\* Bug: nobody asks whether the candidate is quarantined.
QuarantineForgotten ==
    /\ pointer = CurrentOf(state)
    /\ launcher => state # None

\* validateCurrentPointer, the quarantine and the launcher.
MayInstall ==
    /\ pointer = CurrentOf(state)
    /\ state # None => want \notin state.quarantined
    /\ launcher => state # None

Refuse ==
    /\ pc = "check"
    /\ ~MayInstall
    /\ Leave
    /\ UNCHANGED <<disk, service, bounds>>

\* The release is installed already: only its service is looked after.
SameRelease ==
    /\ Go("check", "verify")
    /\ MayInstall
    /\ want = CurrentOf(state)
    /\ UNCHANGED <<disk, service, local, bounds>>

\* install() starts the service, too.
VerifyService ==
    /\ pc = "verify"
    /\ \/ unit' = TRUE /\ running' = (IF running = None THEN pointer ELSE running)
          /\ UNCHANGED <<stray, faults>>
       \/ Fault /\ UNCHANGED service
    /\ Leave
    /\ UNCHANGED <<disk, crashes>>

\* A fresh transaction directory with the extension found, and the journal to
\* be written there.
StartTransaction ==
    /\ Go("check", "journal")
    /\ MayInstall
    /\ want # CurrentOf(state)
    /\ before' = state
    /\ backup' = extension
    /\ mem' = [phase |-> "preparing",
               candidate |-> want,
               previous |-> CurrentOf(state),
               created |-> FALSE,
               extensionExisted |-> extension # None,
               launcherExisted |-> launcher,
               service |-> ServiceState]
    /\ UNCHANGED <<state, journal, versions, snapshots, extension, pointer, launcher,
                   service, want, goal, bounds>>

-----------------------------------------------------------------------------
(* The phases *)

FirstJournal == pc = "journal" /\ mem.phase = "preparing"

\* The first journal cannot be written: nothing was changed yet.
StartFails ==
    /\ FirstJournal
    /\ Fault
    /\ Leave
    /\ UNCHANGED <<disk, service, crashes>>

writeJournal ==
    /\ Go("journal", "work")
    /\ journal' = mem
    /\ UNCHANGED <<state, backup, versions, snapshots, extension, pointer, launcher,
                   service, local, bounds>>

\* That the directory was created is known in memory only until the next
\* phase is written.
prepareCandidate ==
    /\ Working("preparing")
    /\ versions' = versions \cup {want}
    /\ pc' = "journal"
    /\ mem' = [mem EXCEPT !.phase = "service-stopping", !.created = want \notin versions]
    /\ UNCHANGED <<state, journal, backup, snapshots, extension, pointer, launcher,
                   service, before, want, goal, bounds>>

StopService ==
    /\ Working("service-stopping")
    /\ IF mem.service = "not-installed" THEN UNCHANGED <<running, stray, faults>> ELSE Stopped
    /\ Proceed("extension-swapping")
    /\ UNCHANGED <<disk, unit, before, want, goal, crashes>>

SwapExtension ==
    /\ Working("extension-swapping")
    /\ extension' = want
    /\ pc' = "snapshot"
    /\ UNCHANGED <<state, journal, backup, versions, snapshots, pointer, launcher,
                   service, local, bounds>>

KeepSnapshots ==
    /\ pc = "snapshot"
    /\ snapshots' = snapshots \cup {want}
                    \cup (IF before # None /\ mem.extensionExisted THEN {before.current} ELSE {})
    /\ Proceed("current-swapping")
    /\ UNCHANGED <<state, journal, backup, versions, extension, pointer, launcher,
                   service, before, want, goal, bounds>>

\* replaceOwnedSymlink: the old link is renamed away, then the new one is made.
ClaimPointer ==
    /\ Working("current-swapping")
    /\ pointer \notin {None, want}
    /\ pointer' = None
    /\ UNCHANGED <<state, journal, backup, versions, snapshots, extension, launcher,
                   service, pc, local, bounds>>

PublishPointer ==
    /\ Working("current-swapping")
    /\ pointer \in {None, want}
    /\ pointer' = want
    /\ Proceed("launcher-swapping")
    /\ UNCHANGED <<state, journal, backup, versions, snapshots, extension, launcher,
                   service, before, want, goal, bounds>>

SwapLauncher ==
    /\ Working("launcher-swapping")
    /\ launcher' = TRUE
    /\ Proceed("service-starting")
    /\ UNCHANGED <<state, journal, backup, versions, snapshots, extension, pointer,
                   service, before, want, goal, bounds>>

\* install() defines the service and starts it unless a daemon already runs.
InstallService ==
    /\ Working("service-starting")
    /\ unit' = TRUE
    /\ running' = IF running = None THEN pointer ELSE running
    /\ pc' = "restart"
    /\ UNCHANGED <<disk, stray, local, bounds>>

RestartService ==
    /\ pc = "restart"
    /\ running' = pointer /\ stray' = FALSE
    /\ Proceed("health-checking")
    /\ UNCHANGED <<disk, unit, before, want, goal, bounds>>

HealthCheck ==
    /\ Working("health-checking")
    /\ running = want
    /\ Proceed("committing")
    /\ UNCHANGED <<disk, service, before, want, goal, bounds>>

\* writeInstallState: the commit point.
Commit ==
    /\ Working("committing")
    /\ state' = [current |-> want,
                 previous |-> CurrentOf(before),
                 good |-> {want} \cup (IF before = None THEN {} ELSE before.good),
                 quarantined |-> IF before = None THEN {} ELSE before.quarantined]
    /\ pc' = "discard"
    /\ goal' = "done"
    /\ UNCHANGED <<journal, backup, versions, snapshots, extension, pointer, launcher,
                   service, mem, before, want, bounds>>

\* A step of the installation throws: the journal cannot be written, a copy or
\* a link fails, the service manager refuses, the daemon is not healthy.
Fail ==
    /\ pc \in {"journal", "work", "snapshot", "restart"}
    /\ ~FirstJournal
    /\ Fault
    /\ pc' = "undo-stop"
    /\ goal' = "fail"
    /\ mem' = IF Working("preparing") THEN [mem EXCEPT !.created = want \notin versions] ELSE mem
    /\ pointer' \in IF Working("current-swapping") THEN {pointer, CurrentOf(before)} ELSE {pointer}
    /\ running' \in IF pc = "restart" THEN {running, None} ELSE {running}
    /\ UNCHANGED <<state, journal, backup, versions, snapshots, extension, launcher,
                   unit, stray, before, want, crashes>>

-----------------------------------------------------------------------------
(* rollbackJournal, from the journal in memory *)

UndoStop ==
    /\ Go("undo-stop", "undo-current")
    /\ Stopped
    /\ UNCHANGED <<disk, unit, local, crashes>>

\* restoreCurrentPointer, again by renaming away and making anew.
UndoClaim ==
    /\ pc = "undo-current"
    /\ pointer \notin {None, mem.previous}
    /\ pointer' = None
    /\ UNCHANGED <<state, journal, backup, versions, snapshots, extension, launcher,
                   service, pc, local, bounds>>

UndoPublish ==
    /\ Go("undo-current", "undo-launcher")
    /\ pointer \in {None, mem.previous}
    /\ pointer' = mem.previous
    /\ UNCHANGED <<state, journal, backup, versions, snapshots, extension, launcher,
                   service, local, bounds>>

restoreLauncher ==
    /\ Go("undo-launcher", "undo-extension")
    /\ launcher' = mem.launcherExisted
    /\ UNCHANGED <<state, journal, backup, versions, snapshots, extension, pointer,
                   service, local, bounds>>

BackupLost == mem.extensionExisted /\ backup = None

restoreExtension ==
    /\ Go("undo-extension", "undo-service")
    /\ ~BackupLost
    /\ extension' = IF mem.extensionExisted THEN backup ELSE None
    /\ UNCHANGED <<state, journal, backup, versions, snapshots, pointer, launcher,
                   service, local, bounds>>

\* Bug: a daemon that still runs is left alone.
StartsOnly ==
    /\ Go("undo-service", "undo-files")
    /\ unit' = (unit /\ mem.service # "not-installed")
    /\ running' = IF mem.service # "running" THEN None
                  ELSE IF running = None THEN pointer ELSE running
    /\ UNCHANGED <<disk, stray, local, bounds>>

\* Bug: the definition is removed, the daemon is not stopped.
RemovesDefinitionOnly ==
    /\ Go("undo-service", "undo-files")
    /\ unit' = (unit /\ mem.service # "not-installed")
    /\ running' = IF mem.service = "running" THEN pointer ELSE running
    /\ UNCHANGED <<disk, stray, local, bounds>>

\* restart(), stop(), or uninstall(), which stops the daemon and removes the
\* definition; a refusal to stop is ignored once more.
restoreService ==
    /\ Go("undo-service", "undo-files")
    /\ unit' = (unit /\ mem.service # "not-installed")
    /\ \/ /\ running' = IF mem.service = "running" THEN pointer ELSE None
          /\ stray' = FALSE
          /\ UNCHANGED faults
       \/ /\ mem.service # "running" /\ running # None
          /\ Fault
          /\ stray' = TRUE
          /\ UNCHANGED running
    /\ UNCHANGED <<disk, local, crashes>>

\* Bug: the candidate's directory goes even where it was found.
RemovesAnyCandidate ==
    /\ pc = "undo-files"
    /\ versions' = versions \ {mem.candidate}
    /\ pc' = IF goal = "check" THEN "discard" ELSE "quarantine"
    /\ UNCHANGED <<state, journal, backup, snapshots, extension, pointer, launcher,
                   service, local, bounds>>

RemoveCandidate ==
    /\ pc = "undo-files"
    /\ versions' = IF mem.created THEN versions \ {mem.candidate} ELSE versions
    /\ pc' = IF goal = "check" THEN "discard" ELSE "quarantine"
    /\ UNCHANGED <<state, journal, backup, snapshots, extension, pointer, launcher,
                   service, local, bounds>>

\* A step of the undoing throws: "requires manual recovery".  The journal
\* stays, and the next invocation tries again.
UndoFails ==
    /\ pc \in {"undo-current", "undo-launcher", "undo-extension", "undo-service", "undo-files"}
    /\ IF pc = "undo-extension" /\ BackupLost THEN UNCHANGED faults ELSE Fault
    /\ IF goal = "check"
       THEN Leave
       ELSE pc' = "quarantine" /\ goal' = "manual" /\ UNCHANGED <<mem, before, want>>
    /\ running' \in IF pc = "undo-service" THEN {running, None} ELSE {running}
    /\ UNCHANGED <<disk, unit, stray, crashes>>

\* The failed candidate is written down; a write that fails is ignored.
Quarantine ==
    /\ pc = "quarantine"
    /\ \/ /\ before # None
          /\ state' = [before EXCEPT !.quarantined = @ \cup {want}]
          /\ UNCHANGED faults
       \/ /\ before = None
          /\ UNCHANGED <<state, faults>>
       \/ /\ before # None
          /\ Fault
          /\ UNCHANGED state
    /\ IF goal = "manual"
       THEN Leave
       ELSE pc' = "discard" /\ UNCHANGED local
    /\ UNCHANGED <<journal, backup, versions, snapshots, extension, pointer, launcher,
                   service, crashes>>

-----------------------------------------------------------------------------
(* Removing transactions/active, one file after the other *)

RemoveJournal ==
    /\ pc = "discard"
    /\ journal # None
    /\ journal' = None
    /\ UNCHANGED <<state, backup, versions, snapshots, extension, pointer, launcher,
                   service, pc, local, bounds>>

RemoveBackup ==
    /\ pc = "discard"
    /\ backup # None
    /\ backup' = None
    /\ UNCHANGED <<state, journal, versions, snapshots, extension, pointer, launcher,
                   service, pc, local, bounds>>

Discarded ==
    /\ pc = "discard"
    /\ journal = None
    /\ backup = None
    /\ IF goal = "check"
       THEN pc' = "check" /\ goal' = "none" /\ mem' = None /\ UNCHANGED <<before, want>>
       ELSE Leave
    /\ UNCHANGED <<disk, service, bounds>>

\* Files that cannot be removed: ignored after a commit, an error otherwise,
\* and the end of the invocation either way.
DiscardFails ==
    /\ pc = "discard"
    /\ Fault
    /\ Leave
    /\ UNCHANGED <<disk, service, crashes>>

\* The invocation is killed; what it knew is gone, and what it did stays.
Crash ==
    /\ pc # "idle"
    /\ crashes < MaxCrashes
    /\ crashes' = crashes + 1
    /\ Leave
    /\ UNCHANGED <<disk, service, faults>>

Next ==
    \/ \E r \in Release : Begin(r)
    \/ rollbackInstallCandidate
    \/ Recover \/ Refuse \/ SameRelease \/ VerifyService \/ StartTransaction
    \/ StartFails \/ writeJournal \/ prepareCandidate \/ StopService
    \/ SwapExtension \/ KeepSnapshots \/ ClaimPointer \/ PublishPointer \/ SwapLauncher
    \/ InstallService \/ RestartService \/ HealthCheck \/ Commit \/ Fail
    \/ UndoStop \/ UndoClaim \/ UndoPublish \/ restoreLauncher \/ restoreExtension
    \/ restoreService \/ RemoveCandidate \/ UndoFails \/ Quarantine
    \/ RemoveJournal \/ RemoveBackup \/ Discarded \/ DiscardFails
    \/ Crash

Spec == Init /\ [][Next]_vars

-----------------------------------------------------------------------------
(* Properties *)

\* Nothing is under way: no invocation runs, and none left a journal.
AtRest == pc = "idle" /\ journal = None

\* The releases the visible parts belong to.  A daemon that would not stop when
\* everything else was undone is not counted.
Parts ==
    {pointer, extension, CurrentOf(state)}
        \cup (IF running = None \/ stray THEN {} ELSE {running})

\* Whatever failed or was killed on the way, a machine at rest is of one
\* release: pointer, extension, launcher and running daemon are those of the
\* release install-state.json names, whose directory exists
\* (applyInstallCandidate, rollbackJournal, recoverInterruptedInstall).
ConsistentAtRest ==
    AtRest => /\ Parts = {CurrentOf(state)}
              /\ launcher = (state # None)
              /\ state # None => state.current \in versions

\* `update rollback` finds what it needs: the recorded previous release was
\* healthy once, and its directory and extension text were kept through every
\* failed, undone and interrupted installation since.
RollbackReady ==
    state # None /\ state.previous # None =>
        state.previous \in state.good \cap versions \cap snapshots

\* A quarantined release is neither the installed one nor the one a journal
\* that is past undoing installs.
QuarantinedNotInstalled ==
    state # None => state.current \notin state.quarantined

\* The next invocation can undo an interrupted installation whenever nothing
\* but a kill came between: docs/troubleshooting.md says that the updater
\* "recovers an interrupted transaction before another install".
InterruptedIsRecoverable == pc = "undo-extension" => ~BackupLost

-----------------------------------------------------------------------------
(* The inductive invariant *)

\* Every part is of the installed release.
Whole ==
    /\ pointer = CurrentOf(state)
    /\ extension = CurrentOf(state)
    /\ launcher = (state # None)
    /\ running \in {None, CurrentOf(state)} \/ stray

\* The installed release stays on disk, was healthy and was never quarantined.
StateSound ==
    state # None => /\ state.current \in state.good \cap versions
                    /\ state.current \notin state.quarantined

\* A journal from which everything can be undone, whatever was done so far.
Undoable(j) ==
    /\ j.candidate # CurrentOf(state)
    /\ j.previous = CurrentOf(state)
    /\ j.extensionExisted = (state # None)
    /\ j.launcherExisted = (state # None)
    /\ j.service # "not-installed" => unit
    /\ j.created /\ state # None => j.candidate # state.previous
    /\ backup \in {None, CurrentOf(state)}

\* What a later invocation finds: nothing to do, only a committed journal to
\* remove, or one to undo.
JournalSound ==
    \/ journal = None /\ Whole
    \/ journal # None /\ IsCommitted(journal) /\ Whole
    \/ journal # None /\ Undoable(journal)

Installing == pc \in {"journal", "work", "snapshot", "restart"}

Undoing ==
    pc \in {"undo-stop", "undo-current", "undo-launcher", "undo-extension",
            "undo-service", "undo-files", "quarantine"}

\* The copy in memory is of the transaction the journal on disk is of.
MemorySound ==
    Installing \/ Undoing =>
        /\ mem # None
        /\ Undoable(mem)
        /\ journal # None => Undoable(journal) /\ journal.service = mem.service
        /\ journal = None => FirstJournal

\* Whoever installs knows the state, and candidate may be committed.
BeforeSound ==
    (Installing \/ (Undoing /\ goal # "check")) =>
        /\ before = state
        /\ want \in Release /\ want = mem.candidate
        /\ state # None => want \notin state.quarantined

\* The phases after a piece of work, which has been done by then.
PastLauncher  == {"service-starting", "health-checking", "committing"}
PastPointer   == {"launcher-swapping"} \cup PastLauncher
PastExtension == {"current-swapping"} \cup PastPointer
PastPreparing == {"service-stopping", "extension-swapping"} \cup PastExtension

PhaseSound ==
    Installing =>
        /\ pc = "journal" => (journal = None <=> FirstJournal)
        /\ pc # "journal" => journal = mem
        /\ pc = "snapshot" => mem.phase = "extension-swapping" /\ extension = want
        /\ pc = "restart" => mem.phase = "service-starting" /\ unit
        /\ mem.phase \in PastPreparing => want \in versions
        /\ mem.phase \in PastExtension =>
              /\ extension = want
              /\ want \in snapshots
              /\ state # None => state.current \in snapshots
        /\ mem.phase \in PastPointer => pointer = want
        /\ mem.phase \in PastLauncher => launcher
        /\ mem.phase = "committing" => running = want

\* What the steps of the undoing up to this one have restored.
UndoSound ==
    /\ Undoing => goal \in {"check", "fail"} \/ (pc = "quarantine" /\ goal = "manual")
    /\ pc \in {"undo-launcher", "undo-extension", "undo-service", "undo-files"} =>
          pointer = mem.previous
    /\ pc \in {"undo-extension", "undo-service", "undo-files"} =>
          launcher = mem.launcherExisted
    /\ pc \in {"undo-service", "undo-files"} => extension = CurrentOf(state)
    /\ pc = "undo-files" => Whole
    /\ pc = "quarantine" => goal \in {"fail", "manual"}
    /\ (pc = "quarantine" /\ goal = "fail") => Whole

RestSound ==
    /\ pc \in {"check", "verify"} => journal = None
    /\ pc = "discard" => Whole /\ goal \in {"check", "done", "fail"}
    /\ pc # "idle" => want \in Release

IInv ==
    /\ TypeOK
    /\ StateSound
    /\ RollbackReady
    /\ JournalSound
    /\ MemorySound
    /\ BeforeSound
    /\ PhaseSound
    /\ UndoSound
    /\ RestSound
=============================================================================
