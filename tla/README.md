# Lyntty, formally

TLA+ models of Lyntty, the system that lets a phone drive the `pi` sessions of
a computer: what the models cover, what TLC checks about them and what TLAPS
proves. Paths are relative to the repository; `run.ts` is
`packages/lyntty-cli/src/daemon/run.ts`, `piExtensionInstall.ts` the extension
source it installs (`packages/lyntty-cli/src/pi/`), `apiSession.ts` the node's
session client (`packages/lyntty-cli/src/api/`), `installTransaction.ts` the
installer (`packages/lyntty-cli/src/distribution/`).

    phone app  <->  relay  <->  lynttyd  <->  Pi extension  <->  Pi
                   (log)      (daemon)      (in the terminal)
                                 |
                                 +-- managed children (takeover by a phone)
                                 +-- files: lock, state, outcomes, checkpoint
    installer  ->  releases, extension, service manager  ->  lynttyd

## 1. The system

| Part | State it keeps | Operations | What is hard | What makes it correct |
| --- | --- | --- | --- | --- |
| Relay message log (`v3SessionRoutes.ts`) | rows per session in order of `seq`, unique `localId` | append a batch, page through it, push new rows | a batch is repeated after its answer was lost; two posts clash | one row per `localId`; a reused one with other content is refused |
| Session client (`apiSession.ts`, `sync.ts`) | receive cursors, outbox, digests of what it knows to be logged, conflicts | push, fetch, enqueue, post, reconcile, `flushConfirmed` | pushes are lost or race with fetches; posts time out and land later; a restart repeats what the old process posted | no gap below the cursor, nothing twice in the log, order kept, a confirmed flush is one |
| Command queue of lynttyd (`run.ts`, `piCommandQueue.ts`) | per session an in-memory queue with an epoch, an owner, a cursor; on disk a boundary and outcomes | admit, poll, acknowledge, retry, fail | stale, repeated and late acks; the queue dies with the daemon and is replayed from the log; a bound of 200 | nothing is lost silently, order kept, `accepted_by_pi` only for what the extension saw confirmed |
| Extension command loop (`piExtensionInstall.ts`) | instance id, ledger on disk and in memory, the command in execution, acks to be repeated | poll, check the ledger, execute, write the ledger, ack, reload, shutdown | the process dies between the Pi call and the ledger; the disk fails; two processes share the file; another prompt starts while one is waited for | a command is taken at most once, an uncertain one never repeated |
| Ownership (`piExtensionOwnership.ts`) | owner of the queue and when it was last heard of | claim, refuse, expire | a silent owner that still works | one active runtime |
| Activation leases (`activationLeaseRegistry.ts`) | the last task of every key | `run(key, activate)` | a task that throws; a key removed while a later task waits | exclusion, first come first served |
| Activation and takeover (`run.ts`, `activationLock.ts`, `externalPiActivation.ts`) | mirrors, signals of extensions, tracked children, event chains | spawn, take over, mirror, report, stop, exit | everything is decided on state read before an await | no spawn beside a mirror or a fresh signal; every request ends |
| Extension events (`piExtensionInstall.ts`, `piExtensionSequence.ts`) | queue of 1000 payloads, event numbers, gap marker | post, retry, drop, detect a gap | drops under load and after five posts | a gap is never hidden |
| Live history (`runPiExternalMirror.ts`, `reconcilePiHistory.ts`, `run.ts`) | known and confirmed entries of the JSONL file, marks, append checkpoint on disk | mirror, mark, reconcile at the end of a turn or the start of a mirror | events and file say the same thing at different times; the relay's answer is lost | the checkpoint never passes an entry the relay does not hold |
| Daemon files (`persistence.ts`, `controlClient.ts`) | lock file, state file | acquire, release, look for another daemon, replace an old version, heartbeat | stale removal by two starters; a daemon that clears what is no longer its own | one daemon, and it is found |
| Installer (`distribution/`) | releases, snapshots, pointer, launcher, extension, journal, backup, install state, lock | apply, roll back, recover, quarantine | any step fails or the process is killed between two; the service may not stop | one release or the other, never a mixture; a way back |
| Metadata and agent state (relay, `apiSession.ts`, `apiMachine.ts`) | value and version | compare and set, retry after mismatch | handlers that captured old values; acks without a timeout | no lost update |
| Managed runtime (`runPi.ts`), session index, notifications | SDK session, caches | prompt, scan, notify | abort of a turn | outside the present models |
| Relay RPC, routing, presence, accounts; app; wire | sockets, caches, tokens | forward, authenticate, render | lost calls | outside the present models |

The parts meet in few places. The phone posts a message; the relay appends and
pushes it; the session client routes it to the command queue; the extension
polls the queue over local HTTP, calls Pi and acknowledges. In the other
direction extension events reach the daemon one at a time per session and become
messages of the session client's outbox, and what they left out is filled in from
Pi's own file. A phone that takes over asks the daemon to spawn; the activation
lease of the session serialises that with mirror creation. The installer replaces
daemon and extension and restarts the service; daemons of one home directory find
each other through two files. `PROJECT.json` lists every part with its status, and
the hazards of each at the line where they bite.

## 2. The modules

| Module | Models | Composes |
| --- | --- | --- |
| `CommandLifecycle` | what remote control promises of one command | |
| `PiCommandDelivery` | relay log, daemon queue and ledger, extension loop, local network, crashes | |
| `PiCommandLifecycle` | refinement mapping to the lifecycle, and its invariant | `PiCommandDelivery`, `CommandLifecycle` |
| `MCPiCommandDelivery` | TLC instance | `PiCommandLifecycle` |
| `PiCommandDelivery_proofs`, `PiCommandOutcome_proofs` | theorems | `PiCommandDelivery`, `PiCommandLifecycle` |
| `SessionClient`, `MCSessionClient` | session client and relay log, both directions | |
| `SessionClient_proofs` | theorems | `SessionClient` |
| `ActivationLease` | the lease registry | |
| `PiActivation`, `MCPiActivation` | activation, takeover, mirrors, children, terminal Pis | `ActivationLease` |
| `PiActivation_proofs` | theorems | `ActivationLease`, `PiActivation` |
| `LiveHistory` | from what Pi writes to what the relay holds: extension queue, events, file mirror, checkpoint | |
| `LiveHistory_proofs` | theorems | `LiveHistory` |
| `DaemonLock` | lock and state files of several daemons | |
| `DaemonLock_proofs` | theorems | `DaemonLock` |
| `InstallTransaction` | one installation after the other, each may fail or die anywhere | |
| `AtomicInstall` | what the installer promises | |
| `MCInstallTransaction` | TLC instance; refinement mapping to the promise | `InstallTransaction`, `AtomicInstall` |
| `InstallTransaction_proofs` | theorems | `MCInstallTransaction` |
| `InstallLock`, `InstallLock_proofs` | the lock between installers; theorem | |

### PiCommandDelivery

State. `relayLog` is the log of user messages. `boundary` and `outcome` are the
daemon's files; `commands`, `nextCommandSeq`, `commandQueueEpoch`, `receiveSeq`,
`activeInstance` and `ownerFresh` the fields of its `ExternalPiMirrorState`.
Per Pi process there is its `instance`, the ledger in memory (`ledgerCache`, read
once), the place in `pollCommands` (`pc`) with the envelope (`job`), and prompts
Pi still holds though nobody waits for them (`late`); `ledgerFile` is shared by all.
`inFlight` are acks whose sender has given up. `taken` and `mistaken` are history: how
often Pi took a command, and for which ones the start of another prompt was taken.

Actions. `SendCommand`, `RouteMessage`, `RouteAgain` (a message fetched and pushed)
and `HandleMessage` are the path from the log into the queue, with
`resolvePiCommandAdmission`, `markRemotePiCommandFailed` and the missing duplicate
check of rejected attachments. `Poll`, `ReadLedger`, `BeginExecution`, `Execute`,
`AwaitAcceptance`, `FinishAccepted`, `FinishFailed` and `AckAnswered` are the
extension's loop, split at each await; `onPiExtensionCommandAck` is the daemon's handler.
A prompt is handed to Pi and its acceptance awaited (`waiting`). Three things end the
wait: Pi takes or refuses the prompt; five seconds pass; or another prompt starts, since
`before_agent_start` settles the waiting acceptance when no text matches
(`settleAnyPromptAcceptance`). The other prompt was typed at the terminal
(`LocalPromptStarts`) or is one whose own wait is over (`TakeLate`). The command is then
reported as accepted, and its prompt stays with Pi (`LeaveWithPi`), which may take it
later or never.
`AckTimesOut`, `LateAckHandled`, `LateAckLost` are the network. `DaemonStart`,
`DaemonCrash`, `OpenMirror`, `ExtensionEvent`, `OwnerWindowPasses`, `StartPi`,
`ExitPi`, `ReloadPi`, `ReloadEventDropped` and `SessionShutdown` are life cycles.

Abstractions. The queue is a set ordered by `seq` (its array is always in that
order). A delivery token is `<<epoch, seq, failures>>`: a new one is drawn exactly
when one of these changes. `seenCommandLocalKeys` and `failedCommandLocalKeys` are
reloaded from the ledger and change with it, so `outcome` stands for both. An ack
to be repeated is at most one per process, because the loop does not poll while
one is pending; it is the `acking` stage. A poll and its answer are one step, as
are routing a message and handling it. A session_shutdown that meets no mirror
opens one first; a lost one is `ExitPi`. An extension executes one command at a time,
so the oldest waiting acceptance is the only one. A terminal prompt with the very text of
the command settles it like any other. Two copies of one command left with Pi count
once. A prompt that starts while nobody waits changes nothing and is left out. Not in
this model: the daemon's own commands (`internal_shutdown`, kill), `/remote off`, an
extension module that is reloaded from scratch by `/reload`, unreadable ledgers, and
faults of the daemon's disk.

### CommandLifecycle

The abstract promise: a command is unsent, pending, then `accepted_by_pi` or
`failed` for ever. Pi takes it at most once, while it is pending. It is accepted after
Pi took it, or after the start of another prompt was mistaken for it (`Mistake`); in the
second case Pi may take it afterwards, whatever has become of it, or never.
`PiCommandLifecycle` maps the detailed state to it.

### SessionClient

State. `log` with `unemitted` (rows whose push is not delivered) and `ghosts`
(batches whose sender gave up) is the relay. The client has `receiveSeq`,
`lastSeq`, `skipThrough`, the fetch under way and the two `InvalidateSync`
machines (`receiveSync`, `sendSync`), the outbox with the post under way, the
digests it knows, and the conflicts to be reported. `life` counts its restarts.

Actions follow the code: `PushArrives` (update handler), `StartFetch`,
`ServePage`, `HandlePage`, `FetchFails` (fetchMessages), `EnqueueMessage`,
`SendBatch`, `RelayHandlesBatch`, `PostFails`, `BatchAccepted`, `BatchRefused`
(flushOutbox and reconcileOutboxConflict with its inventory), `FlushCalled`,
`FlushTimesOut`, `FlushReturns` (flushConfirmed), `Connect`, `Disconnect`,
`NewLife`, `PhonePosts`, `PushLost`, `GhostArrives`.

Abstractions. The relay does not compare the phone's contents. Pushes arrive in
any order. The inventory of existing messages is one step that may stop early.
Each message is enqueued once per life. Metadata, agent state and attachments
are separate parts. The rows of a batch the relay keeps (`Picked`) are described by
the numbers they had in the batch: the library's `SelectSeq` is defined by
recursion, which nothing could be proved about.

### ActivationLease and PiActivation

`ActivationLease` is `PiActivationLeaseRegistry.run`: `EnterLease` up to the first
await, `TakeLease` when the predecessor's gate is open, `ReleaseLease` in
`finally`, `ForgetLeases` when the process ends. `line`, the tasks in flight in the
order of arrival, is history: the properties and the proof speak of it.

`PiActivation` uses it. A request (`spawnSession` with a takeover choice, or
`ensurePiSessionMirror` for a phone) goes through `Call`, `Enter`, `Granted`,
`Resolve`, `AwaitAccepted`, `AwaitStopped`, `Cleaned`, `Check`, `AwaitExit`,
`Spawn`, `WebhookTimesOut` or `EnsureMirror`, `MirrorCreated`: one action for what
the code does between two awaits. An extension event passes `HandleEvent`,
`EventGranted`, `EventEnsured` and, for a shutdown, `MirrorFlushed`, one event of
the session at a time (`chain`). Children live in `child` and are known to the
daemon through `tracked`; the two differ, which is the point of the model.

Abstractions. One Pi session, so one key. The choices `stop` and `interrupt` do the
same and are called `take`. Each terminal Pi posts a start, at most one pending
beat and possibly a shutdown. Two minutes of silence pass separately for the
signal of a session and for the owner of its mirror (`SignalAges`, `MirrorAges`).
Left out: spawns keyed by directory, the owner change of `/reload` (see
`PiCommandDelivery`), event numbers (see `LiveHistory`), the kill RPC of a mirror,
and tmux, where the child starts inside an awaited call after the last look at the
signal, so `NoSpawnUnderSignal` is said of regular processes only. One branch of
`resolveStalePiMirrorCleanup`, reuse of a replacement mirror, is in the model and
is never taken: whoever would create the replacement waits for the same lease.

### LiveHistory

State. Pi with its JSONL file (`journal`, the roles of its lines) and the turn it is
in; the extension's `inst`, `nextId`, `queue`, the attempts of the payload at the
head and the POST under way; the daemon's event chain (`tasks`), its `mirror` (the
owner and its age, the last event, the gap, `covered`, the entries confirmed and
those in the outbox, the marks to be repeated) and the `checkpoint` file; the
entries the `relay` holds. `live`, `upTo` and `repeated` are history.

Actions. `MessageEnd`, `MessageUpdate`, `AgentEnd`, `SessionShutdown`, `PiDies` and
`SessionStart` (with its reason) are Pi, each with the `send` and `enqueuePayload`
it makes; `drainQueue`, `PostFails` and `PostAnswered` the extension's loop. The
daemon handles the head of its chain: `Disregard` (somebody else's event, or a
repeated one), `TakeNote`, `TakeContent`, `TakeEnd`, `TakeShutdown`, each with
`applyPiExtensionSequence` and `markPiExtensionDelivered`; besides there are
`ensurePiSessionMirror`, the timers `MarkAgain` and `tick`, `RelayAnswers`,
`Silence`, and `DaemonStarts`, `HandlerReady`, `DaemonDies`.

Abstractions. An entry is the number of its line. A time is the length of the file
then. What the mapper still holds at `agent_end` (text or none) is a choice.
`Ahead` says whether Pi may begin a turn while events of the last one are on their
way; it is how the run that holds and the one that does not differ (section 5).
Left out: user entries and input events, progressive pages of older history,
divergent entries (conflicts), and the wording of envelopes.

### DaemonLock

State. `state` is the pid in `daemon.state.json`, `lock` the lock file with its
creator and whether the pid is written yet: the code creates it and writes into it
in two steps. Each process has its place, the pid it read (`seen`), its attempts and
a heartbeat that may be under way (`beat`). `held` and `slow` are history.

Actions. `Start`, `Check`, `PingAnswered`, `PingFails`, `CompareVersion`,
`ClearState` and `ClearLock` are `checkIfDaemonRunningAndCleanupStaleState` and the
version check; `StopDaemon`, `WaitForProcessDeath`, `ForceKill` are `stopDaemon`;
`CreateLock`, `WritePid`, `FoundStale`, `UnlinkStale`, `LockHeld` are
`acquireDaemonLock` with its attempts; `Ready`, `StartFails`; `HeartbeatReads` and
`HeartbeatWrites`; `StopRequested`, `ServerClosed`, `ClearState`, `ClearLock`,
`ReleaseLock` are the shutdown, which unlinks the lock twice; `Crash`.

Abstractions. A pid is never used again. Processes are of two versions. A process
asked to stop always begins to, but may take too long.

### InstallTransaction, AtomicInstall, InstallLock

State. On disk `state` (`install-state.json`: current, previous, good,
quarantined), `journal` and `backup` under `transactions/active`, `versions`,
`snapshots`, `extension`, `pointer` (`versions/current`) and `launcher`; of the
service manager `unit` and `running`; of the one running invocation its place `pc`,
its copy of the journal (`mem`), the state it found, the candidate (`want`) and what
follows the undoing or cleaning (`goal`). `stray` is history: a daemon that would not
stop while everything else was undone.

Actions. `Begin` (`update apply`) or `rollbackInstallCandidate`; `Recover`, `Refuse`,
`SameRelease` with `VerifyService`, `StartTransaction`, `StartFails`; then
`writeJournal` before each phase and its work: `prepareCandidate`, `StopService`,
`SwapExtension` with `KeepSnapshots`, `ClaimPointer` and `PublishPointer` (the two
halves of `replaceOwnedSymlink`), `SwapLauncher`, `InstallService` with
`RestartService`, `HealthCheck`, `Commit`. `Fail` leads into `UndoStop`, `UndoClaim`,
`UndoPublish`, `restoreLauncher`, `restoreExtension`, `restoreService`,
`RemoveCandidate` or `UndoFails`, `Quarantine`, and `RemoveJournal`, `RemoveBackup`,
`Discarded` or `DiscardFails`. `Crash` ends an invocation between any two of them.

Abstractions. A release stands for its directory, digest, extension text and daemon.
Download, signatures and channels come before `Begin`. Nobody else touches the
files. Installed on Linux with systemd.

`AtomicInstall` is the promise: `installed` changes in one step, `quarantined` grows,
and while nothing is `underWay` every one of the `parts` is of the installed release.

`InstallLock` is `acquireInstallLock` and `release`: `publishLock`,
`existingLockIsActive`, `claimAndRemoveStaleLock`, `PublishAgain`, `Release`,
`Remove`, `Crash`. It is why `InstallTransaction` has one invocation at a time. It is
only proved about.

## 3. What the runs check

All runs are safe to repeat with `tlc -workers 2 -config X.cfg M`; each ends in
under four minutes on two cores. Deadlock is checked for the installer, which can
always begin again. It is not checked elsewhere: commands, processes, requests and
entries are finitely many, and when they are used up the system may stop.

| Run | Shows |
| --- | --- |
| `delivery_late_acks` | two commands, one invoked directly, two successive Pi processes, a daemon crash, an ack that lands late, a terminal prompt that ends a wait: refinement of the lifecycle, no silent loss, order, honest failure counts, accepted means confirmed |
| `delivery_limits` | a queue of one, an abort, an unsupported command, failed attachments, prompts taken late that may end another wait, a failed ledger write, a `/reload`: nothing is lost at the limit, no timeout or fault passes for success, and every command is settled when one process stays |
| `client_receive` | two phone messages, one unreadable, lost push, failed request, restart: no gap, all is routed, the outbox drains |
| `client_outbox` | own messages, two with one localId, a late batch, a restart: one row each, in order, and flushes are honest |
| `activation` | any two requests against a terminal Pi, a child, a stop, a restart: exclusion, order, no spawn beside a mirror or a fresh signal, every request ends |
| `history` | two entries, two extension instances, a queue of two, two faults: gaps are seen, entries taken once, the checkpoint is proven |
| `install` | any installations and rollbacks among three releases, three failing steps, two kills: one release or the other, a way back, nothing quarantined comes back, and the refinement |
| `daemon_lock` | three processes, one of the old version: one daemon until something is disturbed, and one again afterwards |
| `doc_no_duplicate_prompt`, `doc_install_recovery`, `doc_one_daemon`, `doc_checkpoint` | the program does not do what its documents say (section 5) |

Properties worth their place:

- `ImplementsLifecycle`: the refinement. It fails if the extension reruns an
  interrupted command, if an ack is matched too loosely, or if a ledger entry is
  written in the wrong order.
- `NoSilentLoss`: a command sent above the boundary is settled, or a restart would
  replay it, and once routed it is in the queue.
- `Fifo`: Pi takes a command only when every earlier one was taken or settled, across
  retries, a crash and the replay. Aborts, which may overtake, are left to the proof.
- `FailedAfterAttempts`: a command fails after the promised number of attempts,
  however often an ack is repeated.
- `AcceptedWasConfirmed`: `accepted_by_pi` is recorded only for a command that Pi took,
  or whose wait the start of another prompt ended. It fails if an ack of an earlier queue
  is believed, or a timeout resolves. It does not say that Pi took the command: that is
  false of the program (section 5), and proved where no such start occurs
  (`AcceptedMeansTaken`).
- `EveryCommandSettles`: no command waits for ever beside a living Pi.
- `RoutedWithoutGap`, `EveryMessageRouted`: the receive cursor and the fetch loop.
- `LoggedOnce`, `KnownIsLogged`, `OutboxInOrder`, `FlushMeansLogged`: the outbox.
- `OutboxDrains`: the outbox is emptied in the end, over lost answers, conflicts and
  failed inventories. It rests on an assumption about the relay: a refusal is a 409. For
  any other refusal that stays (400, or 404 once the session is deleted) `flushOutbox`
  throws, and its caller repeats the same batch for ever; the property is not claimed then.
- `Exclusive`, `FirstComeFirstServed`: the lease.
- `HolderRuns`: who decides holds the lease over every await, timeout and kill.
- `NoMirrorWhileSpawning`: from the moment a request has found no terminal Pi until
  its child has reported, no mirror comes into being.
- `NoSpawnUnderSignal`: no child starts while the daemon knows of an extension event
  of the last two minutes. This is about what the daemon knows: the shutdown of one
  terminal Pi erases the signal of another (`run.ts:2232`), and a restart forgets
  all signals.
- `EveryRequestAnswered`: nobody waits for the lease for ever.
- `CheckpointIsProven`: what lies behind the checkpoint is never looked at again, so
  the relay must hold it.
- `HolesAreGaps`: drops, retries given up and restarts never go unnoticed.
- `TakenOnce`: an answer that was lost makes no entry appear twice.
- `ConsistentAtRest`: pointer, extension, launcher and daemon are of one release
  whenever no journal is left, whatever failed.
- `RollbackReady`: what `update rollback` needs survives every later failure.
- `QuarantinedNotInstalled`, `ImplementsAtomicInstall`: the promise.
- `OneDaemonUntilDisturbed`: simultaneous starters, also with an old daemon to be
  replaced, end with one lock holder. Slow health checks and the end of a holder are
  excepted: then two can run.
- `DuplicatesDieOut`, `SurvivorIsFound`: the heartbeat repairs that, and the daemon
  that stays is the one the state file names.

Bounds. *Delivery.* Two commands are enough for order, a third one, urgent or
unsupported, for the full queue; two Pi processes for succession, one crash and late
ack so that each meets every stage of the loop. A terminal prompt (`MaxLocalPrompts`
bounds the commands mistaken) is in the first run, a disk fault, a reload and late prompts
in the second, which has one process and no crash. No run lets two processes overlap, has
an abort behind a queued head, or fills the queue with terminal entries; what is said of
these is proved (`Invariance`, `KeepsOrder`, `NothingIsLost`), for any bounds. Reload and
late ack are in different runs: together they give a history in which an old copy of a failed ack,
kept over its timeout and over a `/reload`, fails the command the new owner is
executing (the delivery token is still valid and the sender's id is the one of the
moment it is sent). Images are only in the second run: a replayed message whose
attachments are gone overwrites an outcome, which refutes the lifecycle (section 5).
`MaxFailures` is 2 in place of 3 where the count matters only as a limit. *Client.*
Pages and batches hold one message, so that two messages take two rounds, and there
are two lives, so that the second meets what the first left behind. *Activation.* Two
requests cover each pair of choices; numbers of ended children are used again; one
restart and one stop. *History.* A queue of two has room for one update and one
content event, so each kind is dropped; two attempts for a retry and the end of
retries; one event is kept while the daemon starts, the next is refused; two entries
give an entry lost before one that is taken; two instances for a reload and a new
process; two faults, so that a failed delivery is followed by a death. *Installer.*
Three releases: the installed one, the previous one and a candidate, alike but for
their roles (symmetry); three failures and two kills reach a failed undoing of a
recovered transaction and its recovery. *Daemon.* Three processes are a daemon of the
old version, the one that replaces it and one that comes between; two attempts at the
lock in place of five; one trouble and one overlap of heartbeats.

Fairness. In `PiCommandDelivery` the service manager restarts the daemon, timers
drive fetches, heartbeats and polls, a wait for Pi ends after five seconds, and a daemon
that is up answers. Weak
fairness of `OwnerWindowPasses` only when the owner is gone: a living owner's
heartbeat of one minute renews the window of two. Nobody must start Pi, send,
crash or lose, and no prompt left with Pi has to be taken. In `SessionClient` the socket reconnects (`startSmartReconnect`),
pending pushes on a live socket arrive, timers repeat requests, and a relay that
is reached answers, a conflict being its only refusal. In `PiActivation` every await of a request ends by itself or by its
timeout (8, 12, 15 seconds), and so do the relay calls of an event; nothing is
assumed of terminal Pis, children or the ageing of signals. In `DaemonLock` a living
process goes on with what it is doing. Its heartbeat timer needs strong fairness: the
heartbeats of the others write the state again and again, which may take away what it
would have found, but its own timer fires as often. `LiveHistory`,
`InstallTransaction` and `InstallLock` assume none.

## 4. What is proved

| Theorem | For every | Says |
| --- | --- | --- |
| `PiCommandDelivery_proofs!Invariance` | command and process set, bound | `IInv` is an invariant |
| `TypeCorrect`, `AcceptedIsConfirmed` | | `TypeOK`, `AcceptedWasConfirmed` |
| `PiCommandOutcome_proofs!FailsAfterAttempts` | | `FailedAfterAttempts` |
| `NothingIsLost` | | `NoSilentLoss` |
| `KeepsOrder` | | `Fifo` |
| `AcceptedMeansTaken` | the same, without `LateConfirm` and local prompts | `AcceptedWasTaken` |
| `RunsAtMostOnce` | the same, without `Overlap` and `LateConfirm` | `TakenAtMostOnce` |
| `RefinesLifecycle` | the same, `Sheltered` | `ImplementsLifecycle`: delivery implements `CommandLifecycle` |
| `SessionClient_proofs!ClientInvariance` | message, key and flusher set, page and batch size, lives, faults | `IInv` is an invariant |
| `ClientTypes`, `OneRowPerKey`, `KnownStaysLogged`, `CursorLeavesNoGap`, `ConfirmedMeansLogged` | | `TypeOK`, `LoggedOnce`, `KnownIsLogged`, `RoutedWithoutGap`, `FlushMeansLogged` |
| `LogKeepsOrder` | | `OutboxInOrder` |
| `PiActivation_proofs!LeaseInvariance` | task and key set | `LeaseInv` is an invariant |
| `LeaseExcludes`, `LeaseIsFair` | | `Exclusive`, `FirstComeFirstServed` |
| `UsesLease` | requests, terminal Pis, children, bounds | `Spec => LeaseSpec`: activation implements the registry |
| `ActivationExcludes` | | `Exclusive`, of activation |
| `ActivationInvariance` | | `ActivationInv` is an invariant |
| `ActivationTypes`, `DecidesUnderLease`, `SpawnsAlone` | | its parts `TypeOK`, `HolderRuns`, `NoMirrorWhileSpawning` |
| `SpawnsUnsignalled` | | `NoSpawnUnderSignal` |
| `LiveHistory_proofs!KeepsHistory` | limits, entries, instances, faults | `HistoryInv` is an invariant |
| `TypeCorrect`, `TakesOnce`, `KnowsItsGaps` | | its parts `TypeOK`, `TakenOnce`, `HolesAreGaps` |
| `ProvesCheckpoint` | the same, without `Ahead` | `CheckpointIsProven` |
| `DaemonLock_proofs!TypeCorrect`, `OneUntilDisturbed` | processes, versions, attempts, bounds | `TypeOK`, `OneDaemonUntilDisturbed` |
| `InstallTransaction_proofs!Invariance` | releases, faults, kills | `IInv` is an invariant |
| `InstallTypes`, `RestIsConsistent`, `RollbackStaysReady`, `InstalledIsSound` | | `TypeOK`, `ConsistentAtRest`, `RollbackReady`, `QuarantinedNotInstalled` |
| `InstallerIsAtomic` | | `ImplementsAtomicInstall`: the installer implements `AtomicInstall` |
| `InstallLock_proofs!ExclusiveUntilCrash` | installers | `OneInstallerUntilCrash` |

The assumptions are `DeliveryAssumption`, `ClientAssumption`, `LeaseAssumption`,
`ActivationAssumption` (the tasks are the requests and the events, all of one
session), and in the other modules `ProcAssumption`, `BoundsAssumption`, `LimitAssumption`,
`AheadAssumption`, `LockAssumption`, `NoneAssumption` and `RecordAssumption`: types of the constants,
positive limits, and markers such as `NoOwner` or `None` that are not elements of the
sets they stand beside. TLC evaluates them in every run. The theorem of `InstallLock`
has its one assumption, `Nobody \notin Installer`, in its statement.

*Delivery.* A command is `Confirmed` when Pi took it or the start of another prompt was
taken for its acceptance: what the extension can know. `AcceptedWasConfirmed` is not
inductive: an ack that says ok could name a command that was not confirmed. `IInv` adds
what rules that out. `JobsHonest`: an envelope or an ack in flight that reports success
is about a confirmed command, and if it comes from the present queue, its number still names that command (`FromQueue`;
numbers restart with each mirror, hence the epoch). `LedgersHonest`: the same of
the extension's ledgers, in memory and on disk, since a new process answers from
them. `QueueWellFormed`: numbers identify entries, which the settling of an entry
relies on, and a queued entry has a failure left, which the type of the counter
needs. `HoldsJob`: a busy process has an envelope. The proof has a lemma per action
and a step per conjunct that the action can disturb. `AcceptedMeansTaken` closes the gap
to what the outcome is named for: without terminal prompts and prompts taken after a
timeout nothing is ever mistaken (`NothingMistaken`), and confirmed is taken.

*Outcomes.* `FailedAfterAttempts` needs `CountInv`: the failures of an entry never
exceed the executions that failed, and a report of failure on its way is one more
than the token it carries. An old copy has an old token, so it raises nothing twice.
`NoSilentLoss` needs `LossInv`: the log has no key twice, so a key has one place; the
cursor and the boundary are within the log; what left the queue has its outcome on
disk. A crash then loses nothing, because what is unsettled lies above the boundary,
where the next mirror begins.

*Order.* `Fifo` speaks of what Pi has taken; what must not happen is that a command is
handed out before its turn. So the invariant, `FifoInv`, says of everything Pi has, a
process holds or Pi may still take that each covered command before it was taken or is
settled (`HandedOutInTurn`). A poll establishes it: it picks the first of the queue, and
what is earlier in the log is settled, behind the boundary, or in the queue and so not
before the first (`NoSilentLoss`, and `QueueInOrder`: numbers are given in the order of
the log). A boundary that is written later covers what comes after it (`BoundaryCovers`),
so no command becomes covered behind one that was handed out.

*Lifecycle.* The refinement has hypotheses, `Sheltered`, because the program as it is does
not implement the lifecycle: TLC refutes `ImplementsLifecycle` when any one of them is
dropped from the instance of `delivery_late_acks`. A replayed message whose attachments
are gone overwrites an outcome (`WithImages`); Pi takes a prompt after its wait timed out
and it was reported failed (`LateConfirm`, section 5); two processes read one ledger before either writes it
(`Overlap`); and a late ack fails the command that the same process, reloaded, is
executing (reloads and late acks together; either alone is allowed). Everything else
stays: daemon crashes, Pi crashes, faults of the ledger, lost, repeated and late acks, and
terminal prompts that start during a wait. Of these the lifecycle itself speaks: it promises
no more than that a command accepted by mistake is mistaken once, while it is pending, and
taken at most once afterwards.
`LifecycleInv` has these parts. `LedgersGuard`: what Pi took, or was mistaken for taken, is
in every ledger a process may consult, so `executing` or `accepted_by_pi` stands in its way; with `SoleProcess`,
which needs only `~Overlap` and `~LateConfirm`, it gives `RunsAtMostOnce` by itself.
`QueuePending`: what is queued has no outcome. `WorkPending`: what a process is about to
execute has none either, and keeps having none. That is threatened from two sides. After a
restart the log is replayed, and a message that found the queue full would be marked failed
while it is being executed. It does not: what was before it when it was polled fitted into
the queue together with it, nothing joins that set (`Ahead`) later, and all that a replay
queues before it belongs to it. This is a counting argument, by injection of the queue
into `Ahead`. And a late ack could settle it: but a late ack that is still good for an entry
has the token of the entry, its sender is the owner, and a living sender repeats that very
ack before it polls (`LateAcksHarmless`). Handling either copy raises the counter of
the entry or takes it from the queue (`TokensIssued`: no envelope is ahead of its entry), so
the other is spent. While Pi is not reloaded the owner of a queue never changes under a
process that polled it (`OwnersStay`).

*Client.* `IInv` says: a batch has each key once; an accepted batch is in the log as it was
sent; whatever was asked for is in
the outbox, in the log, or reported as a conflict; a page begins at or below the
cursor, so what it adds joins what was routed. `OrderInv`, for the order of the log,
is the harder half. A batch that reaches the relay, however late, skips nothing of the
outbox that was asked for before one of its own and is not logged yet (`SkipsNothing`);
a record of this life is a message that was asked for, once (`LivesSound`); a batch is
in the order of asking (`BatchesInOrder`); what is still to be logged was asked for
after all that is (`LoggedFirst`). So whatever a batch adds to the log belongs behind
what is there. The proof rests
on pure lemmas about `Picked`, which keeps the order of what it picks; they are proved
from the least-number principle (`WFMin`), without induction over sequences.

*Lease.* `Exclusive` is not inductive either: nothing in it says that the tail is
the last task in flight. `LeaseInv` says that the tasks of a key in flight form a
chain: each waits for the one before it (`LineIsChain`), none is missing
(`LineIsComplete`) or there twice (`LineHasNoRepeats`), and `tail` is the end
(`TailEndsLine`). Only the first can run.

*Activation.* The first two theorems are a refinement: a step of `PiActivation` is a
step of the registry or leaves its variables alone, where an event always enters and
leaves as the head of its chain (`EventAtHead`). So `Exclusive` carries over and
nothing of the lease is proved twice. `NoMirrorWhileSpawning` alone is not inductive:
a request or an event that has found no mirror could create one beside a spawn. Both
hold the lease (`HolderRuns`), a spawning request does too, and by `Exclusive` they
are one. The proof of `HolderRuns` turns on what every await of `spawnSession` does
next: it goes on under the lease, or it ends and releases it.

*History.* None of the properties of `LiveHistory` is inductive, since each depends on what
is still on its way. `StreamInv` describes that: events that are queued, posted, kept or
posted again for an instance that was replaced never overtake one another
(`StreamInOrder`), and two successive events of an instance have at most one entry between
them, which the first is about (`Consistent`). `MirrorInv` puts the mirror into that order: it
is behind whatever is on its way, so what it takes is about an entry it has not taken
(`TakenOnce`), and when the number of the next event is the successor of the last, there is
no entry in between that it does not hold (`HolesAreGaps`). What it missed it finds by the
number, at the next event, whatever became of the events between. For the checkpoint,
`BeliefIsProven` says that what a mirror without a gap takes for confirmed is with the
relay, on its way, or later than its last proof, and `EndIsLast` that an `agent_end` on
its way is the last word of its turn; what its handler marks is then not later than the
event. This is where the hypothesis `~Ahead` is used, and only there; the run
`doc_checkpoint` shows what happens without it. TLC checked each invariant on the bounds
of the run before it was proved. Dropping from a full queue takes a search in a sequence
(`SelectInSeq`), which needs the least element of a set: it is proved from the strict
ordering of the finite sets `0 .. x - 1`, without induction.

*Daemon.* Until something is disturbed, the lock file is that of the one process past
it (`LockIsHeld`), and whoever the state file or a health check leads to is serving
(`StateIsServed`). So no health check fails, nobody finds a stale file, and nobody
unlinks the lock.

*Installer.* `ConsistentAtRest` speaks of the machine at rest, but what makes it true is
said of every moment: the disk is whole, or it holds a committed journal, or one from
which everything can be undone (`JournalSound`), and the copy in memory is of the same
transaction (`MemorySound`). Around it: how far the work had to be for a phase to be
written (`PhaseSound`), what the steps of the undoing have restored so far
(`UndoSound`), and that the installed release is on disk, was healthy and is not
quarantined (`StateSound`). A kill or a failure then needs no argument of its own: it
changes nothing on disk. The refinement follows, with one abstract step for `Commit`,
`Quarantine`, beginning and finishing, and none for the rest.

Only model-checked: the temporal properties `EveryCommandSettles`,
`EveryMessageRouted`, `OutboxDrains`, `EveryRequestAnswered`, `DuplicatesDieOut` and
`SurvivorIsFound`, since liveness and ENABLED are outside the reach of the prover.

## 5. Where code and documents disagree

- `doc_no_duplicate_prompt`: the extension waits five seconds for Pi to confirm
  a prompt, then reports a failure and forgets it; Pi may still take it, and the
  retry gives it again. `docs/roadmap.md:239`: a duplicate remote command does not
  submit twice to Pi.
- `doc_install_recovery`: `transactions/active` is removed file by file
  (`installTransaction.ts:291`). Killed after the copy of the extension is gone and
  before the journal is, an invocation leaves a journal that no later one can undo,
  although everything was restored. `docs/troubleshooting.md:111`: the updater
  "recovers an interrupted transaction before another install".
- `doc_one_daemon`: a daemon that shuts down unlinks the lock twice (`run.ts:2553` and
  `2555`) without asking whose it is. Between the two another process may have
  created it; then a third one gets it too. `persistence.ts:378`: the lock "prevents
  multiple instances".
- `doc_checkpoint`: `agent_end` marks every assistant message and tool result of the
  file since `covered` as confirmed (`run.ts:2320`), those of the next turn included
  when Pi has begun it; the checkpoint passes them, and when the daemon dies before it
  handles their events they are never sent. `run.ts:2334-2337`: the append checkpoint
  does not advance across an unproven gap.

Met while modelling, without a run of their own: a `before_agent_start` whose text matches
no waiting prompt settles the oldest one that waits (`piExtensionInstall.ts:805-807`,
`492-495`), so a prompt typed at the terminal, or an earlier one that starts late, makes the
extension report a command as `accepted_by_pi` that Pi has not taken and may never take;
another instance may take the queue
of an owner that was silent for two minutes in the middle of a command; a replayed
message whose attachments are gone is marked failed although it was accepted; a child
that reports after fifteen seconds is invisible to the activation lock; a lock file
left empty by a process that was killed before it wrote its pid counts as held, for
every starter that finds no stale state; and two installers may both be inside after a third one was killed there, since a stale lock is renamed away
without looking at it again.

## 6. What is not modelled

- Metadata and agent state: versioned values that only the phone displays. A
  compare-and-set model against an atomic register would be the next module.
- The managed runtime: a sequential loop around the Pi SDK; `PiActivation` sees its
  life only. What Pi does with a prompt it was given, beyond taking it now, later or never.
- The daemon's own commands (`internal_shutdown`, kill) and `/remote off`.
- Of history: progressive pages, user entries and divergent entries.
- Session index, notifications and push: caches and best effort.
- Control server, relay RPC and sockets: their handlers are the actions of the models,
  their transport is the loss and delay of messages.
- Accounts, authentication, cryptography, storage: no ordering of their own.
- Download, verification and channels of releases; uninstall; launchd.
- The app: screens and reducers. Most of the repository's lines are there, in its
  development scripts and in packaging, so that the models cover a small share of the
  repository and most of what coordinates its processes.
- Wire schemas: types and validation.
