-------------------------- MODULE PiCommandDelivery --------------------------
(***************************************************************************)
(* Delivery of phone commands to an ordinary Pi session.                   *)
(*                                                                         *)
(*   phone -> relay log -> lynttyd mirror queue -> Pi extension -> Pi      *)
(*                                                                         *)
(* One Pi session, one machine.  The relay keeps an append-only log of     *)
(* user messages.  The daemon (lynttyd) replays that log above a durable   *)
(* boundary into a bounded in-memory queue (the "mirror") and keeps a      *)
(* durable ledger of outcomes.  Each Pi process runs the extension, which  *)
(* polls the queue, executes one command at a time, keeps its own durable  *)
(* ledger of what it started and finished, and acknowledges by local HTTP. *)
(* Daemon, Pi processes and HTTP requests fail independently.              *)
(***************************************************************************)
EXTENDS Naturals, Sequences, FiniteSets

CONSTANTS
    Command,          \* localKeys of the user messages the phone may send
    Urgent,           \* the ones that parse to abort
    Direct,           \* the ones that parse to invoke_pi_command
    Unsupported,      \* the ones that parse to no allowed command
    WithImages,       \* the ones whose attachments must be downloaded first
    Process,          \* Pi processes, each a fresh load of the extension
    MaxCommands,      \* MAX_REMOTE_PI_COMMANDS
    MaxFailures,      \* MAX_REMOTE_PI_COMMAND_FAILURES
    MaxDaemonCrashes, \* bounds of the exploration, not of the program
    MaxReloads,
    MaxDiskFaults,
    MaxLateAcks,
    MaxLocalPrompts,  \* terminal prompts that end the wait for a command
    Overlap,          \* two Pi processes may run the session at once
    LateConfirm,      \* Pi may take a prompt after the extension gave up on it
    NoOwner, NoJob, NoBoundary, NotLoaded

Job == [epoch: Nat, seq: Nat, failures: Nat, key: Command, ok: BOOLEAN]
Instance == Process \X Nat

ASSUME DeliveryAssumption ==
    /\ Urgent \cup Direct \cup Unsupported \cup WithImages \subseteq Command
    /\ MaxCommands \in Nat \ {0}
    /\ MaxFailures \in Nat \ {0}
    /\ {MaxDaemonCrashes, MaxReloads, MaxDiskFaults, MaxLateAcks, MaxLocalPrompts}
          \subseteq Nat
    /\ {Overlap, LateConfirm} \subseteq BOOLEAN
    /\ NoOwner \notin Instance
    /\ NoJob \notin Job
    /\ NoBoundary \notin Nat
    /\ NotLoaded \notin [Command -> {"none", "executing", "accepted_by_pi"}]

VARIABLES
    \* the relay
    relayLog,          \* user messages in relay sequence order
    \* the daemon, on disk
    boundary,          \* messages at or below it are never executed
    outcome,           \* terminal outcome per localKey
    \* the daemon, in memory
    daemonUp,
    mirrorUp,          \* externalPiMirrors holds this session
    commandQueueEpoch, \* random per mirror; here the count of mirrors opened
    nextCommandSeq,
    commands,          \* the queue; its array order is the order of seq
    receiveSeq,        \* relay messages routed so far
    activeInstance,    \* activeExtensionInstanceId
    ownerFresh,        \* the owner was seen within the two-minute window
    \* the Pi processes
    phase,             \* "unborn", "running", "quitting" or "dead"
    instance,          \* extensionInstanceId is <<p, instance[p]>>
    reloadPending,     \* its session_start(reload) is not delivered yet
    ledgerCache,       \* executedCommandLedgers, read once per process
    pc, job,           \* where pollCommands stands, and its envelope
    late,              \* prompts Pi still holds though nobody waits for them
    ledgerFile,        \* the extension's ledger on disk, shared by processes
    \* the local network
    inFlight,          \* acks whose sender timed out and that may still land
    \* history, read by the properties only
    taken,             \* how often Pi took a command
    mistaken,          \* keys for which the start of another prompt was taken
    attempts,          \* failed acks the extension produced, capped
    refused,           \* keys the daemon failed without delivering them
    covered,           \* keys sent after the boundary was fixed
    \* bounds
    crashes, reloads, faults

durableVars == <<boundary, outcome>>
queueVars   == <<nextCommandSeq, commands>>
mirrorVars  == <<mirrorUp, commandQueueEpoch, queueVars, receiveSeq>>
ownerVars   == <<activeInstance, ownerFresh>>
daemonVars  == <<durableVars, daemonUp, mirrorVars, ownerVars>>
jobVars     == <<pc, job>>
ledgerVars  == <<ledgerCache, ledgerFile>>
processVars == <<phase, instance, reloadPending>>
piVars      == <<processVars, ledgerVars, jobVars, late>>
historyVars == <<taken, mistaken, attempts, refused, covered>>
boundVars   == <<crashes, reloads, faults>>
vars == <<relayLog, daemonVars, piVars, inFlight, historyVars, boundVars>>

LedgerState == {"none", "executing", "accepted_by_pi"}
Ledger      == [Command -> LedgerState]
Outcome     == {"none", "accepted_by_pi", "failed"}
Status      == {"queued", "accepted_by_pi", "failed"}
Entry       == [seq: Nat, key: Command, status: Status, failures: 0..MaxFailures]
Ack         == [from: Instance, job: Job]
PC          == {"idle", "polled", "begin", "running", "waiting", "ran", "threw",
                "acking"}

TypeOK ==
    /\ relayLog \in Seq(Command)
    /\ boundary \in Nat \cup {NoBoundary}
    /\ outcome \in [Command -> Outcome]
    /\ daemonUp \in BOOLEAN
    /\ mirrorUp \in BOOLEAN
    /\ commandQueueEpoch \in Nat
    /\ nextCommandSeq \in Nat
    /\ commands \subseteq Entry
    /\ receiveSeq \in Nat
    /\ activeInstance \in Instance \cup {NoOwner}
    /\ ownerFresh \in BOOLEAN
    /\ phase \in [Process -> {"unborn", "running", "quitting", "dead"}]
    /\ instance \in [Process -> Nat]
    /\ reloadPending \in [Process -> BOOLEAN]
    /\ ledgerCache \in [Process -> Ledger \cup {NotLoaded}]
    /\ pc \in [Process -> PC]
    /\ job \in [Process -> Job \cup {NoJob}]
    /\ late \in [Process -> SUBSET Command]
    /\ ledgerFile \in Ledger
    /\ inFlight \subseteq Ack
    /\ taken \in [Command -> Nat]
    /\ mistaken \subseteq Command
    /\ attempts \in [Command -> 0..MaxFailures]
    /\ refused \subseteq Command
    /\ covered \subseteq Command
    /\ crashes \in 0..MaxDaemonCrashes
    /\ reloads \in 0..MaxReloads
    /\ faults \in 0..MaxDiskFaults

Init ==
    /\ relayLog = <<>>
    /\ boundary = NoBoundary
    /\ outcome = [k \in Command |-> "none"]
    /\ daemonUp = FALSE
    /\ mirrorUp = FALSE
    /\ commandQueueEpoch = 0
    /\ nextCommandSeq = 1
    /\ commands = {}
    /\ receiveSeq = 0
    /\ activeInstance = NoOwner
    /\ ownerFresh = FALSE
    /\ phase = [p \in Process |-> "unborn"]
    /\ instance = [p \in Process |-> 0]
    /\ reloadPending = [p \in Process |-> FALSE]
    /\ ledgerCache = [p \in Process |-> NotLoaded]
    /\ pc = [p \in Process |-> "idle"]
    /\ job = [p \in Process |-> NoJob]
    /\ late = [p \in Process |-> {}]
    /\ ledgerFile = [k \in Command |-> "none"]
    /\ inFlight = {}
    /\ taken = [k \in Command |-> 0]
    /\ mistaken = {}
    /\ attempts = [k \in Command |-> 0]
    /\ refused = {}
    /\ covered = {}
    /\ crashes = 0
    /\ reloads = 0
    /\ faults = 0

------------------------------------------------------------------------------
(* The relay.  It deduplicates by localId, so a key is logged once.         *)

Sent == {relayLog[n] : n \in 1..Len(relayLog)}

SendCommand(k) ==
    /\ k \notin Sent
    /\ relayLog' = Append(relayLog, k)
    /\ covered' = IF boundary = NoBoundary THEN covered ELSE covered \cup {k}
    /\ UNCHANGED <<daemonVars, piVars, inFlight, taken, mistaken, attempts,
                   refused, boundVars>>

------------------------------------------------------------------------------
(* The daemon process and its mirror of the session.                        *)

NoMirror ==
    /\ mirrorUp' = FALSE
    /\ commands' = {}
    /\ nextCommandSeq' = 1
    /\ receiveSeq' = 0
    /\ activeInstance' = NoOwner
    /\ ownerFresh' = FALSE
    /\ UNCHANGED commandQueueEpoch

DaemonStart ==
    /\ ~daemonUp
    /\ daemonUp' = TRUE
    /\ UNCHANGED <<relayLog, durableVars, mirrorVars, ownerVars, piVars,
                   inFlight, historyVars, boundVars>>

\* Requests to the old process die with it.
DaemonCrash ==
    /\ daemonUp
    /\ crashes < MaxDaemonCrashes
    /\ daemonUp' = FALSE
    /\ NoMirror
    /\ inFlight' = {}
    /\ crashes' = crashes + 1
    /\ UNCHANGED <<relayLog, durableVars, piVars, historyVars, reloads, faults>>

\* Bug: every restart skips what the relay logged so far.
BoundaryMovesOnRestart == Len(relayLog)

\* The first mirror of a session fixes the boundary for ever.
CommandBoundary == IF boundary = NoBoundary THEN Len(relayLog) ELSE boundary

OpenMirror ==
    /\ daemonUp
    /\ ~mirrorUp
    /\ boundary' = CommandBoundary
    /\ receiveSeq' = CommandBoundary
    /\ mirrorUp' = TRUE
    /\ commandQueueEpoch' = commandQueueEpoch + 1
    /\ nextCommandSeq' = 1
    /\ commands' = {}
    /\ activeInstance' = NoOwner
    /\ ownerFresh' = FALSE
    /\ UNCHANGED <<relayLog, outcome, daemonUp, piVars, inFlight, historyVars,
                   boundVars>>

------------------------------------------------------------------------------
(* Queueing a routed message.                                               *)

\* seenCommandLocalKeys and failedCommandLocalKeys are reloaded from the ledger
\* and change with it, so the ledger stands for both.
Known(k) == outcome[k] # "none" \/ \E e \in commands : e.key = k

\* Bug: a full queue drops the command without a word.
FullIsDropped(k) ==
    IF Known(k) \/ Cardinality(commands) >= MaxCommands THEN "duplicate" ELSE "accepted"

resolvePiCommandAdmission(k) ==
    IF Known(k) THEN "duplicate"
    ELSE IF Cardinality(commands) >= MaxCommands THEN "full"
    ELSE "accepted"

markRemotePiCommandFailed(k) ==
    /\ outcome' = [outcome EXCEPT ![k] = "failed"]
    /\ refused' = refused \cup {k}
    /\ UNCHANGED queueVars

queueRemotePiCommand(k) ==
    \/ /\ resolvePiCommandAdmission(k) = "duplicate"
       /\ UNCHANGED <<queueVars, outcome, refused>>
    \/ /\ resolvePiCommandAdmission(k) = "full"
       /\ markRemotePiCommandFailed(k)
    \/ /\ resolvePiCommandAdmission(k) = "accepted"
       /\ k \in Unsupported
       /\ markRemotePiCommandFailed(k)
    \/ /\ resolvePiCommandAdmission(k) = "accepted"
       /\ k \notin Unsupported
       /\ commands' = commands \cup
            {[seq |-> nextCommandSeq, key |-> k, status |-> "queued", failures |-> 0]}
       /\ nextCommandSeq' = nextCommandSeq + 1
       /\ UNCHANGED <<outcome, refused>>

\* bindPiRemoteInput: attachments are fetched first, and a message whose
\* attachments fail is rejected without looking at the queue or the ledger.
HandleMessage(k) ==
    \/ k \in WithImages /\ markRemotePiCommandFailed(k)
    \/ queueRemotePiCommand(k)

RouteMessage ==
    /\ mirrorUp
    /\ receiveSeq < Len(relayLog)
    /\ receiveSeq' = receiveSeq + 1
    /\ HandleMessage(relayLog[receiveSeq + 1])
    /\ UNCHANGED <<relayLog, boundary, daemonUp, mirrorUp, commandQueueEpoch,
                   ownerVars, piVars, inFlight, taken, mistaken, attempts, covered,
                   boundVars>>

\* A fetch that was under way when the socket pushed the same message routes it
\* a second time.
RouteAgain(n) ==
    /\ mirrorUp
    /\ n \in boundary + 1 .. receiveSeq
    /\ HandleMessage(relayLog[n])
    /\ UNCHANGED <<relayLog, boundary, daemonUp, mirrorUp, commandQueueEpoch,
                   receiveSeq, ownerVars, piVars, inFlight, taken, mistaken,
                   attempts, covered, boundVars>>

------------------------------------------------------------------------------
(* Which extension instance owns the queue.                                 *)

Current(p) == <<p, instance[p]>>

isPiExtensionCommandOwner(i) == activeInstance = i

\* Bug: an owner that vanished keeps the queue for ever.
OwnerNeverExpires(p) == activeInstance = NoOwner \/ reloadPending[p]

MayClaim(p) == activeInstance = NoOwner \/ reloadPending[p] \/ ~ownerFresh

\* claimPiExtensionInstance does not answer "rejected".
ClaimAccepted(p) == isPiExtensionCommandOwner(Current(p)) \/ MayClaim(p)

\* Any event of the extension claims or refreshes the ownership first.
ExtensionEvent(p) ==
    /\ phase[p] = "running"
    /\ mirrorUp
    /\ reloadPending' = [reloadPending EXCEPT ![p] = FALSE]
    /\ \/ /\ ClaimAccepted(p)
          /\ activeInstance' = Current(p)
          /\ ownerFresh' = TRUE
       \/ /\ ~ClaimAccepted(p)
          /\ UNCHANGED ownerVars
    /\ UNCHANGED <<relayLog, durableVars, daemonUp, mirrorVars, phase, instance,
                   ledgerVars, jobVars, late, inFlight, historyVars, boundVars>>

\* drainQueue drops an event after five failed posts.
ReloadEventDropped(p) ==
    /\ reloadPending[p]
    /\ reloadPending' = [reloadPending EXCEPT ![p] = FALSE]
    /\ UNCHANGED <<relayLog, daemonVars, phase, instance, ledgerVars, jobVars,
                   late, inFlight, historyVars, boundVars>>

\* Two minutes without an event of the owner.
OwnerWindowPasses ==
    /\ activeInstance # NoOwner
    /\ ownerFresh
    /\ ownerFresh' = FALSE
    /\ UNCHANGED <<relayLog, durableVars, daemonUp, mirrorVars, activeInstance,
                   piVars, inFlight, historyVars, boundVars>>

\* session_shutdown from the owner, or from an instance that may claim, takes
\* the mirror down; the extension stops polling, what it already started goes
\* on until the process exits.
SessionShutdown(p) ==
    /\ phase[p] = "running"
    /\ phase' = [phase EXCEPT ![p] = "quitting"]
    /\ reloadPending' = [reloadPending EXCEPT ![p] = FALSE]
    /\ IF mirrorUp /\ ClaimAccepted(p)
       THEN NoMirror
       ELSE UNCHANGED <<mirrorVars, ownerVars>>
    /\ UNCHANGED <<relayLog, durableVars, daemonUp, instance, ledgerVars, jobVars,
                   late, inFlight, historyVars, boundVars>>

------------------------------------------------------------------------------
(* Polling and acknowledgement, on the daemon's side.                       *)

Oldest(es) == {e \in es : \A d \in es : e.seq <= d.seq}

\* Bug: the newest command first.
NewestFirst ==
    {e \in commands : /\ e.status = "queued"
                      /\ \A d \in commands : d.status = "queued" => d.seq <= e.seq}

\* The one command a poll returns, as a set of at most one entry.
selectNextQueuedPiCommand ==
    LET queued == {e \in commands : e.status = "queued"}
        urgent == {e \in queued : e.key \in Urgent}
    IN Oldest(IF urgent # {} THEN urgent ELSE queued)

removeTerminalPiCommandPrefix(es) ==
    {e \in es : \E d \in es : d.status = "queued" /\ d.seq <= e.seq}

\* Bug: an ack is matched by its sequence number alone.
MatchedBySeqAlone(j, e) == FALSE

\* Bug: the epoch is checked and the delivery token is not.
MatchedWithoutToken(j, e) == j.epoch # commandQueueEpoch

\* deliveryToken is drawn anew when an entry is pushed and when it is put back
\* for a retry: <<epoch, seq, failures>> names exactly those moments.
isStalePiCommandAck(j, e) ==
    \/ j.epoch # commandQueueEpoch
    \/ <<j.epoch, j.seq, j.failures>> # <<commandQueueEpoch, e.seq, e.failures>>

\* Bug: retries are counted and never end.
FailureNeverTerminal(e) == FALSE

\* applyPiCommandFailure, and the direct commands that are never retried.
FailureIsTerminal(e) == e.key \in Direct \/ e.failures + 1 >= MaxFailures

CountFailure(e) == IF e.key \in Direct THEN e ELSE [e EXCEPT !.failures = @ + 1]

Settle(e, result) ==
    /\ outcome' = [outcome EXCEPT ![e.key] = result]
    /\ commands' = removeTerminalPiCommandPrefix(
                       (commands \ {e}) \cup
                       {[(IF result = "failed" THEN CountFailure(e) ELSE e)
                            EXCEPT !.status = result]})

Retry(e) ==
    /\ commands' = (commands \ {e}) \cup {CountFailure(e)}
    /\ UNCHANGED outcome

\* The entry an ack settles: none when the mirror is gone, when its sender is
\* not the owner, when the entry is no longer queued or when the ack is stale.
AckedEntry(a) ==
    IF mirrorUp /\ isPiExtensionCommandOwner(a.from)
    THEN {e \in commands : /\ e.seq = a.job.seq
                           /\ e.status = "queued"
                           /\ ~isStalePiCommandAck(a.job, e)}
    ELSE {}

\* Every answer of the handler is "ok": the sender forgets the ack.
onPiExtensionCommandAck(a) ==
    \/ /\ AckedEntry(a) = {}
       /\ UNCHANGED <<commands, outcome>>
    \/ \E e \in AckedEntry(a) :
          \/ a.job.ok /\ Settle(e, "accepted_by_pi")
          \/ ~a.job.ok /\ FailureIsTerminal(e) /\ Settle(e, "failed")
          \/ ~a.job.ok /\ ~FailureIsTerminal(e) /\ Retry(e)

------------------------------------------------------------------------------
(* A Pi process and its extension.                                          *)

StartPi(p) ==
    /\ phase[p] = "unborn"
    /\ Overlap \/ \A q \in Process : phase[q] \in {"unborn", "dead"}
    /\ phase' = [phase EXCEPT ![p] = "running"]
    /\ UNCHANGED <<relayLog, daemonVars, instance, reloadPending, ledgerVars,
                   jobVars, late, inFlight, historyVars, boundVars>>

ExitPi(p) ==
    /\ phase[p] \in {"running", "quitting"}
    /\ phase' = [phase EXCEPT ![p] = "dead"]
    /\ reloadPending' = [reloadPending EXCEPT ![p] = FALSE]
    /\ ledgerCache' = [ledgerCache EXCEPT ![p] = NotLoaded]
    /\ pc' = [pc EXCEPT ![p] = "idle"]
    /\ job' = [job EXCEPT ![p] = NoJob]
    /\ late' = [late EXCEPT ![p] = {}]
    /\ UNCHANGED <<relayLog, daemonVars, instance, ledgerFile, inFlight,
                   historyVars, boundVars>>

\* session_start after /reload: the module keeps its state under a new id.
ReloadPi(p) ==
    /\ phase[p] = "running"
    /\ reloads < MaxReloads
    /\ reloads' = reloads + 1
    /\ instance' = [instance EXCEPT ![p] = @ + 1]
    /\ reloadPending' = [reloadPending EXCEPT ![p] = TRUE]
    /\ UNCHANGED <<relayLog, daemonVars, phase, ledgerVars, jobVars, late,
                   inFlight, historyVars, crashes, faults>>

Alive(p) == phase[p] \in {"running", "quitting"}

Poll(p) ==
    /\ phase[p] = "running"
    /\ pc[p] = "idle"
    /\ mirrorUp
    /\ isPiExtensionCommandOwner(Current(p))
    /\ \E e \in selectNextQueuedPiCommand :
          job' = [job EXCEPT ![p] =
                    [epoch |-> commandQueueEpoch, seq |-> e.seq,
                     failures |-> e.failures, key |-> e.key, ok |-> FALSE]]
    /\ pc' = [pc EXCEPT ![p] = "polled"]
    /\ UNCHANGED <<relayLog, daemonVars, processVars, ledgerVars, late, inFlight,
                   historyVars, boundVars>>

\* The loop has a result to report.  Failed reports are counted in history.
Report(p, ok) ==
    /\ pc' = [pc EXCEPT ![p] = "acking"]
    /\ job' = [job EXCEPT ![p].ok = ok]
    /\ attempts' = IF ok \/ attempts[job[p].key] = MaxFailures THEN attempts
                   ELSE [attempts EXCEPT ![job[p].key] = @ + 1]

Goto(p, label) ==
    /\ pc' = [pc EXCEPT ![p] = label]
    /\ UNCHANGED <<job, attempts>>

\* The ledger is read from disk once per process and from memory afterwards.
LedgerOf(p) == IF ledgerCache[p] = NotLoaded THEN ledgerFile ELSE ledgerCache[p]

\* Bug: a command found "executing" is run again.
RerunInterrupted(p) ==
    /\ ledgerCache' = [ledgerCache EXCEPT ![p] = LedgerOf(p)]
    /\ IF LedgerOf(p)[job[p].key] = "accepted_by_pi"
       THEN Report(p, TRUE)
       ELSE Goto(p, "begin")

CheckLedger(p) ==
    LET state == LedgerOf(p)[job[p].key]
    IN /\ ledgerCache' = [ledgerCache EXCEPT ![p] = LedgerOf(p)]
       /\ \/ state = "accepted_by_pi" /\ Report(p, TRUE)
          \/ state = "executing" /\ Report(p, FALSE)
          \/ state = "none" /\ Goto(p, "begin")
          \/ state = "none" /\ Report(p, FALSE)  \* the session was replaced

ReadLedger(p) ==
    /\ Alive(p)
    /\ pc[p] = "polled"
    /\ CheckLedger(p)
    /\ UNCHANGED <<relayLog, daemonVars, processVars, ledgerFile, late, inFlight,
                   taken, mistaken, refused, covered, boundVars>>

\* persistExecutedCommandState: memory first, then the whole file.
Remember(p, state) ==
    ledgerCache' = [ledgerCache EXCEPT ![p][job[p].key] = state]

WriteFile(p) == ledgerFile' = ledgerCache'[p] /\ UNCHANGED faults

WriteFails ==
    /\ faults < MaxDiskFaults
    /\ faults' = faults + 1
    /\ UNCHANGED ledgerFile

BeginExecution(p) ==
    /\ Alive(p)
    /\ pc[p] = "begin"
    /\ \/ /\ Remember(p, "executing")
          /\ WriteFile(p)
          /\ Goto(p, "running")
       \/ /\ Remember(p, "none")         \* the write failed; so may the undo
          /\ faults < MaxDiskFaults
          /\ faults' = faults + 1
          /\ ledgerFile' \in {ledgerFile, ledgerCache'[p]}
          /\ Report(p, FALSE)
    /\ UNCHANGED <<relayLog, daemonVars, processVars, late, inFlight, taken,
                   mistaken, refused, covered, crashes, reloads>>

\* executeRemoteCommand.  What Pi does at once (abort, compact, a goal) is done or
\* throws; a prompt is handed to Pi and its acceptance is awaited.
Execute(p) ==
    /\ Alive(p)
    /\ pc[p] = "running"
    /\ \/ /\ taken' = [taken EXCEPT ![job[p].key] = @ + 1]
          /\ pc' = [pc EXCEPT ![p] = "ran"]
       \/ /\ pc' = [pc EXCEPT ![p] = "threw"]
          /\ UNCHANGED taken
       \/ /\ job[p].key \notin Urgent
          /\ pc' = [pc EXCEPT ![p] = "waiting"]
          /\ UNCHANGED taken
    /\ UNCHANGED <<relayLog, daemonVars, processVars, ledgerVars, job, late, inFlight,
                   mistaken, attempts, refused, covered, boundVars>>

\* The prompt stays with Pi, which may take it later or never.
LeaveWithPi(p, held) == late' = [late EXCEPT ![p] = held \cup {job[p].key}]

\* Bug: the wait that times out resolves.
TimeoutAccepts(p) ==
    /\ Alive(p)
    /\ pc[p] = "waiting"
    /\ pc' = [pc EXCEPT ![p] = "ran"]
    /\ \/ taken' = [taken EXCEPT ![job[p].key] = @ + 1] /\ UNCHANGED late
       \/ LeaveWithPi(p, late[p]) /\ UNCHANGED taken
    /\ UNCHANGED <<relayLog, daemonVars, processVars, ledgerVars, job, inFlight,
                   mistaken, attempts, refused, covered, boundVars>>

\* waitForPromptAcceptance: Pi starts or queues this prompt, refuses it, or says
\* nothing for five seconds.
AwaitAcceptance(p) ==
    /\ Alive(p)
    /\ pc[p] = "waiting"
    /\ \/ /\ pc' = [pc EXCEPT ![p] = "ran"]
          /\ taken' = [taken EXCEPT ![job[p].key] = @ + 1]
          /\ UNCHANGED late
       \/ /\ pc' = [pc EXCEPT ![p] = "threw"]
          /\ IF LateConfirm THEN LeaveWithPi(p, late[p]) ELSE UNCHANGED late
          /\ UNCHANGED taken
    /\ UNCHANGED <<relayLog, daemonVars, processVars, ledgerVars, job, inFlight,
                   mistaken, attempts, refused, covered, boundVars>>

\* settleAnyPromptAcceptance: a prompt that nobody waits for starts, and the one
\* that is waited for counts as accepted.  An extension executes one command at a
\* time, so the oldest acceptance is the only one.
settleAnyPromptAcceptance(p) ==
    /\ pc[p] = "waiting"
    /\ pc' = [pc EXCEPT ![p] = "ran"]
    /\ mistaken' = mistaken \cup {job[p].key}

\* before_agent_start of a prompt typed at the terminal.
LocalPromptStarts(p) ==
    /\ Cardinality(mistaken) < MaxLocalPrompts
    /\ Alive(p)
    /\ settleAnyPromptAcceptance(p)
    /\ LeaveWithPi(p, late[p])
    /\ UNCHANGED <<relayLog, daemonVars, processVars, ledgerVars, job, inFlight, taken,
                   attempts, refused, covered, boundVars>>

\* Pi takes a prompt nobody waits for any more.  Queued behind a turn, it settles
\* nothing; when it starts one, it settles whatever is waited for.
TakeLate(p, k) ==
    LET rest == late[p] \ {k}
    IN /\ Alive(p)
       /\ k \in late[p]
       /\ taken' = [taken EXCEPT ![k] = @ + 1]
       /\ \/ /\ late' = [late EXCEPT ![p] = rest]
             /\ UNCHANGED <<pc, mistaken>>
          \/ /\ settleAnyPromptAcceptance(p)
             /\ LeaveWithPi(p, rest)
       /\ UNCHANGED <<relayLog, daemonVars, processVars, ledgerVars, job, inFlight,
                      attempts, refused, covered, boundVars>>

\* Accepted, unless the ledger could not be written.
FinishAccepted(p) ==
    /\ Alive(p)
    /\ pc[p] = "ran"
    /\ Remember(p, "accepted_by_pi")
    /\ \/ WriteFile(p) /\ Report(p, TRUE)
       \/ WriteFails /\ Report(p, FALSE)
    /\ UNCHANGED <<relayLog, daemonVars, processVars, late, inFlight, taken,
                   mistaken, refused, covered, crashes, reloads>>

\* The call threw: forget the command, so that the daemon may retry it.
FinishFailed(p) ==
    /\ Alive(p)
    /\ pc[p] = "threw"
    /\ Remember(p, "none")
    /\ WriteFile(p) \/ WriteFails
    /\ Report(p, FALSE)
    /\ UNCHANGED <<relayLog, daemonVars, processVars, late, inFlight, taken,
                   mistaken, refused, covered, crashes, reloads>>

\* An ack is stamped with the instance id of the moment it is sent.
AckOf(p) == [from |-> Current(p), job |-> job[p]]

AckAnswered(p) ==
    /\ Alive(p)
    /\ pc[p] = "acking"
    /\ daemonUp
    /\ onPiExtensionCommandAck(AckOf(p))
    /\ pc' = [pc EXCEPT ![p] = "idle"]
    /\ job' = [job EXCEPT ![p] = NoJob]
    /\ UNCHANGED <<relayLog, boundary, daemonUp, mirrorUp, commandQueueEpoch,
                   nextCommandSeq, receiveSeq, ownerVars, processVars, ledgerVars,
                   late, inFlight, historyVars, boundVars>>

\* No answer in time: the request may be lost or may still be handled later.
\* The extension keeps the ack (pendingCommandAcks) and sends it again before it
\* polls.
AckTimesOut(p) ==
    /\ Alive(p)
    /\ pc[p] = "acking"
    /\ daemonUp
    /\ Cardinality(inFlight) < MaxLateAcks
    /\ inFlight' = inFlight \cup {AckOf(p)}
    /\ UNCHANGED <<relayLog, daemonVars, piVars, historyVars, boundVars>>

LateAckHandled(a) ==
    /\ a \in inFlight
    /\ daemonUp
    /\ onPiExtensionCommandAck(a)
    /\ inFlight' = inFlight \ {a}
    /\ UNCHANGED <<relayLog, boundary, daemonUp, mirrorUp, commandQueueEpoch,
                   nextCommandSeq, receiveSeq, ownerVars, piVars, historyVars,
                   boundVars>>

LateAckLost(a) ==
    /\ a \in inFlight
    /\ inFlight' = inFlight \ {a}
    /\ UNCHANGED <<relayLog, daemonVars, piVars, historyVars, boundVars>>

------------------------------------------------------------------------------

PiStep(p) ==
    \/ Poll(p)
    \/ ReadLedger(p)
    \/ BeginExecution(p)
    \/ Execute(p)
    \/ AwaitAcceptance(p)
    \/ FinishAccepted(p)
    \/ FinishFailed(p)
    \/ AckAnswered(p)

PiEnvironment(p) ==
    \/ StartPi(p)
    \/ ReloadPi(p)
    \/ SessionShutdown(p)
    \/ ExitPi(p)
    \/ ReloadEventDropped(p)
    \/ AckTimesOut(p)
    \/ LocalPromptStarts(p)
    \/ \E k \in Command : TakeLate(p, k)

Next ==
    \/ \E k \in Command : SendCommand(k)
    \/ DaemonStart
    \/ DaemonCrash
    \/ OpenMirror
    \/ RouteMessage
    \/ \E n \in 1..Len(relayLog) : RouteAgain(n)
    \/ OwnerWindowPasses
    \/ \E p \in Process : ExtensionEvent(p) \/ PiStep(p) \/ PiEnvironment(p)
    \/ \E a \in inFlight : LateAckHandled(a) \/ LateAckLost(a)

Spec == Init /\ [][Next]_vars

------------------------------------------------------------------------------
(* Fairness.  The daemon is restarted by its service manager, timers drive  *)
(* its fetch loop and the extension's heartbeat and poll, and a request to  *)
(* a daemon that is up is answered in the end.  Nobody has to start Pi,     *)
(* send a command or lose anything.                                         *)

PiFairness(p) ==
    /\ WF_vars(ExtensionEvent(p))
    /\ WF_vars(Poll(p))
    /\ WF_vars(ReadLedger(p))
    /\ WF_vars(BeginExecution(p))
    /\ WF_vars(Execute(p))
    /\ WF_vars(AwaitAcceptance(p))
    /\ WF_vars(FinishAccepted(p))
    /\ WF_vars(FinishFailed(p))
    /\ WF_vars(AckAnswered(p))

\* The owner is silent for good: its process is gone or has a new id.
OwnerIsGone ==
    \A p \in Process : phase[p] = "running" => activeInstance # Current(p)

Fairness ==
    /\ WF_vars(DaemonStart)
    /\ WF_vars(OpenMirror)
    /\ WF_vars(RouteMessage)
    /\ WF_vars(OwnerIsGone /\ OwnerWindowPasses)
    /\ \A p \in Process : PiFairness(p)

FairSpec == Spec /\ Fairness

------------------------------------------------------------------------------
(* Properties.                                                              *)

Settled(k) == outcome[k] # "none"

\* The place of a sent key in the relay log.
Place(k) == CHOOSE n \in 1..Len(relayLog) : relayLog[n] = k

Queued(k) == \E e \in commands : e.key = k /\ e.status = "queued"

\* What the extension may take for the acceptance of a command: Pi took it, or
\* another prompt started while it was waited for.
Confirmed(k) == taken[k] > 0 \/ k \in mistaken

\* accepted_by_pi is confirmed by the extension: the daemon records it only for
\* a command Pi took, or one whose wait the start of another prompt ended,
\* whatever acks are late, repeated, or left over from an earlier queue whose
\* sequence numbers are in use again (run.ts, onPiExtensionCommandAckHandler;
\* isStalePiCommandAck; piExtensionInstall.ts, before_agent_start).
AcceptedWasConfirmed ==
    \A k \in Command : outcome[k] = "accepted_by_pi" => Confirmed(k)

\* What accepted_by_pi says.  It holds while no prompt starts that nobody waits for.
AcceptedWasTaken ==
    \A k \in Command : outcome[k] = "accepted_by_pi" => taken[k] > 0

\* No silent loss: a command sent once the boundary is fixed is settled, or a
\* restart would replay it and, once the mirror has routed it, it is queued
\* (run.ts, ensurePiSessionMirror and queueRemotePiCommand).
NoSilentLoss ==
    \A k \in covered :
        \/ Settled(k)
        \/ /\ Place(k) > boundary
           /\ (mirrorUp /\ Place(k) <= receiveSeq) => Queued(k)

\* FIFO by relay sequence, abort excepted: when Pi has taken an ordinary
\* command, every earlier one was taken or settled (selectNextQueuedPiCommand,
\* removeTerminalPiCommandPrefix).
Fifo ==
    \A k \in Sent \ Urgent, d \in covered :
        (taken[k] > 0 /\ Place(d) < Place(k)) => taken[d] > 0 \/ Settled(d)

\* A command Pi was offered fails only after the promised number of attempts:
\* an ack that is sent twice, or lands late, counts once (deliveryToken,
\* applyPiCommandFailure).
FailedAfterAttempts ==
    \A k \in Command \ refused :
        outcome[k] = "failed" => attempts[k] >= IF k \in Direct THEN 1 ELSE MaxFailures

\* A remote command runs at most once, across daemon and Pi restarts, reloads,
\* lost acks and ledger faults (getExecutedCommandState).
TakenAtMostOnce == \A k \in Command : taken[k] <= 1

\* When a Pi process stays, every command sent under the boundary is settled in
\* the end: the daemon restarts, the queue is claimed, acks are answered.
EveryCommandSettles ==
    (\E p \in Process : <>[](phase[p] = "running"))
        => \A k \in Command : (k \in covered) ~> Settled(k)

------------------------------------------------------------------------------
(* The inductive invariant.                                                 *)

\* A process that is not idle holds an envelope; past the ledger check it has
\* read the ledger.
HoldsJob ==
    \A p \in Process :
        /\ pc[p] # "idle" => job[p] # NoJob
        /\ pc[p] \in {"begin", "running", "waiting", "ran", "threw"} => ledgerCache[p] # NotLoaded

\* Sequence numbers identify the entries of a queue, and a queued entry has a
\* failure left.
QueueWellFormed ==
    /\ ~mirrorUp => commands = {}
    /\ \A e \in commands :
          /\ e.seq < nextCommandSeq
          /\ e.status = "queued" => e.failures < MaxFailures
          /\ \A d \in commands : d.seq = e.seq => d = e

\* Whatever was polled from the present queue still names the same command.
FromQueue(j) ==
    /\ j.epoch <= commandQueueEpoch
    /\ (mirrorUp /\ j.epoch = commandQueueEpoch) =>
          /\ j.seq < nextCommandSeq
          /\ \A e \in commands : e.seq = j.seq => e.key = j.key

\* A report of success was preceded by the confirmation of the command.
Honest(j) == j.ok => Confirmed(j.key)

JobsHonest ==
    /\ \A p \in Process :
          /\ job[p] # NoJob => FromQueue(job[p]) /\ Honest(job[p])
          /\ pc[p] = "ran" => Confirmed(job[p].key)
    /\ \A a \in inFlight : FromQueue(a.job) /\ Honest(a.job)

\* The extension's ledgers call a command accepted only when it was confirmed.
LedgersHonest ==
    \A k \in Command :
        /\ ledgerFile[k] = "accepted_by_pi" => Confirmed(k)
        /\ \A p \in Process :
              (ledgerCache[p] # NotLoaded /\ ledgerCache[p][k] = "accepted_by_pi")
                  => Confirmed(k)

IInv ==
    /\ TypeOK
    /\ HoldsJob
    /\ QueueWellFormed
    /\ JobsHonest
    /\ LedgersHonest
    /\ AcceptedWasConfirmed

------------------------------------------------------------------------------
(* Why failures are counted once, and why nothing is lost.                  *)

\* The failures of an entry were reported, and a report of failure on its way
\* is one more than the token it carries.
AttemptsCounted ==
    /\ \A e \in commands : e.failures <= attempts[e.key]
    /\ \A p \in Process : job[p] # NoJob =>
          /\ job[p].failures < MaxFailures
          /\ job[p].failures <= attempts[job[p].key]
          /\ (pc[p] = "acking" /\ ~job[p].ok) => job[p].failures < attempts[job[p].key]
    /\ \A a \in inFlight : ~a.job.ok => a.job.failures < attempts[a.job.key]

CountInv ==
    /\ AttemptsCounted
    /\ FailedAfterAttempts

\* A key is logged once; a command is covered when it was sent behind a
\* boundary, and a mirror routes no further than the log goes.
LogWellFormed ==
    /\ \A m, n \in 1..Len(relayLog) : relayLog[m] = relayLog[n] => m = n
    /\ covered \subseteq Sent
    /\ IF boundary = NoBoundary THEN covered = {} /\ ~mirrorUp
       ELSE boundary <= Len(relayLog)
    /\ mirrorUp => receiveSeq <= Len(relayLog)

\* What is no longer queued has its outcome on disk.
TerminalIsSettled == \A e \in commands : e.status # "queued" => Settled(e.key)

LossInv ==
    /\ LogWellFormed
    /\ TerminalIsSettled
    /\ NoSilentLoss

------------------------------------------------------------------------------
(* Why commands keep their order.                                           *)

\* Whoever sent k before its turn would overtake an earlier command.
InTurn(k) ==
    k \in Urgent \/ \A d \in covered : Place(d) < Place(k) => taken[d] > 0 \/ Settled(d)

\* The mirror routes the log in order and numbers what it queues.
QueueInOrder ==
    /\ \A e \in commands : e.key \in Sent /\ Place(e.key) <= receiveSeq
    /\ \A e, d \in commands : e.seq < d.seq => Place(e.key) < Place(d.key)

\* Every message behind the boundary is a covered one.
BoundaryCovers ==
    boundary # NoBoundary => \A n \in boundary + 1 .. Len(relayLog) : relayLog[n] \in covered

\* What a process holds, what Pi may still take late, and what it has taken.
HandedOut ==
    {k \in Command : \/ taken[k] > 0
                     \/ \E p \in Process : k \in late[p]
                     \/ \E p \in Process : job[p] # NoJob /\ job[p].key = k}

HandedOutInTurn == \A k \in HandedOut : k \in Sent /\ InTurn(k)

FifoInv ==
    /\ QueueInOrder
    /\ BoundaryCovers
    /\ HandedOutInTurn
==============================================================================
