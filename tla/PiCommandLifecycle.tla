-------------------------- MODULE PiCommandLifecycle --------------------------
(***************************************************************************)
(* The delivery of phone commands refines the lifecycle a user is promised *)
(* (CommandLifecycle), where the program is sheltered from the races that  *)
(* break that promise.                                                     *)
(***************************************************************************)
EXTENDS PiCommandDelivery

LifecycleStatus(k) ==
    IF Settled(k) THEN outcome[k]
    ELSE IF k \in Sent THEN "pending"
    ELSE "unsent"

Lifecycle == INSTANCE CommandLifecycle
                 WITH status <- [k \in Command |-> LifecycleStatus(k)]

\* Daemon, queue, extension and ledgers together behave like the abstract
\* lifecycle: each command is taken at most once, before it is settled or after the
\* start of another prompt was mistaken for its own; it is accepted only after one
\* of the two, and its outcome is final.
ImplementsLifecycle == Lifecycle!Spec

\* No message has attachments, which are settled without a look at the ledger;
\* Pi takes no prompt whose wait timed out; one Pi process runs the session at a
\* time; and no ack outlives a /reload of its sender.  Daemon crashes, Pi crashes,
\* ledger faults, lost and late acks remain, and so do terminal prompts that start
\* while a command is waited for, and what they leave with Pi.
Sheltered ==
    /\ WithImages = {}
    /\ ~LateConfirm
    /\ ~Overlap
    /\ MaxReloads = 0 \/ MaxLateAcks = 0

------------------------------------------------------------------------------
(* The inductive invariant of the refinement.                               *)

SoleProcess ==
    /\ \A p, q \in Process : Alive(p) /\ Alive(q) => p = q
    /\ \A p \in Process : ~Alive(p) => pc[p] = "idle" /\ ledgerCache[p] = NotLoaded

\* What Pi took, or was mistaken for taken, is in every ledger a process may
\* consult; a process that is about to call Pi, or waits for it, has written the
\* command down, and it was not taken before.  Pi holds only what was mistaken.
LedgersGuard ==
    /\ \A k \in Command :
          /\ taken[k] <= 1
          /\ Confirmed(k) =>
                /\ ledgerFile[k] # "none"
                /\ \A p \in Process :
                      ledgerCache[p] # NotLoaded => ledgerCache[p][k] # "none"
    /\ \A p \in Process :
          /\ ~Alive(p) => late[p] = {}
          /\ \A k \in late[p] : k \in mistaken /\ taken[k] = 0
          /\ pc[p] \in {"begin", "running", "waiting", "threw"} => ~Confirmed(job[p].key)
          /\ pc[p] \in {"running", "waiting"} =>
                /\ ledgerFile[job[p].key] # "none"
                /\ ledgerCache[p][job[p].key] # "none"

\* The mirror routes from the boundary on.  The queue holds covered commands,
\* within its limit, and what is queued has no outcome yet.
QueuePending ==
    /\ mirrorUp => boundary <= receiveSeq
    /\ IsFiniteSet(commands)
    /\ Cardinality(commands) <= MaxCommands
    /\ \A e \in commands :
          /\ e.key \in covered \ Unsupported
          /\ e.status = "queued" => ~Settled(e.key)

\* What stands before k in the queue now or when the log is replayed.
Ahead(k) ==
    {d \in covered : /\ Place(d) < Place(k)
                     /\ ~Settled(d) \/ \E e \in commands : e.key = d}

AtWork(p, k) == pc[p] \in {"polled", "begin", "running", "waiting"} /\ job[p].key = k

\* A command on its way to Pi is pending, and no replay finds the queue full
\* when its turn comes.
WorkPending ==
    \A p \in Process, k \in Command : AtWork(p, k) =>
        /\ k \in covered \ Unsupported
        /\ ~Settled(k)
        /\ IsFiniteSet(Ahead(k))
        /\ Cardinality(Ahead(k)) < MaxCommands

\* No envelope carries a token its entry has still to be given.
Issued(j) ==
    (mirrorUp /\ j.epoch = commandQueueEpoch) =>
        \A e \in commands : e.seq = j.seq => j.failures <= e.failures

TokensIssued ==
    /\ \A p \in Process : pc[p] # "idle" => Issued(job[p])
    /\ \A a \in inFlight : Issued(a.job)

Token(j) == <<j.epoch, j.seq, j.failures>>

\* While Pi is not reloaded a process that polled the present queue owns it, and
\* so does the sender of a late ack, or it is gone.
OwnersStay ==
    /\ \A p \in Process : instance[p] = 0
    /\ \A p \in Process :
          (pc[p] # "idle" /\ mirrorUp /\ job[p].epoch = commandQueueEpoch)
              => activeInstance = Current(p)
    /\ \A a \in inFlight :
          /\ a.from = Current(a.from[1]) /\ phase[a.from[1]] # "unborn"
          /\ (mirrorUp /\ a.job.epoch = commandQueueEpoch)
                 => activeInstance = a.from \/ ~Alive(a.from[1])

\* The sender of a is gone, or p is it and waits to send the same ack again.
WaitsForAck(p, a) ==
    \/ pc[p] = "idle" /\ (p = a.from[1] => ~Alive(p))
    \/ pc[p] = "acking" /\ p = a.from[1] /\ Token(job[p]) = Token(a.job)

\* A late ack that still settles an entry meets no process at work.
LateAcksHarmless ==
    /\ MaxLateAcks = 0 => inFlight = {}
    /\ MaxReloads = 0 => OwnersStay
    /\ \A a \in inFlight :
          AckedEntry(a) # {} => \A p \in Process : WaitsForAck(p, a)

LifecycleInv ==
    /\ SoleProcess
    /\ LedgersGuard
    /\ QueuePending
    /\ WorkPending
    /\ TokensIssued
    /\ LateAcksHarmless
==============================================================================
