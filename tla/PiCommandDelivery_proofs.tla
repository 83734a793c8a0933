----------------------- MODULE PiCommandDelivery_proofs -----------------------
(***************************************************************************)
(* Proofs about PiCommandDelivery, for any commands, processes and bounds. *)
(***************************************************************************)
EXTENDS PiCommandDelivery, TLAPS

\* The groups of variables are only names in UNCHANGED.
USE DEF durableVars, queueVars, mirrorVars, ownerVars, daemonVars, jobVars,
        ledgerVars, processVars, piVars, historyVars, boundVars

\* The bounds are numbers, and a command has at least one attempt.
LEMMA BoundsAreNat ==
    /\ MaxDaemonCrashes \in Nat
    /\ MaxReloads \in Nat
    /\ MaxDiskFaults \in Nat
    /\ MaxFailures \in Nat \ {0}
BY DeliveryAssumption DEF DeliveryAssumption

\* What a process holds and what is in flight are envelopes the daemon made.
LEMMA EnvelopesAreJobs ==
    ASSUME TypeOK
    PROVE  /\ \A p \in Process : job[p] # NoJob => job[p] \in Job
           /\ \A a \in inFlight : a \in Ack /\ a.job \in Job /\ a.from \in Instance
           /\ \A j \in Job : /\ j.epoch \in Nat
                             /\ j.seq \in Nat
                             /\ j.failures \in Nat
                             /\ j.key \in Command
                             /\ j.ok \in BOOLEAN
BY DEF TypeOK, Ack, Job

\* A process reports under the instance id of its present extension.
LEMMA CurrentIsInstance ==
    ASSUME TypeOK, NEW p \in Process
    PROVE  Current(p) \in Instance
BY DEF TypeOK, Current, Instance

\* Nothing was sent, no daemon or Pi has started.
LEMMA InitIInv == Init => IInv
<1> SUFFICES ASSUME Init PROVE IInv
    OBVIOUS
<1> USE DeliveryAssumption
<1>1. TypeOK
  <2>1. {MaxDaemonCrashes, MaxReloads, MaxDiskFaults} \subseteq Nat
    BY DEF DeliveryAssumption
  <2>2. crashes \in 0..MaxDaemonCrashes /\ reloads \in 0..MaxReloads /\ faults \in 0..MaxDiskFaults
    BY <2>1 DEF Init
  <2>3. relayLog \in Seq(Command) /\ attempts \in [Command -> 0..MaxFailures]
    BY DEF Init, DeliveryAssumption
  <2>4. /\ outcome \in [Command -> Outcome] /\ ledgerFile \in Ledger
        /\ pc \in [Process -> PC]
    BY DEF Init, Outcome, Ledger, LedgerState, PC
  <2> QED
    BY <2>2, <2>3, <2>4 DEF Init, TypeOK
<1>2. HoldsJob /\ QueueWellFormed /\ LedgersHonest /\ AcceptedWasConfirmed
    BY DEF Init, HoldsJob, QueueWellFormed, LedgersHonest, AcceptedWasConfirmed, Confirmed
<1>3. JobsHonest
    BY DEF Init, JobsHonest
<1> QED
    BY <1>1, <1>2, <1>3 DEF IInv

\* A message of the phone only lengthens the log.
LEMMA SendCommandIInv ==
    ASSUME IInv, NEW k \in Command, SendCommand(k)
    PROVE  IInv'
<1>1. TypeOK'
    BY DEF IInv, TypeOK, SendCommand
<1>2. HoldsJob'
    BY DEF IInv, TypeOK, HoldsJob, SendCommand
<1>3. QueueWellFormed'
    BY DEF IInv, TypeOK, QueueWellFormed, SendCommand
<1>4. JobsHonest'
    BY DEF IInv, TypeOK, JobsHonest, FromQueue, Honest, Confirmed, SendCommand
<1>5. LedgersHonest' /\ AcceptedWasConfirmed'
    BY DEF IInv, TypeOK, LedgersHonest, AcceptedWasConfirmed, Confirmed, SendCommand
<1> QED
    BY <1>1, <1>2, <1>3, <1>4, <1>5 DEF IInv

\* A daemon starts without mirrors, on the files the last one left.
LEMMA DaemonStartIInv ==
    ASSUME IInv, DaemonStart
    PROVE  IInv'
<1>1. TypeOK'
    BY DEF IInv, TypeOK, DaemonStart
<1>2. HoldsJob'
    BY DEF IInv, TypeOK, HoldsJob, DaemonStart
<1>3. QueueWellFormed'
    BY DEF IInv, TypeOK, QueueWellFormed, DaemonStart
<1>4. JobsHonest'
    BY DEF IInv, TypeOK, JobsHonest, FromQueue, Honest, Confirmed, DaemonStart
<1>5. LedgersHonest' /\ AcceptedWasConfirmed'
    BY DEF IInv, TypeOK, LedgersHonest, AcceptedWasConfirmed, Confirmed, DaemonStart
<1> QED
    BY <1>1, <1>2, <1>3, <1>4, <1>5 DEF IInv

\* A crash drops the queue; acks in flight stay honest about its epoch.
LEMMA DaemonCrashIInv ==
    ASSUME IInv, DaemonCrash
    PROVE  IInv'
<1>1. TypeOK'
  <2>1. crashes' \in 0..MaxDaemonCrashes
    BY BoundsAreNat DEF IInv, TypeOK, DaemonCrash
  <2>2. commands' \subseteq Entry /\ inFlight' \subseteq Ack /\ nextCommandSeq' \in Nat /\ receiveSeq' \in Nat
    BY DEF DaemonCrash, NoMirror
  <2> QED
    BY <2>1, <2>2 DEF IInv, TypeOK, DaemonCrash, NoMirror
<1>2. HoldsJob'
    BY DEF IInv, TypeOK, HoldsJob, DaemonCrash, NoMirror
<1>3. QueueWellFormed'
    BY DEF IInv, TypeOK, QueueWellFormed, DaemonCrash, NoMirror
<1>4. JobsHonest'
    BY DEF IInv, TypeOK, JobsHonest, FromQueue, Honest, Confirmed, DaemonCrash, NoMirror
<1>5. LedgersHonest' /\ AcceptedWasConfirmed'
    BY DEF IInv, TypeOK, LedgersHonest, AcceptedWasConfirmed, Confirmed, DaemonCrash, NoMirror
<1> QED
    BY <1>1, <1>2, <1>3, <1>4, <1>5 DEF IInv

\* A mirror begins a new epoch with an empty queue (ensurePiSessionMirror).
LEMMA OpenMirrorIInv ==
    ASSUME IInv, OpenMirror
    PROVE  IInv'
<1>1. TypeOK'
  <2>1. CommandBoundary \in Nat
    BY DEF IInv, TypeOK, CommandBoundary
  <2>2. commandQueueEpoch' \in Nat /\ commands' \subseteq Entry /\ nextCommandSeq' \in Nat
    BY DEF IInv, TypeOK, OpenMirror
  <2> QED
    BY <2>1, <2>2 DEF IInv, TypeOK, OpenMirror
<1>2. HoldsJob'
    BY DEF IInv, TypeOK, HoldsJob, OpenMirror, CommandBoundary
<1>3. QueueWellFormed'
    BY DEF IInv, TypeOK, QueueWellFormed, OpenMirror, CommandBoundary
<1>4. JobsHonest'
  <2>1. \A j \in Job : FromQueue(j) => FromQueue(j)'
    BY EnvelopesAreJobs DEF IInv, TypeOK, OpenMirror, FromQueue
  <2> QED
    BY <2>1, EnvelopesAreJobs DEF IInv, OpenMirror, JobsHonest, Honest, Confirmed
<1>5. LedgersHonest' /\ AcceptedWasConfirmed'
    BY DEF IInv, TypeOK, LedgersHonest, AcceptedWasConfirmed, Confirmed, OpenMirror, CommandBoundary
<1> QED
    BY <1>1, <1>2, <1>3, <1>4, <1>5 DEF IInv

\* An event may give the queue another owner, never another command.
LEMMA ExtensionEventIInv ==
    ASSUME IInv, NEW p \in Process, ExtensionEvent(p)
    PROVE  IInv'
<1>1. TypeOK'
  <2>1. activeInstance' \in Instance \cup {NoOwner} /\ ownerFresh' \in BOOLEAN
    BY CurrentIsInstance DEF IInv, TypeOK, ExtensionEvent
  <2> QED
    BY <2>1 DEF IInv, TypeOK, ExtensionEvent
<1>2. HoldsJob'
    BY DEF IInv, TypeOK, HoldsJob, ExtensionEvent, ClaimAccepted, isPiExtensionCommandOwner, Current, Instance
<1>3. QueueWellFormed'
    BY DEF IInv, TypeOK, QueueWellFormed, ExtensionEvent, ClaimAccepted, isPiExtensionCommandOwner, Current, Instance
<1>4. JobsHonest'
    BY DEF IInv, TypeOK, JobsHonest, FromQueue, Honest, Confirmed, ExtensionEvent, ClaimAccepted, isPiExtensionCommandOwner, Current, Instance
<1>5. LedgersHonest' /\ AcceptedWasConfirmed'
    BY DEF IInv, TypeOK, LedgersHonest, AcceptedWasConfirmed, Confirmed, ExtensionEvent, ClaimAccepted, isPiExtensionCommandOwner, Current, Instance
<1> QED
    BY <1>1, <1>2, <1>3, <1>4, <1>5 DEF IInv

\* Without the event of a /reload the owner stays the old instance.
LEMMA ReloadEventDroppedIInv ==
    ASSUME IInv, NEW p \in Process, ReloadEventDropped(p)
    PROVE  IInv'
<1>1. TypeOK'
    BY DEF IInv, TypeOK, ReloadEventDropped
<1>2. HoldsJob'
    BY DEF IInv, TypeOK, HoldsJob, ReloadEventDropped
<1>3. QueueWellFormed'
    BY DEF IInv, TypeOK, QueueWellFormed, ReloadEventDropped
<1>4. JobsHonest'
    BY DEF IInv, TypeOK, JobsHonest, FromQueue, Honest, Confirmed, ReloadEventDropped
<1>5. LedgersHonest' /\ AcceptedWasConfirmed'
    BY DEF IInv, TypeOK, LedgersHonest, AcceptedWasConfirmed, Confirmed, ReloadEventDropped
<1> QED
    BY <1>1, <1>2, <1>3, <1>4, <1>5 DEF IInv

\* The passing of the owner's window touches no command.
LEMMA OwnerWindowPassesIInv ==
    ASSUME IInv, OwnerWindowPasses
    PROVE  IInv'
<1>1. TypeOK'
    BY DEF IInv, TypeOK, OwnerWindowPasses
<1>2. HoldsJob'
    BY DEF IInv, TypeOK, HoldsJob, OwnerWindowPasses
<1>3. QueueWellFormed'
    BY DEF IInv, TypeOK, QueueWellFormed, OwnerWindowPasses
<1>4. JobsHonest'
    BY DEF IInv, TypeOK, JobsHonest, FromQueue, Honest, Confirmed, OwnerWindowPasses
<1>5. LedgersHonest' /\ AcceptedWasConfirmed'
    BY DEF IInv, TypeOK, LedgersHonest, AcceptedWasConfirmed, Confirmed, OwnerWindowPasses
<1> QED
    BY <1>1, <1>2, <1>3, <1>4, <1>5 DEF IInv

\* The shutdown of an owner ends the mirror and its queue, of anyone else nothing.
LEMMA SessionShutdownIInv ==
    ASSUME IInv, NEW p \in Process, SessionShutdown(p)
    PROVE  IInv'
<1>1. TypeOK'
  <2>1. /\ mirrorUp' \in BOOLEAN /\ ownerFresh' \in BOOLEAN
        /\ commandQueueEpoch' \in Nat /\ nextCommandSeq' \in Nat /\ receiveSeq' \in Nat
        /\ commands' \subseteq Entry
        /\ activeInstance' \in Instance \cup {NoOwner}
    <3>1. CASE mirrorUp /\ ClaimAccepted(p)
      <4>1. NoMirror
        BY <3>1 DEF SessionShutdown
      <4> QED
        BY <4>1 DEF NoMirror, IInv, TypeOK
    <3>2. CASE ~(mirrorUp /\ ClaimAccepted(p))
      BY <3>2 DEF IInv, TypeOK, SessionShutdown
    <3> QED
      BY <3>1, <3>2
  <2> QED
    BY <2>1 DEF IInv, TypeOK, SessionShutdown
<1>2. HoldsJob'
    BY DEF IInv, TypeOK, HoldsJob, SessionShutdown, NoMirror
<1>3. QueueWellFormed'
    BY DEF IInv, TypeOK, QueueWellFormed, SessionShutdown, NoMirror
<1>4. JobsHonest'
    BY DEF IInv, TypeOK, JobsHonest, FromQueue, Honest, Confirmed, SessionShutdown, NoMirror
<1>5. LedgersHonest' /\ AcceptedWasConfirmed'
    BY DEF IInv, TypeOK, LedgersHonest, AcceptedWasConfirmed, Confirmed, SessionShutdown, NoMirror
<1> QED
    BY <1>1, <1>2, <1>3, <1>4, <1>5 DEF IInv

\* A Pi process starts as it was created: no envelope, no ledger read.
LEMMA StartPiIInv ==
    ASSUME IInv, NEW p \in Process, StartPi(p)
    PROVE  IInv'
<1>1. TypeOK'
    BY DEF IInv, TypeOK, StartPi
<1>2. HoldsJob'
    BY DEF IInv, TypeOK, HoldsJob, StartPi
<1>3. QueueWellFormed'
    BY DEF IInv, TypeOK, QueueWellFormed, StartPi
<1>4. JobsHonest'
    BY DEF IInv, TypeOK, JobsHonest, FromQueue, Honest, Confirmed, StartPi
<1>5. LedgersHonest' /\ AcceptedWasConfirmed'
    BY DEF IInv, TypeOK, LedgersHonest, AcceptedWasConfirmed, Confirmed, StartPi
<1> QED
    BY <1>1, <1>2, <1>3, <1>4, <1>5 DEF IInv

\* A dead process leaves its envelope behind and the ledger on disk.
LEMMA ExitPiIInv ==
    ASSUME IInv, NEW p \in Process, ExitPi(p)
    PROVE  IInv'
<1>1. TypeOK'
    BY DEF IInv, TypeOK, ExitPi, PC
<1>2. HoldsJob'
    BY DEF IInv, TypeOK, HoldsJob, ExitPi, PC
<1>3. QueueWellFormed'
    BY DEF IInv, TypeOK, QueueWellFormed, ExitPi, PC
<1>4. JobsHonest'
    BY DEF IInv, TypeOK, JobsHonest, FromQueue, Honest, Confirmed, ExitPi, PC
<1>5. LedgersHonest' /\ AcceptedWasConfirmed'
    BY DEF IInv, TypeOK, LedgersHonest, AcceptedWasConfirmed, Confirmed, ExitPi, PC
<1> QED
    BY <1>1, <1>2, <1>3, <1>4, <1>5 DEF IInv

\* After a /reload the process has a new instance id and the same ledger.
LEMMA ReloadPiIInv ==
    ASSUME IInv, NEW p \in Process, ReloadPi(p)
    PROVE  IInv'
<1>1. TypeOK'
  <2>1. reloads' \in 0..MaxReloads
    BY BoundsAreNat DEF IInv, TypeOK, ReloadPi
  <2> QED
    BY <2>1 DEF IInv, TypeOK, ReloadPi
<1>2. HoldsJob'
    BY DEF IInv, TypeOK, HoldsJob, ReloadPi, DeliveryAssumption
<1>3. QueueWellFormed'
    BY DEF IInv, TypeOK, QueueWellFormed, ReloadPi, DeliveryAssumption
<1>4. JobsHonest'
    BY DEF IInv, TypeOK, JobsHonest, FromQueue, Honest, Confirmed, ReloadPi, DeliveryAssumption
<1>5. LedgersHonest' /\ AcceptedWasConfirmed'
    BY DEF IInv, TypeOK, LedgersHonest, AcceptedWasConfirmed, Confirmed, ReloadPi, DeliveryAssumption
<1> QED
    BY <1>1, <1>2, <1>3, <1>4, <1>5 DEF IInv

\* Losing a late ack changes nothing else.
LEMMA LateAckLostIInv ==
    ASSUME IInv, NEW a \in inFlight, LateAckLost(a)
    PROVE  IInv'
<1>1. TypeOK'
    BY DEF IInv, TypeOK, LateAckLost
<1>2. HoldsJob'
    BY DEF IInv, TypeOK, HoldsJob, LateAckLost
<1>3. QueueWellFormed'
    BY DEF IInv, TypeOK, QueueWellFormed, LateAckLost
<1>4. JobsHonest'
    BY DEF IInv, TypeOK, JobsHonest, FromQueue, Honest, Confirmed, LateAckLost
<1>5. LedgersHonest' /\ AcceptedWasConfirmed'
    BY DEF IInv, TypeOK, LedgersHonest, AcceptedWasConfirmed, Confirmed, LateAckLost
<1> QED
    BY <1>1, <1>2, <1>3, <1>4, <1>5 DEF IInv

------------------------------------------------------------------------------
(* Queueing a message.                                                      *)

\* What queueing a message does: the queue grows at its end or stays, and no
\* outcome becomes "accepted_by_pi".
LEMMA HandleMessageEffect ==
    ASSUME TypeOK, NEW k \in Command, HandleMessage(k)
    PROVE  /\ outcome' \in [Command -> Outcome]
           /\ refused' \subseteq Command
           /\ \A c \in Command : outcome'[c] = "accepted_by_pi" => outcome[c] = "accepted_by_pi"
           /\ \/ UNCHANGED queueVars
              \/ /\ commands' = commands \cup
                       {[seq |-> nextCommandSeq, key |-> k, status |-> "queued", failures |-> 0]}
                 /\ nextCommandSeq' = nextCommandSeq + 1
<1>1. CASE markRemotePiCommandFailed(k)
    BY <1>1 DEF TypeOK, markRemotePiCommandFailed, Outcome
<1>2. CASE UNCHANGED <<outcome, refused>> /\ (UNCHANGED queueVars \/
              /\ commands' = commands \cup
                    {[seq |-> nextCommandSeq, key |-> k, status |-> "queued", failures |-> 0]}
              /\ nextCommandSeq' = nextCommandSeq + 1)
    BY <1>2 DEF TypeOK
<1> QED
    BY <1>1, <1>2 DEF HandleMessage, queueRemotePiCommand

\* The facts about the queue survive the arrival of an entry.
LEMMA QueueGrows ==
    ASSUME IInv, mirrorUp, NEW k \in Command, HandleMessage(k),
           UNCHANGED <<mirrorUp, commandQueueEpoch, taken, mistaken, jobVars, inFlight>>
    PROVE  /\ commands' \subseteq Entry
           /\ nextCommandSeq' \in Nat
           /\ QueueWellFormed'
           /\ JobsHonest'
<1> DEFINE new == [seq |-> nextCommandSeq, key |-> k, status |-> "queued", failures |-> 0]
<1>1. CASE UNCHANGED queueVars
    BY <1>1 DEF IInv, TypeOK, QueueWellFormed, JobsHonest, FromQueue, Honest, Confirmed
<1>2. CASE commands' = commands \cup {new} /\ nextCommandSeq' = nextCommandSeq + 1
  <2>1. /\ nextCommandSeq \in Nat
        /\ new \in Entry /\ new.seq = nextCommandSeq /\ new.key = k
        /\ new.status = "queued" /\ new.failures = 0
        /\ \A e \in commands : e \in Entry /\ e.seq \in Nat
    BY BoundsAreNat DEF IInv, TypeOK, Entry, Status
  <2> HIDE DEF new
  <2>2. commands' \subseteq Entry /\ nextCommandSeq' \in Nat
    BY <1>2, <2>1 DEF IInv, TypeOK
  <2>3. QueueWellFormed'
    BY <1>2, <2>1, BoundsAreNat DEF IInv, QueueWellFormed
  <2>4. \A j \in Job : FromQueue(j) => FromQueue(j)'
    BY <1>2, <2>1, EnvelopesAreJobs DEF IInv, FromQueue
  <2>5. JobsHonest'
    BY <2>4, EnvelopesAreJobs DEF IInv, JobsHonest, Honest, Confirmed
  <2> QED
    BY <2>2, <2>3, <2>5
<1> QED
    BY <1>1, <1>2, HandleMessageEffect DEF IInv

\* Routing settles a message or queues it under a fresh number (queueRemotePiCommand).
LEMMA RouteMessageIInv ==
    ASSUME IInv, RouteMessage
    PROVE  IInv'
<1> DEFINE k == relayLog[receiveSeq + 1]
<1>1. k \in Command /\ HandleMessage(k) /\ receiveSeq' \in Nat
    BY DEF IInv, TypeOK, RouteMessage
<1> HIDE DEF k
<1>2. commands' \subseteq Entry /\ nextCommandSeq' \in Nat /\ QueueWellFormed' /\ JobsHonest'
    BY <1>1, QueueGrows DEF RouteMessage
<1>3. /\ outcome' \in [Command -> Outcome] /\ refused' \subseteq Command
      /\ \A c \in Command : outcome'[c] = "accepted_by_pi" => outcome[c] = "accepted_by_pi"
    BY <1>1, HandleMessageEffect DEF IInv
<1>4. TypeOK'
    BY <1>1, <1>2, <1>3 DEF IInv, TypeOK, RouteMessage
<1>5. HoldsJob' /\ LedgersHonest' /\ AcceptedWasConfirmed'
    BY <1>3 DEF IInv, HoldsJob, LedgersHonest, AcceptedWasConfirmed, Confirmed, RouteMessage
<1> QED
    BY <1>2, <1>4, <1>5 DEF IInv

\* A message that is routed twice is queued once.
LEMMA RouteAgainIInv ==
    ASSUME IInv, NEW n \in 1..Len(relayLog), RouteAgain(n)
    PROVE  IInv'
<1> DEFINE k == relayLog[n]
<1>1. k \in Command /\ HandleMessage(k)
    BY DEF IInv, TypeOK, RouteAgain
<1> HIDE DEF k
<1>2. commands' \subseteq Entry /\ nextCommandSeq' \in Nat /\ QueueWellFormed' /\ JobsHonest'
    BY <1>1, QueueGrows DEF RouteAgain
<1>3. /\ outcome' \in [Command -> Outcome] /\ refused' \subseteq Command
      /\ \A c \in Command : outcome'[c] = "accepted_by_pi" => outcome[c] = "accepted_by_pi"
    BY <1>1, HandleMessageEffect DEF IInv
<1>4. TypeOK'
    BY <1>2, <1>3 DEF IInv, TypeOK, RouteAgain
<1>5. HoldsJob' /\ LedgersHonest' /\ AcceptedWasConfirmed'
    BY <1>3 DEF IInv, HoldsJob, LedgersHonest, AcceptedWasConfirmed, Confirmed, RouteAgain
<1> QED
    BY <1>2, <1>4, <1>5 DEF IInv

------------------------------------------------------------------------------
(* Handling an ack.                                                         *)

\* An ack rewrites at most the entry it names, in place, and only an honest
\* ack makes an outcome "accepted_by_pi".
LEMMA AckEffect ==
    ASSUME IInv, NEW a \in Ack, FromQueue(a.job), Honest(a.job),
           onPiExtensionCommandAck(a)
    PROVE  /\ commands' \subseteq Entry
           /\ outcome' \in [Command -> Outcome]
           /\ \A c \in Command : outcome'[c] = "accepted_by_pi" => Confirmed(c)
           /\ \A d \in commands' :
                 /\ d.status = "queued" => d.failures < MaxFailures
                 /\ \E e \in commands : d.seq = e.seq /\ d.key = e.key
           /\ \A c, d \in commands' : c.seq = d.seq => c = d
<1>1. CASE UNCHANGED <<commands, outcome>>
    BY <1>1 DEF IInv, TypeOK, QueueWellFormed, AcceptedWasConfirmed
<1>2. ASSUME NEW e \in AckedEntry(a),
             \/ a.job.ok /\ Settle(e, "accepted_by_pi")
             \/ ~a.job.ok /\ FailureIsTerminal(e) /\ Settle(e, "failed")
             \/ ~a.job.ok /\ ~FailureIsTerminal(e) /\ Retry(e)
      PROVE  /\ commands' \subseteq Entry
             /\ outcome' \in [Command -> Outcome]
             /\ \A c \in Command : outcome'[c] = "accepted_by_pi" => Confirmed(c)
             /\ \A d \in commands' :
                   /\ d.status = "queued" => d.failures < MaxFailures
                   /\ \E f \in commands : d.seq = f.seq /\ d.key = f.key
             /\ \A c, d \in commands' : c.seq = d.seq => c = d
  <2>1. /\ e \in commands /\ e \in Entry /\ e.status = "queued"
        /\ e.key \in Command /\ e.seq \in Nat /\ e.failures \in Nat /\ e.failures < MaxFailures
        /\ e.key = a.job.key
    BY DEF AckedEntry, isStalePiCommandAck, FromQueue, IInv, TypeOK, QueueWellFormed, Entry, Ack, Job
  <2> DEFINE counted == CountFailure(e)
  <2>2. /\ counted \in Entry /\ counted.seq = e.seq /\ counted.key = e.key
        /\ counted.status = "queued"
        /\ ~FailureIsTerminal(e) => counted.failures < MaxFailures
    BY <2>1, BoundsAreNat DEF CountFailure, FailureIsTerminal, Entry, Status
  <2>3. \E d \in Entry :
           /\ commands' \subseteq (commands \ {e}) \cup {d}
           /\ d.seq = e.seq /\ d.key = e.key
           /\ d.status = "queued" => d.failures < MaxFailures
    <3>1. CASE a.job.ok /\ Settle(e, "accepted_by_pi")
      <4> DEFINE d == [e EXCEPT !.status = "accepted_by_pi"]
      <4>1. d \in Entry /\ d.seq = e.seq /\ d.key = e.key /\ d.status = "accepted_by_pi"
        BY <2>1 DEF Entry, Status
      <4>2. commands' \subseteq (commands \ {e}) \cup {d}
        BY <3>1 DEF Settle, removeTerminalPiCommandPrefix
      <4> QED
        BY <4>1, <4>2
    <3>2. CASE ~a.job.ok /\ FailureIsTerminal(e) /\ Settle(e, "failed")
      <4> DEFINE d == [counted EXCEPT !.status = "failed"]
      <4>1. commands' \subseteq (commands \ {e}) \cup {d}
        BY <3>2 DEF Settle, removeTerminalPiCommandPrefix
      <4> HIDE DEF counted
      <4>2. d \in Entry /\ d.seq = e.seq /\ d.key = e.key /\ d.status = "failed"
        BY <2>2 DEF Entry, Status
      <4> QED
        BY <4>1, <4>2
    <3>3. CASE ~a.job.ok /\ ~FailureIsTerminal(e) /\ Retry(e)
      <4>1. commands' \subseteq (commands \ {e}) \cup {counted}
        BY <3>3 DEF Retry
      <4> HIDE DEF counted
      <4> QED
        BY <2>2, <3>3, <4>1
    <3> QED
      BY <1>2, <3>1, <3>2, <3>3
  <2>4. PICK d \in Entry :
           /\ commands' \subseteq (commands \ {e}) \cup {d}
           /\ d.seq = e.seq /\ d.key = e.key
           /\ d.status = "queued" => d.failures < MaxFailures
    BY <2>3
  <2>5. /\ commands' \subseteq Entry
        /\ \A c \in commands' :
              /\ c.status = "queued" => c.failures < MaxFailures
              /\ \E f \in commands : c.seq = f.seq /\ c.key = f.key
        /\ \A b, c \in commands' : b.seq = c.seq => b = c
    BY <2>1, <2>4 DEF IInv, TypeOK, QueueWellFormed
  <2>6. outcome' \in [Command -> Outcome]
    BY <1>2, <2>1 DEF IInv, TypeOK, Settle, Retry, Outcome
  <2>7. \A c \in Command : outcome'[c] = "accepted_by_pi" => Confirmed(c)
    BY <1>2, <2>1 DEF IInv, TypeOK, AcceptedWasConfirmed, Honest, Confirmed, Settle, Retry
  <2> QED
    BY <2>5, <2>6, <2>7
<1> QED
    BY <1>1, <1>2 DEF onPiExtensionCommandAck

\* The facts about the queue survive an ack.
LEMMA AckKeepsQueue ==
    ASSUME IInv, NEW a \in Ack, FromQueue(a.job), Honest(a.job),
           onPiExtensionCommandAck(a),
           UNCHANGED <<mirrorUp, commandQueueEpoch, nextCommandSeq>>
    PROVE  /\ QueueWellFormed'
           /\ \A j \in Job : FromQueue(j) => FromQueue(j)'
<1>1. QueueWellFormed'
    BY AckEffect DEF IInv, TypeOK, QueueWellFormed
<1>2. \A j \in Job : FromQueue(j) => FromQueue(j)'
    BY AckEffect DEF FromQueue
<1> QED
    BY <1>1, <1>2
\* A late ack is handled as an early one (onPiExtensionCommandAckHandler).
LEMMA LateAckHandledIInv ==
    ASSUME IInv, NEW a \in inFlight, LateAckHandled(a)
    PROVE  IInv'
<1>1. a \in Ack /\ FromQueue(a.job) /\ Honest(a.job) /\ onPiExtensionCommandAck(a)
    BY EnvelopesAreJobs DEF IInv, JobsHonest, LateAckHandled
<1>2. TypeOK'
    BY <1>1, AckEffect DEF IInv, TypeOK, LateAckHandled
<1>3. HoldsJob' /\ LedgersHonest'
    BY DEF IInv, HoldsJob, LedgersHonest, Confirmed, LateAckHandled
<1>4. QueueWellFormed' /\ \A j \in Job : FromQueue(j) => FromQueue(j)'
    BY <1>1, AckKeepsQueue DEF LateAckHandled
<1>5. JobsHonest'
    BY <1>4, EnvelopesAreJobs DEF IInv, JobsHonest, Honest, Confirmed, LateAckHandled
<1>6. AcceptedWasConfirmed'
    BY <1>1, AckEffect DEF AcceptedWasConfirmed, Confirmed, LateAckHandled
<1> QED
    BY <1>2, <1>3, <1>4, <1>5, <1>6 DEF IInv

\* The daemon handles the ack and the loop is idle again.
LEMMA AckAnsweredIInv ==
    ASSUME IInv, NEW p \in Process, AckAnswered(p)
    PROVE  IInv'
<1> DEFINE a == AckOf(p)
<1>1. a \in Ack /\ FromQueue(a.job) /\ Honest(a.job) /\ onPiExtensionCommandAck(a)
  <2>1. job[p] # NoJob /\ job[p] \in Job
    BY EnvelopesAreJobs DEF IInv, HoldsJob, AckAnswered
  <2>2. a.job = job[p] /\ a \in Ack
    BY <2>1, CurrentIsInstance DEF IInv, AckOf, Ack
  <2> QED
    BY <2>1, <2>2 DEF IInv, JobsHonest, AckAnswered
<1> HIDE DEF a
<1>2. TypeOK'
    BY <1>1, AckEffect DEF IInv, TypeOK, AckAnswered, PC
<1>3. HoldsJob' /\ LedgersHonest'
    BY DEF IInv, TypeOK, HoldsJob, LedgersHonest, Confirmed, AckAnswered
<1>4. QueueWellFormed' /\ \A j \in Job : FromQueue(j) => FromQueue(j)'
    BY <1>1, AckKeepsQueue DEF AckAnswered
<1>5. JobsHonest'
    BY <1>4, EnvelopesAreJobs DEF IInv, TypeOK, JobsHonest, Honest, Confirmed, AckAnswered
<1>6. AcceptedWasConfirmed'
    BY <1>1, AckEffect DEF AcceptedWasConfirmed, Confirmed, AckAnswered
<1> QED
    BY <1>2, <1>3, <1>4, <1>5, <1>6 DEF IInv

\* An ack whose sender gives up stays in flight as it was.
LEMMA AckTimesOutIInv ==
    ASSUME IInv, NEW p \in Process, AckTimesOut(p)
    PROVE  IInv'
<1>1. job[p] # NoJob /\ job[p] \in Job
    BY EnvelopesAreJobs DEF IInv, HoldsJob, AckTimesOut
<1>2. AckOf(p) \in Ack /\ AckOf(p).job = job[p]
    BY <1>1, CurrentIsInstance DEF IInv, AckOf, Ack
<1>3. TypeOK'
    BY <1>2 DEF IInv, TypeOK, AckTimesOut
<1>4. HoldsJob' /\ QueueWellFormed' /\ LedgersHonest' /\ AcceptedWasConfirmed'
    BY DEF IInv, HoldsJob, QueueWellFormed, LedgersHonest, AcceptedWasConfirmed, Confirmed, AckTimesOut
<1>5. JobsHonest'
    BY <1>1, <1>2 DEF IInv, JobsHonest, FromQueue, Honest, Confirmed, AckTimesOut
<1> QED
    BY <1>3, <1>4, <1>5 DEF IInv

------------------------------------------------------------------------------
(* The steps of the extension.                                              *)

\* A report keeps the envelope but for its result.
LEMMA ReportEffect ==
    ASSUME IInv, NEW p \in Process, job[p] \in Job, NEW ok \in BOOLEAN, Report(p, ok)
    PROVE  /\ pc' = [pc EXCEPT ![p] = "acking"] /\ pc' \in [Process -> PC]
           /\ job' \in [Process -> Job \cup {NoJob}]
           /\ \A q \in Process \ {p} : job'[q] = job[q]
           /\ job'[p] \in Job /\ job'[p] = [job[p] EXCEPT !.ok = ok]
           /\ attempts' \in [Command -> 0..MaxFailures]
<1>1. pc' = [pc EXCEPT ![p] = "acking"] /\ pc' \in [Process -> PC]
    BY DEF IInv, TypeOK, Report, PC
<1>2. [job[p] EXCEPT !.ok = ok] \in Job
    BY DEF Job
<1>3. job' = [job EXCEPT ![p] = [job[p] EXCEPT !.ok = ok]]
    BY DEF Report
<1>4. attempts' \in [Command -> 0..MaxFailures]
  <2> DEFINE k == job[p].key
  <2>1. k \in Command
    BY DEF Job
  <2>2. attempts' = IF ok \/ attempts[k] = MaxFailures THEN attempts
                    ELSE [attempts EXCEPT ![k] = attempts[k] + 1]
    BY DEF Report
  <2> HIDE DEF k
  <2>3. CASE ok \/ attempts[k] = MaxFailures
    BY <2>2, <2>3 DEF IInv, TypeOK
  <2>4. CASE ~(ok \/ attempts[k] = MaxFailures)
    <3>1. attempts[k] + 1 \in 0..MaxFailures
      BY <2>1, <2>4, BoundsAreNat DEF IInv, TypeOK
    <3> QED
      BY <2>2, <2>4, <3>1 DEF IInv, TypeOK
  <2> QED
    BY <2>3, <2>4
<1> QED
    BY <1>1, <1>2, <1>3, <1>4 DEF IInv, TypeOK

\* Whoever reports still holds an envelope.
LEMMA ReportHoldsJob ==
    ASSUME IInv, NEW p \in Process, job[p] \in Job, NEW ok \in BOOLEAN, Report(p, ok),
           \A q \in Process : ledgerCache[q] # NotLoaded => ledgerCache'[q] # NotLoaded
    PROVE  HoldsJob'
<1>1. /\ pc' = [pc EXCEPT ![p] = "acking"]
      /\ \A q \in Process \ {p} : job'[q] = job[q]
      /\ job'[p] \in Job
    BY ReportEffect
<1>2. job'[p] # NoJob
    BY <1>1, DeliveryAssumption DEF DeliveryAssumption
<1>3. ASSUME NEW q \in Process
      PROVE  /\ pc'[q] # "idle" => job'[q] # NoJob
             /\ pc'[q] \in {"begin", "running", "waiting", "ran", "threw"} => ledgerCache'[q] # NotLoaded
    BY <1>1, <1>2 DEF IInv, TypeOK, HoldsJob
<1> QED
    BY <1>3 DEF HoldsJob

\* Whoever reports, the envelopes stay honest, provided what is reported
\* accepted was confirmed.
LEMMA ReportKeepsJobsHonest ==
    ASSUME IInv, NEW p \in Process, job[p] \in Job, NEW ok \in BOOLEAN, Report(p, ok),
           ok => Confirmed(job[p].key),
           UNCHANGED <<mirrorUp, commandQueueEpoch, nextCommandSeq, commands, inFlight, taken,
                       mistaken>>
    PROVE  JobsHonest'
<1>1. /\ \A q \in Process : pc'[q] = "ran" => pc[q] = "ran" /\ q # p
      /\ \A q \in Process \ {p} : job'[q] = job[q]
      /\ job'[p] = [job[p] EXCEPT !.ok = ok]
    BY ReportEffect DEF IInv, TypeOK
<1>2. /\ job'[p].epoch = job[p].epoch /\ job'[p].seq = job[p].seq
      /\ job'[p].key = job[p].key /\ job'[p].ok = ok
    BY <1>1 DEF Job
<1>3. job[p] # NoJob
    BY DeliveryAssumption DEF DeliveryAssumption
<1>4. FromQueue(job[p])' /\ Honest(job[p])'
    BY <1>2, <1>3 DEF IInv, JobsHonest, FromQueue, Honest, Confirmed
<1>5. ASSUME NEW q \in Process, job'[q] # NoJob
      PROVE  FromQueue(job[q])' /\ Honest(job[q])'
  <2>1. CASE q = p
    BY <1>4, <2>1
  <2>2. CASE q # p
    <3>1. job'[q] = job[q] /\ job[q] # NoJob
      BY <1>1, <1>5, <2>2
    <3> QED
      BY <3>1 DEF IInv, JobsHonest, FromQueue, Honest, Confirmed
  <2> QED
    BY <2>1, <2>2
<1>6. ASSUME NEW q \in Process, pc'[q] = "ran"
      PROVE  Confirmed(job[q].key)'
    BY <1>1, <1>6 DEF IInv, JobsHonest, Confirmed
<1>7. \A a \in inFlight' : FromQueue(a.job)' /\ Honest(a.job)'
    BY DEF IInv, JobsHonest, FromQueue, Honest, Confirmed
<1> QED
    BY <1>5, <1>6, <1>7 DEF JobsHonest

\* What a poll hands out is a queued entry of the present epoch (selectNextQueuedPiCommand).
LEMMA PollIInv ==
    ASSUME IInv, NEW p \in Process, Poll(p)
    PROVE  IInv'
<1>1. PICK e \in selectNextQueuedPiCommand :
         job' = [job EXCEPT ![p] = [epoch |-> commandQueueEpoch, seq |-> e.seq,
                                    failures |-> e.failures, key |-> e.key, ok |-> FALSE]]
    BY DEF Poll
<1> DEFINE j == [epoch |-> commandQueueEpoch, seq |-> e.seq,
                 failures |-> e.failures, key |-> e.key, ok |-> FALSE]
<1>2. e \in commands /\ e \in Entry
    BY DEF selectNextQueuedPiCommand, Oldest, IInv, TypeOK
<1>3. j \in Job
    BY <1>2, BoundsAreNat DEF IInv, TypeOK, Entry, Job
<1>4. FromQueue(j) /\ Honest(j)
    BY <1>2 DEF IInv, TypeOK, QueueWellFormed, FromQueue, Honest, Confirmed
<1>5. job' = [job EXCEPT ![p] = j]
    BY <1>1
<1> HIDE DEF j
<1>6. TypeOK'
    BY <1>3, <1>5 DEF IInv, TypeOK, Poll, PC
<1>7. HoldsJob'
    BY <1>3, <1>5, DeliveryAssumption DEF DeliveryAssumption, IInv, TypeOK, HoldsJob, Poll
<1>8. QueueWellFormed' /\ LedgersHonest' /\ AcceptedWasConfirmed'
    BY DEF IInv, QueueWellFormed, LedgersHonest, AcceptedWasConfirmed, Confirmed, Poll
<1>9. JobsHonest'
    BY <1>4, <1>5 DEF IInv, TypeOK, JobsHonest, FromQueue, Honest, Confirmed, Poll
<1> QED
    BY <1>6, <1>7, <1>8, <1>9 DEF IInv

\* A command in the ledger is answered from it (getExecutedCommandState).
LEMMA ReadLedgerIInv ==
    ASSUME IInv, NEW p \in Process, ReadLedger(p)
    PROVE  IInv'
<1> DEFINE state == LedgerOf(p)[job[p].key]
<1>1. job[p] # NoJob /\ job[p] \in Job /\ job[p].key \in Command
    BY EnvelopesAreJobs DEF IInv, HoldsJob, ReadLedger
<1>2. LedgerOf(p) \in Ledger /\ LedgerOf(p) # NotLoaded
    BY DeliveryAssumption DEF DeliveryAssumption, IInv, TypeOK, LedgerOf, Ledger, LedgerState
<1>3. ledgerCache' = [ledgerCache EXCEPT ![p] = LedgerOf(p)]
    BY DEF ReadLedger, CheckLedger
<1>4. ledgerCache' \in [Process -> Ledger \cup {NotLoaded}]
    BY <1>2, <1>3 DEF IInv, TypeOK
<1>5. \A k \in Command : LedgerOf(p)[k] = "accepted_by_pi" => Confirmed(k)
    BY DEF IInv, LedgersHonest, LedgerOf
<1>6. LedgersHonest'
    BY <1>2, <1>3, <1>5 DEF IInv, TypeOK, LedgersHonest, Confirmed, ReadLedger
<1>7. PICK ok \in BOOLEAN :
         \/ Report(p, ok) /\ (ok => state = "accepted_by_pi")
         \/ Goto(p, "begin")
    BY DEF ReadLedger, CheckLedger
<1>8. ok /\ Report(p, ok) /\ state = "accepted_by_pi" => Confirmed(job[p].key)
    BY <1>1, <1>5
<1> HIDE DEF state
<1>9. CASE Report(p, ok) /\ (ok => state = "accepted_by_pi")
  <2>1. JobsHonest'
    BY <1>1, <1>8, <1>9, ReportKeepsJobsHonest DEF ReadLedger
  <2>2. TypeOK'
    BY <1>1, <1>4, <1>9, ReportEffect DEF IInv, TypeOK, ReadLedger
  <2>3. HoldsJob'
    <3>1. \A q \in Process : ledgerCache[q] # NotLoaded => ledgerCache'[q] # NotLoaded
      BY <1>2, <1>3 DEF IInv, TypeOK
    <3> QED
      BY <1>1, <1>9, <3>1, ReportHoldsJob
  <2>4. QueueWellFormed' /\ AcceptedWasConfirmed'
    BY DEF IInv, QueueWellFormed, AcceptedWasConfirmed, Confirmed, ReadLedger
  <2> QED
    BY <1>6, <2>1, <2>2, <2>3, <2>4 DEF IInv
<1>10. CASE Goto(p, "begin")
  <2>1. TypeOK'
    BY <1>4, <1>10 DEF IInv, TypeOK, ReadLedger, Goto, PC
  <2>2. HoldsJob'
    BY <1>1, <1>2, <1>3, <1>10 DEF IInv, TypeOK, HoldsJob, Goto
  <2>3. JobsHonest'
    BY <1>10 DEF IInv, TypeOK, JobsHonest, FromQueue, Honest, Confirmed, ReadLedger, Goto
  <2>4. QueueWellFormed' /\ AcceptedWasConfirmed'
    BY DEF IInv, QueueWellFormed, AcceptedWasConfirmed, Confirmed, ReadLedger
  <2> QED
    BY <1>6, <2>1, <2>2, <2>3, <2>4 DEF IInv
<1> QED
    BY <1>7, <1>9, <1>10

\* Remembering a state, and writing the ledger or not, keeps both ledgers typed
\* and honest, provided "accepted_by_pi" is remembered of a confirmed command only.
LEMMA RememberEffect ==
    ASSUME IInv, NEW p \in Process, job[p] \in Job, ledgerCache[p] # NotLoaded,
           NEW state \in LedgerState, Remember(p, state),
           state = "accepted_by_pi" => Confirmed(job[p].key),
           ledgerFile' \in {ledgerFile, ledgerCache'[p]}, UNCHANGED <<taken, mistaken>>
    PROVE  /\ ledgerCache' \in [Process -> Ledger \cup {NotLoaded}]
           /\ ledgerFile' \in Ledger
           /\ \A q \in Process : ledgerCache[q] # NotLoaded => ledgerCache'[q] # NotLoaded
           /\ LedgersHonest'
<1> DEFINE k == job[p].key
<1>1. k \in Command
    BY DEF Job
<1>2. ledgerCache[p] \in Ledger
    BY DEF IInv, TypeOK
<1>3. ledgerCache' = [ledgerCache EXCEPT ![p] = [ledgerCache[p] EXCEPT ![k] = state]]
    BY DEF Remember
<1> DEFINE new == [ledgerCache[p] EXCEPT ![k] = state]
<1>4. new \in Ledger
    BY <1>1, <1>2 DEF Ledger
<1>5. \A c \in Command : new[c] = "accepted_by_pi" => Confirmed(c)
    BY <1>1, <1>2 DEF IInv, LedgersHonest, Ledger
<1>6. new # NotLoaded
    BY <1>4, DeliveryAssumption DEF DeliveryAssumption, Ledger, LedgerState
<1>7. ledgerCache' = [ledgerCache EXCEPT ![p] = new]
    BY <1>3
<1> HIDE DEF k, new
<1>8. ledgerCache' \in [Process -> Ledger \cup {NotLoaded}] /\ ledgerCache'[p] = new
    BY <1>4, <1>7 DEF IInv, TypeOK
<1>9. ledgerFile' \in Ledger
    BY <1>4, <1>8 DEF IInv, TypeOK
<1>10. \A q \in Process : ledgerCache[q] # NotLoaded => ledgerCache'[q] # NotLoaded
    BY <1>6, <1>7 DEF IInv, TypeOK
<1>11. LedgersHonest'
    BY <1>5, <1>7, <1>8 DEF IInv, TypeOK, LedgersHonest, Confirmed
<1> QED
    BY <1>8, <1>9, <1>10, <1>11

\* A step that remembers a state and reports.
LEMMA RememberAndReportIInv ==
    ASSUME IInv, NEW p \in Process, pc[p] \in {"begin", "ran", "threw"},
           NEW state \in LedgerState, Remember(p, state),
           state = "accepted_by_pi" => Confirmed(job[p].key),
           ledgerFile' \in {ledgerFile, ledgerCache'[p]},
           NEW ok \in BOOLEAN, Report(p, ok),
           ok => Confirmed(job[p].key),
           faults' \in 0..MaxDiskFaults,
           UNCHANGED <<relayLog, daemonVars, processVars, late, inFlight, taken,
                       mistaken, refused, covered, crashes, reloads>>
    PROVE  IInv'
<1>1. job[p] # NoJob /\ job[p] \in Job /\ ledgerCache[p] # NotLoaded
    BY EnvelopesAreJobs DEF IInv, HoldsJob
<1>2. /\ ledgerCache' \in [Process -> Ledger \cup {NotLoaded}]
      /\ ledgerFile' \in Ledger
      /\ \A q \in Process : ledgerCache[q] # NotLoaded => ledgerCache'[q] # NotLoaded
      /\ LedgersHonest'
    BY <1>1, RememberEffect
<1>3. TypeOK'
    BY <1>1, <1>2, ReportEffect DEF IInv, TypeOK
<1>4. HoldsJob'
    BY <1>1, <1>2, ReportHoldsJob
<1>5. QueueWellFormed' /\ AcceptedWasConfirmed'
    BY DEF IInv, QueueWellFormed, AcceptedWasConfirmed, Confirmed
<1>6. JobsHonest'
    BY <1>1, ReportKeepsJobsHonest
<1> QED
    BY <1>2, <1>3, <1>4, <1>5, <1>6 DEF IInv

\* The ledger says executing, never accepted, before Pi is called.
LEMMA BeginExecutionIInv ==
    ASSUME IInv, NEW p \in Process, BeginExecution(p)
    PROVE  IInv'
<1>1. job[p] # NoJob /\ job[p] \in Job /\ ledgerCache[p] # NotLoaded
    BY EnvelopesAreJobs DEF IInv, HoldsJob, BeginExecution
<1>2. CASE Remember(p, "executing") /\ WriteFile(p) /\ Goto(p, "running")
  <2>1. /\ ledgerCache' \in [Process -> Ledger \cup {NotLoaded}]
        /\ ledgerFile' \in Ledger
        /\ \A q \in Process : ledgerCache[q] # NotLoaded => ledgerCache'[q] # NotLoaded
        /\ LedgersHonest'
    BY <1>1, <1>2, RememberEffect DEF BeginExecution, WriteFile, LedgerState
  <2>2. TypeOK'
    BY <1>2, <2>1 DEF IInv, TypeOK, BeginExecution, Goto, WriteFile, PC
  <2>3. HoldsJob'
    BY <1>1, <1>2, <2>1 DEF IInv, TypeOK, HoldsJob, Goto
  <2>4. QueueWellFormed' /\ AcceptedWasConfirmed'
    BY DEF IInv, QueueWellFormed, AcceptedWasConfirmed, Confirmed, BeginExecution
  <2>5. JobsHonest'
    BY <1>2 DEF IInv, TypeOK, JobsHonest, FromQueue, Honest, Confirmed, BeginExecution, Goto
  <2> QED
    BY <2>1, <2>2, <2>3, <2>4, <2>5 DEF IInv
<1>3. CASE /\ Remember(p, "none")
           /\ faults < MaxDiskFaults
           /\ faults' = faults + 1
           /\ ledgerFile' \in {ledgerFile, ledgerCache'[p]}
           /\ Report(p, FALSE)
  <2>1. faults' \in 0..MaxDiskFaults
    BY <1>3, BoundsAreNat DEF IInv, TypeOK
  <2> QED
    BY <1>3, <2>1, RememberAndReportIInv DEF BeginExecution, LedgerState
<1> QED
    BY <1>2, <1>3 DEF BeginExecution

\* What Pi does with a prompt touches nothing the queue or the ledgers say, and a
\* process goes on to report success only once its command is confirmed.
LEMMA PromptStepIInv ==
    ASSUME IInv, NEW p \in Process,
           taken' \in [Command -> Nat], mistaken' \subseteq Command,
           late' \in [Process -> SUBSET Command],
           \A c \in Command : Confirmed(c) => Confirmed(c)',
           \/ UNCHANGED pc
           \/ /\ pc[p] \in {"running", "waiting"}
              /\ \/ pc' = [pc EXCEPT ![p] = "ran"] /\ Confirmed(job[p].key)'
                 \/ pc' = [pc EXCEPT ![p] = "threw"]
                 \/ pc' = [pc EXCEPT ![p] = "waiting"],
           UNCHANGED <<relayLog, daemonVars, processVars, ledgerVars, job, inFlight,
                       attempts, refused, covered, boundVars>>
    PROVE  IInv'
<1>1. pc' \in [Process -> PC]
    BY DEF IInv, TypeOK, PC
<1>2. TypeOK'
    BY <1>1 DEF IInv, TypeOK
<1>3. HoldsJob'
    BY DEF IInv, TypeOK, HoldsJob
<1>4. JobsHonest'
  <2>1. \A j \in Job : FromQueue(j) /\ Honest(j) => FromQueue(j)' /\ Honest(j)'
    BY EnvelopesAreJobs DEF IInv, FromQueue, Honest
  <2>2. ASSUME NEW q \in Process, pc'[q] = "ran"
        PROVE  Confirmed(job[q].key)'
    <3>1. CASE q = p /\ pc[q] # "ran"
      BY <2>2, <3>1 DEF IInv, TypeOK
    <3>2. CASE pc[q] = "ran"
      <4>1. job[q].key \in Command /\ Confirmed(job[q].key)
        BY <3>2, EnvelopesAreJobs DEF IInv, HoldsJob, JobsHonest
      <4>2. Confirmed(job[q].key)' <=> taken'[job[q].key] > 0 \/ job[q].key \in mistaken'
        BY DEF Confirmed
      <4> QED
        BY <4>1, <4>2 DEF Confirmed
    <3> QED
      BY <2>2, <3>1, <3>2 DEF IInv, TypeOK
  <2> QED
    BY <2>1, <2>2, EnvelopesAreJobs DEF IInv, JobsHonest
<1>5. LedgersHonest' /\ AcceptedWasConfirmed'
    BY DEF IInv, LedgersHonest, AcceptedWasConfirmed
<1>6. QueueWellFormed'
    BY DEF IInv, QueueWellFormed
<1> QED
    BY <1>2, <1>3, <1>4, <1>5, <1>6 DEF IInv

\* Pi taking a command confirms it, and keeps what was confirmed.
LEMMA TakingConfirms ==
    ASSUME IInv, NEW k \in Command, taken' = [taken EXCEPT ![k] = @ + 1],
           mistaken \subseteq mistaken'
    PROVE  /\ taken' \in [Command -> Nat]
           /\ taken'[k] > 0
           /\ \A c \in Command : Confirmed(c) => Confirmed(c)'
BY DEF IInv, TypeOK, Confirmed

\* A mistake confirms a command, and keeps what was confirmed.
LEMMA MistakeConfirms ==
    ASSUME IInv, NEW p \in Process, settleAnyPromptAcceptance(p)
    PROVE  /\ job[p] \in Job /\ job[p].key \in Command
           /\ pc[p] \in {"running", "waiting"}
           /\ pc' = [pc EXCEPT ![p] = "ran"]
           /\ mistaken' \subseteq Command
           /\ mistaken \subseteq mistaken'
           /\ job[p].key \in mistaken'
<1>1. job[p] \in Job /\ job[p].key \in Command
    BY EnvelopesAreJobs DEF IInv, HoldsJob, settleAnyPromptAcceptance
<1> QED
    BY <1>1 DEF IInv, TypeOK, settleAnyPromptAcceptance

\* Pi takes the command before the process may report success, or it is waited for.
LEMMA ExecuteIInv ==
    ASSUME IInv, NEW p \in Process, Execute(p)
    PROVE  IInv'
<1>1. job[p] \in Job /\ job[p].key \in Command /\ mistaken' \subseteq Command
    BY EnvelopesAreJobs DEF IInv, TypeOK, HoldsJob, Execute
<1>2. late' \in [Process -> SUBSET Command]
    BY DEF IInv, TypeOK, Execute
<1>3. CASE taken' = [taken EXCEPT ![job[p].key] = @ + 1] /\ pc' = [pc EXCEPT ![p] = "ran"]
  <2>1. /\ taken' \in [Command -> Nat]
        /\ \A c \in Command : Confirmed(c) => Confirmed(c)'
        /\ Confirmed(job[p].key)'
    BY <1>1, <1>3, TakingConfirms DEF Execute, Confirmed
  <2> QED
    BY <1>1, <1>2, <1>3, <2>1, PromptStepIInv DEF Execute
<1>4. CASE UNCHANGED taken /\ (pc' = [pc EXCEPT ![p] = "threw"] \/ pc' = [pc EXCEPT ![p] = "waiting"])
  <2>1. taken' \in [Command -> Nat] /\ \A c \in Command : Confirmed(c) => Confirmed(c)'
    BY <1>4 DEF IInv, TypeOK, Confirmed, Execute
  <2> QED
    BY <1>1, <1>2, <1>4, <2>1, PromptStepIInv DEF Execute
<1> QED
    BY <1>3, <1>4 DEF Execute

\* The wait ends because Pi took the command, or it throws.
LEMMA AwaitAcceptanceIInv ==
    ASSUME IInv, NEW p \in Process, AwaitAcceptance(p)
    PROVE  IInv'
<1>1. job[p] \in Job /\ job[p].key \in Command /\ mistaken' \subseteq Command
    BY EnvelopesAreJobs DEF IInv, TypeOK, HoldsJob, AwaitAcceptance
<1>2. late' \in [Process -> SUBSET Command]
    BY <1>1 DEF IInv, TypeOK, AwaitAcceptance, LeaveWithPi
<1>3. CASE taken' = [taken EXCEPT ![job[p].key] = @ + 1] /\ pc' = [pc EXCEPT ![p] = "ran"]
  <2>1. /\ taken' \in [Command -> Nat]
        /\ \A c \in Command : Confirmed(c) => Confirmed(c)'
        /\ Confirmed(job[p].key)'
    BY <1>1, <1>3, TakingConfirms DEF AwaitAcceptance, Confirmed
  <2> QED
    BY <1>1, <1>2, <1>3, <2>1, PromptStepIInv DEF AwaitAcceptance
<1>4. CASE UNCHANGED taken /\ pc' = [pc EXCEPT ![p] = "threw"]
  <2>1. taken' \in [Command -> Nat] /\ \A c \in Command : Confirmed(c) => Confirmed(c)'
    BY <1>4 DEF IInv, TypeOK, Confirmed, AwaitAcceptance
  <2> QED
    BY <1>1, <1>2, <1>4, <2>1, PromptStepIInv DEF AwaitAcceptance
<1> QED
    BY <1>3, <1>4 DEF AwaitAcceptance

\* The start of a local prompt confirms the command that is waited for.
LEMMA LocalPromptStartsIInv ==
    ASSUME IInv, NEW p \in Process, LocalPromptStarts(p)
    PROVE  IInv'
<1>1. /\ job[p].key \in Command /\ mistaken' \subseteq Command
      /\ pc[p] \in {"running", "waiting"} /\ pc' = [pc EXCEPT ![p] = "ran"]
      /\ mistaken \subseteq mistaken' /\ job[p].key \in mistaken'
    BY MistakeConfirms DEF LocalPromptStarts
<1>2. late' \in [Process -> SUBSET Command] /\ taken' \in [Command -> Nat]
    BY <1>1 DEF IInv, TypeOK, LocalPromptStarts, LeaveWithPi
<1>3. /\ \A c \in Command : Confirmed(c) => Confirmed(c)'
      /\ Confirmed(job[p].key)'
    BY <1>1 DEF Confirmed, LocalPromptStarts
<1> QED
    BY <1>1, <1>2, <1>3, PromptStepIInv DEF LocalPromptStarts

\* A prompt that starts late confirms itself and the command that is waited for.
LEMMA TakeLateIInv ==
    ASSUME IInv, NEW p \in Process, NEW k \in Command, TakeLate(p, k)
    PROVE  IInv'
<1>1. CASE late' = [late EXCEPT ![p] = late[p] \ {k}] /\ UNCHANGED <<pc, mistaken>>
  <2>1. /\ taken' \in [Command -> Nat]
        /\ \A c \in Command : Confirmed(c) => Confirmed(c)'
    BY <1>1, TakingConfirms DEF TakeLate
  <2>2. late' \in [Process -> SUBSET Command] /\ mistaken' \subseteq Command
    BY <1>1 DEF IInv, TypeOK
  <2> QED
    BY <1>1, <2>1, <2>2, PromptStepIInv DEF TakeLate
<1>2. CASE settleAnyPromptAcceptance(p) /\ LeaveWithPi(p, late[p] \ {k})
  <2>1. /\ job[p].key \in Command /\ mistaken' \subseteq Command
        /\ pc[p] \in {"running", "waiting"} /\ pc' = [pc EXCEPT ![p] = "ran"]
        /\ mistaken \subseteq mistaken' /\ job[p].key \in mistaken'
    BY <1>2, MistakeConfirms
  <2>2. /\ taken' \in [Command -> Nat]
        /\ \A c \in Command : Confirmed(c) => Confirmed(c)'
    BY <2>1, TakingConfirms DEF TakeLate
  <2>3. late' \in [Process -> SUBSET Command]
    BY <1>2, <2>1 DEF IInv, TypeOK, LeaveWithPi
  <2>4. Confirmed(job[p].key)'
    BY <2>1 DEF Confirmed, TakeLate
  <2> QED
    BY <2>1, <2>2, <2>3, <2>4, PromptStepIInv DEF TakeLate
<1> QED
    BY <1>1, <1>2 DEF TakeLate

\* The ledger calls accepted what was confirmed.
LEMMA FinishAcceptedIInv ==
    ASSUME IInv, NEW p \in Process, FinishAccepted(p)
    PROVE  IInv'
<1>1. Confirmed(job[p].key)
    BY DEF IInv, JobsHonest, FinishAccepted
<1>2. CASE WriteFile(p) /\ Report(p, TRUE)
    BY <1>1, <1>2, RememberAndReportIInv DEF FinishAccepted, WriteFile, LedgerState, IInv, TypeOK
<1>3. CASE WriteFails /\ Report(p, FALSE)
  <2>1. faults' \in 0..MaxDiskFaults
    BY <1>3, BoundsAreNat DEF IInv, TypeOK, WriteFails
  <2> QED
    BY <1>1, <1>3, <2>1, RememberAndReportIInv DEF FinishAccepted, WriteFails, LedgerState
<1> QED
    BY <1>2, <1>3 DEF FinishAccepted

\* A failure leaves no success in the ledger.
LEMMA FinishFailedIInv ==
    ASSUME IInv, NEW p \in Process, FinishFailed(p)
    PROVE  IInv'
<1>1. ledgerFile' \in {ledgerFile, ledgerCache'[p]} /\ faults' \in 0..MaxDiskFaults
    BY BoundsAreNat DEF IInv, TypeOK, FinishFailed, WriteFile, WriteFails
<1> QED
    BY <1>1, RememberAndReportIInv DEF FinishFailed, LedgerState

------------------------------------------------------------------------------
(* The theorems.                                                            *)

\* What changes no variable keeps the invariant.
LEMMA StutterIInv ==
    ASSUME IInv, UNCHANGED vars
    PROVE  IInv'
BY DEF vars, IInv, TypeOK, HoldsJob, QueueWellFormed, JobsHonest, FromQueue, Honest, Confirmed,
       LedgersHonest, AcceptedWasConfirmed

\* Every step of phone, daemon, network and extension keeps the invariant.
LEMMA NextIInv ==
    ASSUME IInv, [Next]_vars
    PROVE  IInv'
<1>1. ASSUME NEW k \in Command, SendCommand(k) PROVE IInv'
    BY <1>1, SendCommandIInv
<1>2. ASSUME NEW n \in 1..Len(relayLog), RouteAgain(n) PROVE IInv'
    BY <1>2, RouteAgainIInv
<1>3. ASSUME NEW p \in Process, ExtensionEvent(p) PROVE IInv'
    BY <1>3, ExtensionEventIInv
<1>4. ASSUME NEW p \in Process, PiStep(p) PROVE IInv'
    BY <1>4, PollIInv, ReadLedgerIInv, BeginExecutionIInv, ExecuteIInv,
       AwaitAcceptanceIInv, FinishAcceptedIInv, FinishFailedIInv, AckAnsweredIInv DEF PiStep
<1>5. ASSUME NEW p \in Process, PiEnvironment(p) PROVE IInv'
    BY <1>5, StartPiIInv, ReloadPiIInv, SessionShutdownIInv, ExitPiIInv,
       ReloadEventDroppedIInv, AckTimesOutIInv, LocalPromptStartsIInv,
       TakeLateIInv DEF PiEnvironment
<1>6. ASSUME NEW a \in inFlight, LateAckHandled(a) \/ LateAckLost(a) PROVE IInv'
    BY <1>6, LateAckHandledIInv, LateAckLostIInv
<1> QED
    BY <1>1, <1>2, <1>3, <1>4, <1>5, <1>6, DaemonStartIInv, DaemonCrashIInv, OpenMirrorIInv,
       RouteMessageIInv, OwnerWindowPassesIInv, StutterIInv DEF Next

\* The invariant above holds of every behaviour: queue, ledgers, envelopes and
\* late acks agree on which commands were confirmed to the extension.
THEOREM Invariance == Spec => []IInv
<1>1. Init => IInv
    BY InitIInv
<1>2. IInv /\ [Next]_vars => IInv'
    BY NextIInv
<1> QED
    BY <1>1, <1>2, PTL DEF Spec

\* Every variable keeps its type.
THEOREM TypeCorrect == Spec => []TypeOK
<1>1. IInv => TypeOK
    BY DEF IInv
<1> QED
    BY <1>1, Invariance, PTL

\* The daemon calls a command accepted only when Pi has taken it, or another
\* prompt started while it was waited for: for any number of commands, Pi
\* processes, crashes, reloads, disk faults, late acks and local prompts, with
\* processes that overlap or not.
THEOREM AcceptedIsConfirmed == Spec => []AcceptedWasConfirmed
<1>1. IInv => AcceptedWasConfirmed
    BY DEF IInv
<1> QED
    BY <1>1, Invariance, PTL
==============================================================================
