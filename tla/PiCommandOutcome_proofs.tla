------------------------ MODULE PiCommandOutcome_proofs ------------------------
(***************************************************************************)
(* Further proofs about PiCommandDelivery: a command fails only after its  *)
(* attempts, none is lost without a record, commands keep their order, and *)
(* the program implements the lifecycle of a command.                      *)
(***************************************************************************)
EXTENDS PiCommandDelivery_proofs, PiCommandLifecycle, FiniteSetTheorems

\* The groups of variables are only names in UNCHANGED.
USE DEF durableVars, queueVars, mirrorVars, ownerVars, daemonVars, jobVars,
        ledgerVars, processVars, piVars, historyVars, boundVars

\* What Pi does with the prompts of p: it is called, takes one in time or late, or
\* starts a local one.
PromptStep(p) ==
    \/ Execute(p)
    \/ AwaitAcceptance(p)
    \/ LocalPromptStarts(p)
    \/ \E k \in Command : TakeLate(p, k)

\* Such a step touches only prompts and the loop of p that waits for one, and
\* hands out no command that was not handed out before.
LEMMA PromptStepEffect ==
    ASSUME IInv, NEW p \in Process, PromptStep(p)
    PROVE  /\ Alive(p)
           /\ UNCHANGED <<relayLog, daemonVars, processVars, ledgerVars, job, inFlight,
                          attempts, refused, covered, boundVars>>
           /\ \A q \in Process \ {p} : pc'[q] = pc[q]
           /\ \/ UNCHANGED pc
              \/ pc[p] \in {"running", "waiting"} /\ pc'[p] \in {"ran", "threw", "waiting"}
           /\ \A c \in Command : taken[c] > 0 => taken'[c] > 0
           /\ HandedOut' \subseteq HandedOut
<1>1. /\ Alive(p)
      /\ UNCHANGED <<relayLog, daemonVars, processVars, ledgerVars, job, inFlight,
                     attempts, refused, covered, boundVars>>
    BY DEF PromptStep, Execute, AwaitAcceptance, LocalPromptStarts, TakeLate
<1>2. \/ UNCHANGED pc
      \/ /\ pc[p] \in {"running", "waiting"}
         /\ \E s \in {"ran", "threw", "waiting"} : pc' = [pc EXCEPT ![p] = s]
    BY DEF PromptStep, Execute, AwaitAcceptance, LocalPromptStarts, TakeLate,
           settleAnyPromptAcceptance
<1>3. \/ UNCHANGED taken
      \/ \E k \in HandedOut \cap Command : taken' = [taken EXCEPT ![k] = @ + 1]
  <2>1. pc[p] \in {"running", "waiting"} => job[p].key \in HandedOut \cap Command
    BY EnvelopesAreJobs DEF IInv, HoldsJob, HandedOut
  <2>2. \A k \in Command : k \in late[p] => k \in HandedOut
    BY DEF HandedOut
  <2> QED
    BY <2>1, <2>2 DEF PromptStep, Execute, AwaitAcceptance, LocalPromptStarts, TakeLate
<1>4. \A q \in Process : late'[q] \subseteq late[q] \cup HandedOut
  <2>1. pc[p] \in {"running", "waiting"} => job[p].key \in HandedOut
    BY EnvelopesAreJobs DEF IInv, HoldsJob, HandedOut
  <2>2. late \in [Process -> SUBSET Command]
    BY DEF IInv, TypeOK
  <2>3. \/ UNCHANGED late
        \/ \E S \in SUBSET late[p] : late' = [late EXCEPT ![p] = S]
        \/ /\ pc[p] \in {"running", "waiting"}
           /\ \E S \in SUBSET late[p] : late' = [late EXCEPT ![p] = S \cup {job[p].key}]
    <3>1. CASE Execute(p)
      BY <3>1 DEF Execute
    <3>2. CASE AwaitAcceptance(p)
      BY <3>2 DEF AwaitAcceptance, LeaveWithPi
    <3>3. CASE LocalPromptStarts(p)
      BY <3>3 DEF LocalPromptStarts, settleAnyPromptAcceptance, LeaveWithPi
    <3>4. ASSUME NEW k \in Command, TakeLate(p, k)
          PROVE  \/ \E S \in SUBSET late[p] : late' = [late EXCEPT ![p] = S]
                 \/ /\ pc[p] \in {"running", "waiting"}
                    /\ \E S \in SUBSET late[p] :
                          late' = [late EXCEPT ![p] = S \cup {job[p].key}]
      BY <3>4 DEF TakeLate, settleAnyPromptAcceptance, LeaveWithPi
    <3> QED
      BY <3>1, <3>2, <3>3, <3>4 DEF PromptStep
  <2>4. CASE UNCHANGED late
    BY <2>4
  <2>5. ASSUME NEW S \in SUBSET late[p], late' = [late EXCEPT ![p] = S]
        PROVE  \A q \in Process : late'[q] \subseteq late[q] \cup HandedOut
    BY <2>2, <2>5
  <2>6. ASSUME pc[p] \in {"running", "waiting"}, NEW S \in SUBSET late[p],
               late' = [late EXCEPT ![p] = S \cup {job[p].key}]
        PROVE  \A q \in Process : late'[q] \subseteq late[q] \cup HandedOut
    BY <2>1, <2>2, <2>6
  <2> QED
    BY <2>3, <2>4, <2>5, <2>6
<1>5. \A c \in Command : /\ taken[c] > 0 => taken'[c] > 0
                         /\ taken'[c] > 0 => taken[c] > 0 \/ c \in HandedOut
  <2>1. taken \in [Command -> Nat]
    BY DEF IInv, TypeOK
  <2>2. CASE UNCHANGED taken
    BY <2>2
  <2>3. ASSUME NEW k \in HandedOut \cap Command, taken' = [taken EXCEPT ![k] = @ + 1]
        PROVE  \A c \in Command : /\ taken[c] > 0 => taken'[c] > 0
                                  /\ taken'[c] > 0 => taken[c] > 0 \/ c \in HandedOut
    <3>1. \A c \in Command : taken'[c] = IF c = k THEN taken[k] + 1 ELSE taken[c]
      BY <2>1, <2>3
    <3> QED
      BY <2>1, <2>3, <3>1
  <2> QED
    BY <1>3, <2>2, <2>3
<1>6. HandedOut' \subseteq HandedOut
    BY <1>1, <1>4, <1>5 DEF HandedOut
<1> QED
    BY <1>1, <1>2, <1>5, <1>6 DEF IInv, TypeOK

------------------------------------------------------------------------------
(* Failures are counted once.                                               *)

\* What the counting compares are numbers within the limit of failures.
LEMMA CountTypes ==
    ASSUME IInv
    PROVE  /\ \A k \in Command : attempts[k] \in Nat /\ attempts[k] <= MaxFailures
           /\ \A e \in commands : /\ e \in Entry /\ e.key \in Command /\ e.seq \in Nat
                                  /\ e.failures \in Nat /\ e.failures <= MaxFailures
           /\ \A p \in Process : job[p] # NoJob =>
                 job[p] \in Job /\ job[p].key \in Command /\ job[p].failures \in Nat
           /\ \A a \in inFlight :
                 a.job \in Job /\ a.job.key \in Command /\ a.job.failures \in Nat
<1>1. \A k \in Command : attempts[k] \in Nat /\ attempts[k] <= MaxFailures
    BY BoundsAreNat DEF IInv, TypeOK
<1>2. \A e \in commands : /\ e \in Entry /\ e.key \in Command /\ e.seq \in Nat
                          /\ e.failures \in Nat /\ e.failures <= MaxFailures
    BY BoundsAreNat DEF IInv, TypeOK, Entry
<1> QED
    BY <1>1, <1>2, EnvelopesAreJobs DEF IInv

\* Nothing was attempted or reported yet.
LEMMA InitCount == Init => CountInv
BY DEF Init, CountInv, AttemptsCounted, FailedAfterAttempts

\* Steps that bring no entry, no envelope and no report.
LEMMA QuietKeepsCount ==
    ASSUME AttemptsCounted, commands' \subseteq commands, inFlight' \subseteq inFlight,
           UNCHANGED attempts,
           \A p \in Process : \/ job'[p] = NoJob
                              \/ job'[p] = job[p] /\ (pc'[p] = "acking" => pc[p] = "acking")
    PROVE  AttemptsCounted'
BY DEF AttemptsCounted

\* An outcome "failed" that was there before, or that the daemon gave without
\* delivering the command, needs no more attempts.
LEMMA KeepsFailures ==
    ASSUME IInv, FailedAfterAttempts, refused \subseteq refused',
           \A k \in Command : attempts'[k] \in Nat /\ attempts'[k] >= attempts[k],
           \A k \in Command : outcome'[k] = "failed" => outcome[k] = "failed" \/ k \in refused'
    PROVE  FailedAfterAttempts'
BY CountTypes, BoundsAreNat DEF FailedAfterAttempts

\* Steps that leave queue, envelopes, acks and outcomes alone count nothing.
LEMMA QuietKeepsCountInv ==
    ASSUME IInv, CountInv, commands' \subseteq commands, inFlight' \subseteq inFlight,
           UNCHANGED <<attempts, outcome, refused>>,
           \A p \in Process : \/ job'[p] = NoJob
                              \/ job'[p] = job[p] /\ (pc'[p] = "acking" => pc[p] = "acking")
    PROVE  CountInv'
BY QuietKeepsCount, KeepsFailures, CountTypes DEF CountInv

\* A message that arrives brings an entry without failures, and every failure
\* it causes is a refusal.
LEMMA HandleMessageKeepsCount ==
    ASSUME IInv, CountInv, NEW k \in Command, HandleMessage(k),
           UNCHANGED <<attempts, job, pc, inFlight>>
    PROVE  CountInv'
<1>1. \/ UNCHANGED <<commands, outcome, refused>>
      \/ UNCHANGED commands /\ markRemotePiCommandFailed(k)
      \/ /\ commands' = commands \cup
               {[seq |-> nextCommandSeq, key |-> k, status |-> "queued", failures |-> 0]}
         /\ UNCHANGED <<outcome, refused>>
    BY DEF HandleMessage, queueRemotePiCommand, markRemotePiCommandFailed
<1>2. AttemptsCounted'
    BY <1>1, CountTypes DEF CountInv, AttemptsCounted
<1>3. /\ refused \subseteq refused'
      /\ \A c \in Command : outcome'[c] = "failed" => outcome[c] = "failed" \/ c \in refused'
    BY <1>1 DEF markRemotePiCommandFailed, IInv, TypeOK
<1>4. FailedAfterAttempts'
    BY <1>3, CountTypes, KeepsFailures DEF CountInv
<1> QED
    BY <1>2, <1>4 DEF CountInv

\* A queued entry starts with no failure (queueRemotePiCommand).
LEMMA RouteCount ==
    ASSUME IInv, CountInv,
           RouteMessage \/ \E n \in 1..Len(relayLog) : RouteAgain(n)
    PROVE  CountInv'
<1>1. CASE RouteMessage
  <2>1. relayLog[receiveSeq + 1] \in Command
    BY <1>1 DEF IInv, TypeOK, RouteMessage
  <2> QED
    BY <1>1, <2>1, HandleMessageKeepsCount DEF RouteMessage
<1>2. ASSUME NEW n \in 1..Len(relayLog), RouteAgain(n)
      PROVE  CountInv'
  <2>1. relayLog[n] \in Command
    BY DEF IInv, TypeOK
  <2> QED
    BY <1>2, <2>1, HandleMessageKeepsCount DEF RouteAgain
<1> QED
    BY <1>1, <1>2

\* What is polled is queued: it has a failure left, and those it has were
\* reported.
LEMMA PollCount ==
    ASSUME IInv, CountInv, NEW p \in Process, Poll(p)
    PROVE  CountInv'
<1>1. PICK e \in selectNextQueuedPiCommand :
         job' = [job EXCEPT ![p] = [epoch |-> commandQueueEpoch, seq |-> e.seq,
                                    failures |-> e.failures, key |-> e.key, ok |-> FALSE]]
    BY DEF Poll
<1>2. e \in commands /\ e.status = "queued"
    BY DEF selectNextQueuedPiCommand, Oldest
<1>3. e.failures < MaxFailures /\ e.failures <= attempts[e.key]
    BY <1>2 DEF IInv, QueueWellFormed, CountInv, AttemptsCounted
<1>4. /\ job'[p].failures = e.failures /\ job'[p].key = e.key
      /\ pc'[p] # "acking"
      /\ \A q \in Process \ {p} : job'[q] = job[q] /\ pc'[q] = pc[q]
    BY <1>1 DEF IInv, TypeOK, Poll
<1>5. AttemptsCounted'
    BY <1>3, <1>4 DEF CountInv, AttemptsCounted, Poll
<1>6. FailedAfterAttempts'
    BY DEF CountInv, FailedAfterAttempts, Poll
<1> QED
    BY <1>5, <1>6 DEF CountInv

\* Whoever reports a failure has counted it.
LEMMA ReportCount ==
    ASSUME IInv, CountInv, NEW p \in Process, job[p] # NoJob, NEW ok \in BOOLEAN,
           Report(p, ok), UNCHANGED <<commands, inFlight, outcome, refused>>
    PROVE  CountInv'
<1> DEFINE k == job[p].key
<1>1. /\ job[p] \in Job /\ k \in Command /\ job[p].failures \in Nat
      /\ job[p].failures < MaxFailures /\ job[p].failures <= attempts[k]
    BY CountTypes DEF CountInv, AttemptsCounted
<1>2. /\ job'[p] = [job[p] EXCEPT !.ok = ok]
      /\ \A q \in Process \ {p} : job'[q] = job[q] /\ pc'[q] = pc[q]
    BY <1>1, ReportEffect DEF IInv, TypeOK
<1>3. job'[p].failures = job[p].failures /\ job'[p].key = k /\ job'[p].ok = ok
    BY <1>1, <1>2 DEF Job
<1>4. attempts' = IF ok \/ attempts[k] = MaxFailures THEN attempts
                  ELSE [attempts EXCEPT ![k] = attempts[k] + 1]
    BY DEF Report
<1> HIDE DEF k
<1>5. \A c \in Command : attempts'[c] \in Nat /\ attempts'[c] >= attempts[c]
    BY <1>1, <1>4, CountTypes DEF IInv, TypeOK
<1>6. ~ok => job[p].failures < attempts'[k]
    BY <1>1, <1>4, CountTypes, BoundsAreNat DEF IInv, TypeOK
<1>7. \A e \in commands : e.failures <= attempts'[e.key]
    BY <1>5, CountTypes DEF CountInv, AttemptsCounted
<1>8. ASSUME NEW q \in Process, job'[q] # NoJob
      PROVE  /\ job'[q].failures < MaxFailures
             /\ job'[q].failures <= attempts'[job'[q].key]
             /\ (pc'[q] = "acking" /\ ~job'[q].ok) => job'[q].failures < attempts'[job'[q].key]
  <2>1. CASE q = p
    <3>1. job[p].failures <= attempts'[k]
      BY <1>1, <1>5, CountTypes
    <3> QED
      BY <1>1, <1>3, <1>6, <2>1, <3>1
  <2>2. CASE q # p
    <3>1. job'[q] = job[q] /\ pc'[q] = pc[q] /\ job[q] # NoJob
      BY <1>2, <1>8, <2>2
    <3>2. job[q].key \in Command /\ job[q].failures \in Nat
      BY <3>1, CountTypes
    <3>3. attempts'[job[q].key] >= attempts[job[q].key] /\ attempts[job[q].key] \in Nat
          /\ attempts'[job[q].key] \in Nat
      BY <1>5, <3>2, CountTypes
    <3>4. /\ job[q].failures < MaxFailures
          /\ job[q].failures <= attempts[job[q].key]
          /\ (pc[q] = "acking" /\ ~job[q].ok) => job[q].failures < attempts[job[q].key]
      BY <3>1 DEF CountInv, AttemptsCounted
    <3> QED
      BY <3>1, <3>2, <3>3, <3>4
  <2> QED
    BY <2>1, <2>2
<1>9. \A a \in inFlight : ~a.job.ok => a.job.failures < attempts'[a.job.key]
    BY <1>5, CountTypes DEF CountInv, AttemptsCounted
<1>10. AttemptsCounted'
    BY <1>7, <1>8, <1>9 DEF AttemptsCounted
<1>11. FailedAfterAttempts'
    BY <1>5, KeepsFailures DEF CountInv
<1> QED
    BY <1>10, <1>11 DEF CountInv

\* Moving on in the loop with the same envelope counts nothing.
LEMMA GotoCount ==
    ASSUME IInv, CountInv, NEW p \in Process, NEW label \in {"begin", "running"},
           Goto(p, label), UNCHANGED <<commands, inFlight, outcome, refused>>
    PROVE  CountInv'
<1>1. \A q \in Process : job'[q] = job[q] /\ (pc'[q] = "acking" => pc[q] = "acking")
    BY DEF Goto, IInv, TypeOK
<1> QED
    BY <1>1, QuietKeepsCountInv DEF Goto

\* A failed execution is one more attempt, before it is reported.
LEMMA ExtensionCount ==
    ASSUME IInv, CountInv, NEW p \in Process,
           ReadLedger(p) \/ BeginExecution(p) \/ FinishAccepted(p) \/ FinishFailed(p)
    PROVE  CountInv'
<1>1. job[p] # NoJob /\ UNCHANGED <<commands, inFlight, outcome, refused>>
    BY DEF IInv, HoldsJob, ReadLedger, BeginExecution, FinishAccepted, FinishFailed
<1>2. \/ \E ok \in BOOLEAN : Report(p, ok)
      \/ \E label \in {"begin", "running"} : Goto(p, label)
    BY DEF ReadLedger, CheckLedger, BeginExecution, FinishAccepted, FinishFailed
<1> QED
    BY <1>1, <1>2, ReportCount, GotoCount

\* An ack that carries a failure, and the token of the entry it names, raises
\* the count of failures to at most the count of reports.
LEMMA AckCount ==
    ASSUME IInv, CountInv, NEW a \in Ack, FromQueue(a.job),
           ~a.job.ok => a.job.failures < attempts[a.job.key],
           onPiExtensionCommandAck(a), UNCHANGED <<attempts, refused>>
    PROVE  /\ \A e \in commands' : e.failures <= attempts[e.key]
           /\ FailedAfterAttempts'
<1>1. CASE UNCHANGED <<commands, outcome>>
    BY <1>1 DEF CountInv, AttemptsCounted, FailedAfterAttempts
<1>2. ASSUME NEW e \in AckedEntry(a),
             \/ a.job.ok /\ Settle(e, "accepted_by_pi")
             \/ ~a.job.ok /\ FailureIsTerminal(e) /\ Settle(e, "failed")
             \/ ~a.job.ok /\ ~FailureIsTerminal(e) /\ Retry(e)
      PROVE  /\ \A d \in commands' : d.failures <= attempts[d.key]
             /\ FailedAfterAttempts'
  <2>1. /\ e \in commands /\ e \in Entry /\ e.key \in Command /\ e.failures \in Nat
        /\ e.key = a.job.key /\ e.failures = a.job.failures
        /\ e.failures <= attempts[e.key]
        /\ attempts[e.key] \in Nat
    BY CountTypes DEF AckedEntry, isStalePiCommandAck, FromQueue, Ack, Job, CountInv, AttemptsCounted
  <2> DEFINE counted == CountFailure(e)
  <2>2. /\ counted.key = e.key
        /\ ~a.job.ok => counted.failures <= attempts[e.key] /\ e.failures + 1 <= attempts[e.key]
    BY <2>1 DEF CountFailure, Entry
  <2>3. ASSUME NEW d \in commands' PROVE d.failures <= attempts[d.key]
    <3>1. CASE d \in commands
      BY <3>1 DEF CountInv, AttemptsCounted
    <3>2. CASE a.job.ok /\ d = [e EXCEPT !.status = "accepted_by_pi"]
      BY <2>1, <3>2 DEF Entry
    <3>3. CASE ~a.job.ok /\ d = counted
      BY <2>2, <3>3
    <3>4. CASE ~a.job.ok /\ d = [counted EXCEPT !.status = "failed"]
      <4>1. d.failures = counted.failures /\ d.key = counted.key
        BY <2>1, <3>4 DEF CountFailure, Entry
      <4> QED
        BY <2>2, <3>4, <4>1
    <3> QED
      BY <1>2, <3>1, <3>2, <3>3, <3>4 DEF Settle, Retry, removeTerminalPiCommandPrefix
  <2>4. ASSUME NEW k \in Command \ refused', outcome'[k] = "failed"
        PROVE  attempts[k] >= IF k \in Direct THEN 1 ELSE MaxFailures
    <3>1. CASE outcome[k] = "failed"
      BY <2>4, <3>1 DEF CountInv, FailedAfterAttempts
    <3>2. CASE outcome[k] # "failed"
      <4>1. k = e.key /\ ~a.job.ok /\ FailureIsTerminal(e)
        BY <1>2, <2>1, <2>4, <3>2 DEF Settle, Retry, IInv, TypeOK
      <4> QED
        BY <2>1, <2>2, <4>1, BoundsAreNat, CountTypes DEF FailureIsTerminal
    <3> QED
      BY <3>1, <3>2
  <2> QED
    BY <2>3, <2>4 DEF FailedAfterAttempts
<1> QED
    BY <1>1, <1>2 DEF onPiExtensionCommandAck

\* An answered ack raises the count of its entry once (applyPiCommandFailure).
LEMMA AckAnsweredCount ==
    ASSUME IInv, CountInv, NEW p \in Process, AckAnswered(p)
    PROVE  CountInv'
<1> DEFINE a == AckOf(p)
<1>1. job[p] # NoJob /\ job[p] \in Job
    BY EnvelopesAreJobs DEF IInv, HoldsJob, AckAnswered
<1>2. a.job = job[p] /\ a \in Ack
    BY <1>1, CurrentIsInstance DEF IInv, AckOf, Ack
<1>3. FromQueue(a.job) /\ onPiExtensionCommandAck(a)
    BY <1>1, <1>2 DEF IInv, JobsHonest, AckAnswered
<1>4. ~a.job.ok => a.job.failures < attempts[a.job.key]
    BY <1>1, <1>2 DEF CountInv, AttemptsCounted, AckAnswered
<1> HIDE DEF a
<1>5. (\A e \in commands' : e.failures <= attempts[e.key]) /\ FailedAfterAttempts'
    BY <1>2, <1>3, <1>4, AckCount DEF AckAnswered
<1>6. \A q \in Process : job'[q] = NoJob \/ (job'[q] = job[q] /\ pc'[q] = pc[q])
    BY DEF AckAnswered, IInv, TypeOK
<1>7. AttemptsCounted'
    BY <1>5, <1>6 DEF CountInv, AttemptsCounted, AckAnswered
<1> QED
    BY <1>5, <1>7 DEF CountInv

\* A late copy carries an old delivery token and counts nothing again.
LEMMA LateAckHandledCount ==
    ASSUME IInv, CountInv, NEW a \in inFlight, LateAckHandled(a)
    PROVE  CountInv'
<1>1. a \in Ack /\ FromQueue(a.job) /\ onPiExtensionCommandAck(a)
    BY EnvelopesAreJobs DEF IInv, JobsHonest, LateAckHandled
<1>2. ~a.job.ok => a.job.failures < attempts[a.job.key]
    BY DEF CountInv, AttemptsCounted
<1>3. (\A e \in commands' : e.failures <= attempts[e.key]) /\ FailedAfterAttempts'
    BY <1>1, <1>2, AckCount DEF LateAckHandled
<1>4. AttemptsCounted'
    BY <1>3 DEF CountInv, AttemptsCounted, LateAckHandled
<1> QED
    BY <1>3, <1>4 DEF CountInv

\* The copy that stays in flight is one that was counted as an attempt.
LEMMA AckTimesOutCount ==
    ASSUME IInv, CountInv, NEW p \in Process, AckTimesOut(p)
    PROVE  CountInv'
<1>1. job[p] # NoJob
    BY DEF IInv, HoldsJob, AckTimesOut
<1>2. AckOf(p).job = job[p] /\ pc[p] = "acking"
    BY DEF AckOf, AckTimesOut
<1>3. AttemptsCounted'
    BY <1>1, <1>2 DEF CountInv, AttemptsCounted, AckTimesOut
<1>4. FailedAfterAttempts'
    BY DEF CountInv, FailedAfterAttempts, AckTimesOut
<1> QED
    BY <1>3, <1>4 DEF CountInv

\* Every step counts a failure at most once.
LEMMA NextCount ==
    ASSUME IInv, CountInv, [Next]_vars
    PROVE  CountInv'
<1>1. CASE UNCHANGED vars
    BY <1>1, QuietKeepsCountInv DEF vars
<1>2. CASE DaemonStart \/ DaemonCrash \/ OpenMirror \/ OwnerWindowPasses
            \/ \E k \in Command : SendCommand(k)
  <2>1. /\ commands' \subseteq commands /\ inFlight' \subseteq inFlight
        /\ UNCHANGED <<attempts, outcome, refused, job, pc>>
    BY <1>2 DEF DaemonStart, DaemonCrash, NoMirror, OpenMirror, OwnerWindowPasses, SendCommand
  <2> QED
    BY <2>1, QuietKeepsCountInv
<1>3. CASE RouteMessage \/ \E n \in 1..Len(relayLog) : RouteAgain(n)
    BY <1>3, RouteCount
<1>4. ASSUME NEW p \in Process,
             \/ ExtensionEvent(p) \/ StartPi(p) \/ ReloadPi(p) \/ SessionShutdown(p)
             \/ ExitPi(p) \/ ReloadEventDropped(p)
      PROVE  CountInv'
  <2>1. commands' \subseteq commands
    BY <1>4 DEF ExtensionEvent, StartPi, ReloadPi, SessionShutdown, NoMirror, ExitPi,
                ReloadEventDropped
  <2>2. inFlight' \subseteq inFlight /\ UNCHANGED <<attempts, outcome, refused>>
    BY <1>4 DEF ExtensionEvent, StartPi, ReloadPi, SessionShutdown, ExitPi,
                ReloadEventDropped
  <2>3. \A q \in Process : \/ job'[q] = NoJob
                           \/ job'[q] = job[q] /\ (pc'[q] = "acking" => pc[q] = "acking")
    BY <1>4 DEF ExtensionEvent, StartPi, ReloadPi, SessionShutdown, ExitPi,
                ReloadEventDropped, IInv, TypeOK
  <2> QED
    BY <2>1, <2>2, <2>3, QuietKeepsCountInv
<1>5. ASSUME NEW p \in Process, Poll(p) \/ AckAnswered(p) \/ AckTimesOut(p)
      PROVE  CountInv'
    BY <1>5, PollCount, AckAnsweredCount, AckTimesOutCount
<1>6. ASSUME NEW p \in Process,
             ReadLedger(p) \/ BeginExecution(p) \/ FinishAccepted(p) \/ FinishFailed(p)
      PROVE  CountInv'
    BY <1>6, ExtensionCount
<1>7. ASSUME NEW a \in inFlight, LateAckHandled(a) \/ LateAckLost(a)
      PROVE  CountInv'
  <2>1. CASE LateAckLost(a)
    BY <2>1, QuietKeepsCountInv DEF LateAckLost
  <2> QED
    BY <1>7, <2>1, LateAckHandledCount
<1>8. ASSUME NEW p \in Process, PromptStep(p)
      PROVE  CountInv'
  <2>1. UNCHANGED <<commands, inFlight, attempts, outcome, refused, job>>
    BY <1>8, PromptStepEffect
  <2>2. \A q \in Process : pc'[q] = "acking" => pc[q] = "acking"
    BY <1>8, PromptStepEffect
  <2> QED
    BY <2>1, <2>2, QuietKeepsCountInv
<1> QED
    BY <1>1, <1>2, <1>3, <1>4, <1>5, <1>6, <1>7, <1>8
    DEF Next, PiStep, PiEnvironment, PromptStep

\* A command the daemon offered to Pi is called failed only after the promised
\* number of reported failures, however often an ack is repeated or late.
THEOREM FailsAfterAttempts == Spec => []FailedAfterAttempts
<1>1. Init => CountInv
    BY InitCount
<1>2. IInv /\ CountInv /\ [Next]_vars => CountInv'
    BY NextCount
<1>3. CountInv => FailedAfterAttempts
    BY DEF CountInv
<1> QED
    BY <1>1, <1>2, <1>3, Invariance, PTL DEF Spec

------------------------------------------------------------------------------
(* Nothing is lost.                                                         *)

\* In a log without repetition a key has one place.
LEMMA PlaceIsUnique ==
    ASSUME LogWellFormed, NEW n \in 1..Len(relayLog)
    PROVE  Place(relayLog[n]) = n
BY DEF LogWellFormed, Place

\* A command that was sent has a place in the log.
LEMMA CoveredHasPlace ==
    ASSUME LogWellFormed, NEW k \in covered
    PROVE  Place(k) \in 1..Len(relayLog) /\ relayLog[Place(k)] = k
<1>1. PICK n \in 1..Len(relayLog) : relayLog[n] = k
    BY DEF LogWellFormed, Sent
<1> QED
    BY <1>1, PlaceIsUnique

\* Nothing was sent, so nothing can be lost.
LEMMA InitLoss == Init => LossInv
BY DEF Init, LossInv, LogWellFormed, TerminalIsSettled, NoSilentLoss, Sent

\* Steps that leave the relay alone, forget no outcome and drop no queued
\* command other than by settling it or by closing the mirror.
LEMMA KeepsLossInv ==
    ASSUME LossInv, UNCHANGED <<relayLog, boundary, covered>>,
           \A k \in Command : Settled(k) => Settled(k)',
           mirrorUp' => mirrorUp /\ receiveSeq' = receiveSeq,
           mirrorUp' => \A k \in Command : Queued(k) => Queued(k)' \/ Settled(k)',
           TerminalIsSettled', relayLog \in Seq(Command)
    PROVE  LossInv'
<1>1. LogWellFormed'
    BY DEF LossInv, LogWellFormed, Sent
<1>2. ASSUME NEW k \in covered PROVE Place(k)' = Place(k) /\ k \in Command
    BY DEF Place, LossInv, LogWellFormed, Sent
<1>3. NoSilentLoss'
    BY <1>2 DEF LossInv, NoSilentLoss
<1> QED
    BY <1>1, <1>3 DEF LossInv

\* The queue and the outcomes are untouched, or the mirror is gone.
LEMMA QuietKeepsLoss ==
    ASSUME IInv, LossInv, UNCHANGED <<relayLog, boundary, covered, outcome>>,
           \/ UNCHANGED <<mirrorUp, receiveSeq, commands>>
           \/ mirrorUp' = FALSE /\ commands' = {}
    PROVE  LossInv'
<1>1. \A k \in Command : Settled(k) => Settled(k)'
    BY DEF Settled
<1>2. TerminalIsSettled'
    BY DEF TerminalIsSettled, Settled, LossInv
<1>3. mirrorUp' => \A k \in Command : Queued(k) => Queued(k)'
    BY DEF Queued
<1> QED
    BY <1>1, <1>2, <1>3, KeepsLossInv DEF IInv, TypeOK

\* A message that was handled is settled or queued.
LEMMA HandleMessageSettlesOrQueues ==
    ASSUME IInv, LossInv, NEW k \in Command, HandleMessage(k)
    PROVE  /\ Settled(k)' \/ Queued(k)'
           /\ \A c \in Command : Settled(c) => Settled(c)'
           /\ \A c \in Command : Queued(c) => Queued(c)'
           /\ TerminalIsSettled'
<1> DEFINE new == [seq |-> nextCommandSeq, key |-> k, status |-> "queued", failures |-> 0]
<1>1. \/ Known(k) /\ UNCHANGED <<commands, outcome>>
      \/ UNCHANGED commands /\ outcome' = [outcome EXCEPT ![k] = "failed"]
      \/ commands' = commands \cup {new} /\ UNCHANGED outcome
    BY DEF HandleMessage, queueRemotePiCommand, markRemotePiCommandFailed,
           resolvePiCommandAdmission
<1>2. outcome \in [Command -> Outcome] /\ \A e \in commands : e.key \in Command
    BY CountTypes DEF IInv, TypeOK
<1>3. \A c \in Command : Settled(c) => Settled(c)'
    BY <1>1, <1>2 DEF Settled
<1>4. \A c \in Command : Queued(c) => Queued(c)'
    BY <1>1 DEF Queued
<1>5. TerminalIsSettled'
    <2>1. \A e \in commands' : e \in commands \/ e.status = "queued"
        BY <1>1
    <2> QED
        BY <2>1, <1>2, <1>3 DEF TerminalIsSettled, LossInv
<1>6. CASE Known(k) /\ UNCHANGED <<commands, outcome>>
    BY <1>6 DEF Known, Settled, Queued, TerminalIsSettled, LossInv
<1>7. CASE outcome' = [outcome EXCEPT ![k] = "failed"]
    BY <1>2, <1>3, <1>4, <1>5, <1>7 DEF Settled
<1>8. CASE commands' = commands \cup {new}
    BY <1>3, <1>4, <1>5, <1>8 DEF Queued
<1> QED
    BY <1>1, <1>3, <1>4, <1>5, <1>6, <1>7, <1>8

\* A routed message is queued, settled, or skipped below the boundary.
LEMMA RouteLoss ==
    ASSUME IInv, LossInv,
           RouteMessage \/ \E n \in 1..Len(relayLog) : RouteAgain(n)
    PROVE  LossInv'
<1>1. CASE RouteMessage
  <2>0. relayLog[receiveSeq + 1] \in Command
    BY <1>1 DEF IInv, TypeOK, RouteMessage
  <2>1. PICK r \in Command :
        /\ r = relayLog[receiveSeq + 1] /\ HandleMessage(r) /\ mirrorUp
        /\ UNCHANGED <<relayLog, boundary, covered, mirrorUp>>
        /\ receiveSeq \in Nat /\ receiveSeq' = receiveSeq + 1
        /\ receiveSeq + 1 \in 1..Len(relayLog)
    BY <1>1, <2>0 DEF IInv, TypeOK, RouteMessage
  <2>2. /\ Settled(r)' \/ Queued(r)'
        /\ \A c \in Command : Settled(c) => Settled(c)'
        /\ \A c \in Command : Queued(c) => Queued(c)'
        /\ TerminalIsSettled'
    BY <2>1, HandleMessageSettlesOrQueues
  <2>3. LogWellFormed'
    BY <2>1 DEF LossInv, LogWellFormed, Sent
  <2>4. ASSUME NEW k \in covered
        PROVE  \/ Settled(k)'
               \/ /\ Place(k)' > boundary'
                  /\ (mirrorUp' /\ Place(k)' <= receiveSeq') => Queued(k)'
    <3>1. k \in Command /\ Place(k) \in 1..Len(relayLog) /\ relayLog[Place(k)] = k
      BY CoveredHasPlace DEF LossInv, IInv, TypeOK
    <3>2. Place(k)' = Place(k)
      BY <2>1 DEF Place
    <3>3. CASE Place(k) = receiveSeq + 1
      BY <2>1, <2>2, <3>1, <3>2, <3>3 DEF LossInv, NoSilentLoss
    <3>4. CASE Place(k) # receiveSeq + 1
      <4>1. Place(k) <= receiveSeq + 1 => Place(k) <= receiveSeq
        BY <2>1, <3>1, <3>4
      <4> QED
        BY <2>1, <2>2, <3>1, <3>2, <4>1 DEF LossInv, NoSilentLoss
    <3> QED
      BY <3>3, <3>4
  <2>5. NoSilentLoss'
    BY <2>1, <2>4 DEF NoSilentLoss
  <2> QED
    BY <2>2, <2>3, <2>5 DEF LossInv
<1>2. ASSUME NEW n \in 1..Len(relayLog), RouteAgain(n)
      PROVE  LossInv'
  <2>1. relayLog[n] \in Command /\ HandleMessage(relayLog[n])
    BY <1>2 DEF IInv, TypeOK, RouteAgain
  <2>2. UNCHANGED <<relayLog, boundary, covered, mirrorUp, receiveSeq>>
    BY <1>2 DEF RouteAgain
  <2> QED
    BY <2>1, <2>2, HandleMessageSettlesOrQueues, KeepsLossInv DEF IInv, TypeOK
<1> QED
    BY <1>1, <1>2

\* A new message is behind the boundary and not yet routed.
LEMMA SendCommandLoss ==
    ASSUME IInv, LossInv, NEW k \in Command, SendCommand(k)
    PROVE  LossInv'
<1>1. /\ relayLog \in Seq(Command) /\ relayLog' = Append(relayLog, k) /\ k \notin Sent
      /\ boundary \in Nat \cup {NoBoundary} /\ receiveSeq \in Nat
      /\ UNCHANGED <<boundary, outcome, commands, mirrorUp, receiveSeq>>
    BY DEF SendCommand, IInv, TypeOK
<1>2. /\ Len(relayLog') = Len(relayLog) + 1 /\ relayLog'[Len(relayLog) + 1] = k
      /\ \A n \in 1..Len(relayLog) : relayLog'[n] = relayLog[n]
      /\ Len(relayLog) \in Nat
    BY <1>1
<1>3. LogWellFormed'
  <2>1. \A m, n \in 1..Len(relayLog') : relayLog'[m] = relayLog'[n] => m = n
    BY <1>1, <1>2 DEF LossInv, LogWellFormed, Sent
  <2>2. Sent \subseteq Sent' /\ k \in Sent'
    BY <1>2 DEF Sent
  <2>3. covered' \subseteq Sent'
    BY <2>2 DEF SendCommand, LossInv, LogWellFormed
  <2>4. /\ IF boundary' = NoBoundary THEN covered' = {} /\ ~mirrorUp'
           ELSE boundary' <= Len(relayLog')
        /\ mirrorUp' => receiveSeq' <= Len(relayLog')
    BY <1>1, <1>2 DEF SendCommand, LossInv, LogWellFormed
  <2> QED
    BY <2>1, <2>3, <2>4 DEF LogWellFormed
<1>4. \A c \in Command, n \in 1..Len(relayLog') : relayLog'[n] = c => Place(c)' = n
    BY <1>3 DEF LogWellFormed, Place
<1>5. ASSUME NEW c \in covered'
      PROVE  \/ Settled(c)'
             \/ /\ Place(c)' > boundary'
                /\ (mirrorUp' /\ Place(c)' <= receiveSeq') => Queued(c)'
  <2>1. CASE c \in covered
    <3>1. c \in Command /\ Place(c) \in 1..Len(relayLog) /\ relayLog[Place(c)] = c
      BY <2>1, CoveredHasPlace DEF LossInv, IInv, TypeOK
    <3>2. Place(c)' = Place(c)
      BY <1>2, <1>4, <3>1
    <3> QED
      BY <1>1, <2>1, <3>2 DEF LossInv, NoSilentLoss, Settled, Queued
  <2>2. CASE c \notin covered
    <3>1. c = k /\ boundary # NoBoundary
      BY <2>2 DEF SendCommand
    <3>2. Place(c)' = Len(relayLog) + 1
      BY <1>2, <1>4, <3>1
    <3> QED
      BY <1>1, <1>2, <3>1, <3>2 DEF LossInv, LogWellFormed
  <2> QED
    BY <2>1, <2>2
<1>6. TerminalIsSettled'
    BY <1>1 DEF LossInv, TerminalIsSettled, Settled
<1> QED
    BY <1>3, <1>5, <1>6 DEF LossInv, NoSilentLoss

\* A mirror that opens starts at the boundary, below every covered command.
LEMMA OpenMirrorLoss ==
    ASSUME IInv, LossInv, OpenMirror
    PROVE  LossInv'
<1>1. /\ boundary \in Nat \cup {NoBoundary} /\ Len(relayLog) \in Nat
      /\ boundary' = IF boundary = NoBoundary THEN Len(relayLog) ELSE boundary
      /\ receiveSeq' = boundary' /\ commands' = {} /\ UNCHANGED <<relayLog, covered, outcome>>
    BY DEF OpenMirror, CommandBoundary, IInv, TypeOK
<1>2. boundary' \in Nat /\ boundary' <= Len(relayLog)
    BY <1>1 DEF LossInv, LogWellFormed
<1>3. LogWellFormed'
    BY <1>1, <1>2, DeliveryAssumption DEF LossInv, LogWellFormed, Sent, DeliveryAssumption
<1>4. ASSUME NEW k \in covered
      PROVE  Settled(k)' \/ (Place(k)' > boundary' /\ ~(Place(k)' <= receiveSeq'))
  <2>1. boundary # NoBoundary
    BY <1>4 DEF LossInv, LogWellFormed
  <2>2. Place(k)' = Place(k) /\ Place(k) \in Nat
    BY <1>1, CoveredHasPlace DEF Place, LossInv
  <2> QED
    BY <1>1, <1>2, <2>1, <2>2 DEF LossInv, NoSilentLoss, Settled
<1>5. NoSilentLoss'
    BY <1>1, <1>4 DEF NoSilentLoss
<1> QED
    BY <1>1, <1>3, <1>5 DEF LossInv, TerminalIsSettled

\* An ack takes an entry out of the queue only with its outcome on disk, and
\* trimming the settled prefix leaves every queued entry where it was.
LEMMA AckLoss ==
    ASSUME IInv, LossInv, NEW a \in Ack, onPiExtensionCommandAck(a),
           UNCHANGED <<relayLog, boundary, covered, mirrorUp, receiveSeq>>
    PROVE  LossInv'
<1>0. outcome \in [Command -> Outcome] /\ relayLog \in Seq(Command)
    BY DEF IInv, TypeOK
<1>1. CASE UNCHANGED <<commands, outcome>>
    BY <1>1, QuietKeepsLoss
<1>2. ASSUME NEW e \in AckedEntry(a), NEW result \in {"accepted_by_pi", "failed"},
             Settle(e, result)
      PROVE  LossInv'
  <2>1. e \in commands /\ e \in Entry /\ e.key \in Command /\ e.status = "queued"
    BY CountTypes DEF AckedEntry
  <2> DEFINE f == [(IF result = "failed" THEN CountFailure(e) ELSE e) EXCEPT !.status = result]
             es == (commands \ {e}) \cup {f}
  <2>2. f.key = e.key
    BY <2>1 DEF CountFailure, Entry
  <2>3. commands' \subseteq es /\ \A d \in es : d.status = "queued" => d \in commands'
    <3>1. \A d \in es : d.seq <= d.seq
      <4>1. f.seq = e.seq /\ e.seq \in Nat
        BY <2>1, CountTypes DEF CountFailure, Entry
      <4> HIDE DEF f
      <4>2. \A d \in commands : d.seq \in Nat
        BY CountTypes
      <4> QED
        BY <4>1, <4>2
    <3> QED
      BY <1>2, <3>1 DEF Settle, removeTerminalPiCommandPrefix
  <2>4. outcome'[e.key] = result /\ \A k \in Command \ {e.key} : outcome'[k] = outcome[k]
    BY <1>0, <1>2, <2>1 DEF Settle
  <2> HIDE DEF f
  <2>5. \A k \in Command : Settled(k) => Settled(k)'
    BY <2>4 DEF Settled
  <2>6. Settled(e.key)'
    BY <2>4 DEF Settled
  <2>7. \A k \in Command : Queued(k) => Queued(k)' \/ Settled(k)'
    BY <2>1, <2>3, <2>6 DEF Queued
  <2>8. TerminalIsSettled'
    BY <2>1, <2>2, <2>3, <2>5, <2>6, CountTypes DEF TerminalIsSettled, LossInv
  <2> QED
    BY <1>0, <2>5, <2>7, <2>8, KeepsLossInv
<1>3. ASSUME NEW e \in AckedEntry(a), Retry(e)
      PROVE  LossInv'
  <2>1. e \in commands /\ e \in Entry /\ e.key \in Command /\ e.status = "queued"
    BY CountTypes DEF AckedEntry
  <2>2. CountFailure(e).key = e.key /\ CountFailure(e).status = "queued"
    BY <2>1 DEF CountFailure, Entry
  <2>3. commands' = (commands \ {e}) \cup {CountFailure(e)} /\ UNCHANGED outcome
    BY <1>3 DEF Retry
  <2>4. \A k \in Command : Queued(k) => Queued(k)'
    BY <2>1, <2>2, <2>3 DEF Queued
  <2>5. TerminalIsSettled'
    BY <2>2, <2>3 DEF TerminalIsSettled, Settled, LossInv
  <2>6. \A k \in Command : Settled(k) => Settled(k)'
    BY <2>3 DEF Settled
  <2> QED
    BY <1>0, <2>4, <2>5, <2>6, KeepsLossInv
<1> QED
    BY <1>1, <1>2, <1>3 DEF onPiExtensionCommandAck

\* No step drops a covered command without an outcome or a replay.
LEMMA NextLoss ==
    ASSUME IInv, LossInv, [Next]_vars
    PROVE  LossInv'
<1>1. CASE UNCHANGED vars
    BY <1>1, QuietKeepsLoss DEF vars
<1>2. CASE DaemonStart \/ DaemonCrash \/ OwnerWindowPasses
    BY <1>2, QuietKeepsLoss DEF DaemonStart, DaemonCrash, NoMirror, OwnerWindowPasses
<1>3. CASE RouteMessage \/ \E n \in 1..Len(relayLog) : RouteAgain(n)
    BY <1>3, RouteLoss
<1>4. ASSUME NEW k \in Command, SendCommand(k)
      PROVE  LossInv'
    BY <1>4, SendCommandLoss
<1>5. CASE OpenMirror
    BY <1>5, OpenMirrorLoss
<1>6. ASSUME NEW p \in Process,
             \/ ExtensionEvent(p) \/ StartPi(p) \/ ReloadPi(p) \/ SessionShutdown(p)
             \/ ExitPi(p) \/ ReloadEventDropped(p) \/ Poll(p)
             \/ ReadLedger(p) \/ BeginExecution(p) \/ FinishAccepted(p)
             \/ FinishFailed(p) \/ AckTimesOut(p)
      PROVE  LossInv'
  <2>1. UNCHANGED <<relayLog, boundary, covered, outcome>>
    BY <1>6 DEF ExtensionEvent, StartPi, ReloadPi, SessionShutdown, ExitPi,
                ReloadEventDropped, Poll, ReadLedger, BeginExecution,
                FinishAccepted, FinishFailed, AckTimesOut
  <2>2. \/ UNCHANGED <<mirrorUp, receiveSeq, commands>>
        \/ mirrorUp' = FALSE /\ commands' = {}
    BY <1>6 DEF ExtensionEvent, StartPi, ReloadPi, SessionShutdown, NoMirror, ExitPi,
                ReloadEventDropped, Poll, ReadLedger, BeginExecution,
                FinishAccepted, FinishFailed, AckTimesOut
  <2> QED
    BY <2>1, <2>2, QuietKeepsLoss
<1>7. ASSUME NEW p \in Process, AckAnswered(p)
      PROVE  LossInv'
  <2>1. job[p] # NoJob /\ job[p] \in Job
    BY <1>7, EnvelopesAreJobs DEF IInv, HoldsJob, AckAnswered
  <2>2. AckOf(p) \in Ack
    BY <2>1, CurrentIsInstance DEF IInv, AckOf, Ack
  <2> QED
    BY <1>7, <2>2, AckLoss DEF AckAnswered
<1>8. ASSUME NEW a \in inFlight, LateAckHandled(a) \/ LateAckLost(a)
      PROVE  LossInv'
  <2>1. a \in Ack
    BY DEF IInv, TypeOK
  <2>2. CASE LateAckHandled(a)
    BY <2>1, <2>2, AckLoss DEF LateAckHandled
  <2>3. CASE LateAckLost(a)
    BY <2>3, QuietKeepsLoss DEF LateAckLost
  <2> QED
    BY <1>8, <2>2, <2>3
<1>9. ASSUME NEW p \in Process, PromptStep(p)
      PROVE  LossInv'
    BY <1>9, PromptStepEffect, QuietKeepsLoss
<1> QED
    BY <1>1, <1>2, <1>3, <1>4, <1>5, <1>6, <1>7, <1>8, <1>9
    DEF Next, PiStep, PiEnvironment, PromptStep

\* No command sent behind the boundary is lost without a record: it has its
\* outcome, or a restart replays it and the mirror that routed it still queues
\* it, whatever crashes, reloads, full queues and late acks happen.
THEOREM NothingIsLost == Spec => []NoSilentLoss
<1>1. Init => LossInv
    BY InitLoss
<1>2. IInv /\ LossInv /\ [Next]_vars => LossInv'
    BY NextLoss
<1>3. LossInv => NoSilentLoss
    BY DEF LossInv
<1> QED
    BY <1>1, <1>2, <1>3, Invariance, PTL DEF Spec

------------------------------------------------------------------------------
(* Commands keep the order of the relay.                                    *)

\* Nothing was sent, queued or handed out.
LEMMA InitFifo == Init => FifoInv
BY DEF Init, FifoInv, QueueInOrder, BoundaryCovers, HandedOutInTurn, HandedOut

\* A command whose turn has come keeps it: what was taken or settled before it
\* stays so.
LEMMA KeepsTurn ==
    ASSUME IInv, NEW k \in Command, InTurn(k), UNCHANGED <<relayLog, covered>>,
           \A c \in Command : Settled(c) => Settled(c)',
           \A c \in Command : taken[c] > 0 => taken'[c] > 0
    PROVE  InTurn(k)'
<1>1. \A c : Place(c)' = Place(c)
    BY DEF Place
<1> QED
    BY <1>1 DEF InTurn, IInv, TypeOK

\* Steps that leave the relay alone, hand out nothing new, and keep the queue
\* but for entries that go or change in place.
LEMMA QuietKeepsFifo ==
    ASSUME IInv, FifoInv, UNCHANGED <<relayLog, covered, boundary>>,
           \A c \in Command : Settled(c) => Settled(c)',
           \A c \in Command : taken[c] > 0 => taken'[c] > 0,
           HandedOut' \subseteq HandedOut,
           commands' = {} \/ receiveSeq' = receiveSeq,
           \A e \in commands' : \E d \in commands : d.seq = e.seq /\ d.key = e.key
    PROVE  FifoInv'
<1>1. (\A c : Place(c)' = Place(c)) /\ Sent' = Sent
    BY DEF Place, Sent
<1>2. QueueInOrder'
    BY <1>1 DEF FifoInv, QueueInOrder
<1>3. BoundaryCovers'
    BY DEF FifoInv, BoundaryCovers
<1>4. HandedOutInTurn'
    BY <1>1, KeepsTurn DEF FifoInv, HandedOutInTurn, HandedOut
<1> QED
    BY <1>2, <1>3, <1>4 DEF FifoInv

\* A new message comes after everything that was sent before it.
LEMMA SendCommandFifo ==
    ASSUME IInv, LossInv, FifoInv, NEW k \in Command, SendCommand(k)
    PROVE  FifoInv'
<1>1. /\ relayLog \in Seq(Command) /\ relayLog' = Append(relayLog, k) /\ k \notin Sent
      /\ UNCHANGED <<boundary, outcome, commands, receiveSeq, taken, job, late>>
    BY DEF SendCommand, IInv, TypeOK
<1>2. /\ Len(relayLog') = Len(relayLog) + 1 /\ relayLog'[Len(relayLog) + 1] = k
      /\ \A n \in 1..Len(relayLog) : relayLog'[n] = relayLog[n]
      /\ Len(relayLog) \in Nat
    BY <1>1
<1>3. \A m, n \in 1..Len(relayLog') : relayLog'[m] = relayLog'[n] => m = n
    BY <1>1, <1>2 DEF LossInv, LogWellFormed, Sent
<1>4. \A c \in Command, n \in 1..Len(relayLog') : relayLog'[n] = c => Place(c)' = n
    BY <1>3 DEF Place
<1>5. ASSUME NEW c \in Sent
      PROVE  c \in Sent' /\ Place(c)' = Place(c) /\ Place(c) \in 1..Len(relayLog)
  <2>1. PICK n \in 1..Len(relayLog) : relayLog[n] = c
    BY DEF Sent
  <2>2. n \in 1..Len(relayLog') /\ relayLog'[n] = c /\ c \in Command
    BY <1>1, <1>2, <2>1
  <2>3. Place(c)' = n /\ Place(c) = n
    BY <1>4, <2>1, <2>2, PlaceIsUnique DEF LossInv
  <2> QED
    BY <2>1, <2>2, <2>3 DEF Sent
<1>6. Place(k)' = Len(relayLog) + 1
  <2>1. Len(relayLog) + 1 \in 1..Len(relayLog')
    BY <1>2
  <2> QED
    BY <1>2, <1>4, <2>1
<1>7. covered \subseteq Sent /\ covered' \subseteq covered \cup {k}
    BY DEF SendCommand, LossInv, LogWellFormed
<1>8. QueueInOrder'
    BY <1>1, <1>5 DEF FifoInv, QueueInOrder
<1>9. BoundaryCovers'
  <2> SUFFICES ASSUME boundary # NoBoundary, NEW n \in boundary + 1 .. Len(relayLog')
               PROVE  relayLog'[n] \in covered'
    BY <1>1 DEF BoundaryCovers
  <2>1. boundary \in Nat /\ covered' = covered \cup {k}
    BY DEF SendCommand, IInv, TypeOK
  <2>2. n \in 1..Len(relayLog) \/ n = Len(relayLog) + 1
    BY <1>2, <2>1
  <2> QED
    BY <1>2, <2>1, <2>2 DEF FifoInv, BoundaryCovers
<1>10. HandedOut' = HandedOut
    BY <1>1 DEF HandedOut
<1>11. ASSUME NEW c \in HandedOut PROVE c \in Sent' /\ InTurn(c)'
  <2>1. c \in Sent /\ InTurn(c)
    BY <1>11 DEF FifoInv, HandedOutInTurn
  <2>2. ~(Place(k)' < Place(c)')
    BY <1>2, <1>5, <1>6, <2>1
  <2> QED
    BY <1>1, <1>5, <1>7, <2>1, <2>2 DEF InTurn, Settled
<1> QED
    BY <1>8, <1>9, <1>10, <1>11 DEF FifoInv, HandedOutInTurn

\* A mirror that opens has an empty queue; a boundary that is fixed now has
\* nothing behind it.
LEMMA OpenMirrorFifo ==
    ASSUME IInv, LossInv, FifoInv, OpenMirror
    PROVE  FifoInv'
<1>1. /\ Len(relayLog) \in Nat /\ commands' = {}
      /\ boundary' = IF boundary = NoBoundary THEN Len(relayLog) ELSE boundary
      /\ UNCHANGED <<relayLog, covered, outcome, taken, job, late>>
    BY DEF OpenMirror, CommandBoundary, IInv, TypeOK
<1>2. QueueInOrder'
    BY <1>1 DEF QueueInOrder
<1>3. BoundaryCovers'
    BY <1>1 DEF FifoInv, BoundaryCovers
<1>4. HandedOut' = HandedOut /\ Sent' = Sent
    BY <1>1 DEF HandedOut, Sent
<1>5. \A c \in Command : InTurn(c) => InTurn(c)'
    BY <1>1, KeepsTurn DEF Settled
<1> QED
    BY <1>2, <1>3, <1>4, <1>5 DEF FifoInv, HandedOutInTurn, HandedOut

\* What a message adds to the queue: a command that is neither settled nor
\* queued, under the next number.
LEMMA HandleMessageQueues ==
    ASSUME IInv, NEW k \in Command, HandleMessage(k)
    PROVE  /\ \A c \in Command : Settled(c) => Settled(c)'
           /\ \/ UNCHANGED commands
              \/ /\ ~Known(k)
                 /\ commands' = commands \cup
                      {[seq |-> nextCommandSeq, key |-> k, status |-> "queued", failures |-> 0]}
<1>1. \/ UNCHANGED <<commands, outcome>>
      \/ UNCHANGED commands /\ outcome' = [outcome EXCEPT ![k] = "failed"]
      \/ /\ ~Known(k)
         /\ commands' = commands \cup
              {[seq |-> nextCommandSeq, key |-> k, status |-> "queued", failures |-> 0]}
         /\ UNCHANGED outcome
    BY DEF HandleMessage, queueRemotePiCommand, markRemotePiCommandFailed,
           resolvePiCommandAdmission
<1>2. outcome \in [Command -> Outcome]
    BY DEF IInv, TypeOK
<1> QED
    BY <1>1, <1>2 DEF Settled

\* The next message of the log goes behind all that is queued.
LEMMA RouteMessageFifo ==
    ASSUME IInv, LossInv, FifoInv, RouteMessage
    PROVE  FifoInv'
<1> DEFINE k == relayLog[receiveSeq + 1]
           new == [seq |-> nextCommandSeq, key |-> k, status |-> "queued", failures |-> 0]
<1>1. /\ k \in Command /\ HandleMessage(k) /\ receiveSeq \in Nat
      /\ receiveSeq + 1 \in 1..Len(relayLog) /\ receiveSeq' = receiveSeq + 1
      /\ UNCHANGED <<relayLog, boundary, covered, taken, job, late>>
    BY DEF RouteMessage, IInv, TypeOK
<1>2. k \in Sent /\ Place(k) = receiveSeq + 1
    BY <1>1, PlaceIsUnique DEF LossInv, Sent
<1>3. /\ \A c \in Command : Settled(c) => Settled(c)'
      /\ commands' = commands \/ commands' = commands \cup {new}
    BY <1>1, HandleMessageQueues
<1>4. new.seq = nextCommandSeq /\ new.key = k
    OBVIOUS
<1> HIDE DEF new, k
<1>5. (\A c : Place(c)' = Place(c)) /\ Sent' = Sent
    BY <1>1 DEF Place, Sent
<1>6. \A e \in commands : e.seq \in Nat /\ e.seq < nextCommandSeq
    BY CountTypes DEF IInv, QueueWellFormed
<1>7. \A e \in commands : e.key \in Sent /\ Place(e.key) <= receiveSeq /\ Place(e.key) \in Nat
    BY PlaceIsUnique DEF FifoInv, QueueInOrder, LossInv, Sent
<1>8. nextCommandSeq \in Nat
    BY DEF IInv, TypeOK
<1>9. QueueInOrder'
  <2>1. ASSUME NEW e \in commands'
        PROVE  e.key \in Sent' /\ Place(e.key)' <= receiveSeq'
    BY <1>1, <1>2, <1>3, <1>4, <1>5, <1>7
  <2>2. ASSUME NEW e \in commands', NEW d \in commands', e.seq < d.seq
        PROVE  Place(e.key)' < Place(d.key)'
    <3>1. CASE e \in commands /\ d \in commands
      BY <1>5, <2>2, <3>1 DEF FifoInv, QueueInOrder
    <3>2. CASE e \in commands /\ d = new
      BY <1>1, <1>2, <1>4, <1>5, <1>7, <3>2
    <3>3. CASE e = new
      BY <1>3, <1>4, <1>6, <1>8, <2>2, <3>3
    <3> QED
      BY <1>3, <3>1, <3>2, <3>3
  <2> QED
    BY <2>1, <2>2 DEF QueueInOrder
<1>10. BoundaryCovers'
    BY <1>1 DEF FifoInv, BoundaryCovers
<1>11. HandedOut' = HandedOut
    BY <1>1 DEF HandedOut
<1>12. \A c \in Command : InTurn(c) => InTurn(c)'
    BY <1>1, <1>3, KeepsTurn
<1> QED
    BY <1>5, <1>9, <1>10, <1>11, <1>12 DEF FifoInv, HandedOutInTurn, HandedOut

\* A message that comes again was queued or settled the first time.
LEMMA RouteAgainFifo ==
    ASSUME IInv, LossInv, FifoInv, NEW n \in 1..Len(relayLog), RouteAgain(n)
    PROVE  FifoInv'
<1> DEFINE k == relayLog[n]
<1>1. /\ k \in Command /\ HandleMessage(k) /\ mirrorUp
      /\ UNCHANGED <<relayLog, boundary, covered, receiveSeq, taken, job, late>>
    BY DEF RouteAgain, IInv, TypeOK
<1>2. k \in covered /\ Place(k) <= receiveSeq
  <2>1. boundary # NoBoundary /\ boundary \in Nat /\ receiveSeq \in Nat
    BY <1>1 DEF LossInv, LogWellFormed, IInv, TypeOK
  <2>2. n \in boundary + 1 .. Len(relayLog) /\ n <= receiveSeq
    BY <2>1 DEF RouteAgain
  <2> QED
    BY <2>1, <2>2, PlaceIsUnique DEF FifoInv, BoundaryCovers, LossInv
<1>3. Known(k)
    BY <1>1, <1>2 DEF LossInv, NoSilentLoss, Settled, Queued, Known
<1> HIDE DEF k
<1>4. UNCHANGED commands /\ \A c \in Command : Settled(c) => Settled(c)'
    BY <1>1, <1>3, HandleMessageQueues
<1>5. HandedOut' = HandedOut
    BY <1>1 DEF HandedOut
<1> QED
    BY <1>1, <1>4, <1>5, QuietKeepsFifo

\* The oldest queued command is polled when everything routed before it is
\* settled (selectNextQueuedPiCommand).
LEMMA PollFifo ==
    ASSUME IInv, LossInv, FifoInv, NEW p \in Process, Poll(p)
    PROVE  FifoInv'
<1>1. PICK e \in selectNextQueuedPiCommand :
         job' = [job EXCEPT ![p] = [epoch |-> commandQueueEpoch, seq |-> e.seq,
                                    failures |-> e.failures, key |-> e.key, ok |-> FALSE]]
    BY DEF Poll
<1>2. e \in commands /\ e.status = "queued" /\ e.key \in Command /\ e.seq \in Nat
    BY CountTypes DEF selectNextQueuedPiCommand, Oldest
<1>3. /\ UNCHANGED <<relayLog, boundary, covered, outcome, commands, receiveSeq, taken, late>>
      /\ mirrorUp
    BY DEF Poll
<1>4. e.key \in Sent /\ Place(e.key) <= receiveSeq /\ Place(e.key) \in Nat /\ receiveSeq \in Nat
  <2>1. e.key \in Sent /\ Place(e.key) <= receiveSeq /\ receiveSeq \in Nat
    BY <1>2 DEF FifoInv, QueueInOrder, IInv, TypeOK
  <2>2. \A c \in Sent : Place(c) \in Nat
    BY PlaceIsUnique DEF LossInv, Sent
  <2> QED
    BY <2>1, <2>2
<1>5. InTurn(e.key)
  <2> SUFFICES ASSUME e.key \notin Urgent, NEW d \in covered, Place(d) < Place(e.key), ~Settled(d)
               PROVE  FALSE
    BY DEF InTurn
  <2>1. Place(d) \in Nat
    BY CoveredHasPlace DEF LossInv
  <2>2. Queued(d)
    BY <1>3, <1>4, <2>1 DEF LossInv, NoSilentLoss
  <2>3. PICK x \in commands : x.key = d /\ x.status = "queued"
    BY <2>2 DEF Queued
  <2>4. e.seq <= x.seq
    BY <1>2, <2>3 DEF selectNextQueuedPiCommand, Oldest
  <2>5. x.seq \in Nat /\ (x.seq = e.seq => x = e)
    BY <1>2, <2>3, CountTypes DEF IInv, QueueWellFormed
  <2>6. CASE e.seq < x.seq
    BY <1>2, <1>4, <2>1, <2>3, <2>6 DEF FifoInv, QueueInOrder
  <2>7. CASE e.seq = x.seq
    BY <1>4, <2>3, <2>5, <2>7
  <2> QED
    BY <1>2, <2>4, <2>5, <2>6, <2>7
<1>6. \A q \in Process : job'[q] = job[q] \/ (job'[q] # NoJob => job'[q].key = e.key)
    BY <1>1 DEF IInv, TypeOK
<1>7. HandedOut' \subseteq HandedOut \cup {e.key}
    BY <1>3, <1>6 DEF HandedOut
<1>8. (\A c \in Command : InTurn(c) => InTurn(c)') /\ Sent' = Sent
    BY <1>3, KeepsTurn DEF Settled, Sent
<1>9. HandedOutInTurn'
    BY <1>2, <1>4, <1>5, <1>7, <1>8 DEF FifoInv, HandedOutInTurn, HandedOut
<1>10. \A c : Place(c)' = Place(c)
    BY <1>3 DEF Place
<1>11. QueueInOrder' /\ BoundaryCovers'
    BY <1>3, <1>8, <1>10 DEF FifoInv, QueueInOrder, BoundaryCovers
<1> QED
    BY <1>9, <1>11 DEF FifoInv

\* Pi takes, and keeps, what was handed to its extension (executeRemoteCommand).
LEMMA PromptStepFifo ==
    ASSUME IInv, FifoInv, NEW p \in Process, PromptStep(p)
    PROVE  FifoInv'
<1>1. /\ UNCHANGED <<relayLog, boundary, covered, outcome, commands, receiveSeq>>
      /\ \A c \in Command : taken[c] > 0 => taken'[c] > 0
      /\ HandedOut' \subseteq HandedOut
    BY PromptStepEffect
<1> QED
    BY <1>1, QuietKeepsFifo DEF Settled

\* The loop of the extension keeps its envelope until the ack is answered.
LEMMA LoopKeepsHandedOut ==
    ASSUME IInv, UNCHANGED <<taken, late>>,
           \A q \in Process : \/ job'[q] = NoJob
                              \/ job[q] # NoJob /\ job'[q].key = job[q].key
    PROVE  HandedOut' \subseteq HandedOut
BY DEF HandedOut

\* An ack settles or counts, and moves no entry (applyPiCommandFailure,
\* removeTerminalPiCommandPrefix).
LEMMA AckFifo ==
    ASSUME IInv, FifoInv, NEW a \in Ack, FromQueue(a.job), Honest(a.job),
           onPiExtensionCommandAck(a),
           UNCHANGED <<relayLog, boundary, covered, receiveSeq, taken, late>>,
           HandedOut' \subseteq HandedOut
    PROVE  FifoInv'
<1>1. \A d \in commands' : \E e \in commands : e.seq = d.seq /\ e.key = d.key
    BY AckEffect
<1>2. \A c \in Command : Settled(c) => Settled(c)'
    BY DEF onPiExtensionCommandAck, Settle, Retry, Settled, IInv, TypeOK
<1> QED
    BY <1>1, <1>2, QuietKeepsFifo

\* No step hands a command out before its turn.
LEMMA NextFifo ==
    ASSUME IInv, LossInv, FifoInv, [Next]_vars
    PROVE  FifoInv'
<1>1. CASE UNCHANGED vars
    BY <1>1, QuietKeepsFifo DEF vars, Settled, HandedOut
<1>2. CASE DaemonStart \/ DaemonCrash \/ OwnerWindowPasses
  <2>1. /\ UNCHANGED <<relayLog, covered, boundary, outcome, taken, late, job>>
        /\ UNCHANGED <<commands, receiveSeq>> \/ commands' = {}
    BY <1>2 DEF DaemonStart, DaemonCrash, NoMirror, OwnerWindowPasses
  <2> QED
    BY <2>1, QuietKeepsFifo DEF Settled, HandedOut
<1>3. CASE RouteMessage \/ OpenMirror
    BY <1>3, RouteMessageFifo, OpenMirrorFifo
<1>4. ASSUME NEW n \in 1..Len(relayLog), RouteAgain(n)
      PROVE  FifoInv'
    BY <1>4, RouteAgainFifo
<1>5. ASSUME NEW k \in Command, SendCommand(k)
      PROVE  FifoInv'
    BY <1>5, SendCommandFifo
<1>6. ASSUME NEW p \in Process,
             \/ ExtensionEvent(p) \/ StartPi(p) \/ ReloadPi(p) \/ SessionShutdown(p)
             \/ ExitPi(p) \/ ReloadEventDropped(p) \/ AckTimesOut(p)
      PROVE  FifoInv'
  <2>1. UNCHANGED <<relayLog, boundary, covered, outcome, taken>>
    BY <1>6 DEF ExtensionEvent, StartPi, ReloadPi, SessionShutdown, ExitPi,
                ReloadEventDropped, AckTimesOut
  <2>2. UNCHANGED <<receiveSeq, commands>> \/ commands' = {}
    BY <1>6 DEF ExtensionEvent, StartPi, ReloadPi, SessionShutdown, NoMirror, ExitPi,
                ReloadEventDropped, AckTimesOut
  <2>3. \A q \in Process : late'[q] \subseteq late[q] /\ (job'[q] = job[q] \/ job'[q] = NoJob)
    BY <1>6 DEF ExtensionEvent, StartPi, ReloadPi, SessionShutdown, ExitPi,
                ReloadEventDropped, AckTimesOut, IInv, TypeOK
  <2>4. HandedOut' \subseteq HandedOut
    BY <2>1, <2>3 DEF HandedOut
  <2> QED
    BY <2>1, <2>2, <2>4, QuietKeepsFifo DEF Settled
<1>7. ASSUME NEW p \in Process, Poll(p)
      PROVE  FifoInv'
    BY <1>7, PollFifo
<1>8. ASSUME NEW p \in Process, PromptStep(p)
      PROVE  FifoInv'
    BY <1>8, PromptStepFifo
<1>9. ASSUME NEW p \in Process,
             ReadLedger(p) \/ BeginExecution(p) \/ FinishAccepted(p) \/ FinishFailed(p)
      PROVE  FifoInv'
  <2>1. /\ UNCHANGED <<relayLog, boundary, covered, outcome, taken, late, receiveSeq, commands>>
        /\ job[p] # NoJob
    BY <1>9 DEF ReadLedger, BeginExecution, FinishAccepted, FinishFailed, IInv, HoldsJob
  <2>2. (\E ok \in BOOLEAN : Report(p, ok)) \/ UNCHANGED job
    BY <1>9 DEF ReadLedger, CheckLedger, BeginExecution, FinishAccepted, FinishFailed, Goto
  <2>3. job[p] \in Job
    BY <2>1, CountTypes
  <2>4. \A q \in Process : job'[q] = NoJob \/ (job[q] # NoJob /\ job'[q].key = job[q].key)
    <3>1. ASSUME NEW ok \in BOOLEAN, Report(p, ok)
          PROVE  /\ \A q \in Process \ {p} : job'[q] = job[q]
                 /\ job'[p].key = job[p].key
      <4>1. job'[p] = [job[p] EXCEPT !.ok = ok] /\ \A q \in Process \ {p} : job'[q] = job[q]
        BY <2>3, <3>1, ReportEffect
      <4> QED
        BY <2>3, <4>1 DEF Job
    <3> QED
      BY <2>1, <2>2, <3>1
  <2> QED
    BY <2>1, <2>4, LoopKeepsHandedOut, QuietKeepsFifo DEF Settled
<1>10. ASSUME NEW p \in Process, AckAnswered(p)
      PROVE  FifoInv'
  <2>1. job[p] # NoJob /\ job[p] \in Job
    BY <1>10, EnvelopesAreJobs DEF IInv, HoldsJob, AckAnswered
  <2>2. AckOf(p) \in Ack /\ AckOf(p).job = job[p]
    BY <2>1, CurrentIsInstance DEF IInv, AckOf, Ack
  <2>3. FromQueue(AckOf(p).job) /\ Honest(AckOf(p).job)
    BY <2>1, <2>2 DEF IInv, JobsHonest
  <2>4. HandedOut' \subseteq HandedOut
    BY <1>10 DEF AckAnswered, HandedOut, IInv, TypeOK
  <2> QED
    BY <1>10, <2>2, <2>3, <2>4, AckFifo DEF AckAnswered
<1>11. ASSUME NEW a \in inFlight, LateAckHandled(a) \/ LateAckLost(a)
      PROVE  FifoInv'
  <2>1. a \in Ack /\ FromQueue(a.job) /\ Honest(a.job)
    BY DEF IInv, TypeOK, JobsHonest
  <2>2. HandedOut' = HandedOut
    BY <1>11 DEF LateAckHandled, LateAckLost, HandedOut
  <2>3. CASE LateAckHandled(a)
    BY <2>1, <2>2, <2>3, AckFifo DEF LateAckHandled
  <2>4. CASE LateAckLost(a)
    BY <2>2, <2>4, QuietKeepsFifo DEF LateAckLost, Settled
  <2> QED
    BY <1>11, <2>3, <2>4
<1> QED
    BY <1>1, <1>2, <1>3, <1>4, <1>5, <1>6, <1>7, <1>8, <1>9, <1>10, <1>11
    DEF Next, PiStep, PiEnvironment, PromptStep

\* Pi takes ordinary commands in the order of the relay: when one was taken,
\* each covered command before it was taken or has its outcome, across daemon
\* restarts that replay the log, late acks, retries and urgent commands.
THEOREM KeepsOrder == Spec => []Fifo
<1>1. Init => LossInv /\ FifoInv
    BY InitLoss, InitFifo
<1>2. IInv /\ LossInv /\ FifoInv /\ [Next]_vars => LossInv' /\ FifoInv'
    BY NextLoss, NextFifo
<1>3. IInv /\ LossInv /\ FifoInv => Fifo
    BY DEF FifoInv, HandedOutInTurn, HandedOut, InTurn, Fifo, Sent, IInv, TypeOK
<1> QED
    BY <1>1, <1>2, <1>3, Invariance, PTL DEF Spec

------------------------------------------------------------------------------
(* The refinement: one process at a time, and the ledgers between them.     *)

\* A step that starts no process moves the loop of a living one only.
LEMMA KeepsSole ==
    ASSUME SoleProcess,
           \A q \in Process : Alive(q)' => Alive(q),
           \A q \in Process : \/ Alive(q)' /\ Alive(q)
                              \/ pc'[q] = "idle" /\ ledgerCache'[q] = NotLoaded
                              \/ pc'[q] = pc[q] /\ ledgerCache'[q] = ledgerCache[q] /\ ~Alive(q)
    PROVE  SoleProcess'
BY DEF SoleProcess

\* Two processes never run the session together (the lock of the session).
LEMMA NextSole ==
    ASSUME IInv, ~Overlap, SoleProcess, [Next]_vars
    PROVE  SoleProcess'
<1>1. CASE UNCHANGED <<phase, pc, ledgerCache>>
    BY <1>1 DEF SoleProcess, Alive
<1>2. ASSUME NEW p \in Process, StartPi(p)
      PROVE  SoleProcess'
  <2>1. \A q \in Process : ~Alive(q) /\ (Alive(q)' => q = p)
    BY <1>2 DEF StartPi, Alive, IInv, TypeOK
  <2> QED
    BY <1>2, <2>1 DEF StartPi, SoleProcess
<1>3. ASSUME NEW p \in Process, SessionShutdown(p) \/ ExitPi(p)
      PROVE  SoleProcess'
    BY <1>3, KeepsSole DEF SessionShutdown, ExitPi, Alive, IInv, TypeOK
<1>4. ASSUME NEW p \in Process, PiStep(p) \/ PromptStep(p)
      PROVE  SoleProcess'
  <2>0. CASE PromptStep(p)
    BY <2>0, PromptStepEffect, KeepsSole DEF Alive
  <2> SUFFICES ASSUME ~PromptStep(p)
               PROVE  SoleProcess'
    BY <2>0
  <2>1. UNCHANGED phase /\ Alive(p)
    BY <1>4 DEF PiStep, PromptStep, Poll, ReadLedger, BeginExecution, FinishAccepted,
                FinishFailed, AckAnswered, Alive
  <2>2. \A q \in Process \ {p} : pc'[q] = pc[q]
    BY <1>4 DEF PiStep, PromptStep, Poll, ReadLedger, CheckLedger, BeginExecution,
                FinishAccepted, FinishFailed, AckAnswered, Report, Goto, IInv, TypeOK
  <2>3. \A q \in Process \ {p} : ledgerCache'[q] = ledgerCache[q]
    BY <1>4 DEF PiStep, PromptStep, Poll, ReadLedger, CheckLedger, BeginExecution,
                FinishAccepted, FinishFailed, AckAnswered, Remember, IInv, TypeOK
  <2>4. \A q \in Process : Alive(q)' = Alive(q)
    BY <2>1 DEF Alive
  <2> QED
    BY <2>1, <2>2, <2>3, <2>4, KeepsSole
<1>5. ASSUME NEW p \in Process, ~StartPi(p), ~SessionShutdown(p), ~ExitPi(p),
             ~PromptStep(p), PiEnvironment(p)
      PROVE  UNCHANGED <<phase, pc, ledgerCache>>
    BY <1>5 DEF PiEnvironment, PromptStep, ReloadPi, ReloadEventDropped, AckTimesOut
<1>6. CASE UNCHANGED vars
    BY <1>1, <1>6 DEF vars
<1>7. ASSUME NEW p \in Process, ExtensionEvent(p)
      PROVE  UNCHANGED <<phase, pc, ledgerCache>>
    BY <1>7 DEF ExtensionEvent
<1>8. ASSUME NEW a \in inFlight, LateAckHandled(a) \/ LateAckLost(a)
      PROVE  UNCHANGED <<phase, pc, ledgerCache>>
    BY <1>8 DEF LateAckHandled, LateAckLost
<1>9. CASE \/ DaemonStart \/ DaemonCrash \/ OpenMirror \/ RouteMessage \/ OwnerWindowPasses
           \/ \E k \in Command : SendCommand(k)
           \/ \E n \in 1..Len(relayLog) : RouteAgain(n)
    BY <1>1, <1>9 DEF DaemonStart, DaemonCrash, OpenMirror, RouteMessage, OwnerWindowPasses,
                      SendCommand, RouteAgain
<1> QED
    BY <1>1, <1>2, <1>3, <1>4, <1>5, <1>6, <1>7, <1>8, <1>9 DEF Next

\* Steps that take nothing, write no ledger and begin no call.
LEMMA QuietKeepsGuard ==
    ASSUME LedgersGuard, UNCHANGED <<taken, mistaken, ledgerFile>>,
           \A q \in Process :
              /\ late'[q] \subseteq late[q]
              /\ Alive(q) /\ ~Alive(q)' => late'[q] = {}
              /\ ledgerCache'[q] \in {ledgerCache[q], NotLoaded}
              /\ \/ pc'[q] \notin {"begin", "running", "waiting", "threw"}
                 \/ /\ pc'[q] = pc[q] /\ job'[q].key = job[q].key
                    /\ ledgerCache'[q] = ledgerCache[q]
    PROVE  LedgersGuard'
<1>1. \A k : Confirmed(k)' <=> Confirmed(k)
    BY DEF Confirmed
<1> QED
    BY <1>1 DEF LedgersGuard

\* A process that sees nothing in the ledger of what it polled may begin
\* (getExecutedCommandState).
LEMMA ReadLedgerGuard ==
    ASSUME IInv, LedgersGuard, NEW p \in Process, ReadLedger(p)
    PROVE  LedgersGuard'
<1>1. job[p] # NoJob /\ job[p] \in Job /\ job[p].key \in Command
    BY CountTypes DEF ReadLedger, IInv, HoldsJob
<1>2. LedgerOf(p) \in Ledger /\ LedgerOf(p) # NotLoaded
    BY DeliveryAssumption DEF LedgerOf, IInv, TypeOK, DeliveryAssumption, Ledger, LedgerState
<1>3. \A k \in Command : Confirmed(k) => LedgerOf(p)[k] # "none"
    BY DEF LedgerOf, LedgersGuard
<1>4. /\ ledgerCache'[p] = LedgerOf(p)
      /\ \A q \in Process \ {p} : ledgerCache'[q] = ledgerCache[q] /\ pc'[q] = pc[q] /\ job'[q] = job[q]
      /\ UNCHANGED <<taken, mistaken, ledgerFile, late, phase>>
    BY DEF ReadLedger, CheckLedger, Report, Goto, IInv, TypeOK
<1>5. \/ pc'[p] = "acking"
      \/ pc'[p] = "begin" /\ job' = job /\ LedgerOf(p)[job[p].key] = "none"
    BY DEF ReadLedger, CheckLedger, Report, Goto, IInv, TypeOK
<1>6. /\ \A k : Confirmed(k)' <=> Confirmed(k)
      /\ \A q : Alive(q)' <=> Alive(q)
    BY <1>4 DEF Confirmed, Alive
<1>7. pc'[p] = "begin" => job'[p] = job[p] /\ ~Confirmed(job[p].key)
    BY <1>1, <1>3, <1>5
<1> QED
    BY <1>3, <1>4, <1>5, <1>6, <1>7 DEF LedgersGuard

\* What a step of p that remembers a state does to its ledgers.
LEMMA RememberLedgers ==
    ASSUME IInv, NEW p \in Process, job[p] \in Job, ledgerCache[p] # NotLoaded,
           NEW state \in LedgerState, Remember(p, state)
    PROVE  /\ ledgerCache'[p] = [ledgerCache[p] EXCEPT ![job[p].key] = state]
           /\ ledgerCache'[p] # NotLoaded
           /\ ledgerCache'[p][job[p].key] = state
           /\ \A c \in Command \ {job[p].key} : ledgerCache'[p][c] = ledgerCache[p][c]
           /\ \A q \in Process \ {p} : ledgerCache'[q] = ledgerCache[q]
<1>1. job[p].key \in Command /\ ledgerCache[p] \in Ledger
    BY DEF IInv, TypeOK, Job
<1>2. ledgerCache' = [ledgerCache EXCEPT ![p] = [ledgerCache[p] EXCEPT ![job[p].key] = state]]
    BY DEF Remember
<1> DEFINE new == [ledgerCache[p] EXCEPT ![job[p].key] = state]
<1>3. new \in Ledger /\ new[job[p].key] = state
      /\ \A c \in Command \ {job[p].key} : new[c] = ledgerCache[p][c]
    BY <1>1 DEF Ledger
<1>4. new # NotLoaded
    BY <1>3, DeliveryAssumption DEF DeliveryAssumption, Ledger, LedgerState
<1>5. ledgerCache' = [ledgerCache EXCEPT ![p] = new]
    BY <1>2
<1> HIDE DEF new
<1>6. ledgerCache'[p] = new /\ \A q \in Process \ {p} : ledgerCache'[q] = ledgerCache[q]
    BY <1>5 DEF IInv, TypeOK
<1>7. new = [ledgerCache[p] EXCEPT ![job[p].key] = state]
    BY DEF new
<1> QED
    BY <1>3, <1>4, <1>6, <1>7

\* A state is remembered of a command that was not confirmed, or it is not "none";
\* the file follows the memory or stays.
LEMMA RememberGuard ==
    ASSUME IInv, SoleProcess, LedgersGuard, NEW p \in Process, job[p] \in Job,
           Alive(p), ledgerCache[p] # NotLoaded,
           NEW state \in LedgerState, Remember(p, state),
           ledgerFile' \in {ledgerFile, ledgerCache'[p]},
           state # "none" \/ ~Confirmed(job[p].key),
           UNCHANGED <<taken, mistaken, late, phase>>,
           \A q \in Process \ {p} : pc'[q] = pc[q] /\ job'[q] = job[q],
           \/ pc'[p] = "acking"
           \/ /\ pc'[p] = "running" /\ job' = job /\ ledgerFile' = ledgerCache'[p]
              /\ state # "none" /\ ~Confirmed(job[p].key)
    PROVE  LedgersGuard'
<1> DEFINE k == job[p].key
<1>0. /\ \A c : Confirmed(c)' <=> Confirmed(c)
      /\ \A q : Alive(q)' <=> Alive(q)
    BY DEF Confirmed, Alive
<1>1. /\ ledgerCache'[p] # NotLoaded /\ ledgerCache'[p][k] = state
      /\ \A c \in Command \ {k} : ledgerCache'[p][c] = ledgerCache[p][c]
      /\ \A q \in Process \ {p} : ledgerCache'[q] = ledgerCache[q]
    BY RememberLedgers
<1>2. \A q \in Process \ {p} : pc'[q] = "idle" /\ ledgerCache'[q] = NotLoaded
    BY <1>1 DEF SoleProcess
<1>3. k \in Command
    BY DEF Job
<1>4. \A c \in Command : Confirmed(c) => ledgerCache'[p][c] # "none"
  <2> SUFFICES ASSUME NEW c \in Command, Confirmed(c)
               PROVE  ledgerCache'[p][c] # "none"
    OBVIOUS
  <2>1. CASE c = k
    BY <1>1, <2>1
  <2>2. CASE c # k
    BY <1>1, <2>2 DEF LedgersGuard
  <2> QED
    BY <2>1, <2>2
<1>5. \A c \in Command : Confirmed(c) => ledgerFile'[c] # "none"
    BY <1>4 DEF LedgersGuard
<1>6. pc'[p] # "acking" =>
         /\ pc'[p] = "running" /\ job'[p] = job[p] /\ ~Confirmed(job[p].key)
         /\ ledgerFile'[job[p].key] # "none"
         /\ ledgerCache'[p][job[p].key] # "none"
    BY <1>1
<1> HIDE DEF k
<1>7. \A c \in Command : taken'[c] <= 1
    BY DEF LedgersGuard
<1>8. \A q \in Process : /\ ~Alive(q)' => late'[q] = {}
                         /\ \A c \in late'[q] : c \in mistaken' /\ taken'[c] = 0
    BY <1>0 DEF LedgersGuard
<1>9. \A c \in Command : Confirmed(c)' =>
         /\ ledgerFile'[c] # "none"
         /\ \A q \in Process : ledgerCache'[q] # NotLoaded => ledgerCache'[q][c] # "none"
    BY <1>0, <1>2, <1>4, <1>5
<1>10. \A q \in Process :
          /\ pc'[q] \in {"begin", "running", "waiting", "threw"} => ~Confirmed(job[q].key)'
          /\ pc'[q] \in {"running", "waiting"} =>
                /\ ledgerFile'[job'[q].key] # "none"
                /\ ledgerCache'[q][job'[q].key] # "none"
  <2>1. ~Confirmed(job[p].key) /\ job'[p] = job[p] => ~Confirmed(job[p].key)'
    BY DEF Confirmed
  <2> QED
    BY <1>2, <1>6, <2>1
<1> QED
    BY <1>7, <1>8, <1>9, <1>10 DEF LedgersGuard

\* The ledger is written before the call and after it, never to forget what was
\* confirmed (persistExecutedCommandState).
LEMMA LoopGuard ==
    ASSUME IInv, SoleProcess, LedgersGuard, NEW p \in Process,
           BeginExecution(p) \/ FinishAccepted(p) \/ FinishFailed(p)
    PROVE  LedgersGuard'
<1>1. /\ job[p] \in Job /\ ledgerCache[p] # NotLoaded /\ Alive(p)
      /\ UNCHANGED <<taken, mistaken, late, phase>>
    BY EnvelopesAreJobs DEF IInv, HoldsJob, BeginExecution, FinishAccepted, FinishFailed
<1>2. \A q \in Process \ {p} : pc'[q] = pc[q] /\ job'[q] = job[q]
    BY DEF BeginExecution, FinishAccepted, FinishFailed, Report, Goto, IInv, TypeOK
<1>3. {"none", "executing", "accepted_by_pi"} = LedgerState
    BY DEF LedgerState
<1>4. CASE BeginExecution(p)
  <2>1. ~Confirmed(job[p].key)
    BY <1>4 DEF BeginExecution, LedgersGuard
  <2>2. CASE Remember(p, "executing") /\ WriteFile(p) /\ Goto(p, "running")
    <3>1. pc'[p] = "running" /\ job' = job /\ ledgerFile' = ledgerCache'[p]
      BY <2>2 DEF Goto, WriteFile, IInv, TypeOK
    <3> QED
      BY <1>1, <1>2, <1>3, <2>1, <2>2, <3>1, RememberGuard
  <2>3. CASE Remember(p, "none") /\ ledgerFile' \in {ledgerFile, ledgerCache'[p]} /\ Report(p, FALSE)
    <3>1. pc'[p] = "acking"
      BY <2>3 DEF Report, IInv, TypeOK
    <3> QED
      BY <1>1, <1>2, <1>3, <2>1, <2>3, <3>1, RememberGuard
  <2> QED
    BY <1>4, <2>2, <2>3 DEF BeginExecution
<1>5. CASE FinishAccepted(p)
  <2>1. pc'[p] = "acking" /\ ledgerFile' \in {ledgerFile, ledgerCache'[p]}
    BY <1>5 DEF FinishAccepted, Report, WriteFile, WriteFails, IInv, TypeOK
  <2> QED
    BY <1>1, <1>2, <1>3, <1>5, <2>1, RememberGuard DEF FinishAccepted
<1>6. CASE FinishFailed(p)
  <2>1. pc'[p] = "acking" /\ ledgerFile' \in {ledgerFile, ledgerCache'[p]}
    BY <1>6 DEF FinishFailed, Report, WriteFile, WriteFails, IInv, TypeOK
  <2>2. ~Confirmed(job[p].key)
    BY <1>6 DEF FinishFailed, LedgersGuard
  <2> QED
    BY <1>1, <1>2, <1>3, <1>6, <2>1, <2>2, RememberGuard DEF FinishFailed
<1> QED
    BY <1>4, <1>5, <1>6

\* What Pi takes while nothing is left with it, or was mistaken for taken, is in
\* every ledger; what was left with it is taken once.
LEMMA PromptStepGuard ==
    ASSUME IInv, ~LateConfirm, SoleProcess, LedgersGuard, NEW p \in Process, PromptStep(p)
    PROVE  LedgersGuard'
<1> DEFINE k == job[p].key
<1>1. /\ Alive(p)
      /\ UNCHANGED <<ledgerFile, ledgerCache, job, phase>>
      /\ \A q \in Process \ {p} : pc'[q] = pc[q]
      /\ \/ UNCHANGED pc
         \/ pc[p] \in {"running", "waiting"} /\ pc'[p] \in {"ran", "threw", "waiting"}
    BY PromptStepEffect
<1>2. \A q \in Process \ {p} : pc[q] = "idle" /\ ledgerCache[q] = NotLoaded /\ late[q] = {}
    BY <1>1 DEF SoleProcess, LedgersGuard
<1>3. pc[p] \in {"running", "waiting"} =>
         /\ k \in Command /\ taken[k] = 0 /\ k \notin mistaken
         /\ ledgerFile[k] # "none" /\ ledgerCache[p][k] # "none"
    BY CountTypes DEF IInv, TypeOK, HoldsJob, LedgersGuard, Confirmed
<1>4. /\ taken \in [Command -> Nat] /\ late \in [Process -> SUBSET Command]
      /\ pc \in [Process -> PC]
    BY DEF IInv, TypeOK
<1>5. \A c \in late[p] : c \in Command /\ c \in mistaken /\ taken[c] = 0
    BY <1>4 DEF LedgersGuard
<1>6. \/ /\ taken' = [taken EXCEPT ![k] = @ + 1] /\ pc[p] \in {"running", "waiting"}
         /\ pc'[p] = "ran" /\ UNCHANGED <<mistaken, late>>
      \/ /\ pc[p] \in {"running", "waiting"} /\ UNCHANGED <<taken, mistaken, late>>
      \/ /\ pc[p] = "waiting" /\ pc'[p] = "ran" /\ UNCHANGED taken
         /\ mistaken' = mistaken \cup {k} /\ late' = [late EXCEPT ![p] = late[p] \cup {k}]
      \/ \E c \in late[p] :
            /\ taken' = [taken EXCEPT ![c] = @ + 1]
            /\ \/ /\ UNCHANGED <<pc, mistaken>>
                  /\ late' = [late EXCEPT ![p] = late[p] \ {c}]
               \/ /\ pc[p] = "waiting" /\ pc'[p] = "ran"
                  /\ mistaken' = mistaken \cup {k}
                  /\ late' = [late EXCEPT ![p] = (late[p] \ {c}) \cup {k}]
    BY <1>4 DEF PromptStep, Execute, AwaitAcceptance, LocalPromptStarts, TakeLate,
                settleAnyPromptAcceptance, LeaveWithPi
<1>7. /\ \A c \in Command : taken'[c] <= 1
      /\ \A c \in Command :
            Confirmed(c)' => Confirmed(c) \/ (c = k /\ pc[p] \in {"running", "waiting"})
      /\ \A c \in late'[p] : c \in mistaken' /\ taken'[c] = 0
      /\ pc'[p] # "ran" /\ k \in Command /\ k \notin mistaken =>
            taken'[k] = taken[k] /\ k \notin mistaken'
      /\ \A q \in Process \ {p} : late'[q] = late[q]
  <2>0. \A c \in Command : taken[c] <= 1
    BY DEF LedgersGuard
  <2>1. CASE /\ taken' = [taken EXCEPT ![k] = @ + 1] /\ pc[p] \in {"running", "waiting"}
             /\ pc'[p] = "ran" /\ UNCHANGED <<mistaken, late>>
    <3>1. taken'[k] = 1 /\ \A c \in Command \ {k} : taken'[c] = taken[c]
      BY <1>3, <1>4, <2>1
    <3> HIDE DEF k
    <3> QED
      BY <1>3, <1>5, <2>0, <2>1, <3>1 DEF Confirmed
  <2>2. CASE pc[p] \in {"running", "waiting"} /\ UNCHANGED <<taken, mistaken, late>>
    BY <1>5, <2>0, <2>2 DEF Confirmed
  <2>3. CASE /\ pc[p] = "waiting" /\ pc'[p] = "ran" /\ UNCHANGED taken
             /\ mistaken' = mistaken \cup {k} /\ late' = [late EXCEPT ![p] = late[p] \cup {k}]
    <3> HIDE DEF k
    <3> QED
      BY <1>3, <1>4, <1>5, <2>0, <2>3 DEF Confirmed
  <2>4. ASSUME NEW c \in late[p], taken' = [taken EXCEPT ![c] = @ + 1],
               \/ /\ UNCHANGED <<pc, mistaken>>
                  /\ late' = [late EXCEPT ![p] = late[p] \ {c}]
               \/ /\ pc[p] = "waiting" /\ pc'[p] = "ran"
                  /\ mistaken' = mistaken \cup {k}
                  /\ late' = [late EXCEPT ![p] = (late[p] \ {c}) \cup {k}]
        PROVE  /\ \A d \in Command : taken'[d] <= 1
               /\ \A d \in Command :
                     Confirmed(d)' => Confirmed(d) \/ (d = k /\ pc[p] \in {"running", "waiting"})
               /\ \A d \in late'[p] : d \in mistaken' /\ taken'[d] = 0
               /\ pc'[p] # "ran" /\ k \in Command /\ k \notin mistaken =>
                     taken'[k] = taken[k] /\ k \notin mistaken'
               /\ \A q \in Process \ {p} : late'[q] = late[q]
    <3> HIDE DEF k
    <3>1. taken'[c] = 1 /\ \A d \in Command \ {c} : taken'[d] = taken[d]
      BY <1>4, <1>5, <2>4
    <3>2. late'[p] \subseteq (late[p] \ {c}) \cup {k} /\ (pc[p] # "waiting" => late'[p] = late[p] \ {c})
      BY <1>4, <2>4
    <3>3. c \in mistaken /\ c \in Command /\ (pc[p] = "waiting" => k # c)
      BY <1>3, <1>5
    <3>4. \/ mistaken' = mistaken /\ pc' = pc /\ late'[p] = late[p] \ {c}
          \/ pc[p] = "waiting" /\ pc'[p] = "ran" /\ mistaken' = mistaken \cup {k}
      BY <1>4, <2>4
    <3>5. \A d \in late'[p] : d \in mistaken' /\ taken'[d] = 0
      BY <1>3, <1>5, <3>1, <3>2, <3>3, <3>4
    <3>6. \A d \in Command :
             Confirmed(d)' => Confirmed(d) \/ (d = k /\ pc[p] \in {"running", "waiting"})
      BY <3>1, <3>3, <3>4 DEF Confirmed
    <3>7. \A q \in Process \ {p} : late'[q] = late[q]
      BY <1>4, <2>4
    <3> QED
      BY <2>0, <3>1, <3>3, <3>4, <3>5, <3>6, <3>7
  <2> QED
    BY <1>6, <2>1, <2>2, <2>3, <2>4
<1>8. \A c \in Command : Confirmed(c)' =>
         /\ ledgerFile'[c] # "none"
         /\ \A q \in Process : ledgerCache'[q] # NotLoaded => ledgerCache'[q][c] # "none"
    BY <1>1, <1>2, <1>3, <1>7 DEF LedgersGuard
<1>9. pc'[p] \in {"begin", "running", "waiting", "threw"} => ~Confirmed(job[p].key)'
  <2>1. pc'[p] \in {"begin", "running", "waiting", "threw"} =>
           pc[p] \in {"begin", "running", "waiting", "threw"}
    BY <1>1
  <2>2. pc[p] \in {"begin", "running", "waiting", "threw"} => k \in Command /\ ~Confirmed(k)
    BY CountTypes DEF IInv, HoldsJob, LedgersGuard
  <2> QED
    BY <1>1, <1>7, <2>1, <2>2 DEF Confirmed
<1>10. pc'[p] \in {"running", "waiting"} =>
          ledgerFile'[job'[p].key] # "none" /\ ledgerCache'[p][job'[p].key] # "none"
    BY <1>1, <1>3
<1>11. \A q : Alive(q)' <=> Alive(q)
    BY <1>1 DEF Alive
<1> HIDE DEF k
<1> QED
    BY <1>1, <1>2, <1>7, <1>8, <1>9, <1>10, <1>11 DEF LedgersGuard

\* No step lets a command be taken twice.
LEMMA NextGuard ==
    ASSUME IInv, ~LateConfirm, SoleProcess, LedgersGuard, [Next]_vars
    PROVE  LedgersGuard'
<1>1. CASE /\ UNCHANGED <<taken, mistaken, ledgerFile, late, ledgerCache, pc, job>>
           /\ \A q \in Process : Alive(q) => Alive(q)'
    BY <1>1, QuietKeepsGuard
<1>2. ASSUME NEW p \in Process, ExitPi(p) \/ Poll(p) \/ AckAnswered(p)
      PROVE  LedgersGuard'
  <2>1. UNCHANGED <<taken, mistaken, ledgerFile>>
    BY <1>2 DEF ExitPi, Poll, AckAnswered
  <2>2. /\ \A q \in Process : late'[q] \subseteq late[q]
        /\ \A q \in Process : ledgerCache'[q] \in {ledgerCache[q], NotLoaded}
        /\ pc'[p] \in {"idle", "polled"}
        /\ \A q \in Process \ {p} :
              pc'[q] = pc[q] /\ job'[q] = job[q] /\ ledgerCache'[q] = ledgerCache[q]
    BY <1>2 DEF ExitPi, Poll, AckAnswered, IInv, TypeOK
  <2>3. \A q \in Process : Alive(q) /\ ~Alive(q)' => late'[q] = {}
    BY <1>2 DEF ExitPi, Poll, AckAnswered, Alive, IInv, TypeOK
  <2> QED
    BY <2>1, <2>2, <2>3, QuietKeepsGuard
<1>3. ASSUME NEW p \in Process, PromptStep(p)
      PROVE  LedgersGuard'
    BY <1>3, PromptStepGuard
<1>4. ASSUME NEW p \in Process, PiStep(p)
      PROVE  LedgersGuard'
    BY <1>2, <1>3, <1>4, ReadLedgerGuard, LoopGuard DEF PiStep, PromptStep
<1>5. ASSUME NEW p \in Process, PiEnvironment(p)
      PROVE  LedgersGuard'
  <2>1. CASE StartPi(p) \/ SessionShutdown(p)
    <3>1. \A q \in Process : Alive(q) => Alive(q)'
      BY <2>1 DEF StartPi, SessionShutdown, Alive, IInv, TypeOK
    <3> QED
      BY <1>1, <2>1, <3>1 DEF StartPi, SessionShutdown
  <2>2. CASE ReloadPi(p) \/ ReloadEventDropped(p) \/ AckTimesOut(p)
    BY <1>1, <2>2 DEF ReloadPi, ReloadEventDropped, AckTimesOut, Alive
  <2> QED
    BY <1>2, <1>3, <1>5, <2>1, <2>2 DEF PiEnvironment, PromptStep
<1>6. CASE UNCHANGED vars
    BY <1>1, <1>6 DEF vars, Alive
<1>7. ASSUME NEW p \in Process, ExtensionEvent(p)
      PROVE  LedgersGuard'
    BY <1>1, <1>7 DEF ExtensionEvent, Alive
<1>8. ASSUME NEW a \in inFlight, LateAckHandled(a) \/ LateAckLost(a)
      PROVE  LedgersGuard'
    BY <1>1, <1>8 DEF LateAckHandled, LateAckLost, Alive
<1>9. CASE \/ DaemonStart \/ DaemonCrash \/ OpenMirror \/ RouteMessage \/ OwnerWindowPasses
           \/ \E k \in Command : SendCommand(k)
           \/ \E n \in 1..Len(relayLog) : RouteAgain(n)
    BY <1>1, <1>9 DEF DaemonStart, DaemonCrash, OpenMirror, RouteMessage, OwnerWindowPasses,
                      SendCommand, RouteAgain, Alive
<1> QED
    BY <1>4, <1>5, <1>6, <1>7, <1>8, <1>9 DEF Next

\* A command runs at most once while one Pi process runs the session at a time
\* and takes no prompt the extension gave up on, whatever crashes, reloads,
\* replays, ledger faults, lost or late acks and local prompts come between.
THEOREM RunsAtMostOnce ==
    ASSUME ~Overlap, ~LateConfirm
    PROVE  Spec => []TakenAtMostOnce
<1>1. Init => SoleProcess /\ LedgersGuard
    BY DEF Init, SoleProcess, LedgersGuard, Confirmed, Alive
<1>2. IInv /\ SoleProcess /\ LedgersGuard /\ [Next]_vars => SoleProcess' /\ LedgersGuard'
    BY NextSole, NextGuard
<1>3. LedgersGuard => TakenAtMostOnce
    BY DEF LedgersGuard, TakenAtMostOnce
<1> QED
    BY <1>1, <1>2, <1>3, Invariance, PTL DEF Spec

------------------------------------------------------------------------------
(* The refinement: what is queued or at work is pending.                    *)

\* A message that comes again was queued or settled the first time.
LEMMA RouteAgainIsQuiet ==
    ASSUME IInv, LossInv, FifoInv, Sheltered, NEW n \in 1..Len(relayLog), RouteAgain(n)
    PROVE  UNCHANGED vars
<1> DEFINE k == relayLog[n]
<1>1. k \in Command /\ queueRemotePiCommand(k) /\ mirrorUp
    BY DEF RouteAgain, HandleMessage, Sheltered, IInv, TypeOK
<1>2. k \in covered /\ Place(k) <= receiveSeq
  <2>1. boundary # NoBoundary /\ boundary \in Nat /\ receiveSeq \in Nat
    BY <1>1 DEF LossInv, LogWellFormed, IInv, TypeOK
  <2>2. n \in boundary + 1 .. Len(relayLog) /\ n <= receiveSeq
    BY <2>1 DEF RouteAgain
  <2> QED
    BY <2>1, <2>2, PlaceIsUnique DEF FifoInv, BoundaryCovers, LossInv
<1>3. Known(k)
    BY <1>1, <1>2 DEF LossInv, NoSilentLoss, Settled, Queued, Known
<1>4. UNCHANGED <<queueVars, outcome, refused>>
    BY <1>1, <1>3 DEF queueRemotePiCommand, resolvePiCommandAdmission
<1> QED
    BY <1>4 DEF RouteAgain, vars

\* What routing the next message does: it is known already, or refused, or
\* queued (queueRemotePiCommand).
LEMMA RouteMessageEffect ==
    ASSUME IInv, LossInv, FifoInv, Sheltered, QueuePending, RouteMessage
    PROVE  LET k == relayLog[receiveSeq + 1]
               new == [seq |-> nextCommandSeq, key |-> k, status |-> "queued", failures |-> 0]
           IN /\ k \in covered /\ k \in Command /\ Place(k) = receiveSeq + 1
              /\ \/ UNCHANGED <<commands, outcome>>
                 \/ /\ ~Known(k)
                    /\ k \in Unsupported \/ Cardinality(commands) >= MaxCommands
                    /\ UNCHANGED commands
                    /\ outcome' = [outcome EXCEPT ![k] = "failed"]
                 \/ /\ ~Known(k) /\ k \notin Unsupported
                    /\ ~(Cardinality(commands) >= MaxCommands)
                    /\ commands' = commands \cup {new}
                    /\ UNCHANGED outcome
<1> DEFINE k == relayLog[receiveSeq + 1]
<1>1. mirrorUp /\ receiveSeq \in Nat /\ Len(relayLog) \in Nat /\ receiveSeq < Len(relayLog)
    BY DEF RouteMessage, IInv, TypeOK
<1>2. boundary # NoBoundary /\ boundary \in Nat /\ boundary <= receiveSeq
    BY <1>1 DEF LossInv, LogWellFormed, QueuePending, IInv, TypeOK
<1>3. receiveSeq + 1 \in boundary + 1 .. Len(relayLog) /\ receiveSeq + 1 \in 1..Len(relayLog)
    BY <1>1, <1>2
<1>4. k \in covered /\ k \in Command /\ Place(k) = receiveSeq + 1
    BY <1>2, <1>3, PlaceIsUnique DEF FifoInv, BoundaryCovers, LossInv, IInv, TypeOK
<1>5. queueRemotePiCommand(k)
    BY DEF RouteMessage, HandleMessage, Sheltered
<1> QED
    BY <1>4, <1>5 DEF queueRemotePiCommand, markRemotePiCommandFailed, resolvePiCommandAdmission

\* What an ack does: it rewrites the entry it names, as one that failed once
\* more or that has its outcome, and may drop settled entries.
LEMMA AckRewrites ==
    ASSUME IInv, NEW a \in Ack, FromQueue(a.job), onPiExtensionCommandAck(a)
    PROVE  \/ AckedEntry(a) = {} /\ UNCHANGED <<commands, outcome>>
           \/ \E e \in AckedEntry(a), f \in Entry :
                 /\ commands' \subseteq (commands \ {e}) \cup {f}
                 /\ f.seq = e.seq /\ f.key = e.key /\ f.failures >= e.failures
                 /\ \/ f.status = "queued" /\ f.failures > e.failures /\ UNCHANGED outcome
                    \/ /\ f.status \in {"accepted_by_pi", "failed"}
                       /\ outcome' = [outcome EXCEPT ![e.key] = f.status]
                       /\ f.status = "accepted_by_pi" => a.job.ok /\ e.key = a.job.key
<1>1. CASE AckedEntry(a) = {} /\ UNCHANGED <<commands, outcome>>
    BY <1>1
<1>2. ASSUME NEW e \in AckedEntry(a),
             \/ a.job.ok /\ Settle(e, "accepted_by_pi")
             \/ ~a.job.ok /\ FailureIsTerminal(e) /\ Settle(e, "failed")
             \/ ~a.job.ok /\ ~FailureIsTerminal(e) /\ Retry(e)
      PROVE  \E f \in Entry :
                 /\ commands' \subseteq (commands \ {e}) \cup {f}
                 /\ f.seq = e.seq /\ f.key = e.key /\ f.failures >= e.failures
                 /\ \/ f.status = "queued" /\ f.failures > e.failures /\ UNCHANGED outcome
                    \/ /\ f.status \in {"accepted_by_pi", "failed"}
                       /\ outcome' = [outcome EXCEPT ![e.key] = f.status]
                       /\ f.status = "accepted_by_pi" => a.job.ok /\ e.key = a.job.key
  <2>1. /\ e \in commands /\ e \in Entry /\ e.status = "queued"
        /\ e.key \in Command /\ e.seq \in Nat /\ e.failures \in Nat /\ e.failures < MaxFailures
        /\ e.key = a.job.key
    BY DEF AckedEntry, isStalePiCommandAck, FromQueue, IInv, TypeOK, QueueWellFormed, Entry, Ack, Job
  <2> DEFINE counted == CountFailure(e)
  <2>2. /\ counted \in Entry /\ counted.seq = e.seq /\ counted.key = e.key
        /\ counted.status = "queued" /\ counted.failures >= e.failures
        /\ ~FailureIsTerminal(e) => counted.failures > e.failures
    BY <2>1, BoundsAreNat DEF CountFailure, FailureIsTerminal, Entry, Status
  <2>3. CASE a.job.ok /\ Settle(e, "accepted_by_pi")
    <3> DEFINE d == [e EXCEPT !.status = "accepted_by_pi"]
    <3>1. d \in Entry /\ d.seq = e.seq /\ d.key = e.key /\ d.status = "accepted_by_pi"
          /\ d.failures = e.failures
      BY <2>1 DEF Entry, Status
    <3>2. /\ commands' \subseteq (commands \ {e}) \cup {d}
          /\ outcome' = [outcome EXCEPT ![e.key] = "accepted_by_pi"]
      BY <2>3 DEF Settle, removeTerminalPiCommandPrefix
    <3> HIDE DEF d
    <3>3. d.failures >= e.failures
      BY <2>1, <3>1
    <3>4. d.status = "accepted_by_pi" => a.job.ok /\ e.key = a.job.key
      BY <2>1, <2>3
    <3>5. outcome' = [outcome EXCEPT ![e.key] = d.status]
      BY <3>1, <3>2
    <3> QED
      BY <3>1, <3>2, <3>3, <3>4, <3>5
  <2>4. CASE ~a.job.ok /\ FailureIsTerminal(e) /\ Settle(e, "failed")
    <3> DEFINE d == [counted EXCEPT !.status = "failed"]
    <3>1. /\ commands' \subseteq (commands \ {e}) \cup {d}
          /\ outcome' = [outcome EXCEPT ![e.key] = "failed"]
      BY <2>4 DEF Settle, removeTerminalPiCommandPrefix
    <3> HIDE DEF counted
    <3>2. d \in Entry /\ d.seq = e.seq /\ d.key = e.key /\ d.status = "failed"
          /\ d.failures = counted.failures
      BY <2>2 DEF Entry, Status
    <3> HIDE DEF d
    <3> QED
      BY <2>2, <3>1, <3>2
  <2>5. CASE ~a.job.ok /\ ~FailureIsTerminal(e) /\ Retry(e)
    <3>1. commands' \subseteq (commands \ {e}) \cup {counted} /\ UNCHANGED outcome
      BY <2>5 DEF Retry
    <3> HIDE DEF counted
    <3> QED
      BY <2>2, <2>5, <3>1
  <2> QED
    BY <1>2, <2>3, <2>4, <2>5
<1> QED
    BY <1>1, <1>2 DEF onPiExtensionCommandAck

\* Steps that bring nothing to the queue and settle nothing that is in it.
LEMMA KeepsPending ==
    ASSUME QueuePending, covered \subseteq covered',
           \/ commands' = {}
           \/ commands' = commands /\ \A e \in commands : Settled(e.key) <=> Settled(e.key)',
           mirrorUp' => boundary' <= receiveSeq'
    PROVE  QueuePending'
<1>1. IsFiniteSet(commands') /\ Cardinality(commands') <= MaxCommands
  <2>1. CASE commands' = {}
    BY <2>1, FS_EmptySet, DeliveryAssumption DEF DeliveryAssumption
  <2>2. CASE commands' = commands
    BY <2>2 DEF QueuePending
  <2> QED
    BY <2>1, <2>2
<1> QED
    BY <1>1 DEF QueuePending

\* A message is queued when the queue has room, or it gets its outcome.
LEMMA RouteMessagePending ==
    ASSUME IInv, LossInv, FifoInv, Sheltered, QueuePending, RouteMessage
    PROVE  QueuePending'
<1> DEFINE k == relayLog[receiveSeq + 1]
           new == [seq |-> nextCommandSeq, key |-> k, status |-> "queued", failures |-> 0]
<1>1. /\ k \in covered /\ k \in Command
      /\ \/ UNCHANGED <<commands, outcome>>
         \/ /\ ~Known(k) /\ UNCHANGED commands
            /\ outcome' = [outcome EXCEPT ![k] = "failed"]
         \/ /\ ~Known(k) /\ k \notin Unsupported
            /\ ~(Cardinality(commands) >= MaxCommands)
            /\ commands' = commands \cup {new}
            /\ UNCHANGED outcome
    BY RouteMessageEffect
<1>2. new.key = k
    OBVIOUS
<1> HIDE DEF k, new
<1>3. /\ mirrorUp' => boundary' <= receiveSeq' /\ UNCHANGED covered
      /\ outcome \in [Command -> Outcome]
  <2>1. mirrorUp => boundary \in Nat /\ boundary <= receiveSeq
    BY DEF LossInv, LogWellFormed, QueuePending, IInv, TypeOK
  <2> QED
    BY <2>1 DEF RouteMessage, IInv, TypeOK
<1>4. covered' = covered
    BY DEF RouteMessage
<1>5. CASE UNCHANGED <<commands, outcome>>
    BY <1>3, <1>4, <1>5, KeepsPending DEF Settled, RouteMessage, QueuePending, IInv, TypeOK
<1>6. CASE ~Known(k) /\ UNCHANGED commands /\ outcome' = [outcome EXCEPT ![k] = "failed"]
  <2>1. \A e \in commands : e.key # k /\ e.key \in Command
    BY <1>6, CountTypes DEF Known
  <2>2. \A e \in commands : Settled(e.key) <=> Settled(e.key)'
    BY <1>3, <1>6, <2>1 DEF Settled
  <2>3. mirrorUp' => boundary' <= receiveSeq'
    BY <1>3 DEF RouteMessage
  <2> QED
    BY <1>4, <1>6, <2>2, <2>3, KeepsPending
<1>7. CASE /\ ~Known(k) /\ k \notin Unsupported
           /\ ~(Cardinality(commands) >= MaxCommands)
           /\ commands' = commands \cup {new}
           /\ UNCHANGED outcome
  <2>1. IsFiniteSet(commands) /\ Cardinality(commands) \in Nat
    BY FS_CardinalityType DEF QueuePending
  <2>2. IsFiniteSet(commands') /\ Cardinality(commands') <= MaxCommands
    <3>1. /\ IsFiniteSet(commands \cup {new})
          /\ \/ Cardinality(commands \cup {new}) = Cardinality(commands)
             \/ Cardinality(commands \cup {new}) = Cardinality(commands) + 1
      BY <2>1, FS_AddElement
    <3>2. commands' = commands \cup {new} /\ ~(Cardinality(commands) >= MaxCommands)
      BY <1>7
    <3>3. MaxCommands \in Nat
      BY DeliveryAssumption DEF DeliveryAssumption
    <3> QED
      BY <2>1, <3>1, <3>2, <3>3
  <2>3. mirrorUp' => boundary' <= receiveSeq'
    BY <1>3 DEF RouteMessage
  <2>4. ASSUME NEW e \in commands'
        PROVE  /\ e.key \in covered' \ Unsupported
               /\ e.status = "queued" => ~Settled(e.key)'
    BY <1>1, <1>2, <1>4, <1>7 DEF QueuePending, Known, Settled
  <2> QED
    BY <2>2, <2>3, <2>4 DEF QueuePending
<1> QED
    BY <1>1, <1>5, <1>6, <1>7

\* The queue holds a command once.
LEMMA QueueKeysDiffer ==
    ASSUME IInv, LossInv, FifoInv, NEW d \in commands, NEW e \in commands, d # e
    PROVE  d.key # e.key
<1>1. d.seq \in Nat /\ e.seq \in Nat /\ d.seq # e.seq
    BY CountTypes DEF IInv, QueueWellFormed
<1>2. d.key \in Sent /\ \A k \in Sent : Place(k) \in Nat
    BY PlaceIsUnique DEF FifoInv, QueueInOrder, LossInv, Sent
<1>3. Place(d.key) < Place(e.key) \/ Place(e.key) < Place(d.key)
    BY <1>1 DEF FifoInv, QueueInOrder
<1> QED
    BY <1>2, <1>3

\* An ack leaves the rest of the queue pending, and what it settles is no longer
\* queued.
LEMMA AckPending ==
    ASSUME IInv, LossInv, FifoInv, QueuePending, NEW a \in Ack, FromQueue(a.job),
           onPiExtensionCommandAck(a),
           UNCHANGED <<relayLog, boundary, covered, mirrorUp, receiveSeq>>
    PROVE  QueuePending'
<1>1. CASE UNCHANGED <<commands, outcome>>
    BY <1>1, KeepsPending DEF Settled, QueuePending
<1>2. ASSUME NEW e \in AckedEntry(a), NEW f \in Entry,
             commands' \subseteq (commands \ {e}) \cup {f},
             f.seq = e.seq, f.key = e.key,
             \/ f.status = "queued" /\ UNCHANGED outcome
             \/ /\ f.status \in {"accepted_by_pi", "failed"}
                /\ outcome' = [outcome EXCEPT ![e.key] = f.status]
      PROVE  QueuePending'
  <2>1. e \in commands /\ e.status = "queued" /\ e.key \in Command
    BY CountTypes DEF AckedEntry
  <2>2. IsFiniteSet(commands) /\ Cardinality(commands) \in Nat
    BY FS_CardinalityType DEF QueuePending
  <2>3. /\ IsFiniteSet(commands \ {e})
        /\ Cardinality(commands \ {e}) = Cardinality(commands) - 1
    BY <2>1, <2>2, FS_RemoveElement
  <2>4. /\ IsFiniteSet((commands \ {e}) \cup {f})
        /\ Cardinality((commands \ {e}) \cup {f}) <= Cardinality(commands)
    <3>1. /\ IsFiniteSet((commands \ {e}) \cup {f})
          /\ \/ Cardinality((commands \ {e}) \cup {f}) = Cardinality(commands \ {e})
             \/ Cardinality((commands \ {e}) \cup {f}) = Cardinality(commands \ {e}) + 1
      BY <2>3, FS_AddElement
    <3> QED
      BY <2>2, <2>3, <3>1
  <2>5. IsFiniteSet(commands') /\ Cardinality(commands') <= Cardinality((commands \ {e}) \cup {f})
    BY <1>2, <2>4, FS_Subset
  <2>6. Cardinality(commands') \in Nat /\ Cardinality((commands \ {e}) \cup {f}) \in Nat
    BY <2>4, <2>5, FS_CardinalityType
  <2>7. Cardinality(commands') <= MaxCommands
    BY <2>2, <2>4, <2>5, <2>6, DeliveryAssumption DEF QueuePending, DeliveryAssumption
  <2>8. ASSUME NEW d \in commands, d # e PROVE d.key # e.key /\ d.key \in Command
    BY <2>1, <2>8, QueueKeysDiffer, CountTypes
  <2>9. ASSUME NEW d \in commands'
        PROVE  /\ d.key \in covered' \ Unsupported
               /\ d.status = "queued" => ~Settled(d.key)'
    <3>1. CASE d \in commands /\ d # e
      <4>1. d.key \in covered' \ Unsupported /\ (d.status = "queued" => ~Settled(d.key))
        BY <3>1 DEF QueuePending
      <4>2. outcome'[d.key] = outcome[d.key]
        BY <1>2, <2>8, <3>1 DEF IInv, TypeOK
      <4> QED
        BY <4>1, <4>2 DEF Settled
    <3>2. CASE d = f
      BY <1>2, <2>1, <3>2 DEF QueuePending, Settled
    <3> QED
      BY <1>2, <3>1, <3>2
  <2> QED
    BY <2>5, <2>7, <2>9 DEF QueuePending
<1> QED
    BY <1>1, <1>2, AckRewrites

\* No step puts a settled command back into the queue.
LEMMA NextPending ==
    ASSUME IInv, LossInv, FifoInv, Sheltered, QueuePending, [Next]_vars
    PROVE  QueuePending'
<1>0. mirrorUp => boundary \in Nat
    BY DEF LossInv, LogWellFormed, IInv, TypeOK
<1>1. CASE UNCHANGED <<commands, covered, outcome, mirrorUp, boundary, receiveSeq>>
    BY <1>1, KeepsPending DEF Settled, QueuePending
<1>2. CASE DaemonCrash \/ OpenMirror
    BY <1>2, KeepsPending DEF DaemonCrash, NoMirror, OpenMirror, CommandBoundary, IInv, TypeOK
<1>3. ASSUME NEW p \in Process, SessionShutdown(p)
      PROVE  QueuePending'
    BY <1>1, <1>3, KeepsPending DEF SessionShutdown, NoMirror
<1>4. ASSUME NEW k \in Command, SendCommand(k)
      PROVE  QueuePending'
    BY <1>4, KeepsPending DEF SendCommand, Settled, QueuePending
<1>5. ASSUME NEW p \in Process, AckAnswered(p)
      PROVE  QueuePending'
  <2>1. job[p] # NoJob /\ job[p] \in Job
    BY <1>5, EnvelopesAreJobs DEF IInv, HoldsJob, AckAnswered
  <2>2. AckOf(p) \in Ack /\ AckOf(p).job = job[p]
    BY <2>1, CurrentIsInstance DEF IInv, AckOf, Ack
  <2>3. FromQueue(AckOf(p).job)
    BY <2>1, <2>2 DEF IInv, JobsHonest
  <2> QED
    BY <1>5, <2>2, <2>3, AckPending DEF AckAnswered
<1>6. ASSUME NEW a \in inFlight, LateAckHandled(a)
      PROVE  QueuePending'
  <2>1. a \in Ack /\ FromQueue(a.job)
    BY DEF IInv, TypeOK, JobsHonest
  <2> QED
    BY <1>6, <2>1, AckPending DEF LateAckHandled
<1>7. CASE RouteMessage
    BY <1>7, RouteMessagePending
<1>8. CASE \E n \in 1..Len(relayLog) : RouteAgain(n)
    BY <1>1, <1>8, RouteAgainIsQuiet DEF vars
<1>9. CASE UNCHANGED vars
    BY <1>1, <1>9 DEF vars
<1>10. ASSUME NEW p \in Process, PiStep(p) \/ PiEnvironment(p) \/ ExtensionEvent(p)
      PROVE  QueuePending'
  <2>1. CASE PromptStep(p)
    BY <1>1, <2>1, PromptStepEffect
  <2> QED
    BY <1>1, <1>3, <1>5, <1>10, <2>1 DEF PiStep, PiEnvironment, PromptStep, ExtensionEvent,
       Poll, ReadLedger, BeginExecution, FinishAccepted, FinishFailed, StartPi, ReloadPi,
       ExitPi, ReloadEventDropped, AckTimesOut
<1>11. CASE DaemonStart \/ OwnerWindowPasses \/ \E a \in inFlight : LateAckLost(a)
    BY <1>1, <1>11 DEF DaemonStart, OwnerWindowPasses, LateAckLost
<1> QED
    BY <1>2, <1>4, <1>6, <1>7, <1>8, <1>9, <1>10, <1>11 DEF Next

\* What stands before a command only goes: later messages stand behind it, what
\* is settled stays so, and what comes to the queue was not settled.
LEMMA AheadShrinks ==
    ASSUME covered \subseteq Command, UNCHANGED <<relayLog, covered>>,
           \A c \in Command : Settled(c) => Settled(c)',
           \A e \in commands' : ~Settled(e.key) \/ \E d \in commands : d.key = e.key,
           NEW k \in Command
    PROVE  Ahead(k)' \subseteq Ahead(k)
<1>1. \A c : Place(c)' = Place(c)
    BY DEF Place
<1> QED
    BY <1>1 DEF Ahead

\* Steps that hand out nothing and settle nothing that is at work.
LEMMA KeepsWork ==
    ASSUME WorkPending, covered \subseteq covered',
           \A k \in covered \cap Command : Ahead(k)' \subseteq Ahead(k),
           \A p \in Process, k \in Command : AtWork(p, k)' =>
              AtWork(p, k) /\ (Settled(k)' => Settled(k))
    PROVE  WorkPending'
<1> SUFFICES ASSUME NEW p \in Process, NEW k \in Command, AtWork(p, k)'
             PROVE  /\ k \in covered' \ Unsupported
                    /\ ~Settled(k)'
                    /\ IsFiniteSet(Ahead(k)')
                    /\ Cardinality(Ahead(k)') < MaxCommands
    BY DEF WorkPending
<1>1. /\ k \in covered \ Unsupported /\ ~Settled(k) /\ IsFiniteSet(Ahead(k))
      /\ Cardinality(Ahead(k)) < MaxCommands
    BY DEF WorkPending
<1>2. IsFiniteSet(Ahead(k)') /\ Cardinality(Ahead(k)') <= Cardinality(Ahead(k))
    BY <1>1, FS_Subset
<1>3. Cardinality(Ahead(k)) \in Nat /\ Cardinality(Ahead(k)') \in Nat /\ MaxCommands \in Nat
    BY <1>1, <1>2, FS_CardinalityType, DeliveryAssumption DEF DeliveryAssumption
<1> QED
    BY <1>1, <1>2, <1>3

\* Steps that leave relay and outcomes alone, and the queue or empty it.
LEMMA QuietKeepsWork ==
    ASSUME IInv, WorkPending, UNCHANGED <<relayLog, covered, outcome>>,
           commands' \in {{}, commands},
           \A p \in Process, k \in Command : AtWork(p, k)' => AtWork(p, k)
    PROVE  WorkPending'
<1>1. \A c \in Command : Settled(c)' <=> Settled(c)
    BY DEF Settled
<1>2. covered \subseteq Command
    BY DEF IInv, TypeOK
<1>3. \A k \in Command : Ahead(k)' \subseteq Ahead(k)
    BY <1>1, <1>2, AheadShrinks
<1> QED
    BY <1>1, <1>3, KeepsWork

\* A new message stands behind all that was sent.
LEMMA SendCommandWork ==
    ASSUME IInv, LossInv, WorkPending, NEW k \in Command, SendCommand(k)
    PROVE  WorkPending'
<1>1. /\ relayLog \in Seq(Command) /\ relayLog' = Append(relayLog, k) /\ k \notin Sent
      /\ UNCHANGED <<outcome, commands, pc, job>>
    BY DEF SendCommand, IInv, TypeOK
<1>2. /\ Len(relayLog') = Len(relayLog) + 1 /\ relayLog'[Len(relayLog) + 1] = k
      /\ \A n \in 1..Len(relayLog) : relayLog'[n] = relayLog[n]
      /\ Len(relayLog) \in Nat
    BY <1>1
<1>3. \A m, n \in 1..Len(relayLog') : relayLog'[m] = relayLog'[n] => m = n
    BY <1>1, <1>2 DEF LossInv, LogWellFormed, Sent
<1>4. \A c \in Command, n \in 1..Len(relayLog') : relayLog'[n] = c => Place(c)' = n
    BY <1>3 DEF Place
<1>5. ASSUME NEW c \in covered \cap Command
      PROVE  Place(c)' = Place(c) /\ Place(c) \in 1..Len(relayLog)
  <2>1. Place(c) \in 1..Len(relayLog) /\ relayLog[Place(c)] = c
    BY CoveredHasPlace DEF LossInv
  <2>2. Place(c) \in 1..Len(relayLog') /\ relayLog'[Place(c)] = c
    BY <1>2, <2>1
  <2> QED
    BY <1>4, <2>1, <2>2
<1>6. Place(k)' = Len(relayLog) + 1
  <2>1. Len(relayLog) + 1 \in 1..Len(relayLog')
    BY <1>2
  <2> QED
    BY <1>2, <1>4, <2>1
<1>7. covered \subseteq covered' /\ covered' \subseteq covered \cup {k} /\ covered \subseteq Command
    BY DEF SendCommand, IInv, TypeOK
<1>8. ASSUME NEW c \in covered \cap Command
      PROVE  Ahead(c)' \subseteq Ahead(c)
  <2> SUFFICES ASSUME NEW d \in covered', Place(d)' < Place(c)',
                      ~Settled(d)' \/ \E e \in commands' : e.key = d
               PROVE  d \in Ahead(c)
    BY DEF Ahead
  <2>1. d # k
    BY <1>2, <1>5, <1>6
  <2>2. d \in covered \cap Command
    BY <1>7, <2>1
  <2> QED
    BY <1>1, <1>5, <2>2 DEF Ahead, Settled
<1>9. \A p \in Process, c \in Command : AtWork(p, c)' => AtWork(p, c) /\ (Settled(c)' => Settled(c))
    BY <1>1 DEF AtWork, Settled
<1> QED
    BY <1>7, <1>8, <1>9, KeepsWork

\* A set of entries has no more keys than entries.
LEMMA KeysOfEntries ==
    ASSUME NEW S, IsFiniteSet(S)
    PROVE  LET keys == {e.key : e \in S}
           IN  IsFiniteSet(keys) /\ Cardinality(keys) <= Cardinality(S)
<1> DEFINE keys == {e.key : e \in S}
           f == [e \in S |-> e.key]
<1>1. f \in Surjection(S, keys)
    BY DEF Surjection
<1> HIDE DEF f, keys
<1>2. IsFiniteSet(keys) /\ Cardinality(keys) <= Cardinality(S)
    BY <1>1, FS_Surjection
<1> QED
    BY <1>2 DEF keys

\* A command that is polled has fewer than a queue of commands before it.
LEMMA QueuedHasRoom ==
    ASSUME IInv, LossInv, FifoInv, QueuePending, mirrorUp, NEW e \in commands,
           e.status = "queued"
    PROVE  /\ e.key \in covered \ Unsupported /\ ~Settled(e.key)
           /\ IsFiniteSet(Ahead(e.key))
           /\ Cardinality(Ahead(e.key)) < MaxCommands
<1> DEFINE rest == commands \ {e}
           keys == {d.key : d \in rest}
<1>1. e.key \in covered \ Unsupported /\ ~Settled(e.key)
    BY DEF QueuePending
<1>2. IsFiniteSet(commands) /\ Cardinality(commands) <= MaxCommands /\ Cardinality(commands) \in Nat
    BY FS_CardinalityType DEF QueuePending
<1>3. IsFiniteSet(rest) /\ Cardinality(rest) = Cardinality(commands) - 1
    BY <1>2, FS_RemoveElement
<1>4. IsFiniteSet(keys) /\ Cardinality(keys) <= Cardinality(rest)
  <2> HIDE DEF rest
  <2> QED
    BY <1>3, KeysOfEntries
<1>5. Ahead(e.key) \subseteq keys
  <2> SUFFICES ASSUME NEW d \in covered, Place(d) < Place(e.key),
                      ~Settled(d) \/ \E x \in commands : x.key = d
               PROVE  \E x \in commands : x.key = d /\ x # e
    BY DEF Ahead
  <2>1. Place(d) \in Nat /\ Place(e.key) \in Nat /\ receiveSeq \in Nat /\ Place(e.key) <= receiveSeq
    <3>1. Place(d) \in Nat /\ Place(e.key) \in Nat
      BY <1>1, CoveredHasPlace DEF LossInv
    <3>2. receiveSeq \in Nat /\ Place(e.key) <= receiveSeq
      BY DEF FifoInv, QueueInOrder, IInv, TypeOK
    <3> QED
      BY <3>1, <3>2
  <2>2. \E x \in commands : x.key = d
    BY <2>1 DEF LossInv, NoSilentLoss, Queued
  <2>3. d # e.key
    BY <2>1
  <2> QED
    BY <2>2, <2>3
<1> HIDE DEF rest, keys
<1>6. IsFiniteSet(Ahead(e.key)) /\ Cardinality(Ahead(e.key)) <= Cardinality(keys)
    BY <1>4, <1>5, FS_Subset
<1>7. Cardinality(Ahead(e.key)) \in Nat /\ Cardinality(keys) \in Nat /\ MaxCommands \in Nat
    BY <1>4, <1>6, FS_CardinalityType, DeliveryAssumption DEF DeliveryAssumption
<1> QED
    BY <1>1, <1>2, <1>3, <1>4, <1>6, <1>7

\* Who polls is given a queued command.
LEMMA PollWork ==
    ASSUME IInv, LossInv, FifoInv, QueuePending, WorkPending, NEW p \in Process, Poll(p)
    PROVE  WorkPending'
<1>1. PICK e \in selectNextQueuedPiCommand :
         job' = [job EXCEPT ![p] = [epoch |-> commandQueueEpoch, seq |-> e.seq,
                                    failures |-> e.failures, key |-> e.key, ok |-> FALSE]]
    BY DEF Poll
<1>2. e \in commands /\ e.status = "queued" /\ e.key \in Command /\ mirrorUp
    BY CountTypes DEF Poll, selectNextQueuedPiCommand, Oldest
<1>3. UNCHANGED <<relayLog, covered, outcome, commands>>
    BY DEF Poll
<1>4. \A c \in Command : (Settled(c)' <=> Settled(c)) /\ Ahead(c)' = Ahead(c)
  <2>1. \A c : Place(c)' = Place(c)
    BY <1>3 DEF Place
  <2> QED
    BY <1>3, <2>1 DEF Settled, Ahead
<1>5. \A q \in Process, c \in Command : AtWork(q, c)' => AtWork(q, c) \/ c = e.key
    BY <1>1 DEF Poll, AtWork, IInv, TypeOK
<1>6. \A c \in Command : c = e.key =>
         /\ c \in covered \ Unsupported /\ ~Settled(c)
         /\ IsFiniteSet(Ahead(c)) /\ Cardinality(Ahead(c)) < MaxCommands
    BY <1>2, QueuedHasRoom
<1> QED
    BY <1>3, <1>4, <1>5, <1>6 DEF WorkPending

\* A replay finds room for what is at work: all that is queued stands before it.
LEMMA RoomForWork ==
    ASSUME IInv, LossInv, FifoInv, QueuePending, WorkPending,
           NEW p \in Process, NEW k \in Command, AtWork(p, k),
           Place(k) = receiveSeq + 1
    PROVE  ~(Cardinality(commands) >= MaxCommands)
<1> DEFINE f == [e \in commands |-> e.key]
<1>1. \A e \in commands : e.key \in Ahead(k)
  <2> SUFFICES ASSUME NEW e \in commands PROVE e.key \in covered /\ Place(e.key) < Place(k)
    BY DEF Ahead
  <2>1. e.key \in covered /\ Place(e.key) <= receiveSeq /\ receiveSeq \in Nat
    BY DEF QueuePending, FifoInv, QueueInOrder, IInv, TypeOK
  <2>2. Place(e.key) \in Nat
    BY <2>1, CoveredHasPlace DEF LossInv
  <2> QED
    BY <2>1, <2>2
<1>2. f \in Injection(commands, Ahead(k))
    BY <1>1, QueueKeysDiffer DEF Injection, IsInjective
<1> HIDE DEF f
<1>3. IsFiniteSet(Ahead(k)) /\ Cardinality(Ahead(k)) < MaxCommands
    BY DEF WorkPending
<1>4. IsFiniteSet(commands) /\ Cardinality(commands) <= Cardinality(Ahead(k))
    BY <1>2, <1>3, FS_Injection
<1>5. Cardinality(commands) \in Nat /\ Cardinality(Ahead(k)) \in Nat /\ MaxCommands \in Nat
    BY <1>3, <1>4, FS_CardinalityType, DeliveryAssumption DEF DeliveryAssumption
<1> QED
    BY <1>3, <1>4, <1>5

\* Routing refuses nothing that is at work.
LEMMA RouteMessageWork ==
    ASSUME IInv, LossInv, FifoInv, Sheltered, QueuePending, WorkPending, RouteMessage
    PROVE  WorkPending'
<1> DEFINE k == relayLog[receiveSeq + 1]
           new == [seq |-> nextCommandSeq, key |-> k, status |-> "queued", failures |-> 0]
<1>1. /\ k \in covered /\ k \in Command /\ Place(k) = receiveSeq + 1
      /\ \/ UNCHANGED <<commands, outcome>>
         \/ /\ ~Known(k)
            /\ k \in Unsupported \/ Cardinality(commands) >= MaxCommands
            /\ UNCHANGED commands
            /\ outcome' = [outcome EXCEPT ![k] = "failed"]
         \/ ~Known(k) /\ commands' = commands \cup {new} /\ UNCHANGED outcome
    BY RouteMessageEffect
<1>2. new.key = k
    OBVIOUS
<1> HIDE DEF k, new
<1>3. UNCHANGED <<relayLog, covered, pc, job>> /\ covered \subseteq Command
      /\ outcome \in [Command -> Outcome]
    BY DEF RouteMessage, IInv, TypeOK
<1>4. \A p \in Process, c \in Command : AtWork(p, c)' => AtWork(p, c)
    BY <1>3 DEF AtWork
<1>5. \A c \in Command : Settled(c) => Settled(c)'
    BY <1>1, <1>3 DEF Settled
<1>6. \A e \in commands' : ~Settled(e.key) \/ \E d \in commands : d.key = e.key
    BY <1>1, <1>2 DEF Known, Settled
<1>7. \A c \in Command : Ahead(c)' \subseteq Ahead(c)
    BY <1>3, <1>5, <1>6, AheadShrinks
<1>8. ASSUME NEW p \in Process, NEW c \in Command, AtWork(p, c), Settled(c)' PROVE Settled(c)
  <2>1. CASE UNCHANGED outcome
    BY <1>8, <2>1 DEF Settled
  <2>2. CASE /\ k \in Unsupported \/ Cardinality(commands) >= MaxCommands
             /\ outcome' = [outcome EXCEPT ![k] = "failed"]
    <3>1. CASE c = k
      BY <1>1, <1>8, <2>2, <3>1, RoomForWork DEF WorkPending
    <3>2. CASE c # k
      BY <1>3, <1>8, <2>2, <3>2 DEF Settled
    <3> QED
      BY <3>1, <3>2
  <2> QED
    BY <1>1, <2>1, <2>2
<1> QED
    BY <1>3, <1>4, <1>7, <1>8, KeepsWork

\* An ack is handled while nothing is at work.
LEMMA AckWork ==
    ASSUME IInv, WorkPending, NEW a \in Ack, FromQueue(a.job),
           onPiExtensionCommandAck(a), UNCHANGED <<relayLog, covered>>,
           UNCHANGED <<commands, outcome>> \/ \A p \in Process : pc'[p] \in {"idle", "acking"},
           \A p \in Process, k \in Command : AtWork(p, k)' => AtWork(p, k)
    PROVE  WorkPending'
<1>1. CASE UNCHANGED <<commands, outcome>>
    BY <1>1, QuietKeepsWork
<1>2. CASE \A p \in Process : pc'[p] \in {"idle", "acking"}
    BY <1>2 DEF WorkPending, AtWork
<1> QED
    BY <1>1, <1>2

\* No step settles a command that is at work.
LEMMA NextWork ==
    ASSUME IInv, LossInv, FifoInv, Sheltered, SoleProcess, QueuePending, WorkPending,
           LateAcksHarmless, [Next]_vars
    PROVE  WorkPending'
<1>1. CASE UNCHANGED <<relayLog, covered, outcome, commands, pc, job>>
    BY <1>1, QuietKeepsWork DEF AtWork
<1>2. CASE DaemonCrash \/ OpenMirror
    BY <1>2, QuietKeepsWork DEF DaemonCrash, NoMirror, OpenMirror, AtWork
<1>3. ASSUME NEW p \in Process, SessionShutdown(p)
      PROVE  WorkPending'
    BY <1>3, QuietKeepsWork DEF SessionShutdown, NoMirror, AtWork
<1>4. ASSUME NEW k \in Command, SendCommand(k)
      PROVE  WorkPending'
    BY <1>4, SendCommandWork
<1>5. ASSUME NEW p \in Process, AckAnswered(p)
      PROVE  WorkPending'
  <2>1. job[p] # NoJob /\ job[p] \in Job
    BY <1>5, EnvelopesAreJobs DEF IInv, HoldsJob, AckAnswered
  <2>2. AckOf(p) \in Ack /\ AckOf(p).job = job[p]
    BY <2>1, CurrentIsInstance DEF IInv, AckOf, Ack
  <2>3. FromQueue(AckOf(p).job)
    BY <2>1, <2>2 DEF IInv, JobsHonest
  <2>4. \A q \in Process : pc'[q] = "idle"
    BY <1>5 DEF AckAnswered, SoleProcess, IInv, TypeOK
  <2>5. \A q \in Process, k \in Command : AtWork(q, k)' => AtWork(q, k)
    BY <2>4 DEF AtWork
  <2>6. onPiExtensionCommandAck(AckOf(p)) /\ UNCHANGED <<relayLog, covered>>
    BY <1>5 DEF AckAnswered
  <2> QED
    BY <2>2, <2>3, <2>4, <2>5, <2>6, AckWork
<1>6. ASSUME NEW a \in inFlight, LateAckHandled(a)
      PROVE  WorkPending'
  <2>1. a \in Ack /\ FromQueue(a.job) /\ onPiExtensionCommandAck(a)
    BY <1>6 DEF IInv, TypeOK, JobsHonest, LateAckHandled
  <2>2. UNCHANGED <<relayLog, covered, pc, job>>
    BY <1>6 DEF LateAckHandled
  <2>3. UNCHANGED <<commands, outcome>> \/ \A p \in Process : pc'[p] \in {"idle", "acking"}
    BY <2>1, <2>2 DEF onPiExtensionCommandAck, LateAcksHarmless, WaitsForAck
  <2>4. \A q \in Process, k \in Command : AtWork(q, k)' => AtWork(q, k)
    BY <2>2 DEF AtWork
  <2> QED
    BY <2>1, <2>2, <2>3, <2>4, AckWork
<1>7. CASE RouteMessage
    BY <1>7, RouteMessageWork
<1>8. CASE \E n \in 1..Len(relayLog) : RouteAgain(n)
    BY <1>1, <1>8, RouteAgainIsQuiet DEF vars
<1>9. CASE UNCHANGED vars
    BY <1>1, <1>9 DEF vars
<1>10. ASSUME NEW p \in Process,
              \/ ExitPi(p) \/ FinishAccepted(p) \/ FinishFailed(p)
              \/ ReadLedger(p) \/ BeginExecution(p)
       PROVE  WorkPending'
  <2>1. UNCHANGED <<relayLog, covered, outcome, commands>>
    BY <1>10 DEF ExitPi, FinishAccepted, FinishFailed, ReadLedger, BeginExecution
  <2>2. \A q \in Process \ {p} : pc'[q] = pc[q] /\ job'[q] = job[q]
    BY <1>10 DEF ExitPi, FinishAccepted, FinishFailed, ReadLedger, CheckLedger,
                 BeginExecution, Report, Goto, IInv, TypeOK
  <2>3. \/ pc'[p] \notin {"polled", "begin", "running", "waiting"}
        \/ pc[p] \in {"polled", "begin", "running", "waiting"} /\ job' = job
    BY <1>10 DEF ExitPi, FinishAccepted, FinishFailed, ReadLedger, CheckLedger,
                 BeginExecution, Report, Goto, IInv, TypeOK
  <2>4. \A q \in Process, k \in Command : AtWork(q, k)' => AtWork(q, k)
    BY <2>2, <2>3 DEF AtWork
  <2> QED
    BY <2>1, <2>4, QuietKeepsWork
<1>11. ASSUME NEW p \in Process, Poll(p)
      PROVE  WorkPending'
    BY <1>11, PollWork
<1>14. ASSUME NEW p \in Process, PromptStep(p)
      PROVE  WorkPending'
  <2>1. UNCHANGED <<relayLog, covered, outcome, commands, job>>
    BY <1>14, PromptStepEffect
  <2>2. \A q \in Process, k \in Command : AtWork(q, k)' => AtWork(q, k)
    <3>1. /\ \A q \in Process \ {p} : pc'[q] = pc[q]
          /\ \/ UNCHANGED pc
             \/ pc[p] \in {"running", "waiting"} /\ pc'[p] \in {"ran", "threw", "waiting"}
      BY <1>14, PromptStepEffect
    <3> QED
      BY <2>1, <3>1 DEF AtWork
  <2> QED
    BY <2>1, <2>2, QuietKeepsWork
<1>12. ASSUME NEW p \in Process, PiStep(p) \/ PiEnvironment(p) \/ ExtensionEvent(p)
      PROVE  WorkPending'
    BY <1>1, <1>3, <1>5, <1>10, <1>11, <1>12, <1>14 DEF PiStep, PiEnvironment, PromptStep,
       ExtensionEvent, StartPi, ReloadPi, ReloadEventDropped, AckTimesOut
<1>13. CASE DaemonStart \/ OwnerWindowPasses \/ \E a \in inFlight : LateAckLost(a)
    BY <1>1, <1>13 DEF DaemonStart, OwnerWindowPasses, LateAckLost
<1> QED
    BY <1>2, <1>4, <1>6, <1>7, <1>8, <1>9, <1>12, <1>13 DEF Next

------------------------------------------------------------------------------
(* The refinement: late acks.                                               *)

\* A process in its loop holds an envelope of a queue of the daemon.
LEMMA JobAtHand ==
    ASSUME IInv, NEW p \in Process, pc[p] # "idle"
    PROVE  /\ job[p] # NoJob /\ job[p] \in Job /\ FromQueue(job[p]) /\ Honest(job[p])
           /\ AckOf(p) \in Ack /\ AckOf(p).job = job[p] /\ AckOf(p).from = Current(p)
<1>1. job[p] # NoJob /\ job[p] \in Job
    BY EnvelopesAreJobs DEF IInv, HoldsJob
<1>2. AckOf(p) \in Ack /\ AckOf(p).job = job[p] /\ AckOf(p).from = Current(p)
    BY <1>1, CurrentIsInstance DEF IInv, AckOf, Ack
<1> QED
    BY <1>1, <1>2 DEF IInv, JobsHonest

\* Steps that leave the queue alone, or end it, and issue no envelope.
LEMMA KeepsTokens ==
    ASSUME TokensIssued, inFlight' \subseteq inFlight,
           \/ commands' = {} \/ mirrorUp' = FALSE
           \/ UNCHANGED <<commands, mirrorUp, commandQueueEpoch>>,
           \A p \in Process : pc'[p] # "idle" =>
              /\ pc[p] # "idle"
              /\ job'[p].epoch = job[p].epoch /\ job'[p].seq = job[p].seq
              /\ job'[p].failures = job[p].failures
    PROVE  TokensIssued'
BY DEF TokensIssued, Issued

\* An ack raises what its entry counts (applyPiCommandFailure).
LEMMA AckTokens ==
    ASSUME IInv, NEW a \in Ack, FromQueue(a.job), onPiExtensionCommandAck(a),
           UNCHANGED <<mirrorUp, commandQueueEpoch>>,
           NEW j \in Job, Issued(j)
    PROVE  Issued(j)'
<1>1. CASE UNCHANGED commands
    BY <1>1 DEF Issued
<1>2. ASSUME NEW e \in AckedEntry(a), NEW f \in Entry,
             commands' \subseteq (commands \ {e}) \cup {f},
             f.seq = e.seq, f.failures >= e.failures
      PROVE  Issued(j)'
  <2>1. e \in commands /\ e.failures \in Nat /\ f.failures \in Nat /\ j.failures \in Nat
    BY <1>2, CountTypes, BoundsAreNat DEF AckedEntry, Entry, Job
  <2> SUFFICES ASSUME mirrorUp, j.epoch = commandQueueEpoch, NEW d \in commands', d.seq = j.seq
               PROVE  j.failures <= d.failures
    BY DEF Issued
  <2>2. CASE d \in commands
    BY <2>2 DEF Issued
  <2>3. CASE d = f
    <3>1. j.failures <= e.failures
      BY <1>2, <2>1, <2>3 DEF Issued
    <3> QED
      BY <1>2, <2>1, <2>3, <3>1
  <2> QED
    BY <1>2, <2>2, <2>3
<1> QED
    BY <1>1, <1>2, AckRewrites

\* Whatever token is out, its entry has it or a later one.
LEMMA NextTokens ==
    ASSUME IInv, LossInv, FifoInv, Sheltered, QueuePending, TokensIssued, [Next]_vars
    PROVE  TokensIssued'
<1>0. \A p \in Process : pc[p] # "idle" => job[p] \in Job /\ FromQueue(job[p])
    BY JobAtHand
<1>1. CASE UNCHANGED <<commands, mirrorUp, commandQueueEpoch, pc, job, inFlight>>
    BY <1>1, KeepsTokens
<1>2. CASE DaemonCrash \/ OpenMirror
    BY <1>2, KeepsTokens DEF DaemonCrash, NoMirror, OpenMirror
<1>3. ASSUME NEW p \in Process, SessionShutdown(p)
      PROVE  TokensIssued'
    BY <1>3, KeepsTokens DEF SessionShutdown, NoMirror
<1>4. ASSUME NEW p \in Process, Poll(p)
      PROVE  TokensIssued'
  <2>1. PICK e \in selectNextQueuedPiCommand :
           job' = [job EXCEPT ![p] = [epoch |-> commandQueueEpoch, seq |-> e.seq,
                                      failures |-> e.failures, key |-> e.key, ok |-> FALSE]]
    BY <1>4 DEF Poll
  <2>2. e \in commands /\ e.failures \in Nat /\ \A d \in commands : d.seq = e.seq => d = e
    BY CountTypes DEF selectNextQueuedPiCommand, Oldest, IInv, QueueWellFormed
  <2>3. UNCHANGED <<commands, mirrorUp, commandQueueEpoch, inFlight>>
        /\ \A q \in Process \ {p} : pc'[q] = pc[q] /\ job'[q] = job[q]
    BY <1>4 DEF Poll, IInv, TypeOK
  <2>4. job'[p].seq = e.seq /\ job'[p].failures = e.failures
    BY <2>1 DEF IInv, TypeOK
  <2>5. \A d \in commands : d.seq = e.seq => e.failures <= d.failures
    BY <2>2
  <2> QED
    BY <2>3, <2>4, <2>5 DEF TokensIssued, Issued
<1>5. ASSUME NEW p \in Process,
             \/ ExitPi(p) \/ FinishAccepted(p) \/ FinishFailed(p)
             \/ ReadLedger(p) \/ BeginExecution(p)
      PROVE  TokensIssued'
  <2>1. UNCHANGED <<commands, mirrorUp, commandQueueEpoch, inFlight>>
    BY <1>5 DEF ExitPi, FinishAccepted, FinishFailed, ReadLedger, BeginExecution
  <2>2. \A q \in Process \ {p} : pc'[q] = pc[q] /\ job'[q] = job[q]
    BY <1>5 DEF ExitPi, FinishAccepted, FinishFailed, ReadLedger, CheckLedger,
                BeginExecution, Report, Goto, IInv, TypeOK
  <2>3. \/ pc'[p] = "idle"
        \/ pc[p] # "idle" /\ (UNCHANGED job \/ \E ok \in BOOLEAN : Report(p, ok))
    <3>1. CASE ExitPi(p)
      BY <3>1 DEF ExitPi, IInv, TypeOK
    <3>2. CASE ~ExitPi(p)
      <4>1. pc[p] # "idle"
        BY <1>5, <3>2 DEF FinishAccepted, FinishFailed, ReadLedger, BeginExecution
      <4>2. UNCHANGED job \/ Report(p, TRUE) \/ Report(p, FALSE)
        BY <1>5, <3>2 DEF FinishAccepted, FinishFailed, ReadLedger, CheckLedger,
                          BeginExecution, Goto
      <4> QED
        BY <4>1, <4>2
    <3> QED
      BY <3>1, <3>2
  <2>4. ASSUME pc[p] # "idle", NEW ok \in BOOLEAN, Report(p, ok)
        PROVE  /\ job'[p].epoch = job[p].epoch /\ job'[p].seq = job[p].seq
               /\ job'[p].failures = job[p].failures
    <3>1. job[p] \in Job
      BY <2>4, JobAtHand
    <3>2. job'[p] = [job[p] EXCEPT !.ok = ok]
      BY <2>4, <3>1, ReportEffect
    <3> QED
      BY <3>1, <3>2 DEF Job
  <2> QED
    BY <2>1, <2>2, <2>3, <2>4, KeepsTokens
<1>6. CASE RouteMessage
  <2> DEFINE k == relayLog[receiveSeq + 1]
             new == [seq |-> nextCommandSeq, key |-> k, status |-> "queued", failures |-> 0]
  <2>1. commands' = commands \/ commands' = commands \cup {new}
    BY <1>6, RouteMessageEffect
  <2>2. UNCHANGED <<mirrorUp, commandQueueEpoch, pc, job, inFlight>> /\ mirrorUp
    BY <1>6 DEF RouteMessage
  <2>3. new.seq = nextCommandSeq
    OBVIOUS
  <2> HIDE DEF new
  <2>4. ASSUME NEW j \in Job, FromQueue(j), Issued(j) PROVE Issued(j)'
    <3>1. (j.epoch = commandQueueEpoch => j.seq < nextCommandSeq)
          /\ j.seq \in Nat /\ nextCommandSeq \in Nat
      BY <2>2, <2>4 DEF FromQueue, Job, IInv, TypeOK
    <3> QED
      BY <2>1, <2>2, <2>3, <2>4, <3>1 DEF Issued
  <2>5. \A p \in Process : pc'[p] # "idle" => Issued(job[p])'
    BY <1>0, <2>2, <2>4 DEF TokensIssued
  <2>6. \A a \in inFlight : Issued(a.job)'
    BY <2>4, EnvelopesAreJobs DEF TokensIssued, IInv, JobsHonest
  <2> QED
    BY <2>2, <2>5, <2>6 DEF TokensIssued
<1>7. ASSUME NEW p \in Process, AckAnswered(p)
      PROVE  TokensIssued'
  <2>1. AckOf(p) \in Ack /\ FromQueue(AckOf(p).job) /\ onPiExtensionCommandAck(AckOf(p))
    BY <1>7, JobAtHand DEF AckAnswered
  <2>2. /\ UNCHANGED <<mirrorUp, commandQueueEpoch, inFlight>>
        /\ \A q \in Process : pc'[q] # "idle" => pc[q] # "idle" /\ job'[q] = job[q]
    BY <1>7 DEF AckAnswered, IInv, TypeOK
  <2>3. \A j \in Job : Issued(j) => Issued(j)'
    BY <2>1, <2>2, AckTokens
  <2>4. \A q \in Process : pc'[q] # "idle" => Issued(job[q])'
    BY <1>0, <2>2, <2>3 DEF TokensIssued, Issued
  <2>5. \A a \in inFlight : Issued(a.job)'
    BY <2>3, EnvelopesAreJobs DEF TokensIssued, IInv
  <2> QED
    BY <2>2, <2>4, <2>5 DEF TokensIssued
<1>8. ASSUME NEW b \in inFlight, LateAckHandled(b)
      PROVE  TokensIssued'
  <2>1. b \in Ack /\ FromQueue(b.job) /\ onPiExtensionCommandAck(b)
    BY <1>8 DEF IInv, TypeOK, JobsHonest, LateAckHandled
  <2>2. UNCHANGED <<mirrorUp, commandQueueEpoch, pc, job>> /\ inFlight' \subseteq inFlight
    BY <1>8 DEF LateAckHandled
  <2>3. \A j \in Job : Issued(j) => Issued(j)'
    BY <2>1, <2>2, AckTokens
  <2>4. \A q \in Process : pc'[q] # "idle" => Issued(job[q])'
    BY <1>0, <2>2, <2>3 DEF TokensIssued
  <2>5. \A a \in inFlight : Issued(a.job)'
    BY <2>3, EnvelopesAreJobs DEF TokensIssued, IInv
  <2> QED
    BY <2>2, <2>4, <2>5 DEF TokensIssued
<1>9. ASSUME NEW p \in Process, AckTimesOut(p)
      PROVE  TokensIssued'
  <2>1. pc[p] # "idle" /\ AckOf(p).job = job[p]
    BY <1>9, JobAtHand DEF AckTimesOut
  <2> QED
    BY <1>9, <2>1 DEF AckTimesOut, TokensIssued, Issued
<1>10. CASE \E n \in 1..Len(relayLog) : RouteAgain(n)
    BY <1>1, <1>10, RouteAgainIsQuiet DEF vars
<1>11. CASE UNCHANGED vars
    BY <1>1, <1>11 DEF vars
<1>15. ASSUME NEW p \in Process, PromptStep(p)
      PROVE  TokensIssued'
  <2>1. UNCHANGED <<commands, mirrorUp, commandQueueEpoch, inFlight, job>>
    BY <1>15, PromptStepEffect
  <2>2. \A q \in Process : pc'[q] # "idle" => pc[q] # "idle"
    BY <1>15, PromptStepEffect
  <2> QED
    BY <2>1, <2>2, KeepsTokens
<1>12. ASSUME NEW p \in Process, PiStep(p) \/ PiEnvironment(p) \/ ExtensionEvent(p)
      PROVE  TokensIssued'
    BY <1>1, <1>3, <1>4, <1>5, <1>7, <1>9, <1>12, <1>15 DEF PiStep, PiEnvironment, PromptStep,
       ExtensionEvent, StartPi, ReloadPi, ReloadEventDropped
<1>13. CASE DaemonStart \/ OwnerWindowPasses \/ \E k \in Command : SendCommand(k)
    BY <1>1, <1>13 DEF DaemonStart, OwnerWindowPasses, SendCommand
<1>14. ASSUME NEW a \in inFlight, LateAckLost(a)
      PROVE  TokensIssued'
    BY <1>14, KeepsTokens DEF LateAckLost
<1> QED
    BY <1>2, <1>6, <1>8, <1>10, <1>11, <1>12, <1>13, <1>14 DEF Next

\* Steps after which the owner is who it was, or the queue is gone.
LEMMA KeepsOwners ==
    ASSUME OwnersStay, UNCHANGED instance, inFlight' \subseteq inFlight,
           mirrorUp' => UNCHANGED <<mirrorUp, commandQueueEpoch, activeInstance>>,
           \A p \in Process : pc'[p] # "idle" => pc[p] # "idle" /\ job'[p].epoch = job[p].epoch,
           \A p : phase'[p] = phase[p] \/ (phase'[p] # "unborn" /\ (Alive(p)' => Alive(p)))
    PROVE  OwnersStay'
<1>1. \A p : Current(p)' = Current(p)
    BY DEF Current
<1>2. \A p : (Alive(p)' => Alive(p)) /\ (phase[p] # "unborn" => phase'[p] # "unborn")
    BY DEF Alive
<1>3. ASSUME NEW a \in inFlight'
      PROVE  /\ (a.from = Current(a.from[1]))' /\ phase'[a.from[1]] # "unborn"
             /\ (mirrorUp' /\ a.job.epoch = commandQueueEpoch')
                    => activeInstance' = a.from \/ ~Alive(a.from[1])'
    BY <1>1, <1>2 DEF OwnersStay
<1>4. ASSUME NEW p \in Process, pc'[p] # "idle", mirrorUp', job'[p].epoch = commandQueueEpoch'
      PROVE  activeInstance' = Current(p)'
    BY <1>1, <1>4 DEF OwnersStay
<1>5. \A p \in Process : instance'[p] = 0
    BY DEF OwnersStay
<1> QED
    BY <1>3, <1>4, <1>5 DEF OwnersStay

\* While Pi is not reloaded, no other process takes over the queue its owner
\* polled (claimPiExtensionInstance).
LEMMA NextOwners ==
    ASSUME IInv, LossInv, FifoInv, Sheltered, SoleProcess, OwnersStay, MaxReloads = 0, [Next]_vars
    PROVE  OwnersStay'
<1>0. \A a \in inFlight : a.from[1] \in Process
    BY DEF IInv, TypeOK, Ack, Instance
<1>1. CASE UNCHANGED <<instance, inFlight, mirrorUp, commandQueueEpoch, activeInstance, pc, job, phase>>
    BY <1>1, KeepsOwners
<1>2. CASE DaemonCrash
    BY <1>2, KeepsOwners DEF DaemonCrash, NoMirror
<1>3. CASE OpenMirror
  <2>1. UNCHANGED <<instance, inFlight, pc, job, phase>> /\ commandQueueEpoch' = commandQueueEpoch + 1
    BY <1>3 DEF OpenMirror
  <2>2. commandQueueEpoch \in Nat
    BY DEF IInv, TypeOK
  <2>3. \A p \in Process : pc[p] # "idle" => job[p].epoch # commandQueueEpoch + 1
    BY <2>2, JobAtHand DEF FromQueue, Job
  <2>4. \A a \in inFlight : a.job.epoch # commandQueueEpoch + 1
    BY <2>2, EnvelopesAreJobs DEF FromQueue, IInv, JobsHonest
  <2> QED
    BY <2>1, <2>3, <2>4 DEF OwnersStay, Current
<1>4. ASSUME NEW p \in Process, SessionShutdown(p)
      PROVE  OwnersStay'
  <2>1. UNCHANGED <<instance, inFlight, pc, job>>
        /\ (mirrorUp' => UNCHANGED <<mirrorUp, commandQueueEpoch, activeInstance>>)
    BY <1>4 DEF SessionShutdown, NoMirror
  <2>2. \A q : phase'[q] = phase[q] \/ (phase'[q] # "unborn" /\ (Alive(q)' => Alive(q)))
    BY <1>4 DEF SessionShutdown, Alive
  <2> QED
    BY <2>1, <2>2, KeepsOwners
<1>5. ASSUME NEW p \in Process, ExitPi(p)
      PROVE  OwnersStay'
  <2>1. UNCHANGED <<instance, inFlight, mirrorUp, commandQueueEpoch, activeInstance>>
    BY <1>5 DEF ExitPi
  <2>2. \A q : phase'[q] = phase[q] \/ (phase'[q] # "unborn" /\ (Alive(q)' => Alive(q)))
    BY <1>5 DEF ExitPi, Alive, IInv, TypeOK
  <2>3. \A q \in Process : pc'[q] # "idle" => pc[q] # "idle" /\ job'[q].epoch = job[q].epoch
    BY <1>5 DEF ExitPi, IInv, TypeOK
  <2> QED
    BY <2>1, <2>2, <2>3, KeepsOwners
<1>6. ASSUME NEW p \in Process, StartPi(p)
      PROVE  OwnersStay'
  <2>1. /\ UNCHANGED <<instance, inFlight, mirrorUp, commandQueueEpoch, activeInstance, pc, job>>
        /\ phase[p] = "unborn" /\ phase' = [phase EXCEPT ![p] = "running"]
    BY <1>6 DEF StartPi
  <2>2. \A a \in inFlight : a.from[1] # p /\ phase'[a.from[1]] = phase[a.from[1]]
    BY <1>0, <2>1 DEF OwnersStay, IInv, TypeOK
  <2> QED
    BY <2>1, <2>2 DEF OwnersStay, Current, Alive
<1>7. ASSUME NEW p \in Process, ExtensionEvent(p)
      PROVE  OwnersStay'
  <2>1. UNCHANGED <<instance, inFlight, mirrorUp, commandQueueEpoch, phase, pc, job>>
        /\ activeInstance' \in {activeInstance, Current(p)} /\ Alive(p)
    BY <1>7 DEF ExtensionEvent, Alive
  <2>2. \A q \in Process : Alive(q) => q = p
    BY <2>1 DEF SoleProcess
  <2>3. \A q \in Process : pc[q] # "idle" => q = p
    BY <2>2 DEF SoleProcess
  <2>4. (\A q : Current(q)' = Current(q)) /\ (\A q : Alive(q)' = Alive(q))
    BY <2>1 DEF Current, Alive
  <2>5. ASSUME NEW q \in Process, pc[q] # "idle", mirrorUp, job[q].epoch = commandQueueEpoch
        PROVE  activeInstance' = Current(q)
    BY <2>1, <2>3, <2>5 DEF OwnersStay
  <2>6. ASSUME NEW a \in inFlight, mirrorUp, a.job.epoch = commandQueueEpoch, Alive(a.from[1])
        PROVE  activeInstance' = a.from
    <3>1. a.from[1] = p /\ a.from = Current(p)
      BY <1>0, <2>2, <2>6 DEF OwnersStay
    <3> QED
      BY <2>1, <2>6, <3>1 DEF OwnersStay
  <2> QED
    BY <2>1, <2>4, <2>5, <2>6 DEF OwnersStay
<1>8. ASSUME NEW p \in Process, Poll(p)
      PROVE  OwnersStay'
  <2>1. /\ UNCHANGED <<instance, inFlight, mirrorUp, commandQueueEpoch, activeInstance, phase>>
        /\ activeInstance = Current(p)
        /\ \A q \in Process \ {p} : pc'[q] = pc[q] /\ job'[q] = job[q]
    BY <1>8 DEF Poll, isPiExtensionCommandOwner, IInv, TypeOK
  <2>2. (\A q : Current(q)' = Current(q)) /\ (\A q : Alive(q)' = Alive(q))
    BY <2>1 DEF Current, Alive
  <2> QED
    BY <2>1, <2>2 DEF OwnersStay
<1>9. ASSUME NEW p \in Process,
             \/ FinishAccepted(p) \/ FinishFailed(p)
             \/ ReadLedger(p) \/ BeginExecution(p)
      PROVE  OwnersStay'
  <2>1. UNCHANGED <<instance, inFlight, mirrorUp, commandQueueEpoch, activeInstance, phase>>
    BY <1>9 DEF FinishAccepted, FinishFailed, ReadLedger, BeginExecution
  <2>2. \A q \in Process \ {p} : pc'[q] = pc[q] /\ job'[q] = job[q]
    BY <1>9 DEF FinishAccepted, FinishFailed, ReadLedger, CheckLedger,
                BeginExecution, Report, Goto, IInv, TypeOK
  <2>3. pc[p] # "idle" /\ (UNCHANGED job \/ Report(p, TRUE) \/ Report(p, FALSE))
    <3>1. pc[p] # "idle"
      BY <1>9 DEF FinishAccepted, FinishFailed, ReadLedger, BeginExecution
    <3>2. UNCHANGED job \/ Report(p, TRUE) \/ Report(p, FALSE)
      BY <1>9 DEF FinishAccepted, FinishFailed, ReadLedger, CheckLedger,
                  BeginExecution, Goto
    <3> QED
      BY <3>1, <3>2
  <2>4. ASSUME NEW ok \in BOOLEAN, Report(p, ok)
        PROVE  job'[p].epoch = job[p].epoch
    <3>1. job[p] \in Job
      BY <2>3, JobAtHand
    <3>2. job'[p] = [job[p] EXCEPT !.ok = ok]
      BY <2>4, <3>1, ReportEffect
    <3> QED
      BY <3>1, <3>2 DEF Job
  <2>5. \A q \in Process : pc'[q] # "idle" => pc[q] # "idle" /\ job'[q].epoch = job[q].epoch
    BY <2>2, <2>3, <2>4
  <2> QED
    BY <2>1, <2>5, KeepsOwners
<1>10. ASSUME NEW p \in Process, AckAnswered(p)
      PROVE  OwnersStay'
  <2>1. /\ UNCHANGED <<instance, inFlight, mirrorUp, commandQueueEpoch, activeInstance, phase>>
        /\ \A q \in Process : pc'[q] # "idle" => pc[q] # "idle" /\ job'[q].epoch = job[q].epoch
    BY <1>10 DEF AckAnswered, IInv, TypeOK
  <2> QED
    BY <2>1, KeepsOwners
<1>11. ASSUME NEW p \in Process, AckTimesOut(p)
      PROVE  OwnersStay'
  <2>1. /\ UNCHANGED <<instance, mirrorUp, commandQueueEpoch, activeInstance, phase, pc, job>>
        /\ inFlight' = inFlight \cup {AckOf(p)} /\ Alive(p) /\ pc[p] # "idle"
    BY <1>11 DEF AckTimesOut
  <2>2. AckOf(p).from = Current(p) /\ AckOf(p).job = job[p] /\ AckOf(p).from[1] = p
    BY <2>1, JobAtHand DEF Current
  <2>3. (\A q : Current(q)' = Current(q)) /\ (\A q : Alive(q)' = Alive(q))
    BY <2>1 DEF Current, Alive
  <2>4. phase[p] # "unborn"
    BY <2>1 DEF Alive
  <2>5. ASSUME NEW a \in inFlight'
        PROVE  /\ a.from = Current(a.from[1]) /\ phase[a.from[1]] # "unborn"
               /\ (mirrorUp /\ a.job.epoch = commandQueueEpoch)
                      => activeInstance = a.from \/ ~Alive(a.from[1])
    BY <2>1, <2>2, <2>4 DEF OwnersStay
  <2> QED
    BY <2>1, <2>3, <2>5 DEF OwnersStay
<1>12. ASSUME NEW p \in Process, ReloadPi(p)
      PROVE  FALSE
    BY <1>12 DEF ReloadPi, IInv, TypeOK
<1>18. ASSUME NEW p \in Process, PromptStep(p)
      PROVE  OwnersStay'
  <2>1. /\ UNCHANGED <<instance, inFlight, mirrorUp, commandQueueEpoch, activeInstance, phase, job>>
        /\ \A q \in Process : pc'[q] # "idle" => pc[q] # "idle"
    BY <1>18, PromptStepEffect
  <2> QED
    BY <2>1, KeepsOwners
<1>13. ASSUME NEW p \in Process, PiStep(p) \/ PiEnvironment(p)
      PROVE  OwnersStay'
    BY <1>1, <1>4, <1>5, <1>6, <1>8, <1>9, <1>10, <1>11, <1>12, <1>13, <1>18
    DEF PiStep, PiEnvironment, PromptStep, ReloadEventDropped
<1>14. CASE \E n \in 1..Len(relayLog) : RouteAgain(n)
    BY <1>1, <1>14, RouteAgainIsQuiet DEF vars
<1>15. CASE UNCHANGED vars
    BY <1>1, <1>15 DEF vars
<1>16. CASE DaemonStart \/ RouteMessage \/ OwnerWindowPasses \/ \E k \in Command : SendCommand(k)
    BY <1>1, <1>16 DEF DaemonStart, RouteMessage, OwnerWindowPasses, SendCommand
<1>17. ASSUME NEW a \in inFlight, LateAckHandled(a) \/ LateAckLost(a)
      PROVE  OwnersStay'
    BY <1>17, KeepsOwners DEF LateAckHandled, LateAckLost
<1> QED
    BY <1>2, <1>3, <1>7, <1>13, <1>14, <1>15, <1>16, <1>17 DEF Next

\* An ack brings no late ack back to life, and spends the others with its token
\* (deliveryToken).
LEMMA AckSpendsToken ==
    ASSUME IInv, NEW a \in Ack, FromQueue(a.job), onPiExtensionCommandAck(a),
           UNCHANGED <<mirrorUp, commandQueueEpoch, activeInstance>>,
           NEW b \in Ack, Issued(b.job), AckedEntry(b)' # {}
    PROVE  /\ AckedEntry(b) # {}
           /\ ~(b.from = a.from /\ Token(b.job) = Token(a.job))
<1>1. PICK x \in AckedEntry(b)' : TRUE
    OBVIOUS
<1>2. /\ x \in commands' /\ x.status = "queued" /\ mirrorUp /\ activeInstance = b.from
      /\ x.seq = b.job.seq /\ b.job.epoch = commandQueueEpoch /\ x.failures = b.job.failures
    BY <1>1 DEF AckedEntry, isPiExtensionCommandOwner, isStalePiCommandAck
<1>3. CASE AckedEntry(a) = {} /\ UNCHANGED commands
  <2>1. x \in AckedEntry(b)
    BY <1>2, <1>3 DEF AckedEntry, isPiExtensionCommandOwner, isStalePiCommandAck
  <2>2. ASSUME b.from = a.from, Token(b.job) = Token(a.job) PROVE x \in AckedEntry(a)
    BY <1>2, <1>3, <2>2 DEF AckedEntry, isPiExtensionCommandOwner, isStalePiCommandAck, Token
  <2> QED
    BY <1>3, <2>1, <2>2
<1>4. ASSUME NEW e \in AckedEntry(a), NEW f \in Entry,
             commands' \subseteq (commands \ {e}) \cup {f},
             f.seq = e.seq, f.status = "queued" => f.failures > e.failures
      PROVE  /\ AckedEntry(b) # {}
             /\ ~(b.from = a.from /\ Token(b.job) = Token(a.job))
  <2>1. e \in commands /\ e.seq = a.job.seq /\ e.failures = a.job.failures
        /\ a.job.epoch = commandQueueEpoch /\ activeInstance = a.from
    BY DEF AckedEntry, isPiExtensionCommandOwner, isStalePiCommandAck
  <2>2. e.failures \in Nat /\ f.failures \in Nat /\ b.job.failures \in Nat
    BY <2>1, CountTypes, BoundsAreNat DEF Entry, Ack, Job
  <2>3. x # f
    <3>1. x = f => x.seq = e.seq /\ x.failures > e.failures
      BY <1>2, <1>4
    <3>2. e.seq = b.job.seq => b.job.failures <= e.failures
      BY <1>2, <2>1 DEF Issued
    <3> QED
      BY <1>2, <2>2, <3>1, <3>2
  <2>4. x \in commands /\ x # e
    BY <1>2, <1>4, <2>3
  <2>5. x \in AckedEntry(b)
    BY <1>2, <2>4 DEF AckedEntry, isPiExtensionCommandOwner, isStalePiCommandAck
  <2>6. x.seq # e.seq
    BY <2>1, <2>4 DEF IInv, QueueWellFormed
  <2> QED
    BY <1>2, <2>1, <2>5, <2>6 DEF Token
<1>5. \/ AckedEntry(a) = {} /\ UNCHANGED commands
      \/ \E e \in AckedEntry(a), f \in Entry :
            /\ commands' \subseteq (commands \ {e}) \cup {f}
            /\ f.seq = e.seq
            /\ f.status = "queued" => f.failures > e.failures
    <2>1. \A f \in Entry : f.status \in {"accepted_by_pi", "failed"} => f.status # "queued"
        OBVIOUS
    <2> QED
        BY <2>1, AckRewrites
<1> QED
    BY <1>3, <1>4, <1>5

\* Steps that wake no late ack and no process it waits for.
LEMMA KeepsLateAcks ==
    ASSUME \A a \in inFlight : AckedEntry(a) # {} => \A p \in Process : WaitsForAck(p, a),
           inFlight' \subseteq inFlight,
           \A a \in inFlight' : AckedEntry(a)' # {} => AckedEntry(a) # {},
           \A a \in inFlight', p \in Process :
              AckedEntry(a)' # {} /\ WaitsForAck(p, a) => WaitsForAck(p, a)'
    PROVE  \A a \in inFlight' : AckedEntry(a)' # {} => \A p \in Process : WaitsForAck(p, a)'
OBVIOUS

\* A late ack settles an entry only while its sender waits or is gone
\* (pendingCommandAcks: an ack is sent again before the next poll).
LEMMA NextLateAcks ==
    ASSUME IInv, LossInv, FifoInv, Sheltered, SoleProcess, QueuePending, TokensIssued,
           OwnersStay, [Next]_vars,
           \A a \in inFlight : AckedEntry(a) # {} => \A p \in Process : WaitsForAck(p, a)
    PROVE  \A a \in inFlight' : AckedEntry(a)' # {} => \A p \in Process : WaitsForAck(p, a)'
<1> DEFINE Goal == \A a \in inFlight' : AckedEntry(a)' # {} => \A p \in Process : WaitsForAck(p, a)'
<1>a. \A a \in inFlight : a \in Ack /\ a.job \in Job /\ FromQueue(a.job) /\ a.from[1] \in Process
    BY EnvelopesAreJobs DEF IInv, TypeOK, JobsHonest, Ack, Instance
<1>b. ASSUME UNCHANGED <<commands, mirrorUp, commandQueueEpoch, activeInstance>>
      PROVE  \A a \in Ack : AckedEntry(a)' = AckedEntry(a)
    BY <1>b DEF AckedEntry, isPiExtensionCommandOwner, isStalePiCommandAck
<1>c. ASSUME mirrorUp' = FALSE
      PROVE  \A a \in Ack : AckedEntry(a)' = {}
    BY <1>c DEF AckedEntry
<1>d. ASSUME UNCHANGED <<phase, pc, job>>
      PROVE  \A p, a : WaitsForAck(p, a)' <=> WaitsForAck(p, a)
    BY <1>d DEF WaitsForAck, Alive
<1>1. CASE UNCHANGED <<commands, mirrorUp, commandQueueEpoch, activeInstance, phase, pc, job>>
           /\ inFlight' \subseteq inFlight
  <2>1. \A a \in Ack : AckedEntry(a)' = AckedEntry(a)
    BY <1>1, <1>b
  <2>2. \A p, a : WaitsForAck(p, a)' <=> WaitsForAck(p, a)
    BY <1>1, <1>d
  <2> QED
    BY <1>a, <1>1, <2>1, <2>2
<1>2. CASE DaemonCrash
    BY <1>2 DEF DaemonCrash
<1>3. CASE OpenMirror
  <2>1. inFlight' = inFlight /\ commandQueueEpoch' = commandQueueEpoch + 1 /\ commandQueueEpoch \in Nat
    BY <1>3 DEF OpenMirror, IInv, TypeOK
  <2>2. ASSUME NEW a \in inFlight PROVE a.job.epoch # commandQueueEpoch'
    BY <1>a, <2>1 DEF FromQueue, Job
  <2> QED
    BY <2>1, <2>2 DEF AckedEntry, isStalePiCommandAck
<1>4. ASSUME NEW p \in Process, SessionShutdown(p)
      PROVE  Goal
  <2>1. UNCHANGED <<inFlight, pc, job>>
        /\ (mirrorUp' = FALSE \/ UNCHANGED <<commands, mirrorUp, commandQueueEpoch, activeInstance>>)
    BY <1>4 DEF SessionShutdown, NoMirror
  <2>2. \A a \in Ack : AckedEntry(a)' # {} => AckedEntry(a)' = AckedEntry(a)
    BY <1>b, <1>c, <2>1
  <2>3. \A q : Alive(q)' => Alive(q)
    BY <1>4 DEF SessionShutdown, Alive, IInv, TypeOK
  <2>4. \A q, a : WaitsForAck(q, a) => WaitsForAck(q, a)'
    BY <2>1, <2>3 DEF WaitsForAck
  <2> QED
    BY <1>a, <2>1, <2>2, <2>4
<1>5. ASSUME NEW p \in Process, ExitPi(p)
      PROVE  Goal
  <2>1. UNCHANGED <<inFlight, commands, mirrorUp, commandQueueEpoch, activeInstance>>
    BY <1>5 DEF ExitPi
  <2>2. /\ pc'[p] = "idle" /\ ~Alive(p)'
        /\ \A q \in Process \ {p} : pc'[q] = pc[q] /\ job'[q] = job[q] /\ phase'[q] = phase[q]
    BY <1>5 DEF ExitPi, Alive, IInv, TypeOK
  <2>3. \A q \in Process : \A a : WaitsForAck(q, a) => WaitsForAck(q, a)'
    BY <2>2 DEF WaitsForAck, Alive
  <2>4. \A a \in Ack : AckedEntry(a)' = AckedEntry(a)
    BY <1>b, <2>1
  <2> QED
    BY <1>a, <2>1, <2>3, <2>4
<1>6. ASSUME NEW p \in Process, StartPi(p)
      PROVE  Goal
  <2>1. /\ UNCHANGED <<inFlight, commands, mirrorUp, commandQueueEpoch, activeInstance, pc, job>>
        /\ phase[p] = "unborn" /\ phase' = [phase EXCEPT ![p] = "running"]
    BY <1>6 DEF StartPi
  <2>2. \A a \in inFlight : a.from[1] # p
    BY <2>1 DEF OwnersStay
  <2>3. \A q \in Process : \A a \in inFlight : WaitsForAck(q, a) => WaitsForAck(q, a)'
    BY <2>1, <2>2 DEF WaitsForAck, Alive, IInv, TypeOK
  <2>4. \A a \in Ack : AckedEntry(a)' = AckedEntry(a)
    BY <1>b, <2>1
  <2> QED
    BY <1>a, <2>1, <2>3, <2>4
<1>7. ASSUME NEW p \in Process, ExtensionEvent(p)
      PROVE  Goal
  <2>1. /\ UNCHANGED <<inFlight, commands, mirrorUp, commandQueueEpoch, pc, job, phase>>
        /\ activeInstance' \in {activeInstance, Current(p)} /\ Alive(p)
    BY <1>7 DEF ExtensionEvent, Alive
  <2>2. ASSUME NEW a \in inFlight, AckedEntry(a)' # {} PROVE AckedEntry(a)' = AckedEntry(a)
    <3>1. mirrorUp /\ a.job.epoch = commandQueueEpoch /\ activeInstance' = a.from
      BY <2>1, <2>2 DEF AckedEntry, isPiExtensionCommandOwner, isStalePiCommandAck
    <3>2. activeInstance' = Current(p) => a.from[1] = p
      BY <3>1 DEF Current
    <3>3. activeInstance = a.from
      BY <2>1, <3>1, <3>2 DEF OwnersStay
    <3> QED
      BY <1>a, <1>b, <2>1, <3>1, <3>3
  <2>3. \A q, a : WaitsForAck(q, a)' <=> WaitsForAck(q, a)
    BY <1>d, <2>1
  <2> QED
    BY <2>1, <2>2, <2>3
<1>8. ASSUME NEW p \in Process, Poll(p)
      PROVE  Goal
  <2>1. /\ UNCHANGED <<inFlight, commands, mirrorUp, commandQueueEpoch, activeInstance, phase>>
        /\ activeInstance = Current(p) /\ phase[p] = "running" /\ pc[p] = "idle"
    BY <1>8 DEF Poll, isPiExtensionCommandOwner
  <2>2. \A a \in Ack : AckedEntry(a)' = AckedEntry(a)
    BY <1>b, <2>1
  <2>3. ASSUME NEW a \in inFlight, AckedEntry(a) # {} PROVE FALSE
    <3>1. a.from = Current(p)
      BY <2>1, <2>3 DEF AckedEntry, isPiExtensionCommandOwner
    <3>2. a.from[1] = p /\ Alive(p)
      BY <2>1, <3>1 DEF Current, Alive
    <3> QED
      BY <2>1, <2>3, <3>2 DEF WaitsForAck
  <2> QED
    BY <1>a, <2>1, <2>2, <2>3
<1>9. ASSUME NEW p \in Process,
             \/ FinishAccepted(p) \/ FinishFailed(p)
             \/ ReadLedger(p) \/ BeginExecution(p)
      PROVE  Goal
  <2>1. UNCHANGED <<inFlight, commands, mirrorUp, commandQueueEpoch, activeInstance>>
        /\ pc[p] \notin {"idle", "acking"}
    BY <1>9 DEF FinishAccepted, FinishFailed, ReadLedger, BeginExecution
  <2>2. \A a \in inFlight : ~WaitsForAck(p, a)
    BY <2>1 DEF WaitsForAck
  <2>3. \A a \in Ack : AckedEntry(a)' = AckedEntry(a)
    BY <1>b, <2>1
  <2> QED
    BY <1>a, <2>1, <2>2, <2>3
<1>10. ASSUME NEW p \in Process, AckAnswered(p)
      PROVE  Goal
  <2>1. /\ AckOf(p) \in Ack /\ FromQueue(AckOf(p).job) /\ onPiExtensionCommandAck(AckOf(p))
        /\ AckOf(p).job = job[p] /\ AckOf(p).from = Current(p) /\ pc[p] = "acking" /\ Alive(p)
    BY <1>10, JobAtHand DEF AckAnswered
  <2>2. UNCHANGED <<inFlight, mirrorUp, commandQueueEpoch, activeInstance, phase>>
    BY <1>10 DEF AckAnswered
  <2>3. \A a \in inFlight : AckedEntry(a)' # {} =>
           AckedEntry(a) # {} /\ ~(a.from = Current(p) /\ Token(a.job) = Token(job[p]))
    BY <1>a, <2>1, <2>2, AckSpendsToken DEF TokensIssued
  <2>4. ASSUME NEW a \in inFlight, AckedEntry(a)' # {} PROVE FALSE
    <3>1. p = a.from[1] /\ Token(job[p]) = Token(a.job)
      BY <2>1, <2>3, <2>4 DEF WaitsForAck
    <3>2. a.from = Current(p)
      BY <3>1 DEF OwnersStay
    <3> QED
      BY <2>3, <2>4, <3>1, <3>2
  <2> QED
    BY <2>2, <2>4
<1>11. ASSUME NEW b \in inFlight, LateAckHandled(b)
      PROVE  Goal
  <2>1. b \in Ack /\ FromQueue(b.job) /\ onPiExtensionCommandAck(b)
    BY <1>a, <1>11 DEF LateAckHandled
  <2>2. UNCHANGED <<mirrorUp, commandQueueEpoch, activeInstance, phase, pc, job>>
        /\ inFlight' \subseteq inFlight
    BY <1>11 DEF LateAckHandled
  <2>3. \A a \in inFlight : AckedEntry(a)' # {} => AckedEntry(a) # {}
    BY <1>a, <2>1, <2>2, AckSpendsToken DEF TokensIssued
  <2>4. \A q, a : WaitsForAck(q, a)' <=> WaitsForAck(q, a)
    BY <1>d, <2>2
  <2> QED
    BY <2>2, <2>3, <2>4
<1>12. ASSUME NEW p \in Process, AckTimesOut(p)
      PROVE  Goal
  <2>1. /\ UNCHANGED <<commands, mirrorUp, commandQueueEpoch, activeInstance, phase, pc, job>>
        /\ inFlight' = inFlight \cup {AckOf(p)} /\ Alive(p) /\ pc[p] = "acking"
    BY <1>12 DEF AckTimesOut
  <2>2. AckOf(p) \in Ack /\ AckOf(p).job = job[p] /\ AckOf(p).from[1] = p
    BY <2>1, JobAtHand DEF Current
  <2>3. \A a \in Ack : AckedEntry(a)' = AckedEntry(a)
    BY <1>b, <2>1
  <2>4. \A q, a : WaitsForAck(q, a)' <=> WaitsForAck(q, a)
    BY <1>d, <2>1
  <2>5. \A q \in Process : q # p => pc[q] = "idle"
    BY <2>1 DEF SoleProcess
  <2>6. \A q \in Process : WaitsForAck(q, AckOf(p))
    BY <2>1, <2>2, <2>5 DEF WaitsForAck
  <2> QED
    BY <1>a, <2>1, <2>2, <2>3, <2>4, <2>6
<1>13. CASE RouteMessage
  <2> DEFINE k == relayLog[receiveSeq + 1]
             new == [seq |-> nextCommandSeq, key |-> k, status |-> "queued", failures |-> 0]
  <2>1. commands' = commands \/ commands' = commands \cup {new}
    BY <1>13, RouteMessageEffect
  <2>2. UNCHANGED <<mirrorUp, commandQueueEpoch, activeInstance, phase, pc, job, inFlight>>
        /\ mirrorUp /\ nextCommandSeq \in Nat
    BY <1>13 DEF RouteMessage, IInv, TypeOK
  <2>3. new.seq = nextCommandSeq
    OBVIOUS
  <2> HIDE DEF new
  <2>4. ASSUME NEW a \in inFlight, AckedEntry(a)' # {} PROVE AckedEntry(a) # {}
    <3>1. PICK x \in AckedEntry(a)' : TRUE
      BY <2>4
    <3>2. /\ x \in commands' /\ x.status = "queued" /\ activeInstance = a.from
          /\ x.seq = a.job.seq /\ a.job.epoch = commandQueueEpoch /\ x.failures = a.job.failures
      BY <2>2, <3>1 DEF AckedEntry, isPiExtensionCommandOwner, isStalePiCommandAck
    <3>3. a.job.seq < nextCommandSeq /\ a.job.seq \in Nat
      BY <1>a, <2>2, <3>2 DEF FromQueue, Job
    <3>4. x \in commands
      BY <2>1, <2>2, <2>3, <3>2, <3>3
    <3>5. x \in AckedEntry(a)
      BY <2>2, <3>2, <3>4 DEF AckedEntry, isPiExtensionCommandOwner, isStalePiCommandAck
    <3> QED
      BY <3>5
  <2>5. \A q, a : WaitsForAck(q, a)' <=> WaitsForAck(q, a)
    BY <1>d, <2>2
  <2> QED
    BY <2>2, <2>4, <2>5
<1>14. ASSUME NEW p \in Process, ReloadPi(p)
      PROVE  Goal
    BY <1>1, <1>14 DEF ReloadPi
<1>20. ASSUME NEW p \in Process, PromptStep(p)
      PROVE  Goal
  <2>1. /\ UNCHANGED <<inFlight, commands, mirrorUp, commandQueueEpoch, activeInstance, phase, job>>
        /\ UNCHANGED pc \/ pc[p] \notin {"idle", "acking"}
    BY <1>20, PromptStepEffect
  <2>2. CASE UNCHANGED pc
    BY <1>1, <2>1, <2>2
  <2>3. CASE pc[p] \notin {"idle", "acking"}
    <3>1. \A a \in inFlight : ~WaitsForAck(p, a)
      BY <2>3 DEF WaitsForAck
    <3>2. \A a \in Ack : AckedEntry(a)' = AckedEntry(a)
      BY <1>b, <2>1
    <3> QED
      BY <1>a, <2>1, <3>1, <3>2
  <2> QED
    BY <2>1, <2>2, <2>3
<1>15. ASSUME NEW p \in Process, PiStep(p) \/ PiEnvironment(p)
      PROVE  Goal
    BY <1>1, <1>4, <1>5, <1>6, <1>8, <1>9, <1>10, <1>12, <1>14, <1>15, <1>20
    DEF PiStep, PiEnvironment, PromptStep, ReloadEventDropped
<1>16. CASE \E n \in 1..Len(relayLog) : RouteAgain(n)
    BY <1>1, <1>16, RouteAgainIsQuiet DEF vars
<1>17. CASE UNCHANGED vars
    BY <1>1, <1>17 DEF vars
<1>18. CASE DaemonStart \/ OwnerWindowPasses \/ \E k \in Command : SendCommand(k)
    BY <1>1, <1>18 DEF DaemonStart, OwnerWindowPasses, SendCommand
<1>19. CASE \E a \in inFlight : LateAckLost(a)
    BY <1>1, <1>19 DEF LateAckLost
<1> QED
    BY <1>2, <1>3, <1>7, <1>11, <1>13, <1>15, <1>16, <1>17, <1>18, <1>19 DEF Next

\* Where no ack is late none comes up.
LEMMA NextNoLateAcks ==
    ASSUME IInv, MaxLateAcks = 0, inFlight = {}, [Next]_vars
    PROVE  inFlight' = {}
<1>1. ASSUME NEW p \in Process, AckTimesOut(p)
      PROVE  FALSE
    BY <1>1, FS_EmptySet DEF AckTimesOut
<1>2. CASE UNCHANGED inFlight
    BY <1>2
<1>3. ASSUME NEW p \in Process, PiStep(p) \/ PiEnvironment(p) \/ ExtensionEvent(p)
      PROVE  inFlight' = {}
  <2>1. CASE PromptStep(p)
    BY <1>2, <2>1, PromptStepEffect
  <2> QED
    BY <1>1, <1>2, <1>3, <2>1 DEF PiStep, PiEnvironment, PromptStep, ExtensionEvent, Poll,
       ReadLedger, BeginExecution, FinishAccepted, FinishFailed, AckAnswered, StartPi,
       ReloadPi, SessionShutdown, ExitPi, ReloadEventDropped
<1> QED
    BY <1>2, <1>3 DEF Next, vars, DaemonStart, DaemonCrash, OpenMirror, RouteMessage, RouteAgain,
       OwnerWindowPasses, SendCommand

\* A late ack never interferes with what a process is doing.
LEMMA NextHarmless ==
    ASSUME IInv, LossInv, FifoInv, Sheltered, SoleProcess, QueuePending, TokensIssued,
           LateAcksHarmless, [Next]_vars
    PROVE  LateAcksHarmless'
<1>1. CASE MaxLateAcks = 0
  <2>1. inFlight' = {}
    BY <1>1, NextNoLateAcks DEF LateAcksHarmless
  <2>2. MaxReloads = 0 => OwnersStay'
    BY NextOwners DEF LateAcksHarmless
  <2> QED
    BY <2>1, <2>2 DEF LateAcksHarmless
<1>2. CASE MaxLateAcks # 0
  <2>1. MaxReloads = 0 /\ OwnersStay
    BY <1>2 DEF Sheltered, LateAcksHarmless
  <2>2. OwnersStay'
    BY <2>1, NextOwners
  <2>3. \A a \in inFlight : AckedEntry(a) # {} => \A p \in Process : WaitsForAck(p, a)
    BY DEF LateAcksHarmless
  <2>4. \A a \in inFlight' : AckedEntry(a)' # {} => \A p \in Process : WaitsForAck(p, a)'
    BY <2>1, <2>3, NextLateAcks
  <2> QED
    BY <1>2, <2>2, <2>4 DEF LateAcksHarmless
<1> QED
    BY <1>1, <1>2

------------------------------------------------------------------------------
(* The refinement, step by step.                                            *)

\* Nothing is under way.
LEMMA InitLifecycle == Init => LifecycleInv
<1> SUFFICES ASSUME Init PROVE LifecycleInv
    OBVIOUS
<1>1. SoleProcess /\ LedgersGuard
    BY DEF Init, SoleProcess, LedgersGuard, Confirmed, Alive
<1>2. QueuePending
    BY FS_EmptySet, DeliveryAssumption DEF Init, QueuePending, DeliveryAssumption
<1>3. WorkPending /\ TokensIssued
    BY DEF Init, WorkPending, AtWork, TokensIssued
<1>4. LateAcksHarmless
    BY DEF Init, LateAcksHarmless, OwnersStay
<1> QED
    BY <1>1, <1>2, <1>3, <1>4 DEF LifecycleInv

\* The parts of the invariant hold together.
LEMMA NextLifecycle ==
    ASSUME IInv, LossInv, FifoInv, Sheltered, LifecycleInv, [Next]_vars
    PROVE  LifecycleInv'
BY NextSole, NextGuard, NextPending, NextWork, NextTokens, NextHarmless
DEF LifecycleInv, Sheltered

\* A step that changes neither log, outcomes nor what was confirmed is a stutter.
LEMMA QuietStutters ==
    ASSUME UNCHANGED <<relayLog, outcome, taken, mistaken>>
    PROVE  UNCHANGED Lifecycle!lifecycleVars
<1>1. \A k : LifecycleStatus(k)' = LifecycleStatus(k)
    BY DEF LifecycleStatus, Settled, Sent
<1> QED
    BY <1>1 DEF Lifecycle!lifecycleVars

\* A pending command that gets its outcome takes a step of the lifecycle, and
\* the others none.
LEMMA SettleStep ==
    ASSUME IInv, LedgersGuard, NEW k \in Sent \cap Command, ~Settled(k),
           NEW result \in {"accepted_by_pi", "failed"},
           result = "accepted_by_pi" => Confirmed(k),
           outcome' = [outcome EXCEPT ![k] = result],
           UNCHANGED <<relayLog, taken, mistaken>>
    PROVE  Lifecycle!Next
<1> DEFINE status == [c \in Command |-> LifecycleStatus(c)]
<1>1. outcome \in [Command -> Outcome]
    BY DEF IInv, TypeOK
<1>2. outcome'[k] = result /\ \A c \in Command \ {k} : outcome'[c] = outcome[c]
    BY <1>1
<1>3. LifecycleStatus(k) = "pending" /\ LifecycleStatus(k)' = result
    BY <1>2 DEF LifecycleStatus, Settled
<1>4. \A c \in Command \ {k} : LifecycleStatus(c)' = LifecycleStatus(c)
    BY <1>2 DEF LifecycleStatus, Settled, Sent
<1>5. status[k] = "pending" /\ status' = [status EXCEPT ![k] = result]
    BY <1>3, <1>4
<1>6. result = "accepted_by_pi" => taken[k] = 1 \/ k \in mistaken
    BY DEF LedgersGuard, Confirmed, IInv, TypeOK
<1>7. CASE result = "accepted_by_pi"
    BY <1>5, <1>6, <1>7 DEF Lifecycle!Next, Lifecycle!Accept
<1>8. CASE result = "failed"
    BY <1>5, <1>8 DEF Lifecycle!Next, Lifecycle!Fail
<1> QED
    BY <1>7, <1>8

\* A message that the relay logs is a command sent.
LEMMA SendStep ==
    ASSUME IInv, LossInv, NEW k \in Command, SendCommand(k)
    PROVE  [Lifecycle!Next]_Lifecycle!lifecycleVars
<1> DEFINE status == [c \in Command |-> LifecycleStatus(c)]
<1>1. /\ relayLog \in Seq(Command) /\ relayLog' = Append(relayLog, k) /\ k \notin Sent
      /\ UNCHANGED <<outcome, taken, mistaken>>
    BY DEF SendCommand, IInv, TypeOK
<1>2. Sent' = Sent \cup {k}
  <2>1. /\ Len(relayLog') = Len(relayLog) + 1 /\ relayLog'[Len(relayLog) + 1] = k
        /\ \A n \in 1..Len(relayLog) : relayLog'[n] = relayLog[n]
        /\ Len(relayLog) \in Nat
    BY <1>1
  <2>2. 1..Len(relayLog') = (1..Len(relayLog)) \cup {Len(relayLog) + 1}
    BY <2>1
  <2> QED
    BY <2>1, <2>2 DEF Sent
<1>3. CASE Settled(k)
  <2>1. \A c \in Command : LifecycleStatus(c)' = LifecycleStatus(c)
    BY <1>1, <1>2, <1>3 DEF LifecycleStatus, Settled
  <2> QED
    BY <1>1, <2>1 DEF Lifecycle!lifecycleVars
<1>4. CASE ~Settled(k)
  <2>1. LifecycleStatus(k) = "unsent" /\ LifecycleStatus(k)' = "pending"
    BY <1>1, <1>2, <1>4 DEF LifecycleStatus, Settled
  <2>2. \A c \in Command \ {k} : LifecycleStatus(c)' = LifecycleStatus(c)
    BY <1>1, <1>2 DEF LifecycleStatus, Settled
  <2>3. status[k] = "unsent" /\ status' = [status EXCEPT ![k] = "pending"]
    BY <2>1, <2>2
  <2> QED
    BY <1>1, <2>3 DEF Lifecycle!Next, Lifecycle!Send
<1> QED
    BY <1>3, <1>4

\* A prompt that Pi takes in time belongs to a pending command and is its first; one
\* it takes late was mistaken for taken; what starts is mistaken for a pending command.
LEMMA PromptStepImplements ==
    ASSUME IInv, LossInv, Sheltered, LifecycleInv, NEW p \in Process, PromptStep(p)
    PROVE  [Lifecycle!Next]_Lifecycle!lifecycleVars
<1> DEFINE k == job[p].key
           status == [c \in Command |-> LifecycleStatus(c)]
<1>1. UNCHANGED <<relayLog, outcome>> /\ taken \in [Command -> Nat]
    BY PromptStepEffect DEF IInv, TypeOK
<1>2. status' = status
  <2>1. \A c \in Command : LifecycleStatus(c)' = LifecycleStatus(c)
    BY <1>1 DEF LifecycleStatus, Settled, Sent
  <2> QED
    BY <2>1
<1>3. pc[p] \in {"running", "waiting"} =>
         k \in Command /\ AtWork(p, k) /\ taken[k] = 0 /\ k \notin mistaken
    BY CountTypes DEF IInv, TypeOK, HoldsJob, AtWork, LifecycleInv, LedgersGuard, Confirmed
<1>4. pc[p] \in {"running", "waiting"} => status[k] = "pending"
  <2> SUFFICES ASSUME pc[p] \in {"running", "waiting"}
               PROVE  status[k] = "pending"
    OBVIOUS
  <2>1. k \in Command /\ k \in covered /\ ~Settled(k)
    BY <1>3 DEF LifecycleInv, WorkPending
  <2> HIDE DEF k
  <2> QED
    BY <2>1 DEF LifecycleStatus, LossInv, LogWellFormed
<1>5. \A c \in late[p] : c \in Command /\ c \in mistaken /\ taken[c] = 0
    BY DEF LifecycleInv, LedgersGuard, IInv, TypeOK
<1>6. \/ UNCHANGED <<taken, mistaken>>
      \/ /\ pc[p] \in {"running", "waiting"} /\ UNCHANGED mistaken
         /\ taken' = [taken EXCEPT ![k] = @ + 1]
      \/ /\ pc[p] = "waiting" /\ UNCHANGED taken
         /\ mistaken' = mistaken \cup {k}
      \/ \E c \in late[p] :
            /\ taken' = [taken EXCEPT ![c] = @ + 1]
            /\ UNCHANGED mistaken \/ (pc[p] = "waiting" /\ mistaken' = mistaken \cup {k})
    BY DEF PromptStep, Execute, AwaitAcceptance, LocalPromptStarts, TakeLate,
           settleAnyPromptAcceptance
<1> HIDE DEF k, status
<1>7. CASE UNCHANGED <<taken, mistaken>>
    BY <1>1, <1>7, QuietStutters
<1>8. CASE /\ pc[p] \in {"running", "waiting"} /\ UNCHANGED mistaken
           /\ taken' = [taken EXCEPT ![k] = @ + 1]
  <2>1. k \in Command /\ taken[k] = 0
    BY <1>3, <1>8
  <2>2. taken' = [taken EXCEPT ![k] = 1]
    <3>1. taken[k] + 1 = 1
      BY <2>1
    <3> QED
      BY <1>8, <3>1
  <2> QED
    BY <1>2, <1>3, <1>4, <1>8, <2>1, <2>2 DEF Lifecycle!Next, Lifecycle!Take, status
<1>9. CASE pc[p] = "waiting" /\ UNCHANGED taken /\ mistaken' = mistaken \cup {k}
    BY <1>2, <1>3, <1>4, <1>9 DEF Lifecycle!Next, Lifecycle!StartLocalPrompt, Lifecycle!Mistake, status
<1>10. ASSUME NEW c \in late[p], taken' = [taken EXCEPT ![c] = @ + 1],
              UNCHANGED mistaken \/ (pc[p] = "waiting" /\ mistaken' = mistaken \cup {k})
       PROVE  Lifecycle!Next
  <2>1. taken[c] = 0 /\ c \in mistaken /\ c \in Command
    BY <1>5
  <2>0. taken' = [taken EXCEPT ![c] = 1]
    <3>1. taken[c] + 1 = 1
      BY <2>1
    <3> QED
      BY <1>10, <3>1
  <2>2. pc[p] = "waiting" => k \in Command \ {c} /\ taken[k] = 0 /\ k \notin mistaken
    BY <1>3, <2>1
  <2> QED
    BY <1>2, <1>4, <1>10, <2>0, <2>1, <2>2
    DEF Lifecycle!Next, Lifecycle!Take, Lifecycle!Mistake, status
<1> QED
    BY <1>6, <1>7, <1>8, <1>9, <1>10

\* What an ack settles was pending, and it reports success of what was confirmed.
LEMMA AckStep ==
    ASSUME IInv, FifoInv, LifecycleInv, NEW a \in Ack, FromQueue(a.job), Honest(a.job),
           onPiExtensionCommandAck(a), UNCHANGED <<relayLog, taken, mistaken>>
    PROVE  [Lifecycle!Next]_Lifecycle!lifecycleVars
<1>1. CASE UNCHANGED outcome
    BY <1>1, QuietStutters
<1>2. ASSUME NEW e \in AckedEntry(a), NEW result \in {"accepted_by_pi", "failed"},
             outcome' = [outcome EXCEPT ![e.key] = result],
             result = "accepted_by_pi" => a.job.ok /\ e.key = a.job.key
      PROVE  Lifecycle!Next
  <2>1. e \in commands /\ e.status = "queued" /\ e.key \in Command
    BY CountTypes DEF AckedEntry
  <2>2. e.key \in Sent /\ ~Settled(e.key)
    BY <2>1 DEF FifoInv, QueueInOrder, LifecycleInv, QueuePending
  <2>3. result = "accepted_by_pi" => Confirmed(e.key)
    BY <1>2 DEF Honest
  <2> QED
    BY <1>2, <2>1, <2>2, <2>3, SettleStep DEF LifecycleInv
<1> QED
    BY <1>1, <1>2, AckRewrites

\* Every step of the program is a step of the lifecycle or a stutter.
LEMMA NextImplements ==
    ASSUME IInv, LossInv, FifoInv, Sheltered, LifecycleInv, [Next]_vars
    PROVE  [Lifecycle!Next]_Lifecycle!lifecycleVars
<1>1. CASE UNCHANGED <<relayLog, outcome, taken, mistaken>>
    BY <1>1, QuietStutters
<1>2. ASSUME NEW k \in Command, SendCommand(k)
      PROVE  [Lifecycle!Next]_Lifecycle!lifecycleVars
    BY <1>2, SendStep
<1>3. CASE RouteMessage
  <2> DEFINE k == relayLog[receiveSeq + 1]
  <2>1. /\ k \in covered /\ k \in Command
        /\ UNCHANGED outcome \/ (~Known(k) /\ outcome' = [outcome EXCEPT ![k] = "failed"])
    BY <1>3, RouteMessageEffect DEF LifecycleInv
  <2>2. UNCHANGED <<relayLog, taken, mistaken>> /\ k \in Sent
    BY <1>3, <2>1 DEF RouteMessage, LossInv, LogWellFormed
  <2> HIDE DEF k
  <2>3. CASE UNCHANGED outcome
    BY <1>1, <2>2, <2>3
  <2>4. CASE ~Known(k) /\ outcome' = [outcome EXCEPT ![k] = "failed"]
    BY <2>1, <2>2, <2>4, SettleStep DEF Known, Settled, LifecycleInv
  <2> QED
    BY <2>1, <2>3, <2>4
<1>4. ASSUME NEW p \in Process, PromptStep(p)
      PROVE  [Lifecycle!Next]_Lifecycle!lifecycleVars
    BY <1>4, PromptStepImplements
<1>5. ASSUME NEW p \in Process, AckAnswered(p)
      PROVE  [Lifecycle!Next]_Lifecycle!lifecycleVars
  <2>1. AckOf(p) \in Ack /\ FromQueue(AckOf(p).job) /\ Honest(AckOf(p).job)
    BY <1>5, JobAtHand DEF AckAnswered
  <2>2. onPiExtensionCommandAck(AckOf(p)) /\ UNCHANGED <<relayLog, taken, mistaken>>
    BY <1>5 DEF AckAnswered
  <2> QED
    BY <2>1, <2>2, AckStep
<1>6. ASSUME NEW a \in inFlight, LateAckHandled(a)
      PROVE  [Lifecycle!Next]_Lifecycle!lifecycleVars
  <2>1. a \in Ack /\ FromQueue(a.job) /\ Honest(a.job)
    BY DEF IInv, TypeOK, JobsHonest
  <2>2. onPiExtensionCommandAck(a) /\ UNCHANGED <<relayLog, taken, mistaken>>
    BY <1>6 DEF LateAckHandled
  <2> QED
    BY <2>1, <2>2, AckStep
<1>8. ASSUME NEW p \in Process, PiStep(p) \/ PiEnvironment(p) \/ ExtensionEvent(p)
      PROVE  [Lifecycle!Next]_Lifecycle!lifecycleVars
    BY <1>1, <1>4, <1>5, <1>8 DEF PiStep, PiEnvironment, PromptStep, ExtensionEvent, Poll,
       ReadLedger, BeginExecution, FinishAccepted, FinishFailed, StartPi, ReloadPi,
       SessionShutdown, ExitPi, ReloadEventDropped, AckTimesOut
<1>9. CASE \E n \in 1..Len(relayLog) : RouteAgain(n)
    BY <1>1, <1>9, RouteAgainIsQuiet DEF vars
<1>10. CASE UNCHANGED vars
    BY <1>1, <1>10 DEF vars
<1>11. CASE DaemonStart \/ DaemonCrash \/ OpenMirror \/ OwnerWindowPasses
            \/ \E a \in inFlight : LateAckLost(a)
    BY <1>1, <1>11 DEF DaemonStart, DaemonCrash, OpenMirror, OwnerWindowPasses, LateAckLost
<1> QED
    BY <1>2, <1>3, <1>6, <1>8, <1>9, <1>10, <1>11 DEF Next

\* Where no prompt outlives its wait unless another was mistaken for it, no
\* processes overlap, no attachment fails and no ack outlives a reload, the program
\* implements the lifecycle: a command is taken at most once, while it is pending
\* or mistaken for taken, it is accepted only after one of the two, and its
\* outcome is final, whatever crashes, replays, ledger faults, late acks and local
\* prompts come between.
THEOREM RefinesLifecycle ==
    ASSUME Sheltered
    PROVE  Spec => ImplementsLifecycle
<1>1. Init => Lifecycle!Init
    BY DEF Init, Lifecycle!Init, LifecycleStatus, Settled, Sent
<1>2. Init => LossInv /\ FifoInv /\ LifecycleInv
    BY InitLoss, InitFifo, InitLifecycle
<1>3. IInv /\ LossInv /\ FifoInv /\ LifecycleInv /\ [Next]_vars =>
         /\ LossInv' /\ FifoInv' /\ LifecycleInv'
         /\ [Lifecycle!Next]_Lifecycle!lifecycleVars
    BY NextLoss, NextFifo, NextLifecycle, NextImplements
<1> QED
    BY <1>1, <1>2, <1>3, Invariance, PTL DEF Spec, ImplementsLifecycle, Lifecycle!Spec

------------------------------------------------------------------------------
(* Where accepted means taken.                                              *)

\* Pi holds no prompt that nobody waits for, and none was mistaken for another.
NothingMistaken ==
    /\ mistaken = {}
    /\ \A p \in Process : late[p] = {}

\* Only a terminal prompt, or a prompt taken after its wait timed out, can be
\* mistaken for the one that is waited for.
LEMMA NextNothingMistaken ==
    ASSUME ~LateConfirm, MaxLocalPrompts = 0, IInv, NothingMistaken, [Next]_vars
    PROVE  NothingMistaken'
<1>1. CASE UNCHANGED <<late, mistaken>>
    BY <1>1 DEF NothingMistaken
<1>2. ASSUME NEW p \in Process, ExitPi(p) PROVE NothingMistaken'
  <2>1. late' = [late EXCEPT ![p] = {}] /\ UNCHANGED mistaken
    BY <1>2 DEF ExitPi
  <2>2. late \in [Process -> SUBSET Command]
    BY DEF IInv, TypeOK
  <2> QED
    BY <2>1, <2>2 DEF NothingMistaken
<1>3. ASSUME NEW p \in Process, PromptStep(p) PROVE NothingMistaken'
  <2>1. ~LocalPromptStarts(p)
    BY FS_EmptySet DEF LocalPromptStarts, NothingMistaken
  <2>2. ~ \E k \in Command : TakeLate(p, k)
    BY DEF TakeLate, NothingMistaken
  <2>3. UNCHANGED <<late, mistaken>>
    BY <1>3, <2>1, <2>2 DEF PromptStep, Execute, AwaitAcceptance
  <2> QED
    BY <1>1, <2>3
<1>4. ASSUME NEW p \in Process, PiStep(p) \/ PiEnvironment(p) \/ ExtensionEvent(p)
      PROVE  NothingMistaken'
    BY <1>1, <1>2, <1>3, <1>4 DEF PiStep, PiEnvironment, PromptStep, ExtensionEvent, Poll,
       ReadLedger, BeginExecution, FinishAccepted, FinishFailed, AckAnswered, StartPi,
       ReloadPi, SessionShutdown, ReloadEventDropped, AckTimesOut
<1>5. CASE \/ \E k \in Command : SendCommand(k)
           \/ DaemonStart \/ DaemonCrash \/ OpenMirror \/ RouteMessage \/ OwnerWindowPasses
           \/ \E n \in 1..Len(relayLog) : RouteAgain(n)
           \/ \E a \in inFlight : LateAckHandled(a) \/ LateAckLost(a)
           \/ UNCHANGED vars
    BY <1>1, <1>5 DEF SendCommand, DaemonStart, DaemonCrash, OpenMirror, RouteMessage,
       OwnerWindowPasses, RouteAgain, LateAckHandled, LateAckLost, vars
<1> QED
    BY <1>4, <1>5 DEF Next

\* Where no prompt starts that nobody waits for, a command the daemon calls accepted
\* was taken by Pi.
THEOREM AcceptedMeansTaken ==
    ASSUME ~LateConfirm, MaxLocalPrompts = 0
    PROVE  Spec => []AcceptedWasTaken
<1>1. Init => NothingMistaken
    BY DEF Init, NothingMistaken
<1>2. IInv /\ NothingMistaken /\ [Next]_vars => NothingMistaken'
    BY NextNothingMistaken
<1>3. IInv /\ NothingMistaken => AcceptedWasTaken
    BY DEF IInv, NothingMistaken, AcceptedWasConfirmed, Confirmed, AcceptedWasTaken
<1> QED
    BY <1>1, <1>2, <1>3, Invariance, PTL DEF Spec
==============================================================================
