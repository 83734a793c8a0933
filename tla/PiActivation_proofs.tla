-------------------------- MODULE PiActivation_proofs --------------------------
(***************************************************************************)
(* The activation lease excludes and is fair (ActivationLease).            *)
(* PiActivation uses the registry as it is meant to be used, and what the  *)
(* lease protects stays protected.                                         *)
(***************************************************************************)
EXTENDS PiActivation, TLAPS

------------------------------------------------------------------------------
(* The lease, for any tasks.                                                *)

\* The registry starts without tasks (PiActivationLeaseRegistry).
LEMMA LeaseInitially == LeaseInit => LeaseInv
BY LeaseAssumption DEF LeaseAssumption, LeaseInit, LeaseInv, LeaseTypeOK, LineIsChain, LineIsComplete,
    LineHasNoRepeats, TailEndsLine, InFlight

\* A task that enters is appended to its line and waits for the last in it.
LEMMA EnterKeeps ==
    ASSUME LeaseInv, NEW u \in Task, EnterLease(u)
    PROVE  LeaseInv'
<1> DEFINE ku == KeyOf[u]
           n  == Len(line[ku])
<1> USE LeaseAssumption DEF LeaseAssumption
<1>0. ku \in Key /\ line[ku] \in Seq(Task) /\ n \in Nat
  BY DEF LeaseInv, LeaseTypeOK
<1>1. /\ line' = [line EXCEPT ![ku] = Append(line[ku], u)]
      /\ stage' = [stage EXCEPT ![u] = "waiting"]
      /\ after' = [after EXCEPT ![u] = tail[ku]]
      /\ tail' = [tail EXCEPT ![ku] = u]
      /\ stage[u] = "idle"
      /\ LeaseTypeOK
  BY DEF LeaseInv, LeaseTypeOK, EnterLease
<1>2. LeaseTypeOK'
  BY <1>0, <1>1 DEF LeaseTypeOK
<1>3. /\ Len(line'[ku]) = n + 1
      /\ line'[ku][n + 1] = u
      /\ \A i \in 1..n : line'[ku][i] = line[ku][i]
      /\ \A k \in Key : k # ku => line'[k] = line[k]
  BY <1>0, <1>1 DEF LeaseTypeOK
<1>4. \A k \in Key : \A i \in 1..Len(line[k]) : line[k][i] \in Task /\ line[k][i] # u
  BY <1>0, <1>1 DEF LeaseInv, LeaseTypeOK, LineIsChain, InFlight
<1>5. /\ \A t \in Task : t # u => stage'[t] = stage[t] /\ after'[t] = after[t]
      /\ \A t \in Task : stage[t] = "done" => stage'[t] = "done"
      /\ \A t \in Task : after[t] \in Task \cup {NoTask}
  BY <1>0, <1>1 DEF LeaseTypeOK
<1>6. LineIsChain'
  <2> SUFFICES ASSUME NEW k \in Key, NEW i \in 1..Len(line'[k])
               PROVE  /\ KeyOf[line'[k][i]] = k
                      /\ stage'[line'[k][i]] \in {"waiting", "running"}
                      /\ i = 1 => \/ after'[line'[k][i]] = NoTask
                                  \/ stage'[after'[line'[k][i]]] = "done"
                      /\ i > 1 => /\ after'[line'[k][i]] = line'[k][i - 1]
                                  /\ stage'[line'[k][i]] = "waiting"
    BY DEF LineIsChain, InFlight, PreviousIsDone
  <2>1. CASE k = ku /\ i = n + 1
    <3>1. line'[k][i] = u /\ stage'[u] = "waiting" /\ after'[u] = tail[ku]
      BY <2>1, <1>0, <1>1, <1>3 DEF LeaseTypeOK
    <3>2. tail[ku] = IF n = 0 THEN NoTask ELSE line[ku][n]
      BY <1>0, <1>1 DEF LeaseInv, TailEndsLine
    <3>3. i > 1 => after'[u] = line'[k][i - 1]
      BY <2>1, <3>1, <3>2, <1>0, <1>1, <1>3
    <3>4. i = 1 => after'[u] = NoTask
      BY <2>1, <3>1, <3>2, <1>0, <1>1
    <3>5. QED BY <2>1, <3>1, <3>3, <3>4
  <2>2. CASE ~(k = ku /\ i = n + 1)
    <3>1. i \in 1..Len(line[k]) /\ line'[k][i] = line[k][i]
      BY <2>2, <1>0, <1>1, <1>3
    <3>2. i > 1 => line'[k][i - 1] = line[k][i - 1]
      BY <3>1, <1>0, <1>1, <1>3 DEF LeaseTypeOK
    <3>3. /\ KeyOf[line[k][i]] = k
          /\ InFlight(line[k][i])
          /\ i = 1 => PreviousIsDone(line[k][i])
          /\ i > 1 => after[line[k][i]] = line[k][i - 1] /\ stage[line[k][i]] = "waiting"
      BY <3>1 DEF LeaseInv, LineIsChain
    <3>4. line[k][i] \in Task /\ line[k][i] # u
      BY <3>1, <1>4
    <3>5. QED BY <3>1, <3>2, <3>3, <3>4, <1>5 DEF InFlight, PreviousIsDone
  <2>3. QED BY <2>1, <2>2
<1>7. LineIsComplete'
  <2> SUFFICES ASSUME NEW t \in Task, InFlight(t)'
               PROVE  \E i \in 1..Len(line'[KeyOf[t]]) : line'[KeyOf[t]][i] = t
    BY DEF LineIsComplete
  <2>1. CASE t = u
    BY <2>1, <1>0, <1>1, <1>3
  <2>2. CASE t # u
    <3> InFlight(t)
      BY <2>2, <1>5 DEF InFlight
    <3>1. PICK i \in 1..Len(line[KeyOf[t]]) : line[KeyOf[t]][i] = t
      BY DEF LeaseInv, LineIsComplete
    <3>2. i \in 1..Len(line'[KeyOf[t]]) /\ line'[KeyOf[t]][i] = t
      BY <3>1, <1>0, <1>1, <1>3
    <3>3. QED BY <3>2
  <2>3. QED BY <2>1, <2>2
<1>8. LineHasNoRepeats'
  BY <1>0, <1>1, <1>3, <1>4 DEF LeaseInv, LineHasNoRepeats
<1>9. TailEndsLine'
  BY <1>0, <1>1, <1>3 DEF LeaseInv, LeaseTypeOK, TailEndsLine
<1>10. QED BY <1>2, <1>6, <1>7, <1>8, <1>9 DEF LeaseInv

\* Taking the lease changes the stage of the first in line and nothing else.
LEMMA TakeKeeps ==
    ASSUME LeaseInv, NEW u \in Task, TakeLease(u)
    PROVE  LeaseInv'
<1> USE LeaseAssumption DEF LeaseAssumption
<1>1. LeaseTypeOK /\ LeaseTypeOK'
  BY DEF LeaseInv, LeaseTypeOK, TakeLease
<1>2. \A t \in Task : (InFlight(t)' <=> InFlight(t)) /\ (PreviousIsDone(t) => PreviousIsDone(t)')
  BY <1>1 DEF LeaseTypeOK, TakeLease, InFlight, PreviousIsDone
<1>3. \A k \in Key : \A i \in 1..Len(line[k]) : i > 1 => line[k][i] # u
  <2> SUFFICES ASSUME NEW k \in Key, NEW i \in 1..Len(line[k]), i > 1, line[k][i] = u
               PROVE  FALSE
    OBVIOUS
  <2>1. after[u] = line[k][i - 1]
    BY DEF LeaseInv, LineIsChain
  <2>2. i - 1 \in 1..Len(line[k]) /\ line[k][i - 1] \in Task
    BY <1>1 DEF LeaseTypeOK
  <2>3. InFlight(line[k][i - 1])
    BY <2>2 DEF LeaseInv, LineIsChain
  <2>4. QED BY <2>1, <2>2, <2>3 DEF TakeLease, PreviousIsDone, InFlight
<1>4. \A k \in Key : \A i \in 1..Len(line[k]) : line[k][i] \in Task
  BY <1>1 DEF LeaseTypeOK
<1>5. LineIsChain'
  <2> SUFFICES ASSUME NEW k \in Key, NEW i \in 1..Len(line[k])
               PROVE  /\ KeyOf[line[k][i]] = k
                      /\ InFlight(line[k][i])'
                      /\ i = 1 => PreviousIsDone(line[k][i])'
                      /\ i > 1 => /\ after'[line[k][i]] = line[k][i - 1]
                                 /\ stage'[line[k][i]] = "waiting"
    BY DEF LineIsChain, TakeLease
  <2>1. /\ KeyOf[line[k][i]] = k
        /\ InFlight(line[k][i])
        /\ i = 1 => PreviousIsDone(line[k][i])
        /\ i > 1 => after[line[k][i]] = line[k][i - 1] /\ stage[line[k][i]] = "waiting"
    BY DEF LeaseInv, LineIsChain
  <2>2. line[k][i] \in Task
    BY <1>4
  <2>3. i > 1 => after'[line[k][i]] = line[k][i - 1] /\ stage'[line[k][i]] = "waiting"
    BY <1>1, <1>3, <2>1, <2>2 DEF LeaseTypeOK, TakeLease
  <2> QED
    BY <1>2, <2>1, <2>2, <2>3 DEF TakeLease, InFlight, PreviousIsDone
<1>6. LineIsComplete' /\ LineHasNoRepeats' /\ TailEndsLine'
  BY <1>2 DEF LeaseInv, LineIsComplete, LineHasNoRepeats, TailEndsLine, TakeLease
<1>7. QED BY <1>1, <1>5, <1>6 DEF LeaseInv

\* A task that runs is the first in its line.
LEMMA RunningIsFirst ==
    ASSUME LeaseInv, NEW u \in Task, stage[u] = "running"
    PROVE  Len(line[KeyOf[u]]) > 0 /\ line[KeyOf[u]][1] = u
<1>1. PICK i \in 1..Len(line[KeyOf[u]]) : line[KeyOf[u]][i] = u
  BY DEF LeaseInv, LineIsComplete, InFlight
<1>2. KeyOf[u] \in Key /\ line[KeyOf[u]] \in Seq(Task)
  BY LeaseAssumption DEF LeaseAssumption, LeaseInv, LeaseTypeOK
<1>3. ~(i > 1)
  BY <1>1, <1>2 DEF LeaseInv, LineIsChain
<1>4. QED BY <1>1, <1>2, <1>3

\* Releasing removes the first of a line and lets the second run.
LEMMA ReleaseKeeps ==
    ASSUME LeaseInv, NEW u \in Task, ReleaseLease(u)
    PROVE  LeaseInv'
<1> DEFINE ku == KeyOf[u]
           n  == Len(line[ku])
<1> USE LeaseAssumption DEF LeaseAssumption
<1>0. ku \in Key /\ line[ku] \in Seq(Task) /\ n \in Nat
  BY DEF LeaseInv, LeaseTypeOK
<1>1. /\ line' = [line EXCEPT ![ku] = Tail(line[ku])]
      /\ stage' = [stage EXCEPT ![u] = "done"]
      /\ after' = after
      /\ LeaseTypeOK
  BY DEF LeaseInv, LeaseTypeOK, ReleaseLease
<1>2. n > 0 /\ line[ku][1] = u
  BY RunningIsFirst DEF ReleaseLease
<1>3. /\ Len(line'[ku]) = n - 1
      /\ \A i \in 1..(n - 1) : line'[ku][i] = line[ku][i + 1]
      /\ \A k \in Key : k # ku => line'[k] = line[k]
      /\ line'[ku] \in Seq(Task)
  BY <1>0, <1>1, <1>2 DEF LeaseTypeOK
<1>4. LeaseTypeOK'
  BY <1>0, <1>1, <1>3 DEF LeaseTypeOK, ReleaseLease, TailWithout
<1>5. \A i \in 2..n : line[ku][i] \in Task /\ line[ku][i] # u
  BY <1>0, <1>1, <1>2 DEF LeaseInv, LineHasNoRepeats
<1>6. /\ \A t \in Task : t # u => stage'[t] = stage[t]
      /\ \A t \in Task : stage[t] = "done" => stage'[t] = "done"
      /\ \A t \in Task : after[t] \in Task \cup {NoTask}
  BY <1>0, <1>1 DEF LeaseTypeOK
<1>7. \A k \in Key : k # ku => \A i \in 1..Len(line[k]) : line[k][i] \in Task /\ line[k][i] # u
  BY <1>0, <1>1 DEF LeaseInv, LeaseTypeOK, LineIsChain
<1>8. LineIsChain'
  <2> SUFFICES ASSUME NEW k \in Key, NEW i \in 1..Len(line'[k])
               PROVE  /\ KeyOf[line'[k][i]] = k
                      /\ stage'[line'[k][i]] \in {"waiting", "running"}
                      /\ i = 1 => \/ after'[line'[k][i]] = NoTask
                                  \/ stage'[after'[line'[k][i]]] = "done"
                      /\ i > 1 => /\ after'[line'[k][i]] = line'[k][i - 1]
                                  /\ stage'[line'[k][i]] = "waiting"
    BY DEF LineIsChain, InFlight, PreviousIsDone
  <2>1. CASE k = ku
    <3>1. i \in 1..(n - 1) /\ i + 1 \in 2..n /\ line'[k][i] = line[ku][i + 1]
      BY <2>1, <1>0, <1>1, <1>2, <1>3
    <3>2. /\ KeyOf[line[ku][i + 1]] = ku
          /\ InFlight(line[ku][i + 1])
          /\ after[line[ku][i + 1]] = line[ku][i]
          /\ stage[line[ku][i + 1]] = "waiting"
      BY <3>1, <1>0, <1>1 DEF LeaseInv, LineIsChain
    <3>3. line[ku][i + 1] \in Task /\ line[ku][i + 1] # u
      BY <3>1, <1>5
    <3>4. i = 1 => after[line[ku][i + 1]] = u /\ stage'[u] = "done"
      BY <3>2, <1>0, <1>1, <1>2 DEF LeaseTypeOK
    <3>5. i > 1 => line'[k][i - 1] = line[ku][i]
      BY <2>1, <3>1, <1>0, <1>1, <1>3
    <3>6. QED BY <2>1, <3>1, <3>2, <3>3, <3>4, <3>5, <1>0, <1>1, <1>6
  <2>2. CASE k # ku
    <3>1. i \in 1..Len(line[k]) /\ line'[k] = line[k]
      BY <2>2, <1>3
    <3>2. /\ KeyOf[line[k][i]] = k
          /\ InFlight(line[k][i])
          /\ i = 1 => PreviousIsDone(line[k][i])
          /\ i > 1 => after[line[k][i]] = line[k][i - 1] /\ stage[line[k][i]] = "waiting"
      BY <3>1 DEF LeaseInv, LineIsChain
    <3>3. line[k][i] \in Task /\ line[k][i] # u
      BY <2>2, <3>1, <1>7
    <3>4. QED BY <2>2, <3>1, <3>2, <3>3, <1>0, <1>1, <1>6 DEF InFlight, PreviousIsDone
  <2>3. QED BY <2>1, <2>2
<1>9. LineIsComplete'
  <2> SUFFICES ASSUME NEW t \in Task, InFlight(t)'
               PROVE  \E i \in 1..Len(line'[KeyOf[t]]) : line'[KeyOf[t]][i] = t
    BY DEF LineIsComplete
  <2>1. t # u
    BY <1>0, <1>1 DEF LeaseTypeOK, InFlight
  <2> InFlight(t)
    BY <2>1, <1>6 DEF InFlight
  <2>2. PICK i \in 1..Len(line[KeyOf[t]]) : line[KeyOf[t]][i] = t
    BY DEF LeaseInv, LineIsComplete
  <2>3. CASE KeyOf[t] = ku
    <3>1. i # 1 /\ i - 1 \in 1..(n - 1) /\ line'[ku][i - 1] = line[ku][i]
      BY <2>1, <2>2, <2>3, <1>0, <1>1, <1>2, <1>3
    <3>2. QED BY <2>2, <2>3, <3>1, <1>3
  <2>4. CASE KeyOf[t] # ku
    BY <2>2, <2>4, <1>3
  <2>5. QED BY <2>3, <2>4
<1>10. LineHasNoRepeats'
  <2> SUFFICES ASSUME NEW k \in Key, NEW i \in 1..Len(line'[k]), NEW j \in 1..Len(line'[k]),
                      line'[k][i] = line'[k][j]
               PROVE  i = j
    BY DEF LineHasNoRepeats
  <2>1. CASE k = ku
    <3>1. line'[k][i] = line[ku][i + 1] /\ line'[k][j] = line[ku][j + 1]
      BY <2>1, <1>3
    <3>2. i + 1 \in 1..n /\ j + 1 \in 1..n
      BY <2>1, <1>0, <1>1, <1>3
    <3>3. i + 1 = j + 1
      BY <3>1, <3>2, <1>0, <1>1 DEF LeaseInv, LineHasNoRepeats
    <3>4. QED BY <3>3
  <2>2. CASE k # ku
    BY <2>2, <1>3 DEF LeaseInv, LineHasNoRepeats
  <2>3. QED BY <2>1, <2>2
<1>11. TailEndsLine'
  <2> SUFFICES ASSUME NEW k \in Key
               PROVE  tail'[k] = IF Len(line'[k]) = 0 THEN NoTask ELSE line'[k][Len(line'[k])]
    BY DEF TailEndsLine
  <2>1. tail[k] = IF Len(line[k]) = 0 THEN NoTask ELSE line[k][Len(line[k])]
    BY DEF LeaseInv, TailEndsLine
  <2>2. CASE k # ku
    BY <2>1, <2>2, <1>0, <1>1, <1>3 DEF LeaseTypeOK, ReleaseLease, TailWithout
  <2>3. CASE k = ku /\ n = 1
    BY <2>1, <2>3, <1>0, <1>1, <1>2, <1>3 DEF LeaseTypeOK, ReleaseLease, TailWithout
  <2>4. CASE k = ku /\ n > 1
    <3>1. tail[ku] = line[ku][n] /\ line[ku][n] # u
      BY <2>1, <2>4, <1>0, <1>1, <1>5
    <3>2. tail' = tail
      BY <3>1 DEF ReleaseLease, TailWithout
    <3>3. line'[ku][n - 1] = line[ku][n]
      BY <2>4, <1>0, <1>1, <1>3
    <3>4. QED BY <2>4, <3>1, <3>2, <3>3, <1>0, <1>1, <1>3
  <2>5. n = 1 \/ n > 1
    <3>1. n \in Nat /\ n > 0
      BY <1>0, <1>2
    <3> HIDE DEF n
    <3>2. QED BY <3>1
  <2>6. QED BY <2>2, <2>3, <2>4, <2>5
<1>12. QED BY <1>4, <1>8, <1>9, <1>10, <1>11 DEF LeaseInv

\* A new process starts with empty lines.
LEMMA ForgetKeeps == ASSUME LeaseInv, ForgetLeases PROVE LeaseInv'
BY LeaseAssumption DEF LeaseAssumption, LeaseInv, LeaseTypeOK, ForgetLeases, LineIsChain, LineIsComplete,
    LineHasNoRepeats, TailEndsLine, InFlight

\* LeaseInv holds in every state of the registry.
THEOREM LeaseInvariance == LeaseSpec => []LeaseInv
<1>1. LeaseInv /\ [LeaseNext]_leaseVars => LeaseInv'
  <2> SUFFICES ASSUME LeaseInv, [LeaseNext]_leaseVars PROVE LeaseInv'
    OBVIOUS
  <2>1. ASSUME NEW t \in Task, EnterLease(t) PROVE LeaseInv'
    BY <2>1, EnterKeeps
  <2>2. ASSUME NEW t \in Task, TakeLease(t) PROVE LeaseInv'
    BY <2>2, TakeKeeps
  <2>3. ASSUME NEW t \in Task, ReleaseLease(t) PROVE LeaseInv'
    BY <2>3, ReleaseKeeps
  <2>4. CASE ForgetLeases
    BY <2>4, ForgetKeeps
  <2>5. CASE UNCHANGED leaseVars
    BY <2>5 DEF leaseVars, LeaseInv, LeaseTypeOK, LineIsChain, LineIsComplete,
       LineHasNoRepeats, TailEndsLine, InFlight, PreviousIsDone
  <2>6. QED BY <2>1, <2>2, <2>3, <2>4, <2>5 DEF LeaseNext
<1>2. QED BY LeaseInitially, <1>1, PTL DEF LeaseSpec

\* The activation that runs asked first of those in flight
\* (PiActivationLeaseRegistry.run).
THEOREM LeaseIsFair == LeaseSpec => []FirstComeFirstServed
<1>1. LeaseInv => FirstComeFirstServed
  <2> SUFFICES ASSUME LeaseInv, NEW t \in Task, stage[t] = "running"
               PROVE  line[KeyOf[t]] # <<>> /\ Head(line[KeyOf[t]]) = t
    BY DEF FirstComeFirstServed
  <2>1. Len(line[KeyOf[t]]) > 0 /\ line[KeyOf[t]][1] = t
    BY RunningIsFirst
  <2>2. line[KeyOf[t]] \in Seq(Task)
    BY LeaseAssumption DEF LeaseAssumption, LeaseInv, LeaseTypeOK
  <2>3. QED BY <2>1, <2>2
<1>2. QED BY <1>1, LeaseInvariance, PTL

\* No two activations of one key run at a time (PiActivationLeaseRegistry.run).
THEOREM LeaseExcludes == LeaseSpec => []Exclusive
<1>1. LeaseInv => Exclusive
  BY RunningIsFirst DEF Exclusive
<1>2. QED BY <1>1, LeaseInvariance, PTL

------------------------------------------------------------------------------
(* The activations that use it.                                             *)

\* Whoever handles an event handles the head of the chain.
THEOREM EventsInOrder == Spec => []EventAtHead
<1>1. Init => EventAtHead
  BY DEF Init, EventAtHead
<1>2. EventAtHead /\ [Next]_vars => EventAtHead'
  <2> SUFFICES ASSUME EventAtHead, [Next]_vars PROVE EventAtHead'
    OBVIOUS
  <2> USE DEF EventAtHead
  <2>1. ASSUME NEW r \in Request, Call(r) \/ Step(r) PROVE EventAtHead'
    BY <2>1 DEF eventVars, Step, Call, Enter, Granted, Resolve, AwaitAccepted, AwaitStopped,
       Cleaned, Check, AwaitExit, Spawn, WebhookTimesOut, EnsureMirror, MirrorCreated
  <2>2. ASSUME NEW c \in Child, ChildStep(c) PROVE EventAtHead'
    BY <2>2 DEF eventVars, ChildStep, Webhook, ChildEnds, ExitNoticed, StopSession
  <2>3. ASSUME NEW t \in Tui, TuiStep(t) PROVE EventAtHead'
    <3>1. /\ handling' = handling
          /\ \/ chain' = chain
             \/ \E e \in Event : chain' = Append(chain, e)
      BY <2>3 DEF eventVars, TuiStep, TuiStarts, TuiBeats, TuiObeys, TuiExits, Post, Event
    <3>2. QED BY <3>1
  <2>4. CASE EventStep
    BY <2>4 DEF EventStep, HandleEvent, EventGranted, EventEnsured, MirrorFlushed, Apply,
       EventDone
  <2>5. CASE SignalAges \/ MirrorAges
    BY <2>5 DEF eventVars, SignalAges, MirrorAges
  <2>6. CASE DaemonRestart
    BY <2>6 DEF DaemonRestart
  <2>7. CASE UNCHANGED vars
    BY <2>7 DEF vars, eventVars
  <2>8. QED BY <2>1, <2>2, <2>3, <2>4, <2>5, <2>6, <2>7 DEF Next
<1>3. QED BY <1>1, <1>2, PTL DEF Spec

\* Every step of the daemon is a step of the registry or leaves it alone
\* (spawnSession, ensurePiSessionMirror and PiActivationLeaseRegistry.run).
THEOREM UsesLease == Spec => LeaseSpec
<1>1. Init => LeaseInit
  BY DEF Init
<1>2. EventAtHead /\ [Next]_vars => [LeaseNext]_leaseVars
  <2> SUFFICES ASSUME EventAtHead, [Next]_vars, ~UNCHANGED leaseVars
               PROVE  LeaseNext
    OBVIOUS
  <2>0. Request \subseteq Task /\ Event \subseteq Task
    BY ActivationAssumption DEF ActivationAssumption
  <2>1. ASSUME NEW r \in Request, Call(r) \/ Step(r)
        PROVE  EnterLease(r) \/ TakeLease(r) \/ ReleaseLease(r)
    BY <2>1 DEF Step, Call, Enter, Granted, Resolve, AwaitAccepted, AwaitStopped,
       Cleaned, Check, AwaitExit, Spawn, WebhookTimesOut, EnsureMirror, MirrorCreated,
       Goto, Finish, Fail
  <2>2. ASSUME NEW c \in Child, ChildStep(c)
        PROVE  \E r \in Request : ReleaseLease(r)
    BY <2>2 DEF ChildStep, Webhook, ChildEnds, ExitNoticed, StopSession, Finish
  <2>3. ASSUME NEW t \in Tui, TuiStep(t) PROVE FALSE
    BY <2>3 DEF TuiStep, TuiStarts, TuiBeats, TuiObeys, TuiExits
  <2>4. ASSUME EventStep
        PROVE  \E e \in Event : EnterLease(e) \/ TakeLease(e) \/ ReleaseLease(e)
    <3>1. chain # <<>>
      BY <2>4 DEF EventAtHead, EventStep, HandleEvent, EventGranted, EventEnsured,
         MirrorFlushed
    <3>2. Head(chain) \in Event
      BY <3>1 DEF EventAtHead
    <3>3. \/ EnterLease(Head(chain)) \/ TakeLease(Head(chain)) \/ ReleaseLease(Head(chain))
      BY <2>4 DEF EventStep, HandleEvent, EventGranted, EventEnsured, MirrorFlushed
    <3>4. QED BY <3>2, <3>3
  <2>5. CASE SignalAges \/ MirrorAges
    BY <2>5 DEF SignalAges, MirrorAges
  <2>6. CASE DaemonRestart
    BY <2>6 DEF DaemonRestart, LeaseNext
  <2>7. CASE UNCHANGED vars
    BY <2>7 DEF vars
  <2>8. QED
    BY <2>0, <2>1, <2>2, <2>3, <2>4, <2>5, <2>6, <2>7 DEF Next, LeaseNext
<1>3. QED BY <1>1, <1>2, EventsInOrder, PTL DEF Spec, LeaseSpec

\* No two activations of the session run at a time (spawnSession,
\* ensurePiSessionMirror).
THEOREM ActivationExcludes == Spec => []Exclusive
BY UsesLease, LeaseExcludes, PTL

------------------------------------------------------------------------------

\* The daemon starts without mirrors, requests and children.
LEMMA ActivationInitially == Init => ActivationInv
<1> SUFFICES ASSUME Init PROVE ActivationInv
  OBVIOUS
<1>1. LeaseTypeOK
  BY LeaseInitially DEF Init, LeaseInv
<1>2. TypeOK
  BY <1>1, ActivationAssumption DEF ActivationAssumption, TypeOK, Init, Age, Place
<1>3. EventAtHead /\ HolderRuns /\ NoMirrorWhileSpawning
  BY DEF Init, EventAtHead, HolderRuns, NoMirrorWhileSpawning, Holding
<1>4. QED BY <1>2, <1>3 DEF ActivationInv

\* Each step keeps the types.
LEMMA TypesKept == ASSUME ActivationInv, [Next]_vars, LeaseTypeOK' PROVE TypeOK'
<1> USE DEF TypeOK, Age, Place
<1>0. TypeOK
  BY DEF ActivationInv
<1>1. ASSUME NEW r \in Request, Call(r) \/ Enter(r) \/ Granted(r) PROVE TypeOK'
  BY <1>0, <1>1 DEF Call, Enter, Granted, mirrorVars, eventVars, childVars, bounds
<1>2. ASSUME NEW r \in Request, Resolve(r) PROVE TypeOK'
  BY <1>0, <1>2 DEF Resolve, Goto, Finish, Fail, mirrorVars, eventVars, childVars, bounds
<1>3. ASSUME NEW r \in Request, AwaitAccepted(r) \/ AwaitStopped(r) \/ Cleaned(r) PROVE TypeOK'
  BY <1>0, <1>3 DEF AwaitAccepted, AwaitStopped, Cleaned, Goto, Finish, Fail, mirrorVars,
     eventVars, childVars, bounds
<1>4. ASSUME NEW r \in Request, Check(r) \/ AwaitExit(r) PROVE TypeOK'
  BY <1>0, <1>4 DEF Check, AwaitExit, Goto, Finish, Fail, Known, mirrorVars, eventVars,
     childVars, bounds
<1>5. ASSUME NEW r \in Request, Spawn(r) \/ WebhookTimesOut(r) PROVE TypeOK'
  BY <1>0, <1>5 DEF Spawn, WebhookTimesOut, Finish, Fail, mirrorVars, eventVars, childVars,
     bounds
<1>6. ASSUME NEW r \in Request, EnsureMirror(r) \/ MirrorCreated(r) PROVE TypeOK'
  BY <1>0, <1>6 DEF EnsureMirror, MirrorCreated, NewMirror, Goto, Finish, Fail, mirrorVars,
     eventVars, childVars, bounds
<1>7. ASSUME NEW c \in Child, ChildStep(c) PROVE TypeOK'
  <2>1. CASE Webhook(c)
    BY <1>0, <2>1 DEF Webhook, Finish, requestVars, mirrorVars, eventVars, bounds
  <2>2. CASE ChildEnds(c) \/ ExitNoticed(c)
    BY <1>0, <2>2 DEF ChildEnds, ExitNoticed, requestVars, mirrorVars, eventVars, bounds
  <2>3. CASE StopSession(c)
    <3>1. stops' \in 0..MaxStops
      BY <1>0, <2>3, ActivationAssumption DEF ActivationAssumption, StopSession
    <3>2. QED
      BY <1>0, <2>3, <3>1 DEF StopSession, requestVars, mirrorVars, eventVars
  <2>4. QED BY <1>7, <2>1, <2>2, <2>3 DEF ChildStep
<1>8. ASSUME NEW t \in Tui, TuiStep(t) PROVE TypeOK'
  <2>1. \A e \in Event : Append(chain, e) \in Seq(Event)
    BY <1>0
  <2>2. \A k \in {"start", "beat", "shutdown"} : <<t, k>> \in Event
    BY DEF Event
  <2>3. CASE TuiStarts(t) \/ TuiBeats(t)
    <3>0. Append(chain, <<t, "start">>) \in Seq(Event) /\ Append(chain, <<t, "beat">>) \in Seq(Event)
      BY <2>1, <2>2
    <3>1. /\ chain' \in Seq(Event) /\ signal' = "recent"
          /\ tui' \in [Tui -> {"off", "on", "gone"}]
      BY <1>0, <2>3, <3>0 DEF TuiStarts, TuiBeats, Post
    <3>2. QED
      BY <1>0, <2>3, <3>1 DEF TuiStarts, TuiBeats, requestVars, mirrorVars, childVars, bounds
  <2>4. ASSUME NEW r \in Request, TuiObeys(t, r) PROVE TypeOK'
    BY <1>0, <2>4 DEF TuiObeys, requestVars, eventVars, childVars, bounds
  <2>5. CASE TuiExits(t)
    BY <1>0, <2>5, <2>1, <2>2 DEF TuiExits, Post, requestVars, mirrorVars, childVars, bounds
  <2>6. QED BY <1>8, <2>3, <2>4, <2>5 DEF TuiStep
<1>9. CASE SignalAges \/ MirrorAges
  <2>1. MirrorAges => mirror' \in [owner: Tui \cup {Nobody}, seen: Age]
    <3>1. MirrorAges => mirror \in [owner: Tui \cup {Nobody}, seen: Age]
      BY <1>0 DEF MirrorAges, IsActive
    <3>2. QED BY <3>1 DEF MirrorAges
  <2>2. QED
    BY <1>0, <1>9, <2>1 DEF SignalAges, MirrorAges, requestVars, mirrorVars, eventVars,
       childVars, bounds
<1>10. CASE EventStep
  <2>1. chain # <<>> /\ Head(chain) \in Event /\ Tail(chain) \in Seq(Event)
    BY <1>0, <1>10 DEF ActivationInv, EventAtHead, EventStep, HandleEvent, EventGranted,
       EventEnsured, MirrorFlushed
  <2>2. Head(chain)[1] \in Tui
    BY <2>1 DEF Event
  <2>3. ASSUME Apply(Head(chain))
        PROVE  /\ mirror' = NoMirror \/ mirror' \in [owner: Tui \cup {Nobody}, seen: Age]
               /\ handling' \in {"idle", "flushing"}
               /\ chain' \in Seq(Event)
    <3>1. [owner |-> Head(chain)[1], seen |-> "recent"] \in [owner: Tui \cup {Nobody}, seen: Age]
      BY <2>2
    <3>2. QED BY <1>0, <2>1, <2>3, <3>1 DEF Apply, EventDone
  <2>4. CASE HandleEvent
    BY <1>0, <2>1, <2>3, <2>4 DEF HandleEvent, requestVars, mirrorVars, childVars, bounds
  <2>5. CASE EventGranted
    BY <1>0, <2>5 DEF EventGranted, requestVars, mirrorVars, childVars, bounds
  <2>6. CASE EventEnsured
    <3>1. NewMirror("recent") \in [owner: Tui \cup {Nobody}, seen: Age]
      BY DEF NewMirror
    <3>2. /\ mirror' = NoMirror \/ mirror' \in [owner: Tui \cup {Nobody}, seen: Age]
          /\ handling' \in {"idle", "applying"}
          /\ chain' \in Seq(Event)
      BY <1>0, <2>1, <2>6, <3>1 DEF EventEnsured, EventDone
    <3>3. QED BY <1>0, <2>6, <3>2 DEF EventEnsured, requestVars, childVars, bounds
  <2>7. CASE MirrorFlushed
    BY <1>0, <2>1, <2>7 DEF MirrorFlushed, EventDone, requestVars, childVars, bounds
  <2>8. QED BY <1>10, <2>4, <2>5, <2>6, <2>7 DEF EventStep
<1>11. CASE DaemonRestart
  BY <1>0, <1>11, ActivationAssumption DEF ActivationAssumption, DaemonRestart
<1>12. CASE UNCHANGED vars
  BY <1>0, <1>12 DEF vars, requestVars, mirrorVars, eventVars, childVars, bounds
<1>13. QED
  BY <1>1, <1>2, <1>3, <1>4, <1>5, <1>6, <1>7, <1>8, <1>9, <1>10, <1>11, <1>12 DEF Next, Step

\* Whoever decides keeps the lease until it is done.
LEMMA HolderKept ==
    ASSUME ActivationInv, [Next]_vars PROVE HolderRuns'
<1> USE DEF HolderRuns, Holding
<1>0. /\ TypeOK /\ HolderRuns /\ EventAtHead
      /\ stage \in [Task -> {"idle", "waiting", "running", "done"}]
      /\ pc \in [Request -> Place]
      /\ Request \subseteq Task /\ Event \subseteq Task /\ Request \cap Event = {}
  BY ActivationAssumption DEF ActivationAssumption, ActivationInv, TypeOK, LeaseTypeOK
<1>1. handling # "idle" => Head(chain) \in Event
  BY <1>0 DEF EventAtHead
<1>2. ASSUME NEW r \in Request, Goto(r, "done") \/ Finish(r), UNCHANGED eventVars
      PROVE  HolderRuns'
  BY <1>0, <1>1, <1>2 DEF Goto, Finish, ReleaseLease, leaseVars, eventVars
<1>3. ASSUME NEW r \in Request, stage[r] = "running", UNCHANGED <<stage, eventVars>>,
             NEW place, pc' = [pc EXCEPT ![r] = place]
      PROVE  HolderRuns'
  BY <1>0, <1>3 DEF eventVars
<1>4. ASSUME NEW r \in Request, Call(r) PROVE HolderRuns'
  BY <1>0, <1>4 DEF Call, leaseVars, eventVars
<1>5. ASSUME NEW r \in Request, Enter(r) \/ Granted(r) PROVE HolderRuns'
  BY <1>0, <1>1, <1>5 DEF Enter, Granted, EnterLease, TakeLease, eventVars
<1>6. ASSUME NEW r \in Request, NEW place, pc[r] \in Holding, Goto(r, place), UNCHANGED eventVars
      PROVE  HolderRuns'
  BY <1>0, <1>3, <1>6 DEF Goto, leaseVars
<1>7. ASSUME NEW r \in Request, Resolve(r) PROVE HolderRuns'
  <2>1. pc[r] \in Holding /\ UNCHANGED eventVars
    BY <1>7 DEF Resolve
  <2>2. Finish(r) \/ \E place : Goto(r, place)
    BY <1>7 DEF Resolve, Fail
  <2>3. QED BY <1>2, <1>6, <2>1, <2>2
<1>8. ASSUME NEW r \in Request,
             AwaitAccepted(r) \/ AwaitStopped(r) \/ Cleaned(r) \/ AwaitExit(r)
                \/ EnsureMirror(r) \/ MirrorCreated(r) \/ WebhookTimesOut(r)
      PROVE  HolderRuns'
  <2>1. pc[r] \in Holding /\ UNCHANGED eventVars
    BY <1>8 DEF AwaitAccepted, AwaitStopped, Cleaned, AwaitExit, EnsureMirror, MirrorCreated,
       WebhookTimesOut
  <2>2. Finish(r) \/ \E place : Goto(r, place)
    BY <1>8 DEF AwaitAccepted, AwaitStopped, Cleaned, AwaitExit, EnsureMirror, MirrorCreated,
       WebhookTimesOut, Fail
  <2>3. QED BY <1>2, <1>6, <2>1, <2>2
<1>9. ASSUME NEW r \in Request, Check(r) \/ Spawn(r) PROVE HolderRuns'
  <2>1. pc[r] \in Holding /\ UNCHANGED eventVars
    BY <1>9 DEF Check, Spawn
  <2>2. \/ Finish(r)
        \/ \E place : Goto(r, place)
        \/ UNCHANGED stage /\ \E place : pc' = [pc EXCEPT ![r] = place]
    BY <1>9 DEF Check, Spawn, Fail, leaseVars
  <2>3. stage[r] = "running"
    BY <1>0, <2>1
  <2>4. QED BY <1>2, <1>3, <1>6, <2>1, <2>2, <2>3
<1>10. ASSUME NEW c \in Child, ChildStep(c) PROVE HolderRuns'
  <2>1. UNCHANGED eventVars /\ (UNCHANGED <<stage, pc>> \/ \E r \in Request : Finish(r))
    BY <1>10 DEF ChildStep, Webhook, ChildEnds, ExitNoticed, StopSession, leaseVars, requestVars
  <2>2. QED BY <1>0, <1>2, <2>1 DEF eventVars
<1>11. ASSUME NEW t \in Tui, TuiStep(t) PROVE HolderRuns'
  <2>1. UNCHANGED <<stage, pc, handling>>
    BY <1>11 DEF TuiStep, TuiStarts, TuiBeats, TuiObeys, TuiExits, leaseVars, requestVars,
       eventVars
  <2>2. chain' = chain \/ \E e \in Event : chain' = Append(chain, e)
    BY <1>11 DEF TuiStep, TuiStarts, TuiBeats, TuiObeys, TuiExits, Post, Event, eventVars
  <2>3. handling = "ensuring" => Head(chain') = Head(chain)
    BY <1>0, <2>2 DEF EventAtHead
  <2>4. QED BY <1>0, <2>1, <2>3
<1>12. CASE EventStep
  <2>1. chain # <<>> /\ Head(chain) \in Event
    BY <1>0, <1>12 DEF EventAtHead, EventStep, HandleEvent, EventGranted, EventEnsured,
       MirrorFlushed
  <2>2. UNCHANGED pc /\ \A r \in Request : r # Head(chain)
    BY <1>0, <1>12, <2>1 DEF EventStep, HandleEvent, EventGranted, EventEnsured,
       MirrorFlushed, requestVars
  <2>3. CASE HandleEvent
    BY <1>0, <2>1, <2>2, <2>3 DEF HandleEvent, Apply, EventDone, EnterLease, leaseVars
  <2>4. CASE EventGranted
    BY <1>0, <2>1, <2>2, <2>4 DEF EventGranted, TakeLease
  <2>5. CASE EventEnsured
    BY <1>0, <2>1, <2>2, <2>5 DEF EventEnsured, EventDone, ReleaseLease
  <2>6. CASE MirrorFlushed
    BY <1>0, <2>2, <2>6 DEF MirrorFlushed, EventDone, leaseVars
  <2>7. QED BY <1>12, <2>3, <2>4, <2>5, <2>6 DEF EventStep
<1>13. CASE SignalAges \/ MirrorAges \/ UNCHANGED vars
  BY <1>0, <1>13 DEF SignalAges, MirrorAges, vars, leaseVars, requestVars, eventVars
<1>14. CASE DaemonRestart
  BY <1>0, <1>14 DEF DaemonRestart
<1>15. QED
  BY <1>4, <1>5, <1>7, <1>8, <1>9, <1>10, <1>11, <1>12, <1>13, <1>14 DEF Next, Step

\* A mirror is created under the lease, and the holder of the lease that spawns
\* has found none.
LEMMA NoMirrorKept ==
    ASSUME ActivationInv, Exclusive, [Next]_vars PROVE NoMirrorWhileSpawning'
<1> DEFINE Spawning == {"checking", "killing", "spawning", "webhook"}
<1>0. /\ pc \in [Request -> Place]
      /\ \A r \in Request : pc[r] \in Spawning => mirror = NoMirror
      /\ \A r \in Request : pc[r] \in Holding => stage[r] = "running"
      /\ EventAtHead
  BY DEF ActivationInv, TypeOK, NoMirrorWhileSpawning, HolderRuns
<1>1. \A r, q \in Request : pc[r] \in Holding /\ pc[q] \in Holding => r = q
  BY <1>0, ActivationAssumption DEF ActivationAssumption, Exclusive
<1>2. handling = "ensuring" => \A r \in Request : pc[r] \notin Holding
  <2> SUFFICES ASSUME handling = "ensuring", NEW r \in Request, pc[r] \in Holding PROVE FALSE
    OBVIOUS
  <2>1. stage[Head(chain)] = "running" /\ Head(chain) \in Event
    BY <1>0 DEF ActivationInv, HolderRuns, EventAtHead
  <2>2. QED
    BY <1>0, <2>1, ActivationAssumption DEF ActivationAssumption, Exclusive
<1>3. SUFFICES ASSUME NEW r \in Request, pc'[r] \in Spawning PROVE mirror' = NoMirror
  BY DEF NoMirrorWhileSpawning
<1>4. ASSUME NEW q \in Request, Call(q) \/ Enter(q) \/ Granted(q) PROVE mirror' = NoMirror
  BY <1>0, <1>3, <1>4 DEF Call, Enter, Granted, mirrorVars
<1>5. ASSUME NEW q \in Request, Resolve(q) PROVE mirror' = NoMirror
  BY <1>0, <1>3, <1>5 DEF Resolve, Goto, Finish, Fail, mirrorVars
<1>6. ASSUME NEW q \in Request, AwaitAccepted(q) \/ AwaitStopped(q) \/ Cleaned(q)
      PROVE  mirror' = NoMirror
  BY <1>0, <1>3, <1>6 DEF AwaitAccepted, AwaitStopped, Cleaned, Goto, Finish, Fail, mirrorVars
<1>7. ASSUME NEW q \in Request, Check(q) \/ AwaitExit(q) \/ Spawn(q) \/ WebhookTimesOut(q)
      PROVE  mirror' = NoMirror
  BY <1>0, <1>3, <1>7 DEF Check, AwaitExit, Spawn, WebhookTimesOut, Goto, Finish, Fail, mirrorVars
<1>8. ASSUME NEW q \in Request, EnsureMirror(q) PROVE mirror' = NoMirror
  BY <1>0, <1>3, <1>8 DEF EnsureMirror, Goto, Finish, mirrorVars
<1>9. ASSUME NEW q \in Request, MirrorCreated(q) PROVE mirror' = NoMirror
  <2>1. pc[q] = "creating" /\ pc' = [pc EXCEPT ![q] = "done"]
    BY <1>9 DEF MirrorCreated, Finish, Fail
  <2>2. pc[r] \in Spawning /\ r # q
    BY <1>0, <1>3, <2>1
  <2>3. QED BY <1>1, <2>1, <2>2 DEF Holding
<1>10. ASSUME NEW c \in Child, ChildStep(c) PROVE mirror' = NoMirror
  BY <1>0, <1>3, <1>10 DEF ChildStep, Webhook, ChildEnds, ExitNoticed, StopSession, Finish,
     requestVars, mirrorVars
<1>11. ASSUME NEW t \in Tui, TuiStep(t) PROVE mirror' = NoMirror
  BY <1>0, <1>3, <1>11 DEF TuiStep, TuiStarts, TuiBeats, TuiObeys, TuiExits, requestVars, mirrorVars
<1>12. CASE EventStep
  <2>1. pc[r] \in Spawning /\ mirror = NoMirror
    BY <1>0, <1>3, <1>12 DEF EventStep, HandleEvent, EventGranted, EventEnsured,
       MirrorFlushed, requestVars
  <2>2. handling # "ensuring"
    BY <1>2, <2>1 DEF Holding
  <2>3. QED
    BY <1>12, <2>1, <2>2 DEF EventStep, HandleEvent, EventGranted, EventEnsured,
       MirrorFlushed, Apply, mirrorVars
<1>13. CASE SignalAges \/ MirrorAges \/ UNCHANGED vars
  BY <1>0, <1>3, <1>13 DEF SignalAges, MirrorAges, IsActive, vars, requestVars, mirrorVars
<1>14. CASE DaemonRestart
  BY <1>14 DEF DaemonRestart
<1>15. QED
  BY <1>4, <1>5, <1>6, <1>7, <1>8, <1>9, <1>10, <1>11, <1>12, <1>13, <1>14 DEF Next, Step

\* ActivationInv holds in every state of the daemon.
THEOREM ActivationInvariance == Spec => []ActivationInv
<1>1. ActivationInv /\ Exclusive /\ LeaseInv' /\ EventAtHead' /\ [Next]_vars => ActivationInv'
  <2> SUFFICES ASSUME ActivationInv, Exclusive, LeaseInv', EventAtHead', [Next]_vars
               PROVE  ActivationInv'
    OBVIOUS
  <2>1. LeaseTypeOK'
    BY DEF LeaseInv
  <2>2. QED
    BY <2>1, TypesKept, HolderKept, NoMirrorKept DEF ActivationInv
<1>2. Spec => [](LeaseInv /\ EventAtHead /\ Exclusive)
  BY UsesLease, LeaseInvariance, EventsInOrder, ActivationExcludes, PTL
<1>3. QED BY ActivationInitially, <1>1, <1>2, PTL DEF Spec

\* Every variable of the daemon keeps its type (run.ts).
THEOREM ActivationTypes == Spec => []TypeOK
<1>1. ActivationInv => TypeOK
  BY DEF ActivationInv
<1>2. QED BY <1>1, ActivationInvariance, PTL

\* Whoever decides holds the lease (PiActivationLeaseRegistry.run).
THEOREM DecidesUnderLease == Spec => []HolderRuns
<1>1. ActivationInv => HolderRuns
  BY DEF ActivationInv
<1>2. QED BY <1>1, ActivationInvariance, PTL

\* From the moment a request has found no terminal Pi until its child has
\* reported, no mirror comes into being (spawnSession, ensurePiSessionMirror).
THEOREM SpawnsAlone == Spec => []NoMirrorWhileSpawning
<1>1. ActivationInv => NoMirrorWhileSpawning
  BY DEF ActivationInv
<1>2. QED BY <1>1, ActivationInvariance, PTL

\* No child starts while the daemon knows of a recent extension event
\* (hasRecentPiExtensionSignal before the spawn).
THEOREM SpawnsUnsignalled == Spec => NoSpawnUnderSignal
<1> DEFINE Quiet == \A c \in Child : (child[c] = "free" /\ child'[c] # "free") => signal # "recent"
<1>1. TypeOK /\ [Next]_vars => [Quiet]_vars
  <2> SUFFICES ASSUME child \in [Child -> {"free", "up", "dying"}], Next,
                      NEW c \in Child, child[c] = "free", child'[c] # "free"
               PROVE  signal # "recent"
    BY DEF TypeOK
  <2>1. ASSUME NEW r \in Request, Call(r) \/ Step(r) PROVE Spawn(r)
    BY <2>1 DEF Step, Call, Enter, Granted, Resolve, AwaitAccepted, AwaitStopped, Cleaned,
       Check, AwaitExit, WebhookTimesOut, EnsureMirror, MirrorCreated, childVars, Known
  <2>2. ASSUME NEW r \in Request, Spawn(r) PROVE signal # "recent"
    BY <2>2 DEF Spawn, Reconnected, childVars
  <2>3. ASSUME NEW d \in Child, ChildStep(d) PROVE FALSE
    BY <2>3 DEF ChildStep, Webhook, ChildEnds, ExitNoticed, StopSession
  <2>4. ASSUME NEW t \in Tui, TuiStep(t) PROVE FALSE
    BY <2>4 DEF TuiStep, TuiStarts, TuiBeats, TuiObeys, TuiExits, childVars
  <2>5. ~(EventStep \/ SignalAges \/ MirrorAges \/ DaemonRestart)
    BY DEF EventStep, HandleEvent, EventGranted, EventEnsured, MirrorFlushed, SignalAges,
       MirrorAges, DaemonRestart, childVars
  <2>6. QED BY <2>1, <2>2, <2>3, <2>4, <2>5 DEF Next
<1>2. QED BY <1>1, ActivationTypes, PTL DEF Spec, NoSpawnUnderSignal
==============================================================================
