--------------------------- MODULE ActivationLease ---------------------------
(***************************************************************************)
(* The registry of activation leases (PiActivationLeaseRegistry): for each *)
(* key a chain of promises, of which the map `tails` keeps the last.  A    *)
(* task is one call of run(key, activate); it waits for its predecessor,   *)
(* runs, and releases its successor.                                       *)
(***************************************************************************)
EXTENDS Naturals, Sequences

CONSTANTS
    Task,     \* calls of run
    Key,
    KeyOf,    \* the key of each call
    NoTask

ASSUME LeaseAssumption ==
    /\ KeyOf \in [Task -> Key]
    /\ NoTask \notin Task

VARIABLES
    tail,     \* tails: the last task of a key that is not done
    after,    \* the task each task waits for
    stage,    \* "idle", "waiting", "running" or "done"
    line      \* history: the tasks of a key in flight, in order of arrival

leaseVars == <<tail, after, stage, line>>

LeaseTypeOK ==
    /\ tail \in [Key -> Task \cup {NoTask}]
    /\ after \in [Task -> Task \cup {NoTask}]
    /\ stage \in [Task -> {"idle", "waiting", "running", "done"}]
    /\ line \in [Key -> Seq(Task)]

LeaseInit ==
    /\ tail = [k \in Key |-> NoTask]
    /\ after = [t \in Task |-> NoTask]
    /\ stage = [t \in Task |-> "idle"]
    /\ line = [k \in Key |-> <<>>]

EnterLease(t) ==
    /\ stage[t] = "idle"
    /\ after' = [after EXCEPT ![t] = tail[KeyOf[t]]]
    /\ tail' = [tail EXCEPT ![KeyOf[t]] = t]
    /\ stage' = [stage EXCEPT ![t] = "waiting"]
    /\ line' = [line EXCEPT ![KeyOf[t]] = Append(@, t)]

\* Bug: the predecessor is not awaited.
Unawaited(t) == TRUE

\* `await previous`: there was none, or its gate is open.
PreviousIsDone(t) == after[t] # NoTask => stage[after[t]] = "done"

TakeLease(t) ==
    /\ stage[t] = "waiting"
    /\ PreviousIsDone(t)
    /\ stage' = [stage EXCEPT ![t] = "running"]
    /\ after' = [after EXCEPT ![t] = NoTask]
    /\ UNCHANGED <<tail, line>>

\* Bug: the tail is dropped though a later task is the tail by now.
DroppedTail(t) == [tail EXCEPT ![KeyOf[t]] = NoTask]

\* The map forgets a key once its last task is done.
TailWithout(t) ==
    IF tail[KeyOf[t]] = t THEN [tail EXCEPT ![KeyOf[t]] = NoTask] ELSE tail

\* `finally`: the gate opens whether the activation returned or threw.
ReleaseLease(t) ==
    /\ stage[t] = "running"
    /\ stage' = [stage EXCEPT ![t] = "done"]
    /\ tail' = TailWithout(t)
    /\ line' = [line EXCEPT ![KeyOf[t]] = Tail(@)]
    /\ UNCHANGED after

\* The registry lives in the memory of the daemon: with the process its tasks
\* end, and the next one starts without.
ForgetLeases ==
    /\ tail' = [k \in Key |-> NoTask]
    /\ stage' = [t \in Task |-> IF stage[t] = "idle" THEN "idle" ELSE "done"]
    /\ line' = [k \in Key |-> <<>>]
    /\ after' = [t \in Task |-> NoTask]

LeaseNext ==
    \/ \E t \in Task : EnterLease(t) \/ TakeLease(t) \/ ReleaseLease(t)
    \/ ForgetLeases

LeaseSpec == LeaseInit /\ [][LeaseNext]_leaseVars

\* No two activations of one key run at a time (PiActivationLeaseRegistry.run).
Exclusive ==
    \A s, t \in Task :
        (stage[s] = "running" /\ stage[t] = "running" /\ KeyOf[s] = KeyOf[t]) => s = t

\* The activation that runs is the one that asked first of those in flight
\* (PiActivationLeaseRegistry.run).
FirstComeFirstServed ==
    \A t \in Task : stage[t] = "running" =>
        line[KeyOf[t]] # <<>> /\ Head(line[KeyOf[t]]) = t

------------------------------------------------------------------------------
(* Why: the tasks of a key in flight form a chain, which `tail` ends.       *)

InFlight(t) == stage[t] \in {"waiting", "running"}

\* Each task in line waits for the one before it, and only the first may run.
LineIsChain ==
    \A k \in Key : \A i \in 1..Len(line[k]) :
        /\ KeyOf[line[k][i]] = k
        /\ InFlight(line[k][i])
        /\ i = 1 => PreviousIsDone(line[k][i])
        /\ i > 1 => after[line[k][i]] = line[k][i - 1] /\ stage[line[k][i]] = "waiting"

LineIsComplete ==
    \A t \in Task : InFlight(t) =>
        \E i \in 1..Len(line[KeyOf[t]]) : line[KeyOf[t]][i] = t

LineHasNoRepeats ==
    \A k \in Key : \A i, j \in 1..Len(line[k]) : line[k][i] = line[k][j] => i = j

TailEndsLine ==
    \A k \in Key :
        tail[k] = IF Len(line[k]) = 0 THEN NoTask ELSE line[k][Len(line[k])]

LeaseInv ==
    /\ LeaseTypeOK
    /\ LineIsChain
    /\ LineIsComplete
    /\ LineHasNoRepeats
    /\ TailEndsLine
==============================================================================
