----------------------------- MODULE PiActivation -----------------------------
(***************************************************************************)
(* Which process may run one Pi session of a computer: terminal Pis, which *)
(* announce themselves through the extension and are mirrored by lynttyd,  *)
(* and managed children, which lynttyd spawns for a phone that takes over. *)
(* Every decision is made under the activation lease of the session.       *)
(***************************************************************************)
EXTENDS ActivationLease, FiniteSets

CONSTANTS
    Request,      \* calls of spawnSession and ensurePiSessionMirror
    Tui,          \* runs of Pi in a terminal
    Child,        \* process numbers for what lynttyd spawns
    Nobody, NoMirror,
    MaxRestarts,  \* bounds of the exploration
    MaxStops

Event == Tui \X {"start", "beat", "shutdown"}

ASSUME ActivationAssumption ==
    /\ Task = Request \cup Event
    /\ Request \cap Event = {}
    /\ \A s, t \in Task : KeyOf[s] = KeyOf[t]
    /\ Nobody \notin Tui \cup Child
    /\ MaxRestarts \in Nat
    /\ MaxStops \in Nat

VARIABLES
    pc,        \* where each request stands
    choice,    \* "mirror", or the takeover choice: "none", "wait", "take"
    target,    \* the child it waits for
    mirror,    \* externalPiMirrors: owner and lastExtensionSeenAt
    signal,    \* recentPiExtensionSignals
    orders,    \* internal_shutdown commands queued in the mirror, by request
    obeyed,    \* those the extension accepted
    chain,     \* piExtensionEventChains
    handling,  \* how far the head of the chain is
    tui,
    child,
    told,      \* children whose webhook reached lynttyd
    tracked,   \* pidToTrackedSession: "no", "spawned" or "known"
    restarts, stops

requestVars == <<pc, choice, target>>
mirrorVars  == <<mirror, orders, obeyed>>
eventVars   == <<chain, handling>>
childVars   == <<child, told, tracked>>
bounds      == <<restarts, stops>>
vars == <<leaseVars, requestVars, mirrorVars, signal, eventVars, tui, childVars, bounds>>

Age == {"never", "old", "recent"}

Place == {"idle", "called", "queued", "resolving", "accepting", "stopping", "cleaning",
          "creating", "checking", "killing", "spawning", "webhook", "done"}

TypeOK ==
    /\ LeaseTypeOK
    /\ pc \in [Request -> Place]
    /\ choice \in [Request -> {"mirror", "none", "wait", "take"}]
    /\ target \in [Request -> Child \cup {Nobody}]
    /\ mirror = NoMirror \/ mirror \in [owner: Tui \cup {Nobody}, seen: Age]
    /\ signal \in Age
    /\ orders \subseteq Request
    /\ obeyed \subseteq Request
    /\ chain \in Seq(Event)
    /\ handling \in {"idle", "queued", "ensuring", "applying", "flushing"}
    /\ tui \in [Tui -> {"off", "on", "gone"}]
    /\ child \in [Child -> {"free", "up", "dying"}]
    /\ told \subseteq Child
    /\ tracked \in [Child -> {"no", "spawned", "known"}]
    /\ restarts \in 0..MaxRestarts
    /\ stops \in 0..MaxStops

Init ==
    /\ LeaseInit
    /\ pc = [r \in Request |-> "idle"]
    /\ choice = [r \in Request |-> "none"]
    /\ target = [r \in Request |-> Nobody]
    /\ mirror = NoMirror
    /\ signal = "never"
    /\ orders = {}
    /\ obeyed = {}
    /\ chain = <<>>
    /\ handling = "idle"
    /\ tui = [t \in Tui |-> "off"]
    /\ child = [c \in Child |-> "free"]
    /\ told = {}
    /\ tracked = [c \in Child |-> "no"]
    /\ restarts = 0
    /\ stops = 0

\* Bug: the registry does not wait for the callback, whose first await ends it.
GotoUnawaited(r, place) ==
    /\ pc' = [pc EXCEPT ![r] = place]
    /\ ReleaseLease(r)
    /\ UNCHANGED <<choice, target>>

Goto(r, place) ==
    /\ pc' = [pc EXCEPT ![r] = place]
    /\ UNCHANGED <<leaseVars, choice, target>>

Finish(r) ==
    /\ pc' = [pc EXCEPT ![r] = "done"]
    /\ choice' = [choice EXCEPT ![r] = "none"]
    /\ target' = [target EXCEPT ![r] = Nobody]
    /\ ReleaseLease(r)

\* Bug: an activation that throws keeps the lease.
KeepsLease(r) == Goto(r, "done")

\* An error releases the lease as well.
Fail(r) == Finish(r)

\* resolveActivePiSessionReuse: only a child that reported its session counts.
Known == {c \in Child : tracked[c] = "known"}

IsActive(m) == m # NoMirror /\ m.seen = "recent"

------------------------------------------------------------------------------
(* A request up to the lease.                                              *)

\* A running managed session is reused without the lease.
Call(r) ==
    /\ pc[r] = "idle"
    /\ \E ch \in {"mirror", "none", "wait", "take"} :
          IF ch = "none" /\ Known # {}
          THEN pc' = [pc EXCEPT ![r] = "done"] /\ UNCHANGED choice
          ELSE pc' = [pc EXCEPT ![r] = "called"] /\ choice' = [choice EXCEPT ![r] = ch]
    /\ UNCHANGED <<leaseVars, target, mirrorVars, signal, eventVars, tui, childVars, bounds>>

Enter(r) ==
    /\ pc[r] = "called"
    /\ EnterLease(r)
    /\ pc' = [pc EXCEPT ![r] = "queued"]
    /\ UNCHANGED <<choice, target, mirrorVars, signal, eventVars, tui, childVars, bounds>>

Granted(r) ==
    /\ pc[r] = "queued"
    /\ TakeLease(r)
    /\ pc' = [pc EXCEPT ![r] = "resolving"]
    /\ UNCHANGED <<choice, target, mirrorVars, signal, eventVars, tui, childVars, bounds>>

------------------------------------------------------------------------------
(* resolveExternalPiActivation: what about a terminal Pi?                   *)

Resolve(r) ==
    /\ pc[r] = "resolving"
    /\ \/ /\ choice[r] = "wait"
          /\ Fail(r)
          /\ UNCHANGED mirrorVars
       \/ /\ choice[r] \in {"none", "take"}
          /\ mirror = NoMirror
          /\ Goto(r, "checking")
          /\ UNCHANGED mirrorVars
       \/ /\ choice[r] = "none"
          /\ IsActive(mirror)
          /\ Finish(r)
          /\ UNCHANGED mirrorVars
       \/ /\ choice[r] = "take"
          /\ IsActive(mirror)
          /\ \/ orders' = orders \cup {r} /\ Goto(r, "accepting")
             \/ Fail(r) /\ UNCHANGED orders        \* the queue is full
          /\ UNCHANGED <<mirror, obeyed>>
       \/ /\ choice[r] \in {"none", "take"}
          /\ mirror # NoMirror
          /\ ~IsActive(mirror)
          /\ mirror' = NoMirror
          /\ orders' = {}
          /\ Goto(r, "cleaning")
          /\ UNCHANGED obeyed
    /\ UNCHANGED <<signal, eventVars, tui, childVars, bounds>>

\* waitForRemotePiCommandAccepted.  A command that times out stays queued.
AwaitAccepted(r) ==
    /\ pc[r] = "accepting"
    /\ IF r \in obeyed THEN Goto(r, "stopping") ELSE Fail(r)
    /\ UNCHANGED <<mirrorVars, signal, eventVars, tui, childVars, bounds>>

\* waitForExternalPiMirrorStopped.
AwaitStopped(r) ==
    /\ pc[r] = "stopping"
    /\ IF mirror = NoMirror THEN Goto(r, "checking") ELSE Fail(r)
    /\ UNCHANGED <<mirrorVars, signal, eventVars, tui, childVars, bounds>>

\* resolveStalePiMirrorCleanup, once the stale mirror is flushed and stopped.
Cleaned(r) ==
    /\ pc[r] = "cleaning"
    /\ \/ mirror # NoMirror /\ Finish(r)
       \/ mirror = NoMirror /\ signal = "recent" /\ Fail(r)
       \/ mirror = NoMirror /\ signal # "recent" /\ Goto(r, "checking")
    /\ UNCHANGED <<mirrorVars, signal, eventVars, tui, childVars, bounds>>

------------------------------------------------------------------------------
(* The rest of spawnSession: managed children.                             *)

Check(r) ==
    /\ pc[r] = "checking"
    /\ \/ /\ choice[r] = "none"
          /\ IF Known # {} THEN Finish(r) ELSE Fail(r)
          /\ UNCHANGED child
       \/ /\ choice[r] = "take"
          /\ signal = "recent"
          /\ Fail(r)
          /\ UNCHANGED child
       \/ /\ choice[r] = "take"
          /\ signal # "recent"
          /\ Known = {}
          /\ Goto(r, "spawning")
          /\ UNCHANGED child
       \/ /\ choice[r] = "take"
          /\ signal # "recent"
          /\ \E c \in Known :                    \* SIGTERM
                /\ target' = [target EXCEPT ![r] = c]
                /\ child' = [child EXCEPT ![c] = IF @ = "up" THEN "dying" ELSE @]
          /\ pc' = [pc EXCEPT ![r] = "killing"]
          /\ UNCHANGED <<leaseVars, choice>>
    /\ UNCHANGED <<mirrorVars, signal, eventVars, tui, told, tracked, bounds>>

\* waitForProcessExit.
AwaitExit(r) ==
    /\ pc[r] = "killing"
    /\ IF child[target[r]] = "free"
       THEN Goto(r, "spawning") /\ tracked' = [tracked EXCEPT ![target[r]] = "no"]
       ELSE Fail(r) /\ UNCHANGED tracked
    /\ UNCHANGED <<mirrorVars, signal, eventVars, tui, child, told, bounds>>

\* Bug: the signal is not looked at again before the spawn.
NotLookedAtAgain == FALSE

\* The extension reconnected while the request waited.
Reconnected == signal = "recent"

Spawn(r) ==
    /\ pc[r] = "spawning"
    /\ \/ /\ ~Reconnected
          /\ \E c \in Child :
                /\ child[c] = "free"
                /\ tracked[c] = "no"
                /\ child' = [child EXCEPT ![c] = "up"]
                /\ tracked' = [tracked EXCEPT ![c] = "spawned"]
                /\ told' = told \ {c}
                /\ target' = [target EXCEPT ![r] = c]
          /\ pc' = [pc EXCEPT ![r] = "webhook"]
          /\ UNCHANGED <<leaseVars, choice>>
       \/ Fail(r) /\ UNCHANGED childVars    \* reconnected, or no process
    /\ UNCHANGED <<mirrorVars, signal, eventVars, tui, bounds>>

\* onLynttySessionWebhook: a child reports its session, once.
Webhook(c) ==
    /\ child[c] = "up"
    /\ c \notin told
    /\ told' = told \cup {c}
    /\ tracked' = [tracked EXCEPT ![c] = "known"]
    /\ \/ \E r \in Request : pc[r] = "webhook" /\ target[r] = c /\ Finish(r)
       \/ /\ ~\E r \in Request : pc[r] = "webhook" /\ target[r] = c
          /\ UNCHANGED <<leaseVars, requestVars>>
    /\ UNCHANGED <<mirrorVars, signal, eventVars, tui, child, bounds>>

\* The child has not reported for fifteen seconds.  It lives on.
WebhookTimesOut(r) ==
    /\ pc[r] = "webhook"
    /\ Fail(r)
    /\ UNCHANGED <<mirrorVars, signal, eventVars, tui, childVars, bounds>>

ChildEnds(c) ==
    /\ child[c] \in {"up", "dying"}
    /\ child' = [child EXCEPT ![c] = "free"]
    /\ UNCHANGED <<leaseVars, requestVars, mirrorVars, signal, eventVars, tui, told,
                   tracked, bounds>>

\* onChildExited, or the heartbeat that prunes dead processes.
ExitNoticed(c) ==
    /\ child[c] = "free"
    /\ tracked[c] # "no"
    /\ tracked' = [tracked EXCEPT ![c] = "no"]
    /\ UNCHANGED <<leaseVars, requestVars, mirrorVars, signal, eventVars, tui, child,
                   told, bounds>>

\* stopSession: a signal, and the child is forgotten at once.
StopSession(c) ==
    /\ stops < MaxStops
    /\ stops' = stops + 1
    /\ tracked[c] # "no"
    /\ tracked' = [tracked EXCEPT ![c] = "no"]
    /\ child' = [child EXCEPT ![c] = IF @ = "up" THEN "dying" ELSE @]
    /\ UNCHANGED <<leaseVars, requestVars, mirrorVars, signal, eventVars, tui, told,
                   restarts>>

------------------------------------------------------------------------------
(* ensurePiSessionMirror for a phone.                                       *)

EnsureMirror(r) ==
    /\ pc[r] = "resolving"
    /\ choice[r] = "mirror"
    /\ IF mirror # NoMirror THEN Finish(r) ELSE Goto(r, "creating")
    /\ UNCHANGED <<mirrorVars, signal, eventVars, tui, childVars, bounds>>

\* Bug: the mirror is registered without the time of its last event.
NewMirrorWithoutAge(age) == [owner |-> Nobody]

NewMirror(age) == [owner |-> Nobody, seen |-> age]

\* The relay answers; without an extension the mirror was never seen.
MirrorCreated(r) ==
    /\ pc[r] = "creating"
    /\ \/ mirror' = NewMirror("never") /\ Finish(r)
       \/ Fail(r) /\ UNCHANGED mirror
    /\ UNCHANGED <<orders, obeyed, signal, eventVars, tui, childVars, bounds>>

------------------------------------------------------------------------------
(* Terminal Pis and their events.                                           *)

Post(e) ==
    /\ chain' = Append(chain, e)
    /\ signal' = "recent"

TuiStarts(t) ==
    /\ tui[t] = "off"
    /\ tui' = [tui EXCEPT ![t] = "on"]
    /\ Post(<<t, "start">>)
    /\ UNCHANGED <<leaseVars, requestVars, mirrorVars, handling, childVars, bounds>>

\* remote_heartbeat; one of them is enough here.
TuiBeats(t) ==
    /\ tui[t] = "on"
    /\ stage[<<t, "beat">>] = "idle"
    /\ \A n \in 1..Len(chain) : chain[n] # <<t, "beat">>
    /\ Post(<<t, "beat">>)
    /\ UNCHANGED <<leaseVars, requestVars, mirrorVars, handling, tui, childVars, bounds>>

\* The owner polls the command and accepts it.
TuiObeys(t, r) ==
    /\ tui[t] = "on"
    /\ mirror # NoMirror
    /\ mirror.owner = t
    /\ r \in orders
    /\ orders' = orders \ {r}
    /\ obeyed' = obeyed \cup {r}
    /\ UNCHANGED <<leaseVars, requestVars, mirror, signal, eventVars, tui, childVars, bounds>>

\* With a last event, or killed without.
TuiExits(t) ==
    /\ tui[t] = "on"
    /\ tui' = [tui EXCEPT ![t] = "gone"]
    /\ Post(<<t, "shutdown">>) \/ UNCHANGED <<chain, signal>>
    /\ UNCHANGED <<leaseVars, requestVars, mirrorVars, handling, childVars, bounds>>

\* Two minutes without an event, of the session or of the owner.
SignalAges ==
    /\ signal = "recent"
    /\ signal' = "old"
    /\ UNCHANGED <<leaseVars, requestVars, mirrorVars, eventVars, tui, childVars, bounds>>

MirrorAges ==
    /\ IsActive(mirror)
    /\ mirror' = [mirror EXCEPT !.seen = "old"]
    /\ UNCHANGED <<leaseVars, requestVars, orders, obeyed, signal, eventVars, tui,
                   childVars, bounds>>

------------------------------------------------------------------------------
(* onPiExtensionEvent, one event of the session at a time.                  *)

EventDone ==
    /\ chain' = Tail(chain)
    /\ handling' = "idle"

\* claimPiExtensionInstance, and the end of the mirror with its owner's last
\* event.
Apply(e) ==
    IF mirror = NoMirror \/ (mirror.owner \notin {Nobody, e[1]} /\ IsActive(mirror))
    THEN EventDone /\ UNCHANGED mirror
    ELSE /\ mirror' = [owner |-> e[1], seen |-> "recent"]
         /\ IF e[2] = "shutdown"
            THEN handling' = "flushing" /\ UNCHANGED chain
            ELSE EventDone

HandleEvent ==
    /\ chain # <<>>
    /\ \/ /\ handling = "idle"
          /\ mirror = NoMirror
          /\ EnterLease(Head(chain))
          /\ handling' = "queued"
          /\ UNCHANGED <<mirrorVars, chain>>
       \/ /\ \/ handling = "idle" /\ mirror # NoMirror
             \/ handling = "applying"
          /\ Apply(Head(chain))
          /\ UNCHANGED <<leaseVars, orders, obeyed>>
    /\ UNCHANGED <<requestVars, signal, tui, childVars, bounds>>

EventGranted ==
    /\ handling = "queued"
    /\ TakeLease(Head(chain))
    /\ handling' = "ensuring"
    /\ UNCHANGED <<requestVars, mirrorVars, signal, chain, tui, childVars, bounds>>

\* The mirror exists by now, is created for this extension, or cannot be.
EventEnsured ==
    /\ handling = "ensuring"
    /\ ReleaseLease(Head(chain))
    /\ \/ /\ mirror # NoMirror
          /\ handling' = "applying"
          /\ UNCHANGED <<mirror, chain>>
       \/ /\ mirror = NoMirror
          /\ mirror' = NewMirror("recent")
          /\ handling' = "applying"
          /\ UNCHANGED chain
       \/ /\ mirror = NoMirror
          /\ EventDone
          /\ UNCHANGED mirror
    /\ UNCHANGED <<requestVars, orders, obeyed, signal, tui, childVars, bounds>>

\* The outbox is flushed before the mirror goes; when that fails the mirror
\* stays, and the Pi process is not there to repeat the event.
MirrorFlushed ==
    /\ handling = "flushing"
    /\ EventDone
    /\ \/ /\ mirror' = NoMirror
          /\ orders' = {}
          /\ signal' = "never"
       \/ UNCHANGED <<mirror, orders, signal>>
    /\ UNCHANGED <<leaseVars, requestVars, obeyed, tui, childVars, bounds>>

------------------------------------------------------------------------------

\* Everything but the children is memory of the daemon.
DaemonRestart ==
    /\ restarts < MaxRestarts
    /\ restarts' = restarts + 1
    /\ ForgetLeases
    /\ pc' = [r \in Request |-> IF pc[r] = "idle" THEN "idle" ELSE "done"]
    /\ choice' = [r \in Request |-> "none"]
    /\ target' = [r \in Request |-> Nobody]
    /\ mirror' = NoMirror
    /\ signal' = "never"
    /\ orders' = {}
    /\ obeyed' = {}
    /\ chain' = <<>>
    /\ handling' = "idle"
    /\ tracked' = [c \in Child |-> "no"]
    /\ UNCHANGED <<tui, child, told, stops>>

Step(r) ==
    \/ Enter(r)
    \/ Granted(r)
    \/ Resolve(r)
    \/ AwaitAccepted(r)
    \/ AwaitStopped(r)
    \/ Cleaned(r)
    \/ Check(r)
    \/ AwaitExit(r)
    \/ Spawn(r)
    \/ WebhookTimesOut(r)
    \/ EnsureMirror(r)
    \/ MirrorCreated(r)

ChildStep(c) ==
    \/ Webhook(c)
    \/ ChildEnds(c)
    \/ ExitNoticed(c)
    \/ StopSession(c)

TuiStep(t) ==
    \/ TuiStarts(t)
    \/ TuiBeats(t)
    \/ \E r \in Request : TuiObeys(t, r)
    \/ TuiExits(t)

EventStep ==
    \/ HandleEvent
    \/ EventGranted
    \/ EventEnsured
    \/ MirrorFlushed

Next ==
    \/ \E r \in Request : Call(r) \/ Step(r)
    \/ \E c \in Child : ChildStep(c)
    \/ \E t \in Tui : TuiStep(t)
    \/ EventStep
    \/ SignalAges
    \/ MirrorAges
    \/ DaemonRestart

Spec == Init /\ [][Next]_vars

\* Every await of spawnSession ends by itself or by a timeout, and so do the
\* relay calls of an event.
FairSpec ==
    /\ Spec
    /\ \A r \in Request : WF_vars(Step(r))
    /\ WF_vars(EventGranted)
    /\ WF_vars(EventEnsured)

------------------------------------------------------------------------------
(* Properties.                                                             *)

\* From the moment a request has found no terminal Pi until its child has
\* reported, nobody creates a mirror: events and phones wait for the lease
\* (spawnSession and ensurePiSessionMirror use one key).
NoMirrorWhileSpawning ==
    (\E r \in Request : pc[r] \in {"checking", "killing", "spawning", "webhook"})
        => mirror = NoMirror

\* No child starts while an extension was heard of in the last two minutes,
\* also when it reconnects while the request waits (hasRecentPiExtensionSignal).
NoSpawnUnderSignal ==
    [][\A c \in Child : (child[c] = "free" /\ child'[c] # "free") => signal # "recent"]_vars

\* Every request is answered, whoever holds the lease and whatever it waits
\* for (PiActivationLeaseRegistry.run releases in `finally`).
EveryRequestAnswered == \A r \in Request : pc[r] = "called" ~> pc[r] = "done"

------------------------------------------------------------------------------
(* Why: whoever decides holds the lease.                                    *)

Holding == {"resolving", "accepting", "stopping", "cleaning", "creating", "checking",
            "killing", "spawning", "webhook"}

\* The event under way is the head of the chain.
EventAtHead ==
    /\ chain \in Seq(Event)
    /\ handling # "idle" => chain # <<>>

\* From its first look at the mirrors until it is done, a request or an event
\* holds the lease, over every await, timeout and kill in between
\* (PiActivationLeaseRegistry.run awaits the callback).
HolderRuns ==
    /\ \A r \in Request : pc[r] \in Holding => stage[r] = "running"
    /\ handling = "ensuring" => stage[Head(chain)] = "running"

ActivationInv ==
    /\ TypeOK
    /\ EventAtHead
    /\ HolderRuns
    /\ NoMirrorWhileSpawning
==============================================================================
