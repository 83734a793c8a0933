------------------------------ MODULE LiveHistory ------------------------------
(***************************************************************************)
(* How what Pi writes reaches the relay while a terminal Pi runs: the event *)
(* queue of the extension (pi/piExtensionInstall.ts), the sequence and the *)
(* ownership the daemon checks (daemon/run.ts, piExtensionSequence.ts,     *)
(* piExtensionOwnership.ts), the JSONL mirror that fills in what events    *)
(* did not bring (runPiExternalMirror.ts, reconcilePiHistory.ts), and the  *)
(* append checkpoint on disk (persistence.ts).  One Pi session; an entry   *)
(* is the number of a line of its JSONL file.                              *)
(***************************************************************************)
EXTENDS Naturals, Sequences, FiniteSets, SequencesExt

CONSTANTS
    None,
    Ahead,          \* TRUE: Pi begins a turn while events of the last one are on their way
    MaxQueued,      \* events the extension keeps (1000 in the code)
    MaxAttempts,    \* POSTs of one event (5 in the code)
    MaxPending,     \* events kept until the daemon has its handler (1000)
    MaxEntries,     \* bound on the lines of the JSONL file
    MaxUpdates,     \* bound on message_update events
    MaxInstances,   \* bound on starts of the extension
    MaxFaults       \* bound on answers that do not come, deaths and long silences

ASSUME AheadAssumption == Ahead \in BOOLEAN
ASSUME LimitAssumption ==
    /\ MaxQueued \in Nat \ {0} /\ MaxAttempts \in Nat \ {0}
    /\ MaxPending \in Nat
ASSUME BoundsAssumption ==
    /\ MaxEntries \in Nat /\ MaxUpdates \in Nat /\ MaxInstances \in Nat
    /\ MaxFaults \in Nat

VARIABLES
    \* Pi and its JSONL file
    pi,             \* "up", "leaving" (session_shutdown was sent) or "dead"
    turn,           \* the agent works
    journal,        \* the roles of the entries, in the order of the file
    \* the extension
    inst,           \* extensionInstanceId
    nextId,         \* nextEventId
    queue,          \* queuedPayloads
    attempts,       \* attempts of the payload at the head
    posting,        \* the payload whose POST waits for an answer, or None
    \* the daemon
    daemon,         \* "down", "starting" (no event handler yet) or "ready"
    tasks,          \* the chain of the session's events
    mirror,         \* ExternalPiMirrorState, or None
    checkpoint,     \* on disk: the entry up to which the relay holds all
    \* the relay
    relay,          \* the entries it holds
    \* history and bounds
    repeated,       \* entries a mirror took from two events
    updates, faults

piVars == <<pi, turn, journal>>
extVars == <<inst, nextId, queue, attempts, posting>>
daemonVars == <<daemon, tasks, mirror, checkpoint, relay, repeated>>
bounds == <<updates, faults>>
vars == <<piVars, extVars, daemonVars, bounds>>

-----------------------------------------------------------------------------
(* Types *)

Role == {"assistant", "tool"}
Entry == 1 .. MaxEntries

\* reload and startup are session_start with its reason, list is command_list,
\* content is message_end or tool_execution_end of an entry, end is agent_end.
Kind == {"reload", "startup", "list", "update", "content", "end", "shutdown"}

\* at is the length of the JSONL file when the event was sent.
Payload ==
    [inst : Nat, id : Nat, kind : Kind, entry : 0 .. MaxEntries, at : 0 .. MaxEntries]

ASSUME NoneAssumption == None \notin Nat \cup Payload

\* markPiExtensionDelivered: the covered it was called with, and whether what
\* the assistant said counts too.
Mark == [since : 0 .. MaxEntries, assistant : BOOLEAN]

\* covered is extensionCoveredSince, a time, as the length of the file then;
\* live and upTo are history: what was taken, and the at of the last event.
Mirror ==
    [owner : Nat, stale : BOOLEAN, inst : Nat, id : Nat, gap : BOOLEAN,
     covered : (0 .. MaxEntries) \cup {None}, start : 0 .. MaxEntries,
     confirmed : SUBSET Entry, outbox : SUBSET Entry, marks : SUBSET Mark,
     live : SUBSET Entry, upTo : 0 .. MaxEntries]

TypeOK ==
    /\ pi \in {"up", "leaving", "dead"} /\ turn \in BOOLEAN
    /\ journal \in Seq(Role) /\ Len(journal) <= MaxEntries
    /\ inst \in 0 .. MaxInstances /\ nextId \in Nat \ {0}
    /\ queue \in Seq(Payload) /\ Len(queue) <= MaxQueued
    /\ attempts \in 0 .. MaxAttempts - 1
    /\ posting \in Payload \cup {None}
    /\ daemon \in {"down", "starting", "ready"}
    /\ tasks \in Seq(Payload)
    /\ mirror \in Mirror \cup {None}
    /\ checkpoint \in 0 .. Len(journal)
    /\ relay \subseteq Entry /\ repeated \subseteq Entry
    /\ updates \in 0 .. MaxUpdates /\ faults \in 0 .. MaxFaults

Init ==
    /\ pi = "dead" /\ turn = FALSE /\ journal = <<>>
    /\ inst = 0 /\ nextId = 1 /\ queue = <<>> /\ attempts = 0 /\ posting = None
    /\ daemon = "down" /\ tasks = <<>> /\ mirror = None /\ checkpoint = 0
    /\ relay = {} /\ repeated = {}
    /\ updates = 0 /\ faults = 0

Fault == faults < MaxFaults /\ faults' = faults + 1 /\ UNCHANGED updates

-----------------------------------------------------------------------------
(* The extension's queue *)

\* Bug: a full queue without a message_update takes the new event all the same.
OnlyUpdatesGo(q, e) ==
    LET IsUpdate(x) == x.kind = "update"
        i == SelectInSeq(q, IsUpdate)
    IN  IF Len(q) < MaxQueued \/ i = 0 THEN Append(q, e) ELSE Append(RemoveAt(q, i), e)

\* A full queue gives up its oldest message_update, or else the new event.
enqueuePayload(q, e) ==
    LET IsUpdate(x) == x.kind = "update"
        i == SelectInSeq(q, IsUpdate)
    IN  IF Len(q) < MaxQueued THEN Append(q, e)
        ELSE IF i > 0 THEN Append(RemoveAt(q, i), e)
        ELSE q

\* The count of attempts is a field of the payload.
HeadOf(q) == IF q = <<>> THEN None ELSE Head(q)
KeepAttempts == attempts' = IF HeadOf(queue') = HeadOf(queue) THEN attempts ELSE 0

\* The id is used up even when the queue refuses the event.
send(kind, entry) ==
    /\ queue' = enqueuePayload(queue,
           [inst |-> inst, id |-> nextId, kind |-> kind, entry |-> entry,
            at |-> Len(journal)])
    /\ nextId' = nextId + 1
    /\ KeepAttempts
    /\ UNCHANGED <<inst, posting>>

\* The daemon's answer: a queue that was replaced meanwhile is left alone.
PostAnswered ==
    /\ posting' = None
    /\ queue' = IF HeadOf(queue) = posting THEN Tail(queue) ELSE queue
    /\ KeepAttempts
    /\ UNCHANGED <<inst, nextId>>

\* No answer in time, an error, or nobody there.
PostFails ==
    /\ posting # None
    /\ Fault
    /\ posting' = None
    /\ IF HeadOf(queue) # posting THEN UNCHANGED <<queue, attempts>>
       ELSE IF attempts + 1 >= MaxAttempts THEN queue' = Tail(queue) /\ attempts' = 0
       ELSE attempts' = attempts + 1 /\ UNCHANGED queue
    /\ UNCHANGED <<piVars, inst, nextId, daemonVars>>

\* drainQueue, and onPiExtensionEvent at the other end: one POST at a time, in
\* order.  Before the daemon has its handler it keeps the event and answers at
\* once; afterwards it answers when the event was handled.
drainQueue ==
    /\ pi # "dead"
    /\ posting = None /\ queue # <<>>
    /\ LET e == Head(queue)
       IN  IF daemon = "starting" /\ Len(tasks) < MaxPending
           THEN /\ tasks' = Append(tasks, e)
                /\ queue' = Tail(queue) /\ attempts' = 0
                /\ UNCHANGED posting
           ELSE /\ posting' = e
                /\ tasks' = IF daemon = "ready" THEN Append(tasks, e) ELSE tasks
                /\ UNCHANGED <<queue, attempts>>
    /\ UNCHANGED <<piVars, inst, nextId, daemon, mirror, checkpoint, relay, repeated, bounds>>

-----------------------------------------------------------------------------
(* Pi: what the extension hears of it *)

\* Everything sent for the last turn was handled, or lost.
Caught ==
    /\ queue = <<>> /\ posting = None /\ tasks = <<>>

\* Pi appends a message to its file and says so; the first one begins a turn.
MessageEnd(role) ==
    /\ pi = "up" /\ Len(journal) < MaxEntries
    /\ Ahead \/ turn \/ Caught
    /\ turn' = TRUE
    /\ journal' = Append(journal, role)
    /\ send("content", Len(journal) + 1)
    /\ UNCHANGED <<pi, daemonVars, bounds>>

MessageUpdate ==
    /\ pi = "up" /\ turn
    /\ updates < MaxUpdates /\ updates' = updates + 1
    /\ send("update", 0)
    /\ UNCHANGED <<piVars, daemonVars, faults>>

AgentEnd ==
    /\ pi = "up" /\ turn
    /\ turn' = FALSE
    /\ send("end", 0)
    /\ UNCHANGED <<pi, journal, daemonVars, bounds>>

SessionShutdown ==
    /\ pi = "up"
    /\ pi' = "leaving" /\ turn' = FALSE
    /\ send("shutdown", 0)
    /\ UNCHANGED <<journal, daemonVars, bounds>>

PiDies ==
    /\ pi # "dead"
    /\ pi' = "dead" /\ turn' = FALSE
    /\ queue' = <<>> /\ attempts' = 0 /\ posting' = None
    /\ IF pi = "up" THEN Fault ELSE UNCHANGED bounds
    /\ UNCHANGED <<journal, inst, nextId, daemonVars>>

\* A reload keeps the module, with a POST that may be under way; the instance
\* id, the event ids and the queue begin anew.
SessionStart(reason) ==
    /\ pi = IF reason = "reload" THEN "leaving" ELSE "dead"
    /\ inst < MaxInstances
    /\ pi' = "up"
    /\ inst' = inst + 1 /\ nextId' = 3 /\ attempts' = 0
    /\ LET First(id, kind) ==
               [inst |-> inst + 1, id |-> id, kind |-> kind, entry |-> 0, at |-> Len(journal)]
       IN  queue' = enqueuePayload(enqueuePayload(<<>>, First(1, reason)), First(2, "list"))
    /\ UNCHANGED <<turn, journal, posting, daemonVars, bounds>>

-----------------------------------------------------------------------------
(* The daemon: deciding about an event *)

\* claimPiExtensionInstance: an empty place, the same owner, a reload, or an
\* owner not heard of for two minutes.
Claims(m, e) ==
    m.owner \in {0, e.inst} \/ e.kind = "reload" \/ m.stale

\* Bug: only a step within one instance can be a gap.
GapOnlyWithin(m, e) ==
    LET last == IF e.inst = m.inst THEN m.id ELSE 0
    IN  [m EXCEPT !.inst = e.inst, !.id = e.id,
                  !.gap = @ \/ (last # 0 /\ e.id # last + 1)]

\* A new instance resets the cursor; another instance before it, a first id
\* other than 1, or a step over ids is a gap.
applyPiExtensionSequence(m, e) ==
    [m EXCEPT !.inst = e.inst, !.id = e.id,
              !.gap = \/ @
                      \/ e.inst = m.inst /\ e.id # m.id + 1
                      \/ e.inst # m.inst /\ (m.inst # 0 \/ e.id # 1)]

\* Bug: the last event again is not taken for a repeat.
OnlyOlder(m, e) == e.inst = m.inst /\ e.id < m.id

IsRepeat(m, e) == e.inst = m.inst /\ e.id <= m.id

\* What the mirror is after the checks every event passes.
Accepted(m, e) ==
    LET n == applyPiExtensionSequence([m EXCEPT !.owner = e.inst, !.stale = FALSE], e)
    IN  [n EXCEPT !.upTo = e.at,
                  !.covered = IF @ = None \/ e.kind \in {"reload", "startup"} THEN e.at ELSE @]

-----------------------------------------------------------------------------
(* The daemon: the JSONL mirror *)

Entries == 1 .. Len(journal)

\* markCurrentEntriesDeliveredSince: tool results always, what the assistant
\* said only on request.
DeliveredSince(mark) ==
    {e \in Entries : e > mark.since /\ (journal[e] = "tool" \/ mark.assistant)}

Known(m) == (1 .. m.start) \cup m.confirmed

\* flush and flushConfirmed: the relay has answered for all of the outbox.
Flushed(m) == [m EXCEPT !.outbox = {}]

\* Marks at once, and once more 2.5 seconds later.
markPiExtensionDelivered(m, mark) ==
    [m EXCEPT !.confirmed = @ \cup DeliveredSince(mark), !.marks = @ \cup {mark}]

\* Bug: what the mirror was told is believed in spite of a gap.
BelievedInAGap(m) == {e \in Entries : e > checkpoint /\ e \notin m.confirmed}

\* reconcilePiCanonicalHistory: the entries after the checkpoint of which
\* neither the relay nor, without a gap, the mirror says that they are there.
\* An entry that came as an event is not on the relay under its canonical id.
Missing(m) ==
    {e \in Entries : e > checkpoint /\ (m.gap \/ e \notin m.confirmed)}

-----------------------------------------------------------------------------
(* The daemon: handling an event *)

\* ensurePiSessionMirror: what lies behind the checkpoint is sent, and the
\* checkpoint moves when the relay has answered; else the mirror begins with a
\* gap.  sent: whether the relay's inventory was there to compare with.
NewMirror(gap, outbox) ==
    [owner |-> 0, stale |-> TRUE, inst |-> 0, id |-> 0, gap |-> gap, covered |-> None,
     start |-> Len(journal), confirmed |-> {}, outbox |-> outbox, marks |-> {},
     live |-> {}, upTo |-> 0]

ensurePiSessionMirror ==
    /\ daemon = "ready" /\ mirror = None
    /\ LET behind == {e \in Entries : e > checkpoint}
       IN  \/ /\ mirror' = NewMirror(FALSE, {})
              /\ relay' = relay \cup behind
              /\ checkpoint' = Len(journal)
              /\ UNCHANGED bounds
           \/ /\ behind # {}
              /\ Fault
              /\ \E outbox \in {{}, behind} : mirror' = NewMirror(TRUE, outbox)
              /\ UNCHANGED <<relay, checkpoint>>
    /\ UNCHANGED <<piVars, extVars, daemon, tasks, repeated>>

\* The next event of the chain, for which there is a mirror.
Handling(e) ==
    /\ daemon = "ready" /\ mirror # None
    /\ tasks # <<>> /\ e = Head(tasks)
    /\ tasks' = Tail(tasks)

Answer(e) == IF posting = e THEN PostAnswered ELSE UNCHANGED extVars

\* An event of somebody else, or one taken before: answered and forgotten.
Disregard(e) ==
    /\ Handling(e)
    /\ ~Claims(mirror, e) \/ IsRepeat(mirror, e)
    /\ mirror' = IF Claims(mirror, e)
                 THEN [mirror EXCEPT !.owner = e.inst, !.stale = FALSE] ELSE mirror
    /\ Answer(e)
    /\ UNCHANGED <<piVars, daemon, checkpoint, relay, repeated, bounds>>

Taking(e) ==
    /\ Handling(e)
    /\ Claims(mirror, e) /\ ~IsRepeat(mirror, e)
    /\ UNCHANGED <<piVars, daemon>>

TakeNote(e) ==
    /\ e.kind \in {"reload", "startup", "list", "update"}
    /\ Taking(e)
    /\ mirror' = Accepted(mirror, e)
    /\ Answer(e)
    /\ UNCHANGED <<checkpoint, relay, repeated, bounds>>

\* The relay answers, and the mirror marks the entry and every tool result of
\* the file; or it does not, and the envelope stays in the outbox.
TakeContent(e) ==
    /\ e.kind = "content"
    /\ Taking(e)
    /\ repeated' = IF e.entry \in mirror.live THEN repeated \cup {e.entry} ELSE repeated
    /\ LET m == Accepted([mirror EXCEPT !.live = @ \cup {e.entry},
                                        !.outbox = @ \cup {e.entry}], e)
           text == IF journal[e.entry] = "assistant" THEN {e.entry} ELSE {}
       IN  \/ /\ mirror' = markPiExtensionDelivered(
                     [Flushed(m) EXCEPT !.confirmed = @ \cup text],
                     [since |-> m.covered, assistant |-> FALSE])
              /\ relay' = relay \cup m.outbox
              /\ Answer(e)
              /\ UNCHANGED bounds
           \/ /\ mirror' = m
              /\ Fault
              /\ UNCHANGED <<relay, extVars>>
    /\ UNCHANGED checkpoint

\* agent_end, after the live envelopes are settled.  withText: text was still
\* pending, so that the whole file since covered is marked when there is no gap.
TakeEnd(e) ==
    /\ e.kind = "end"
    /\ Taking(e)
    /\ LET m == Accepted(mirror, e)
       IN  \E withText \in BOOLEAN :
             LET mark == [since |-> m.covered, assistant |-> ~m.gap]
                 n == IF withText THEN markPiExtensionDelivered(Flushed(m), mark) ELSE Flushed(m)
             IN  \/ /\ mirror' = [n EXCEPT !.gap = FALSE, !.covered = e.at]
                    /\ relay' = relay \cup m.outbox \cup Missing(n)
                    /\ checkpoint' = Len(journal)
                    /\ UNCHANGED bounds
                 \/ /\ mirror' = [n EXCEPT !.outbox = Missing(n)]
                    /\ relay' = relay \cup m.outbox
                    /\ Fault
                    /\ UNCHANGED checkpoint
                 \/ /\ mirror' = m
                    /\ Fault
                    /\ UNCHANGED <<relay, checkpoint>>
    /\ Answer(e)
    /\ UNCHANGED repeated

\* session_shutdown: with the outbox empty the mirror ends, else it stays.
TakeShutdown(e) ==
    /\ e.kind = "shutdown"
    /\ Taking(e)
    /\ LET m == Accepted(mirror, e)
       IN  \/ /\ mirror' = None
              /\ relay' = relay \cup m.outbox
              /\ Answer(e)
              /\ UNCHANGED bounds
           \/ /\ mirror' = m
              /\ Fault
              /\ UNCHANGED <<relay, extVars>>
    /\ UNCHANGED <<checkpoint, repeated>>

-----------------------------------------------------------------------------
(* The daemon: timers, and its own life *)

MarkAgain ==
    /\ mirror # None
    /\ \E mark \in mirror.marks :
          /\ ~ (DeliveredSince(mark) \subseteq mirror.confirmed)
          /\ mirror' = [mirror EXCEPT !.confirmed = @ \cup DeliveredSince(mark)]
    /\ UNCHANGED <<piVars, extVars, daemon, tasks, checkpoint, relay, repeated, bounds>>

\* The mirror's own poll, when the extension was silent for five seconds:
\* entries it does not know are sent, and confirmed when the relay answers.
tick ==
    /\ mirror # None
    /\ LET unknown == Entries \ Known(mirror)
       IN  /\ unknown # {}
           /\ mirror' = [Flushed(mirror) EXCEPT !.confirmed = @ \cup unknown]
           /\ relay' = relay \cup mirror.outbox \cup unknown
    /\ UNCHANGED <<piVars, extVars, daemon, tasks, checkpoint, repeated, bounds>>

\* The outbox is sent in the background too.
RelayAnswers ==
    /\ mirror # None /\ mirror.outbox # {}
    /\ mirror' = [mirror EXCEPT !.outbox = {}]
    /\ relay' = relay \cup mirror.outbox
    /\ UNCHANGED <<piVars, extVars, daemon, tasks, checkpoint, repeated, bounds>>

Silence ==
    /\ mirror # None /\ ~mirror.stale
    /\ Fault
    /\ mirror' = [mirror EXCEPT !.stale = TRUE]
    /\ UNCHANGED <<piVars, extVars, daemon, tasks, checkpoint, relay, repeated>>

DaemonStarts ==
    /\ daemon = "down"
    /\ daemon' = "starting"
    /\ UNCHANGED <<piVars, extVars, tasks, mirror, checkpoint, relay, repeated, bounds>>

HandlerReady ==
    /\ daemon = "starting"
    /\ daemon' = "ready"
    /\ UNCHANGED <<piVars, extVars, tasks, mirror, checkpoint, relay, repeated, bounds>>

\* What was only in memory is gone.
DaemonDies ==
    /\ daemon # "down"
    /\ daemon' = "down"
    /\ Fault
    /\ tasks' = <<>> /\ mirror' = None
    /\ UNCHANGED <<piVars, extVars, checkpoint, relay, repeated>>

-----------------------------------------------------------------------------

Extension ==
    \/ \E role \in Role : MessageEnd(role)
    \/ MessageUpdate \/ AgentEnd \/ SessionShutdown \/ PiDies
    \/ \E reason \in {"reload", "startup"} : SessionStart(reason)
    \/ drainQueue \/ PostFails

Event ==
    \E e \in ToSet(tasks) :
        \/ Disregard(e) \/ TakeNote(e) \/ TakeContent(e)
        \/ TakeEnd(e) \/ TakeShutdown(e)

Daemon ==
    \/ ensurePiSessionMirror \/ MarkAgain \/ tick \/ RelayAnswers \/ Silence
    \/ DaemonStarts \/ HandlerReady \/ DaemonDies

Next == Extension \/ Event \/ Daemon

Spec == Init /\ [][Next]_vars

-----------------------------------------------------------------------------
(* Properties *)

\* The relay holds every entry up to the checkpoint on disk, whatever was lost,
\* repeated or restarted: nothing behind it is ever looked at again
\* (agent_end in daemon/run.ts: an "unproven forward gap").
CheckpointIsProven == 1 .. checkpoint \subseteq relay

\* As long as a mirror has seen no gap, all that Pi wrote since it is covered
\* and before the last event is with the relay or on its way
\* (applyPiExtensionSequence).
HolesAreGaps ==
    mirror # None /\ ~mirror.gap /\ mirror.covered # None =>
        \A e \in Entries : mirror.covered < e /\ e <= mirror.upTo =>
            e \in relay \cup mirror.outbox

\* Retries, late copies and lost answers do not make a mirror send one entry
\* twice (drainQueue, applyPiExtensionSequence).
TakenOnce == repeated = {}

-----------------------------------------------------------------------------
(* The inductive invariant *)

\* The order in which events were sent; a mirror stands at the last it took.
Before(f, g) == f.inst < g.inst \/ (f.inst = g.inst /\ f.id < g.id)
NotAfter(f, g) == Before(f, g) \/ (f.inst = g.inst /\ f.id = g.id)
Ordered(s) == \A i, j \in DOMAIN s : i < j => NotAfter(s[i], s[j])

\* The events on their way, and the one that would be sent next.
Stream == ToSet(queue) \cup ToSet(tasks) \cup ({posting} \ {None})
Upcoming == [inst |-> inst, id |-> nextId, kind |-> "list", entry |-> 0, at |-> Len(journal)]

Sound(g) ==
    /\ g.inst >= 1 /\ g.id >= 1
    /\ Before(g, Upcoming)
    /\ g.kind = "content" => g.entry = g.at + 1

\* Nothing overtakes: what is retried, or still posted for an instance that was
\* replaced, is not after what is queued.
StreamInOrder ==
    /\ Ordered(queue) /\ Ordered(tasks)
    /\ \A f \in ToSet(tasks), g \in ToSet(queue) : NotAfter(f, g)
    /\ posting # None =>
          /\ \A f \in ToSet(tasks) : NotAfter(f, posting)
          /\ \A g \in ToSet(queue) : NotAfter(posting, g)

\* The file only grows, one entry between an event and the next of its
\* instance, and then the event is about that entry; an id names one event.
Consistent(f, g) ==
    /\ Before(f, g) => f.at <= g.at /\ (f.kind = "content" => f.entry <= g.at)
    /\ (f.inst = g.inst /\ g.id = f.id + 1) =>
          g.at = f.at \/ (f.kind = "content" /\ g.at = f.at + 1)
    /\ (f.inst = g.inst /\ f.id = g.id) => f = g

StreamInv ==
    /\ inst = 0 => pi = "dead" /\ journal = <<>>
    /\ \A g \in Stream : Sound(g)
    /\ StreamInOrder
    /\ \A f \in Stream, g \in Stream \cup {Upcoming} : Consistent(f, g)

\* What the relay holds, or will be sent before anything is believed of it.
Held(m) == relay \cup m.outbox

\* The mirror is behind the stream, what it took is in the file before the
\* next event, and an entry it would not hear of by the next id it holds.
MirrorInv ==
    mirror # None =>
        /\ \A g \in Stream : NotAfter(mirror, g)
        /\ Before(mirror, Upcoming)
        /\ mirror.upTo <= Len(journal)
        /\ mirror.confirmed \subseteq Entries
        /\ IF mirror.inst = 0 THEN mirror.covered = None /\ mirror.marks = {}
           ELSE mirror.covered \in 0 .. Len(journal)
        /\ \A g \in Stream \cup {Upcoming} :
              /\ Before(mirror, g) => \A x \in mirror.live : x <= g.at
              /\ (g.inst = mirror.inst /\ g.id = mirror.id + 1) =>
                    \/ g.at = mirror.upTo
                    \/ g.at = mirror.upTo + 1 /\ g.at \in Held(mirror)

HistoryInv ==
    /\ TypeOK
    /\ StreamInv
    /\ MirrorInv
    /\ HolesAreGaps
    /\ TakenOnce

\* Why the checkpoint is proven, when a turn begins after the last one's events.
EndIsLast == \A g \in Stream : g.kind = "end" => ~turn /\ g.at = Len(journal)

Proven(m, x) == x <= checkpoint \/ x \in Held(m)

\* What a mirror without a gap believes, and what its marks will make it
\* believe, is proven or later than its last proof.
BeliefIsProven ==
    mirror # None /\ ~mirror.gap =>
        /\ \A x \in mirror.confirmed :
              Proven(mirror, x) \/ (mirror.covered # None /\ x > mirror.covered)
        /\ mirror.covered # None =>
              \A mark \in mirror.marks, x \in Entries :
                  mark.since < x /\ x <= mirror.covered => Proven(mirror, x)

ProofInv ==
    /\ EndIsLast
    /\ BeliefIsProven
    /\ CheckpointIsProven
=============================================================================
