---------------------------- MODULE SessionClient ----------------------------
(***************************************************************************)
(* The session client of the computer side (ApiSessionClient) and the      *)
(* relay's message log it reads and writes.                                *)
(*                                                                         *)
(* The client learns of messages from socket pushes, which may be lost or  *)
(* late, and from paged fetches; it routes them to the command queue.  It  *)
(* writes its own messages through an outbox, in batches that may be       *)
(* retried, refused or handled after the client gave up on the answer.     *)
(* Callers of flushConfirmed wait until the outbox is known to be logged.  *)
(***************************************************************************)
EXTENDS Naturals, Sequences, FiniteSets

CONSTANTS
    PhoneKey,     \* localIds of the phone's messages
    Unreadable,   \* those that cannot be decrypted here
    OwnKey,       \* localIds of the client's own messages
    Content,      \* what an own message may say (its logical digest)
    Message,      \* pairs of key and content that callers may enqueue
    Flusher,      \* callers of flushConfirmed
    PageSize,     \* messages per fetched page
    BatchSize,    \* MAX_OUTBOX_BATCH_SIZE
    MaxLives,     \* bounds of the exploration
    MaxFaults,
    Online,       \* whether the socket may connect
    NoPage, NoPost, NoFetch, Unknown

ASSUME ClientAssumption ==
    /\ Unreadable \subseteq PhoneKey
    /\ PhoneKey \cap OwnKey = {}
    /\ Message \subseteq OwnKey \X Content
    /\ Online \in BOOLEAN
    /\ PageSize \in Nat \ {0}
    /\ BatchSize \in Nat \ {0}
    /\ MaxLives \in Nat \ {0}
    /\ MaxFaults \in Nat
    /\ Unknown \notin Content
    /\ NoPage \notin Nat

VARIABLES
    \* the relay
    log,           \* sessionMessage rows in the order of seq
    unemitted,     \* committed messages whose push was not delivered yet
    ghosts,        \* batches the client gave up on that may still arrive
    \* the client
    life,          \* which construction of the client this is
    connected,     \* the socket is up
    skipThrough,   \* skipMessagesThroughSeq
    receiveSeq,
    lastSeq,
    receiveSync,   \* "idle", "running" or "again" (InvalidateSync)
    fetch,         \* the page request under way
    pendingOutbox,
    sendSync,
    post,          \* the batch under way
    known,         \* knownRelayMessageDigests, of own messages
    conflicts,     \* pendingOutboxConflicts
    flusher,       \* where each caller of flushConfirmed stands
    \* history
    routed,        \* seqs handed on in this life
    asked,         \* own messages handed to enqueueMessage in this life
    owed,          \* how many of them each flusher waits for
    reported,      \* keys named by a SessionOutboxConflictError in this life
    \* bound
    faults

relayVars   == <<log, unemitted, ghosts>>
cursorVars  == <<receiveSeq, lastSeq>>
receiveVars == <<receiveSync, fetch, routed>>
sendVars    == <<pendingOutbox, sendSync, post>>
flushVars   == <<flusher, owed, conflicts, reported>>
vars == <<relayVars, life, connected, skipThrough, cursorVars, receiveVars,
          sendVars, known, flushVars, asked, faults>>

\* Two records have the same ciphertext exactly when they are equal: each life
\* encrypts a message anew, the phone posts in no life.
Own    == [key: OwnKey, content: Content, life: 1..MaxLives]
Phone  == [key: PhoneKey, content: {Unknown}, life: {0}]
Record == Own \cup Phone
Sync   == {"idle", "running", "again"}
Stage  == {"sent", "accepted", "refused"}

TypeOK ==
    /\ log \in Seq(Record)
    /\ unemitted \subseteq 1..Len(log)
    /\ \A b \in ghosts : b \in Seq(Own)
    /\ life \in 0..MaxLives
    /\ connected \in BOOLEAN
    /\ skipThrough \in Nat
    /\ receiveSeq \in 0..Len(log)
    /\ lastSeq \in 0..Len(log)
    /\ receiveSync \in Sync
    /\ \/ fetch = NoFetch
       \/ fetch \in [after: 0..Len(log), through: 0..Len(log) \cup {NoPage},
                    more: BOOLEAN]
    /\ pendingOutbox \in Seq(Own)
    /\ sendSync \in Sync
    /\ \/ post = NoPost
       \/ post \in [batch: Seq(Own), stage: Stage, hint: OwnKey \cup {Unknown}]
    /\ known \in [OwnKey -> Content \cup {Unknown}]
    /\ conflicts \subseteq OwnKey
    /\ flusher \in [Flusher -> {"idle", "waiting", "woken", "confirmed"}]
    /\ routed \subseteq 1..Len(log)
    /\ asked \in Seq(Own)
    /\ owed \in [Flusher -> Nat]
    /\ reported \subseteq OwnKey
    /\ faults \in 0..MaxFaults

Init ==
    /\ log = <<>>
    /\ unemitted = {}
    /\ ghosts = {}
    /\ life = 0
    /\ connected = FALSE
    /\ skipThrough = 0
    /\ receiveSeq = 0
    /\ lastSeq = 0
    /\ receiveSync = "idle"
    /\ fetch = NoFetch
    /\ pendingOutbox = <<>>
    /\ sendSync = "idle"
    /\ post = NoPost
    /\ known = [k \in OwnKey |-> Unknown]
    /\ conflicts = {}
    /\ flusher = [f \in Flusher |-> "idle"]
    /\ routed = {}
    /\ asked = <<>>
    /\ owed = [f \in Flusher |-> 0]
    /\ reported = {}
    /\ faults = 0

Elements(s) == {s[n] : n \in 1..Len(s)}
Keys(s)     == {s[n].key : n \in 1..Len(s)}

\* The elements of s at some of its places, in their order.  SelectSeq is
\* recursive, and nothing could be proved of it.
Picked(s, places) ==
    LET nth(j) == CHOOSE i \in places : Cardinality({h \in places : h <= i}) = j
    IN [j \in 1..Cardinality(places) |-> s[nth(j)]]

Smaller(a, b) == IF a <= b THEN a ELSE b
Larger(a, b)  == IF a >= b THEN a ELSE b

Fault ==
    /\ faults < MaxFaults
    /\ faults' = faults + 1

------------------------------------------------------------------------------
(* InvalidateSync: one run at a time, and one more when it was invalidated  *)
(* meanwhile.                                                              *)

\* Bug: an invalidation during a run is forgotten.
ForgottenWhileRunning(s) == IF s = "idle" THEN "running" ELSE s

Invalidated(s) == IF s = "idle" THEN "running" ELSE "again"

AfterRun(s) == IF s = "again" THEN "running" ELSE "idle"

------------------------------------------------------------------------------
(* The relay.                                                              *)

\* Bug: every message of a batch becomes a row.
AllRows(batch) == batch

\* Rows a batch asks for that are not there yet.
Fresh(batch) == Picked(batch, {i \in 1..Len(batch) : batch[i].key \notin Keys(log)})

\* Bug: the content of an existing row is not compared.
NothingTaken(batch) == {}

\* localIds of a batch that are taken by other content.
Taken(batch) ==
    {r.key : r \in {x \in Elements(batch) :
                        x.key \in Keys(log) /\ x \notin Elements(log)}}

\* One transaction: seqs are allocated and the rows created together.  The
\* pushes are emitted after it, one by one.
AppendRows(rows) ==
    /\ log' = log \o rows
    /\ unemitted' = unemitted \cup Len(log) + 1 .. Len(log) + Len(rows)

PhonePosts(k) ==
    /\ k \notin Keys(log)
    /\ AppendRows(<<[key |-> k, content |-> Unknown, life |-> 0]>>)
    /\ UNCHANGED <<ghosts, life, connected, skipThrough, cursorVars, receiveVars,
                   sendVars, known, flushVars, asked, faults>>

\* Nobody is connected when the push is emitted, or the socket breaks under it.
PushLost(n) ==
    /\ ~connected
    /\ n \in unemitted
    /\ unemitted' = unemitted \ {n}
    /\ UNCHANGED <<log, ghosts, life, connected, skipThrough, cursorVars,
                   receiveVars, sendVars, known, flushVars, asked, faults>>

\* A batch of which the client gave up arrives after all.
GhostArrives(batch) ==
    /\ batch \in ghosts
    /\ ghosts' = ghosts \ {batch}
    /\ IF Taken(batch) = {} THEN AppendRows(Fresh(batch)) ELSE UNCHANGED <<log, unemitted>>
    /\ UNCHANGED <<life, connected, skipThrough, cursorVars, receiveVars, sendVars,
                   known, flushVars, asked, faults>>

------------------------------------------------------------------------------
(* The life of a client.                                                   *)

\* A new client skips what the log held when the session was first mirrored;
\* the boundary of the first life is kept on disk.  Batches of its predecessor
\* may still be on their way.
NewLife ==
    /\ life < MaxLives
    /\ life' = life + 1
    /\ skipThrough' = IF life = 0 THEN Len(log) ELSE skipThrough
    /\ ghosts' = IF post # NoPost /\ post.stage = "sent"
                 THEN ghosts \cup {post.batch} ELSE ghosts
    /\ connected' = FALSE
    /\ receiveSeq' = 0
    /\ lastSeq' = 0
    /\ receiveSync' = "idle"
    /\ fetch' = NoFetch
    /\ pendingOutbox' = <<>>
    /\ sendSync' = "idle"
    /\ post' = NoPost
    /\ known' = [k \in OwnKey |-> Unknown]
    /\ conflicts' = {}
    /\ flusher' = [f \in Flusher |-> "idle"]
    /\ routed' = {}
    /\ asked' = <<>>
    /\ owed' = [f \in Flusher |-> 0]
    /\ reported' = {}
    /\ UNCHANGED <<log, unemitted, faults>>

Connect ==
    /\ Online
    /\ life > 0
    /\ ~connected
    /\ connected' = TRUE
    /\ receiveSync' = Invalidated(receiveSync)
    /\ UNCHANGED <<relayVars, life, skipThrough, cursorVars, fetch, routed, sendVars,
                   known, flushVars, asked, faults>>

Disconnect ==
    /\ connected
    /\ Fault
    /\ connected' = FALSE
    /\ UNCHANGED <<relayVars, life, skipThrough, cursorVars, receiveVars, sendVars,
                   known, flushVars, asked>>

------------------------------------------------------------------------------
(* Receiving.                                                              *)

Readable(n) == log[n].key \notin Unreadable

\* rememberRelayMessage, for the own messages among the given seqs.
Remembered(seqs) ==
    [k \in OwnKey |->
        IF \E n \in seqs : log[n].key = k
        THEN log[CHOOSE n \in seqs : log[n].key = k].content
        ELSE known[k]]

\* Bug: any push beyond the cursor is taken at once.
BeyondCursor(n) == n > receiveSeq

NextInOrder(n) == n = lastSeq + 1 /\ n = receiveSeq + 1

PushArrives(n) ==
    /\ connected
    /\ n \in unemitted
    /\ unemitted' = unemitted \ {n}
    /\ \/ /\ ~NextInOrder(n)
          /\ receiveSync' = Invalidated(receiveSync)
          /\ UNCHANGED <<cursorVars, routed, known>>
       \/ /\ NextInOrder(n)
          /\ Readable(n)
          /\ receiveSeq' = n
          /\ lastSeq' = n
          /\ routed' = routed \cup {n}
          /\ known' = Remembered({n})
          /\ UNCHANGED receiveSync
       \/ /\ NextInOrder(n)
          /\ ~Readable(n)             \* decryption throws
          /\ UNCHANGED <<cursorVars, receiveSync, routed, known>>
    /\ UNCHANGED <<log, ghosts, life, connected, skipThrough, fetch, sendVars,
                   flushVars, asked, faults>>

StartFetch ==
    /\ receiveSync # "idle"
    /\ fetch = NoFetch
    /\ fetch' = [after |-> receiveSeq, through |-> NoPage, more |-> FALSE]
    /\ UNCHANGED <<relayVars, life, connected, skipThrough, cursorVars, receiveSync,
                   routed, sendVars, known, flushVars, asked, faults>>

\* Bug: the cursor moves by the size of a page.
FullPage(after) == after + PageSize

PageEnd(after) == Smaller(after + PageSize, Len(log))

\* The relay answers with what the log holds now.
ServePage ==
    /\ fetch # NoFetch
    /\ fetch.through = NoPage
    /\ LET through == PageEnd(fetch.after)
       IN fetch' = [fetch EXCEPT !.through = through, !.more = through < Len(log)]
    /\ UNCHANGED <<relayVars, life, connected, skipThrough, cursorVars, receiveSync,
                   routed, sendVars, known, flushVars, asked, faults>>

\* One page, handled in one turn of the event loop.
HandlePage ==
    /\ fetch # NoFetch
    /\ fetch.through # NoPage
    /\ LET page == {n \in fetch.after + 1 .. fetch.through : Readable(n)}
       IN /\ routed' = routed \cup {n \in page : n > skipThrough}
          /\ known' = Remembered(page)
    /\ receiveSeq' = Larger(receiveSeq, fetch.through)
    /\ lastSeq' = Larger(lastSeq, fetch.through)
    /\ IF fetch.more
       THEN /\ fetch' = [after |-> fetch.through, through |-> NoPage, more |-> FALSE]
            /\ UNCHANGED receiveSync
       ELSE /\ fetch' = NoFetch
            /\ receiveSync' = AfterRun(receiveSync)
    /\ UNCHANGED <<relayVars, life, connected, skipThrough, sendVars, flushVars,
                   asked, faults>>

\* backoff starts fetchMessages over.
FetchFails ==
    /\ fetch # NoFetch
    /\ Fault
    /\ fetch' = NoFetch
    /\ UNCHANGED <<relayVars, life, connected, skipThrough, cursorVars, receiveSync,
                   routed, sendVars, known, flushVars, asked>>

------------------------------------------------------------------------------
(* Sending.                                                                *)

Without(keys) ==
    Picked(pendingOutbox, {i \in 1..Len(pendingOutbox) : pendingOutbox[i].key \notin keys})

EnqueueMessage(k, c) ==
    LET m       == [key |-> k, content |-> c, life |-> life]
        pending == {x \in Elements(pendingOutbox) : x.key = k}
        clashes == \/ known[k] \notin {Unknown, c}
                   \/ known[k] = Unknown /\ \E x \in pending : x.content # c
    IN /\ life > 0
       /\ m \notin Elements(asked)
       /\ asked' = Append(asked, m)
       /\ pendingOutbox' = IF known[k] = Unknown /\ pending = {}
                           THEN Append(pendingOutbox, m) ELSE pendingOutbox
       /\ conflicts' = IF clashes THEN conflicts \cup {k} ELSE conflicts
       /\ sendSync' = Invalidated(sendSync)
       /\ UNCHANGED <<relayVars, life, connected, skipThrough, cursorVars, receiveVars,
                      post, known, flusher, owed, reported, faults>>

\* Bug: the newest messages leave first.
NewestBatch ==
    SubSeq(pendingOutbox, 1 + Len(pendingOutbox) - Smaller(BatchSize, Len(pendingOutbox)),
           Len(pendingOutbox))

OldestBatch == SubSeq(pendingOutbox, 1, Smaller(BatchSize, Len(pendingOutbox)))

SendBatch ==
    /\ sendSync # "idle"
    /\ post = NoPost
    /\ pendingOutbox # <<>>
    /\ post' = [batch |-> OldestBatch, stage |-> "sent", hint |-> Unknown]
    /\ UNCHANGED <<relayVars, life, connected, skipThrough, cursorVars, receiveVars,
                   pendingOutbox, sendSync, known, flushVars, asked, faults>>

\* A localId that is taken by other content refuses the batch as a whole.
RelayHandlesBatch ==
    /\ post # NoPost
    /\ post.stage = "sent"
    /\ \/ /\ Taken(post.batch) = {}
          /\ AppendRows(Fresh(post.batch))
          /\ post' = [post EXCEPT !.stage = "accepted"]
       \/ /\ \E k \in Taken(post.batch) :
                post' = [post EXCEPT !.stage = "refused", !.hint = k]
          /\ UNCHANGED <<log, unemitted>>
    /\ UNCHANGED <<ghosts, life, connected, skipThrough, cursorVars, receiveVars,
                   pendingOutbox, sendSync, known, flushVars, asked, faults>>

\* The request or its answer is lost; backoff starts flushOutbox over.
PostFails ==
    /\ post # NoPost
    /\ Fault
    /\ post' = NoPost
    /\ ghosts' = IF post.stage = "sent" THEN ghosts \cup {post.batch} ELSE ghosts
    /\ UNCHANGED <<log, unemitted, life, connected, skipThrough, cursorVars,
                   receiveVars, pendingOutbox, sendSync, known, flushVars, asked>>

SeqsOf(batch) == {n \in 1..Len(log) : log[n].key \in Keys(batch)}

BatchAccepted ==
    /\ post # NoPost
    /\ post.stage = "accepted"
    /\ post' = NoPost
    /\ lastSeq' = CHOOSE s \in SeqsOf(post.batch) \cup {lastSeq} :
                      \A n \in SeqsOf(post.batch) \cup {lastSeq} : n <= s
    /\ known' = [k \in OwnKey |->
                    IF k \in Keys(post.batch)
                    THEN (CHOOSE m \in Elements(post.batch) : m.key = k).content
                    ELSE known[k]]
    /\ pendingOutbox' = Without(Keys(post.batch))
    /\ UNCHANGED <<relayVars, life, connected, skipThrough, receiveSeq, receiveVars,
                   sendSync, flushVars, asked, faults>>

\* The inventory reads the log from its start and gives up on a message it
\* cannot decrypt: how far it may get.
InventoryReach == {n \in 0..Len(log) : \A i \in 1..n : Readable(i)}

\* Bug: a refused batch is simply sent again.
RefusalIgnored == UNCHANGED <<known, conflicts, pendingOutbox>>

\* What the inventory finds logged is delivered; a clash is kept for the next
\* caller of flushConfirmed.
Reconcile ==
    LET now    == Remembered(InventoryReach \ {0})
        logged == {m \in Elements(post.batch) : now[m.key] # Unknown}
    IN /\ known' = now
       /\ conflicts' = conflicts \cup {m.key : m \in {x \in logged : now[x.key] # x.content}}
       /\ pendingOutbox' = Without({m.key : m \in logged})

\* Bug: the message is given up and nobody is told.
SilentQuarantine(n) ==
    /\ known' = Remembered(1..n)
    /\ pendingOutbox' = Without({post.hint})
    /\ UNCHANGED conflicts

\* When the inventory ended after n messages, the message the relay named is
\* given up.
Quarantine(n) ==
    /\ known' = Remembered(1..n)
    /\ conflicts' = conflicts \cup {post.hint}
    /\ pendingOutbox' = Without({post.hint})

BatchRefused ==
    /\ post # NoPost
    /\ post.stage = "refused"
    /\ \/ /\ Len(log) \in InventoryReach
          /\ Reconcile
          /\ UNCHANGED faults
       \/ \E n \in InventoryReach :
             /\ Quarantine(n)
             /\ \/ n < Len(log) /\ ~Readable(n + 1) /\ UNCHANGED faults
                \/ Fault
    /\ post' = NoPost
    /\ UNCHANGED <<relayVars, life, connected, skipThrough, cursorVars, receiveVars,
                   sendSync, flusher, owed, reported, asked>>

\* flushOutbox returns.  Waiters are told when no further run is due.
OutboxEmpty ==
    /\ sendSync # "idle"
    /\ post = NoPost
    /\ pendingOutbox = <<>>
    /\ sendSync' = AfterRun(sendSync)
    /\ flusher' = [f \in Flusher |->
                      IF sendSync = "running" /\ flusher[f] = "waiting"
                      THEN "woken" ELSE flusher[f]]
    /\ UNCHANGED <<relayVars, life, connected, skipThrough, cursorVars, receiveVars,
                   pendingOutbox, post, known, owed, conflicts, reported, asked, faults>>

------------------------------------------------------------------------------
(* flushConfirmed.                                                         *)

FlushCalled(f) ==
    /\ life > 0
    /\ flusher[f] \in {"idle", "confirmed"}
    /\ owed[f] < Len(asked)
    /\ flusher' = [flusher EXCEPT ![f] = "waiting"]
    /\ owed' = [owed EXCEPT ![f] = Len(asked)]
    /\ sendSync' = Invalidated(sendSync)
    /\ UNCHANGED <<relayVars, life, connected, skipThrough, cursorVars, receiveVars,
                   pendingOutbox, post, known, conflicts, reported, asked, faults>>

\* The deadline passes: the caller fails, the outbox goes on.
FlushTimesOut(f) ==
    /\ flusher[f] = "waiting"
    /\ flusher' = [flusher EXCEPT ![f] = "idle"]
    /\ UNCHANGED <<relayVars, life, connected, skipThrough, cursorVars, receiveVars,
                   sendVars, known, owed, conflicts, reported, asked, faults>>

FlushReturns(f) ==
    /\ flusher[f] = "woken"
    /\ flusher' = [flusher EXCEPT ![f] = IF pendingOutbox = <<>> /\ conflicts = {}
                                           THEN "confirmed" ELSE "idle"]
    /\ IF pendingOutbox = <<>>
       THEN conflicts' = {} /\ reported' = reported \cup conflicts
       ELSE UNCHANGED <<conflicts, reported>>
    /\ UNCHANGED <<relayVars, life, connected, skipThrough, cursorVars, receiveVars,
                   sendVars, known, owed, asked, faults>>

------------------------------------------------------------------------------

Receive ==
    \/ \E n \in unemitted : PushArrives(n)
    \/ StartFetch
    \/ ServePage
    \/ HandlePage
    \/ FetchFails

Send ==
    \/ \E m \in Message : EnqueueMessage(m[1], m[2])
    \/ SendBatch
    \/ RelayHandlesBatch
    \/ PostFails
    \/ BatchAccepted
    \/ BatchRefused
    \/ OutboxEmpty

Flush ==
    \E f \in Flusher : FlushCalled(f) \/ FlushTimesOut(f) \/ FlushReturns(f)

Next ==
    \/ \E k \in PhoneKey : PhonePosts(k)
    \/ \E n \in unemitted : PushLost(n)
    \/ \E batch \in ghosts : GhostArrives(batch)
    \/ NewLife
    \/ Connect
    \/ Disconnect
    \/ Receive
    \/ Send
    \/ Flush

Spec == Init /\ [][Next]_vars

(* Fairness: the client reconnects by timer, backoff retries without end,   *)
(* and a relay that is reached answers.                                     *)
Fairness ==
    /\ WF_vars(Connect)
    /\ WF_vars(\E n \in unemitted : PushArrives(n))
    /\ WF_vars(StartFetch)
    /\ WF_vars(ServePage)
    /\ WF_vars(HandlePage)
    /\ WF_vars(SendBatch)
    /\ WF_vars(RelayHandlesBatch)
    /\ WF_vars(BatchAccepted)
    /\ WF_vars(BatchRefused)
    /\ WF_vars(OutboxEmpty)

FairSpec == Spec /\ Fairness

------------------------------------------------------------------------------
(* Properties.                                                             *)

\* The log never holds two rows of one localId, whatever batches are retried or
\* arrive late (POST /v3/sessions/:sessionId/messages).
LoggedOnce ==
    \A m, n \in 1..Len(log) : log[m].key = log[n].key => m = n

Logged(k, c) == \E n \in 1..Len(log) : log[n].key = k /\ log[n].content = c

\* What the client holds for logged is logged, with the content it believes
\* (knownRelayMessageDigests decides which history is never sent again).
KnownIsLogged ==
    \A k \in OwnKey : known[k] # Unknown => Logged(k, known[k])

\* What this life asked for stands in s in the order in which it was asked for.
InAskedOrder(s) ==
    \A m, n \in 1..Len(s), i, j \in 1..Len(asked) :
        (m < n /\ s[m] = asked[i] /\ s[n] = asked[j]) => i < j

\* Messages of one life are logged in the order in which they were enqueued
\* (flushOutbox: relay seq must match the conversation order).
OutboxInOrder == InAskedOrder(log)

\* When flushConfirmed returns, everything enqueued before the call is in the
\* log, or a caller was told of its conflict.
FlushMeansLogged ==
    \A f \in Flusher : flusher[f] = "confirmed" =>
        \A i \in 1..owed[f] :
            asked[i].key \in reported \/ Logged(asked[i].key, asked[i].content)

\* No gap: what the receive cursor has passed was routed, and a message is
\* routed only when everything before it was (update handler, fetchMessages).
RoutedWithoutGap ==
    /\ routed \subseteq 1..receiveSeq
    /\ \A n \in skipThrough + 1 .. receiveSeq : Readable(n) => n \in routed

Unrouted == {n \in skipThrough + 1 .. Len(log) : Readable(n)} \ routed

\* A client that lives on routes every message above its boundary that it can
\* read, though pushes are lost and fetches fail (receiveSync).
EveryMessageRouted == (life = MaxLives /\ Unrouted # {}) ~> Unrouted = {}

\* A client that lives on empties its outbox in the end, though batches are
\* refused for messages an earlier life logged (reconcileOutboxConflict).  The relay
\* is assumed to refuse with a conflict only: flushOutbox repeats what is refused
\* otherwise (400, 404) for ever.
OutboxDrains == (life = MaxLives /\ pendingOutbox # <<>>) ~> pendingOutbox = <<>>

------------------------------------------------------------------------------
(* The inductive invariant.                                                *)

DistinctKeys(s) == \A m, n \in 1..Len(s) : s[m].key = s[n].key => m = n

\* No batch asks for one localId twice, and neither does what is to be sent.
BatchesDistinct ==
    /\ DistinctKeys(pendingOutbox)
    /\ post # NoPost => DistinctKeys(post.batch)
    /\ \A batch \in ghosts : DistinctKeys(batch)

\* An accepted batch is in the log as it was sent; a refusal names a message.
AnswerSound ==
    post # NoPost =>
        /\ post.stage = "accepted" => Elements(post.batch) \subseteq Elements(log)
        /\ post.stage = "refused" => post.hint \in OwnKey

\* What was asked for waits in the outbox until it is logged or a conflict of it
\* is to be reported; a batch under way is still there.
AskedIsKept ==
    /\ \A i \in 1..Len(asked) :
          \/ asked[i].key \in conflicts \cup reported
          \/ Logged(asked[i].key, asked[i].content)
          \/ \E m \in Elements(pendingOutbox) :
                m.key = asked[i].key /\ m.content = asked[i].content
    /\ post # NoPost => Elements(post.batch) \subseteq Elements(pendingOutbox)
    /\ \A f \in Flusher : owed[f] <= Len(asked)

\* A page begins where the cursor is or was.
FetchSound == fetch # NoFetch => fetch.after <= receiveSeq

IInv ==
    /\ TypeOK
    /\ LoggedOnce
    /\ KnownIsLogged
    /\ RoutedWithoutGap
    /\ BatchesDistinct
    /\ AnswerSound
    /\ AskedIsKept
    /\ FlushMeansLogged
    /\ FetchSound

------------------------------------------------------------------------------
(* The invariant that keeps the order, inductive together with IInv.       *)

Unlogged(m) == m.key \notin Keys(log)

\* Every record of this life is a message it asked for, each asked once.
LivesSound ==
    /\ \A i, j \in 1..Len(asked) : asked[i] = asked[j] => i = j
    /\ \A i \in 1..Len(asked) : asked[i].life = life
    /\ \A m \in Elements(log) \cup UNION {Elements(batch) : batch \in ghosts} :
          /\ m.life <= life
          /\ m.life = life /\ m.key \in OwnKey => m \in Elements(asked)

\* A batch that reaches the relay skips no message of the outbox which was asked
\* for before one of its own and is not logged yet.
SkipsNothing(batch) ==
    \A i \in 1..Len(asked) :
        asked[i] \in Elements(batch) /\ Unlogged(asked[i]) =>
            /\ asked[i] \in Elements(pendingOutbox)
            /\ \A j \in 1..Len(asked) :
                  j < i /\ asked[j] \in Elements(pendingOutbox) /\ Unlogged(asked[j])
                      => asked[j] \in Elements(batch)

BatchesInOrder ==
    /\ Elements(pendingOutbox) \subseteq Elements(asked)
    /\ InAskedOrder(pendingOutbox)
    /\ post # NoPost => InAskedOrder(post.batch) /\ SkipsNothing(post.batch)
    /\ \A batch \in ghosts : InAskedOrder(batch) /\ SkipsNothing(batch)
    /\ post # NoPost /\ post.stage = "refused" => post.hint \in Keys(log)

\* What is still to be logged was asked for after all that is.
LoggedFirst ==
    \A i, j \in 1..Len(asked) :
        (/\ asked[i] \in Elements(log)
         /\ asked[j] \in Elements(pendingOutbox)
         /\ Unlogged(asked[j])) => i < j

OrderInv == LivesSound /\ BatchesInOrder /\ LoggedFirst /\ OutboxInOrder
==============================================================================
