-------------------------- MODULE LiveHistory_proofs ---------------------------
(***************************************************************************)
(* Proofs about LiveHistory, for any limits of the queue, the attempts and *)
(* the pending events, and any number of entries, instances and faults:    *)
(* the stream of events keeps its order, a mirror knows what it missed and *)
(* takes nothing twice, and the checkpoint is proven.                      *)
(***************************************************************************)
EXTENDS LiveHistory, FiniteSetTheorems, SequenceTheorems, TLAPS

------------------------------------------------------------------------------
(* Sequences of events.                                                     *)

\* A set of natural numbers has a least element.
LEMMA LeastIsFound ==
    ASSUME NEW I \in SUBSET Nat, I # {}
    PROVE  Min(I) \in I
<1> DEFINE Below(x) == 0 .. x - 1
           T == {Below(x) : x \in I}
<1>1. T \subseteq FiniteSubsetsOf(Nat) /\ T # {}
  <2>1. \A x \in I : Below(x) \subseteq Nat /\ IsFiniteSet(Below(x))
    BY FS_Interval
  <2> QED
    BY <2>1 DEF FiniteSubsetsOf
<1>2. PICK t \in T : \A u \in T : <<u, t>> \notin StrictSubsetOrdering(Nat)
  <2> HIDE DEF T
  <2> QED
    BY <1>1, FS_StrictSubsetOrderingWellFounded, WFMin
<1>3. PICK x \in I : t = Below(x)
    OBVIOUS
<1>4. ASSUME NEW y \in I PROVE x <= y
  <2> SUFFICES ASSUME y < x PROVE FALSE
    OBVIOUS
  <2>1. Below(y) \subseteq Below(x) /\ y \in Below(x) /\ y \notin Below(y)
    OBVIOUS
  <2>2. Below(y) \subseteq Nat /\ Below(x) \subseteq Nat
    OBVIOUS
  <2>3. Below(y) \in T
    OBVIOUS
  <2> HIDE DEF T, Below
  <2>4. <<Below(y), Below(x)>> \in StrictSubsetOrdering(Nat)
    BY <2>1, <2>2 DEF StrictSubsetOrdering
  <2> QED
    BY <1>2, <1>3, <2>3, <2>4
<1> QED
    BY <1>4 DEF Min

\* An event goes to the end, over the place of one that is dropped for it, or
\* is refused.
LEMMA EnqueueCases ==
    ASSUME NEW q \in Seq(Payload), NEW e
    PROVE  \/ Len(q) < MaxQueued /\ enqueuePayload(q, e) = Append(q, e)
           \/ \E i \in 1..Len(q) : enqueuePayload(q, e) = Append(RemoveAt(q, i), e)
           \/ enqueuePayload(q, e) = q
<1> DEFINE I == {i \in 1..Len(q) : q[i].kind = "update"}
<1>1. CASE I = {}
    BY <1>1 DEF enqueuePayload, SelectInSeq
<1>2. CASE I # {}
  <2>1. Min(I) \in 1..Len(q)
    <3>1. I \in SUBSET Nat /\ I \subseteq 1..Len(q)
      OBVIOUS
    <3> HIDE DEF I
    <3> QED
      BY <1>2, <3>1, LeastIsFound
  <2>2. enqueuePayload(q, e) = IF Len(q) < MaxQueued THEN Append(q, e)
                               ELSE IF Min(I) > 0 THEN Append(RemoveAt(q, Min(I)), e)
                               ELSE q
    BY <1>2 DEF enqueuePayload, SelectInSeq
  <2> HIDE DEF I
  <2> QED
    BY <2>1, <2>2
<1> QED
    BY <1>1, <1>2

\* What is put at the end comes after everything that is there.
LEMMA AppendFacts ==
    ASSUME NEW s \in Seq(Payload), NEW e \in Payload
    PROVE  /\ Append(s, e) \in Seq(Payload) /\ Len(Append(s, e)) = Len(s) + 1
           /\ ToSet(Append(s, e)) = ToSet(s) \cup {e}
           /\ (Ordered(s) /\ \A f \in ToSet(s) : NotAfter(f, e)) => Ordered(Append(s, e))
<1>1. /\ Append(s, e) \in Seq(Payload) /\ Len(Append(s, e)) = Len(s) + 1 /\ Len(s) \in Nat
      /\ DOMAIN s = 1..Len(s) /\ DOMAIN Append(s, e) = 1..Len(s) + 1
      /\ \A i \in 1..Len(s) : Append(s, e)[i] = s[i]
      /\ Append(s, e)[Len(s) + 1] = e
    OBVIOUS
<1> DEFINE t == Append(s, e)
<1> HIDE DEF t
<1>2. ToSet(t) = ToSet(s) \cup {e}
  <2>1. ToSet(t) \subseteq ToSet(s) \cup {e}
    BY <1>1 DEF ToSet, t
  <2>2. Len(s) + 1 \in DOMAIN t /\ \A i \in DOMAIN s : i \in DOMAIN t /\ t[i] = s[i]
    BY <1>1 DEF t
  <2>3. ToSet(s) \cup {e} \subseteq ToSet(t)
    BY <1>1, <2>2 DEF ToSet, t
  <2> QED
    BY <2>1, <2>3
<1>3. ASSUME Ordered(s), \A f \in ToSet(s) : NotAfter(f, e) PROVE Ordered(t)
  <2> SUFFICES ASSUME NEW i \in 1..Len(s) + 1, NEW j \in 1..Len(s) + 1, i < j
               PROVE  NotAfter(t[i], t[j])
    BY <1>1 DEF Ordered, t
  <2>1. i \in 1..Len(s) /\ t[i] = s[i] /\ s[i] \in ToSet(s)
    BY <1>1 DEF ToSet, t
  <2> QED
    BY <1>1, <1>3, <2>1 DEF Ordered, t
<1> QED
    BY <1>1, <1>2, <1>3 DEF t

\* Without its head an ordered sequence is ordered, and the head is not after
\* any of it.
LEMMA TailFacts ==
    ASSUME NEW s \in Seq(Payload), s # <<>>
    PROVE  /\ Tail(s) \in Seq(Payload) /\ Len(Tail(s)) <= Len(s)
           /\ ToSet(Tail(s)) \subseteq ToSet(s)
           /\ Head(s) \in ToSet(s) /\ Head(s) \in Payload
           /\ Ordered(s) => /\ Ordered(Tail(s))
                            /\ \A g \in ToSet(s) : NotAfter(Head(s), g)
<1>1. /\ Tail(s) \in Seq(Payload) /\ Len(Tail(s)) = Len(s) - 1 /\ Len(s) \in Nat \ {0}
      /\ DOMAIN s = 1..Len(s) /\ DOMAIN Tail(s) = 1..Len(s) - 1
      /\ \A i \in 1..Len(s) - 1 : Tail(s)[i] = s[i + 1]
      /\ Head(s) = s[1] /\ Head(s) \in Payload
    OBVIOUS
<1> DEFINE t == Tail(s)
<1> HIDE DEF t
<1>2. ToSet(t) \subseteq ToSet(s)
  <2>1. \A i \in DOMAIN t : i + 1 \in DOMAIN s /\ t[i] = s[i + 1]
    BY <1>1 DEF t
  <2> QED
    BY <2>1 DEF ToSet
<1>3. Head(s) \in ToSet(s)
    BY <1>1 DEF ToSet
<1>4. ASSUME Ordered(s) PROVE Ordered(t) /\ \A g \in ToSet(s) : NotAfter(Head(s), g)
  <2>1. \A i, j \in 1..Len(s) - 1 : i < j => NotAfter(s[i + 1], s[j + 1])
    BY <1>1, <1>4 DEF Ordered
  <2>2. Ordered(t)
    BY <1>1, <2>1 DEF Ordered, t
  <2>3. ASSUME NEW i \in 1..Len(s) PROVE NotAfter(s[1], s[i])
    <3>1. CASE i = 1
      BY <3>1 DEF NotAfter
    <3>2. CASE i # 1
      BY <1>1, <1>4, <3>2 DEF Ordered
    <3> QED
      BY <3>1, <3>2
  <2> QED
    BY <1>1, <2>2, <2>3 DEF ToSet
<1> QED
    BY <1>1, <1>2, <1>3, <1>4 DEF t

\* Dropping one event keeps the order of the others.
LEMMA RemoveFacts ==
    ASSUME NEW s \in Seq(Payload), NEW n \in 1..Len(s)
    PROVE  /\ RemoveAt(s, n) \in Seq(Payload) /\ Len(RemoveAt(s, n)) = Len(s) - 1
           /\ ToSet(RemoveAt(s, n)) \subseteq ToSet(s)
           /\ Ordered(s) => Ordered(RemoveAt(s, n))
<1> DEFINE t == RemoveAt(s, n)
           a == SubSeq(s, 1, n - 1)
           b == SubSeq(s, n + 1, Len(s))
           At(i) == IF i < n THEN i ELSE i + 1
<1>1. Len(s) \in Nat /\ DOMAIN s = 1..Len(s)
    OBVIOUS
<1>2. /\ a \in Seq(Payload) /\ Len(a) = n - 1 /\ \A i \in 1..n - 1 : a[i] = s[i]
      /\ b \in Seq(Payload) /\ Len(b) = Len(s) - n /\ \A i \in 1..Len(s) - n : b[i] = s[n + i]
    OBVIOUS
<1>3. t = a \o b
    BY DEF RemoveAt
<1> HIDE DEF t, a, b
<1>4. /\ t \in Seq(Payload) /\ Len(t) = Len(s) - 1 /\ DOMAIN t = 1..Len(s) - 1
      /\ \A i \in 1..Len(s) - 1 : t[i] = s[At(i)]
  <2>1. /\ t \in Seq(Payload) /\ Len(t) = Len(s) - 1
        /\ \A i \in 1..Len(s) - 1 : t[i] = IF i <= n - 1 THEN a[i] ELSE b[i - (n - 1)]
    <3>1. /\ a \o b \in Seq(Payload) /\ Len(a \o b) = Len(a) + Len(b)
          /\ \A i \in 1 .. Len(a) + Len(b) :
                (a \o b)[i] = IF i <= Len(a) THEN a[i] ELSE b[i - Len(a)]
      BY <1>2, ConcatProperties
    <3>2. Len(a) = n - 1 /\ Len(a) + Len(b) = Len(s) - 1
      BY <1>1, <1>2
    <3> QED
      BY <1>3, <3>1, <3>2
  <2>2. ASSUME NEW i \in 1..Len(s) - 1 PROVE t[i] = s[At(i)]
    <3>1. CASE i <= n - 1
      BY <1>2, <2>1, <3>1
    <3>2. CASE i > n - 1
      <4>1. i - (n - 1) \in 1..Len(s) - n /\ n + (i - (n - 1)) = i + 1
        BY <1>1, <3>2
      <4> QED
        BY <1>2, <2>1, <3>2, <4>1
    <3> QED
      BY <3>1, <3>2
  <2> QED
    BY <2>1, <2>2
<1>5. \A i \in 1..Len(s) - 1 : At(i) \in 1..Len(s)
    BY <1>1
<1>6. \A i, j \in 1..Len(s) - 1 : i < j => At(i) < At(j)
    BY <1>1
<1> HIDE DEF At
<1>7. ToSet(t) \subseteq ToSet(s)
    BY <1>1, <1>4, <1>5 DEF ToSet
<1>8. Ordered(s) => Ordered(t)
    BY <1>1, <1>4, <1>5, <1>6 DEF Ordered
<1> QED
    BY <1>4, <1>7, <1>8 DEF t

\* A queue keeps its limit and its order (enqueuePayload).
LEMMA EnqueueFacts ==
    ASSUME NEW q \in Seq(Payload), NEW e \in Payload, Len(q) <= MaxQueued
    PROVE  /\ enqueuePayload(q, e) \in Seq(Payload)
           /\ Len(enqueuePayload(q, e)) <= MaxQueued
           /\ ToSet(enqueuePayload(q, e)) \subseteq ToSet(q) \cup {e}
           /\ (Ordered(q) /\ \A f \in ToSet(q) : NotAfter(f, e)) => Ordered(enqueuePayload(q, e))
<1>0. Len(q) \in Nat /\ MaxQueued \in Nat
    BY LimitAssumption
<1>1. CASE Len(q) < MaxQueued /\ enqueuePayload(q, e) = Append(q, e)
    BY <1>0, <1>1, AppendFacts
<1>2. ASSUME NEW i \in 1..Len(q), enqueuePayload(q, e) = Append(RemoveAt(q, i), e)
      PROVE  /\ enqueuePayload(q, e) \in Seq(Payload)
             /\ Len(enqueuePayload(q, e)) <= MaxQueued
             /\ ToSet(enqueuePayload(q, e)) \subseteq ToSet(q) \cup {e}
             /\ (Ordered(q) /\ \A f \in ToSet(q) : NotAfter(f, e)) => Ordered(enqueuePayload(q, e))
  <2>1. /\ RemoveAt(q, i) \in Seq(Payload) /\ Len(RemoveAt(q, i)) = Len(q) - 1
        /\ ToSet(RemoveAt(q, i)) \subseteq ToSet(q)
        /\ Ordered(q) => Ordered(RemoveAt(q, i))
    BY RemoveFacts
  <2> QED
    BY <1>0, <1>2, <2>1, AppendFacts
<1>3. CASE enqueuePayload(q, e) = q
    BY <1>3
<1> QED
    BY <1>1, <1>2, <1>3, EnqueueCases

------------------------------------------------------------------------------
(* The stream and the mirror.                                               *)

\* Every event has an instance, an id and a place in the file.
LEMMA EventTypes ==
    \A g \in Payload : /\ g.inst \in Nat /\ g.id \in Nat /\ g.kind \in Kind
                       /\ g.entry \in 0 .. MaxEntries /\ g.at \in 0 .. MaxEntries
                       /\ g # None
BY NoneAssumption DEF Payload

\* Events, the one to come and the file have their types.
LEMMA StreamTypes ==
    ASSUME TypeOK
    PROVE  /\ Stream \subseteq Payload /\ Upcoming \in Payload
           /\ Len(journal) \in Nat /\ Len(journal) <= MaxEntries /\ MaxEntries \in Nat
           /\ Entries \subseteq Entry
           /\ posting # None => posting \in Payload
           /\ inst \in Nat /\ nextId \in Nat
<1>1. ToSet(queue) \subseteq Payload /\ ToSet(tasks) \subseteq Payload
    BY DEF TypeOK, ToSet
<1>2. Len(journal) \in Nat /\ Len(journal) <= MaxEntries /\ MaxEntries \in Nat
      /\ inst \in Nat /\ nextId \in Nat
    BY BoundsAssumption DEF TypeOK
<1>3. Upcoming \in Payload
    BY <1>2 DEF Upcoming, Payload, Kind
<1> QED
    BY <1>1, <1>2, <1>3 DEF TypeOK, Stream, Entries, Entry

\* What a mirror is made of.
LEMMA MirrorTypes ==
    ASSUME TypeOK, mirror # None
    PROVE  /\ mirror \in Mirror
           /\ mirror.owner \in Nat /\ mirror.inst \in Nat /\ mirror.id \in Nat
           /\ mirror.gap \in BOOLEAN
           /\ mirror.covered \in (0 .. MaxEntries) \cup {None}
           /\ mirror.upTo \in 0 .. MaxEntries
           /\ mirror.confirmed \subseteq Entry /\ mirror.outbox \subseteq Entry
           /\ mirror.live \subseteq Entry /\ mirror.marks \subseteq Mark
BY DEF TypeOK, Mirror

\* Events that go, be it handled or lost, leave the others as they were.
LEMMA StreamShrinks ==
    ASSUME StreamInv, UNCHANGED <<inst, nextId, journal>>, pi' # "dead" => pi # "dead",
           Stream' \subseteq Stream, StreamInOrder'
    PROVE  StreamInv'
<1>1. Upcoming' = Upcoming
    BY DEF Upcoming
<1>2. \A g : Sound(g)' = Sound(g)
    BY <1>1 DEF Sound, Before
<1>3. \A f, g : Consistent(f, g)' = Consistent(f, g)
    BY DEF Consistent, Before
<1> QED
    BY <1>1, <1>2, <1>3 DEF StreamInv

\* Steps by which a mirror takes no event, and the relay loses nothing.
LEMMA MirrorKept ==
    ASSUME TypeOK, MirrorInv, HolesAreGaps, UNCHANGED <<inst, nextId, journal>>,
           Stream' \subseteq Stream,
           mirror' # None =>
              /\ mirror # None
              /\ mirror'.inst = mirror.inst /\ mirror'.id = mirror.id
              /\ mirror'.gap = mirror.gap /\ mirror'.covered = mirror.covered
              /\ mirror'.live = mirror.live /\ mirror'.upTo = mirror.upTo
              /\ mirror'.marks = mirror.marks
              /\ mirror'.confirmed \subseteq Entries
              /\ relay \cup mirror.outbox \subseteq relay' \cup mirror'.outbox
    PROVE  MirrorInv' /\ HolesAreGaps'
<1> SUFFICES ASSUME mirror' # None
             PROVE  MirrorInv' /\ HolesAreGaps'
    BY DEF MirrorInv, HolesAreGaps
<1>1. Upcoming' = Upcoming /\ Entries' = Entries /\ Held(mirror) \subseteq Held(mirror)'
    BY DEF Upcoming, Entries, Held
<1>2. \A g : NotAfter(mirror, g) => NotAfter(mirror, g)'
    BY DEF NotAfter, Before
<1>3. \A g : Before(mirror, g)' <=> Before(mirror, g)
    BY DEF Before
<1>4. Stream' \cup {Upcoming'} \subseteq Stream \cup {Upcoming}
    BY <1>1
<1>5. /\ \A g \in Stream' : NotAfter(mirror, g)'
      /\ Before(mirror, Upcoming)'
      /\ mirror'.upTo <= Len(journal)
    BY <1>1, <1>2, <1>3 DEF MirrorInv
<1>6. IF mirror'.inst = 0 THEN mirror'.covered = None /\ mirror'.marks = {}
      ELSE mirror'.covered \in 0 .. Len(journal)
    BY DEF MirrorInv
<1>7. ASSUME NEW g \in Stream' \cup {Upcoming'}
      PROVE  /\ Before(mirror, g)' => \A x \in mirror'.live : x <= g.at
             /\ (g.inst = mirror'.inst /\ g.id = mirror'.id + 1) =>
                    \/ g.at = mirror'.upTo
                    \/ g.at = mirror'.upTo + 1 /\ g.at \in Held(mirror)'
    BY <1>1, <1>3, <1>4 DEF MirrorInv
<1>8. MirrorInv'
    BY <1>1, <1>5, <1>6, <1>7 DEF MirrorInv
<1>9. HolesAreGaps'
    BY <1>1 DEF HolesAreGaps, Held
<1> QED
    BY <1>8, <1>9

\* The event that is sent is the one that was to come (send).
LEMMA SendFacts ==
    ASSUME TypeOK, NEW kind \in Kind, NEW entry \in 0 .. MaxEntries, send(kind, entry)
    PROVE  LET e == [inst |-> inst, id |-> nextId, kind |-> kind, entry |-> entry,
                     at |-> Len(journal)]
           IN  /\ e \in Payload
               /\ queue' \in Seq(Payload) /\ Len(queue') <= MaxQueued
               /\ ToSet(queue') \subseteq ToSet(queue) \cup {e}
               /\ (Ordered(queue) /\ \A f \in ToSet(queue) : NotAfter(f, e)) => Ordered(queue')
               /\ nextId' = nextId + 1 /\ nextId' \in Nat \ {0}
               /\ attempts' \in 0 .. MaxAttempts - 1
               /\ UNCHANGED <<inst, posting>>
<1> DEFINE e == [inst |-> inst, id |-> nextId, kind |-> kind, entry |-> entry,
                 at |-> Len(journal)]
<1>1. e \in Payload
    BY StreamTypes DEF Payload
<1>2. /\ queue' = enqueuePayload(queue, e) /\ nextId' = nextId + 1
      /\ UNCHANGED <<inst, posting>> /\ KeepAttempts
    BY DEF send
<1>3. attempts' \in 0 .. MaxAttempts - 1
    BY <1>2, LimitAssumption DEF KeepAttempts, TypeOK
<1>4. nextId' \in Nat \ {0}
    BY <1>2 DEF TypeOK
<1> HIDE DEF e
<1>5. /\ queue' \in Seq(Payload) /\ Len(queue') <= MaxQueued
      /\ ToSet(queue') \subseteq ToSet(queue) \cup {e}
      /\ (Ordered(queue) /\ \A f \in ToSet(queue) : NotAfter(f, e)) => Ordered(queue')
    BY <1>1, <1>2, EnqueueFacts DEF TypeOK
<1> QED
    BY <1>1, <1>2, <1>3, <1>4, <1>5 DEF e

\* A new event is the last, tells how long the file was, and keeps the mirror
\* where it stands.
LEMMA SendKeeps ==
    ASSUME HistoryInv, NEW kind \in Kind, NEW entry \in 0 .. MaxEntries, send(kind, entry),
           inst >= 1, UNCHANGED <<tasks, mirror, relay, repeated>>,
           Len(journal') \in Nat, Len(journal') <= MaxEntries,
           IF kind = "content" THEN entry = Len(journal) + 1 /\ Len(journal') = Len(journal) + 1
           ELSE journal' = journal
    PROVE  StreamInv' /\ MirrorInv' /\ HolesAreGaps' /\ TakenOnce'
<1> DEFINE e == [inst |-> inst, id |-> nextId, kind |-> kind, entry |-> entry,
                 at |-> Len(journal)]
<1>0. TypeOK
    BY DEF HistoryInv
<1>1. /\ e \in Payload
      /\ ToSet(queue') \subseteq ToSet(queue) \cup {e}
      /\ (Ordered(queue) /\ \A f \in ToSet(queue) : NotAfter(f, e)) => Ordered(queue')
      /\ nextId' = nextId + 1
      /\ UNCHANGED <<inst, posting>>
    BY <1>0, SendFacts
<1>2. /\ Stream \subseteq Payload /\ Upcoming \in Payload
      /\ inst \in Nat /\ nextId \in Nat /\ nextId >= 1 /\ Len(journal) \in Nat
    BY <1>0, StreamTypes DEF TypeOK
<1>3. /\ e.inst = inst /\ e.id = nextId /\ e.kind = kind /\ e.entry = entry /\ e.at = Len(journal)
      /\ Upcoming.inst = inst /\ Upcoming.id = nextId /\ Upcoming.at = Len(journal)
      /\ Upcoming'.inst = inst /\ Upcoming'.id = nextId + 1 /\ Upcoming'.at = Len(journal')
    BY <1>1 DEF Upcoming
<1>4. /\ kind # "content" => Len(journal') = Len(journal)
      /\ kind = "content" => entry = Len(journal) + 1 /\ Len(journal') = entry
    OBVIOUS
<1> DEFINE up == Upcoming' len == Len(journal')
<1>5. up.inst = inst /\ up.id = nextId + 1 /\ up.at = len /\ len \in Nat /\ Len(journal) <= len
    BY <1>2, <1>3, <1>4
<1> HIDE DEF e, up, len
<1>6. Stream' \subseteq Stream \cup {e}
    BY <1>1 DEF Stream
<1>7. \A f \in Stream : /\ Sound(f) /\ Before(f, Upcoming) /\ Before(f, e)
                        /\ f.at <= Len(journal) /\ (f.kind = "content" => f.entry <= Len(journal))
    BY <1>2, <1>3 DEF HistoryInv, StreamInv, Sound, Consistent, Before
<1>8. inst' # 0
    BY <1>1, <1>2
<1>9. ASSUME NEW g \in Stream' PROVE Sound(g)'
  <2>1. CASE g \in Stream
    BY <1>2, <1>3, <1>7, <2>1, EventTypes DEF Sound, Before
  <2>2. CASE g = e
    BY <1>2, <1>3, <1>4, <2>2 DEF Sound, Before
  <2> QED
    BY <1>6, <2>1, <2>2
<1>10. StreamInOrder'
  <2>1. Ordered(queue') /\ Ordered(tasks')
    BY <1>1, <1>7 DEF HistoryInv, StreamInv, StreamInOrder, Stream, NotAfter
  <2>2. ASSUME NEW f \in ToSet(tasks), NEW g \in ToSet(queue') PROVE NotAfter(f, g)
    BY <1>1, <1>7 DEF HistoryInv, StreamInv, StreamInOrder, Stream, NotAfter
  <2>3. ASSUME posting # None, NEW g \in ToSet(queue') PROVE NotAfter(posting, g)
    BY <1>1, <1>7, <2>3 DEF HistoryInv, StreamInv, StreamInOrder, Stream, NotAfter
  <2>4. ASSUME posting # None, NEW f \in ToSet(tasks) PROVE NotAfter(f, posting)
    BY <2>4 DEF HistoryInv, StreamInv, StreamInOrder
  <2> QED
    BY <1>1, <2>1, <2>2, <2>3, <2>4 DEF StreamInOrder, Ordered, NotAfter, Before
<1>11. ASSUME NEW f \in Stream', NEW g \in Stream' \cup {up}
       PROVE  Consistent(f, g)
  <2>1. CASE f \in Stream /\ g \in Stream
    BY <2>1 DEF HistoryInv, StreamInv
  <2>2. CASE f \in Stream /\ g = e
    <3>1. Consistent(f, Upcoming)
      BY <2>2 DEF HistoryInv, StreamInv
    <3>2. f.inst \in Nat /\ f.id \in Nat
      BY <1>2, <2>2, EventTypes
    <3> QED
      BY <1>2, <1>3, <1>7, <2>2, <3>1, <3>2 DEF Consistent, Before
  <2>3. CASE f \in Stream /\ g = up
    <3>1. f.inst \in Nat /\ f.id \in Nat /\ f.at \in Nat /\ f.entry \in Nat
      BY <1>2, <2>3, EventTypes
    <3>2. f.inst = inst => f.id < nextId
      BY <1>2, <1>3, <1>7, <2>3, <3>1 DEF Before
    <3>3. f.at <= len /\ (f.kind = "content" => f.entry <= len)
      BY <1>2, <1>5, <1>7, <2>3, <3>1
    <3>4. g.inst = inst /\ g.id = nextId + 1 /\ g.at = len
      BY <1>5, <2>3
    <3> QED
      BY <1>2, <3>1, <3>2, <3>3, <3>4 DEF Consistent
  <2>4. CASE f = e /\ g \in Stream
    <3>1. g.inst \in Nat /\ g.id \in Nat
      BY <1>2, <2>4, EventTypes
    <3> QED
      BY <1>2, <1>3, <1>7, <2>4, <3>1 DEF Consistent, Before
  <2>5. CASE f = e /\ g = e
    BY <1>2, <1>3, <2>5 DEF Consistent, Before
  <2>6. CASE f = e /\ g = up
    BY <1>2, <1>3, <1>4, <1>5, <2>6 DEF Consistent, Before, len
  <2> QED
    BY <1>6, <2>1, <2>2, <2>3, <2>4, <2>5, <2>6
<1>12. StreamInv'
  <2>1. \A f, g : Consistent(f, g)' <=> Consistent(f, g)
    BY DEF Consistent, Before
  <2> QED
    BY <1>8, <1>9, <1>10, <1>11, <2>1 DEF StreamInv, up
<1>13. MirrorInv'
  <2> SUFFICES ASSUME mirror # None PROVE MirrorInv'
    BY DEF MirrorInv
  <2>1. /\ mirror.inst \in Nat /\ mirror.id \in Nat /\ mirror.upTo \in Nat
        /\ mirror.live \subseteq Nat
    BY <1>0, MirrorTypes DEF Entry
  <2>2. /\ \A g \in Stream : NotAfter(mirror, g)
        /\ Before(mirror, Upcoming) /\ mirror.upTo <= Len(journal)
        /\ mirror.confirmed \subseteq Entries
        /\ \A g \in Stream \cup {Upcoming} :
              /\ Before(mirror, g) => \A x \in mirror.live : x <= g.at
              /\ (g.inst = mirror.inst /\ g.id = mirror.id + 1) =>
                    \/ g.at = mirror.upTo
                    \/ g.at = mirror.upTo + 1 /\ g.at \in Held(mirror)
    BY DEF HistoryInv, MirrorInv
  <2>3. Before(mirror, e) /\ Before(mirror, up)
    BY <1>2, <1>3, <1>5, <2>1, <2>2 DEF Before
  <2>4. Len(journal) <= len
    BY <1>5
  <2>5. \A x \in mirror.live : x <= Len(journal) /\ x <= len
    BY <1>2, <1>3, <1>5, <2>1, <2>2, <2>4
  <2>6. ASSUME NEW g \in Stream' PROVE NotAfter(mirror, g)
    BY <1>6, <2>2, <2>3 DEF NotAfter
  <2>7. ASSUME NEW g \in Stream' \cup {up}
        PROVE  /\ Before(mirror, g) => \A x \in mirror.live : x <= g.at
               /\ (g.inst = mirror.inst /\ g.id = mirror.id + 1) =>
                    \/ g.at = mirror.upTo
                    \/ g.at = mirror.upTo + 1 /\ g.at \in Held(mirror)
    <3>1. CASE g \in Stream
      BY <2>2, <3>1
    <3>2. CASE g = e
      BY <1>3, <2>2, <2>5, <3>2
    <3>3. CASE g = up
      BY <1>2, <1>3, <1>5, <2>1, <2>2, <2>5, <3>3 DEF Before
    <3> QED
      BY <1>6, <3>1, <3>2, <3>3
  <2>8. /\ mirror.upTo <= len
        /\ mirror.confirmed \subseteq Entries'
        /\ mirror.covered # None /\ mirror.covered \in 0..Len(journal) => mirror.covered \in 0..len
    BY <1>2, <1>5, <2>1, <2>2, <2>4 DEF Entries, len
  <2>9. IF mirror.inst = 0 THEN mirror.covered = None /\ mirror.marks = {}
        ELSE mirror.covered \in 0 .. len
    BY <1>2, <1>5, <2>4 DEF HistoryInv, MirrorInv
  <2> QED
    BY <2>3, <2>6, <2>7, <2>8, <2>9 DEF MirrorInv, NotAfter, Before, Held, up, len
<1>14. HolesAreGaps'
  <2> SUFFICES ASSUME mirror # None, ~mirror.gap, mirror.covered # None,
                      NEW x \in Entries', mirror.covered < x, x <= mirror.upTo
               PROVE  x \in relay \cup mirror.outbox
    BY DEF HolesAreGaps
  <2>1. mirror.upTo <= Len(journal) /\ mirror.upTo \in Nat
    BY <1>0, MirrorTypes DEF HistoryInv, MirrorInv
  <2>2. x \in Entries
    BY <1>2, <1>5, <2>1 DEF Entries, len
  <2> QED
    BY <2>2 DEF HistoryInv, HolesAreGaps
<1>15. TakenOnce'
    BY DEF HistoryInv, TakenOnce
<1> QED
    BY <1>12, <1>13, <1>14, <1>15

------------------------------------------------------------------------------
(* Pi and the extension.                                                    *)

\* A fault and an update are counted within their bounds.
LEMMA FaultTypes ==
    ASSUME TypeOK
    PROVE  /\ Fault => faults' \in 0 .. MaxFaults /\ updates' \in 0 .. MaxUpdates
           /\ UNCHANGED bounds => faults' \in 0 .. MaxFaults /\ updates' \in 0 .. MaxUpdates
           /\ (updates < MaxUpdates /\ updates' = updates + 1) => updates' \in 0 .. MaxUpdates
<1>1. /\ faults \in Nat /\ MaxFaults \in Nat /\ updates \in Nat /\ MaxUpdates \in Nat
      /\ faults <= MaxFaults /\ updates <= MaxUpdates
    BY BoundsAssumption DEF TypeOK
<1> QED
    BY <1>1 DEF Fault, bounds

\* Events that go leave the order of the others.
LEMMA OrderKept ==
    ASSUME StreamInOrder,
           ToSet(queue') \subseteq ToSet(queue), Ordered(queue'),
           ToSet(tasks') \subseteq ToSet(tasks), Ordered(tasks'),
           posting' \in {posting, None}
    PROVE  StreamInOrder' /\ Stream' \subseteq Stream
<1>1. Ordered(queue)' /\ Ordered(tasks)'
    BY DEF Ordered, NotAfter, Before
<1>2. Stream' \subseteq Stream
    BY DEF Stream
<1>3. ASSUME NEW f \in ToSet(tasks'), NEW g \in ToSet(queue') PROVE NotAfter(f, g)'
    BY DEF StreamInOrder, NotAfter, Before
<1>4. ASSUME posting' # None
      PROVE  /\ \A f \in ToSet(tasks') : NotAfter(f, posting')
             /\ \A g \in ToSet(queue') : NotAfter(posting', g)
    BY <1>4 DEF StreamInOrder
<1> QED
    BY <1>1, <1>2, <1>3, <1>4 DEF StreamInOrder, NotAfter, Before

\* The steps that only let events go and leave the mirror alone.
LEMMA LettingGo ==
    ASSUME HistoryInv, TypeOK', UNCHANGED <<inst, nextId, journal, repeated>>,
           pi' # "dead" => pi # "dead",
           mirror' = None \/ (mirror' = mirror /\ relay \subseteq relay'),
           ToSet(queue') \subseteq ToSet(queue), Ordered(queue'),
           ToSet(tasks') \subseteq ToSet(tasks), Ordered(tasks'),
           posting' \in {posting, None}
    PROVE  HistoryInv'
<1>1. StreamInOrder' /\ Stream' \subseteq Stream
    BY OrderKept DEF HistoryInv, StreamInv
<1>2. StreamInv'
    BY <1>1, StreamShrinks DEF HistoryInv
<1>3. MirrorInv' /\ HolesAreGaps'
    BY <1>1, MirrorKept DEF HistoryInv, MirrorInv
<1>4. TakenOnce'
    BY DEF HistoryInv, TakenOnce
<1> QED
    BY <1>2, <1>3, <1>4 DEF HistoryInv

\* The events of a turn and of its end (message_end, agent_end,
\* session_shutdown).
LEMMA SendingHistory ==
    ASSUME HistoryInv,
           \/ \E role \in Role : MessageEnd(role)
           \/ MessageUpdate \/ AgentEnd \/ SessionShutdown
    PROVE  HistoryInv'
<1>0. TypeOK /\ pi = "up" /\ inst >= 1
    BY DEF HistoryInv, TypeOK, StreamInv, MessageEnd, MessageUpdate, AgentEnd, SessionShutdown
<1>1. ASSUME NEW role \in Role, MessageEnd(role)
      PROVE  HistoryInv'
  <2>1. /\ Len(journal) \in Nat /\ MaxEntries \in Nat /\ Len(journal) < MaxEntries
        /\ journal' = Append(journal, role) /\ journal \in Seq(Role)
        /\ send("content", Len(journal) + 1)
        /\ UNCHANGED <<pi, daemonVars, bounds>> /\ turn' = TRUE
    BY <1>0, <1>1, StreamTypes DEF MessageEnd, TypeOK
  <2>2. /\ Len(journal') = Len(journal) + 1 /\ journal' \in Seq(Role)
        /\ Len(journal) + 1 \in 0 .. MaxEntries /\ "content" \in Kind
    BY <2>1 DEF Kind
  <2>3. TypeOK'
    <3>1. /\ queue' \in Seq(Payload) /\ Len(queue') <= MaxQueued
          /\ nextId' \in Nat \ {0} /\ attempts' \in 0 .. MaxAttempts - 1
          /\ UNCHANGED <<inst, posting>>
      BY <1>0, <2>1, <2>2, SendFacts
    <3>2. checkpoint' \in 0 .. Len(journal') /\ Len(journal') <= MaxEntries
      BY <1>0, <2>1, <2>2 DEF TypeOK, daemonVars
    <3>3. faults' \in 0 .. MaxFaults /\ updates' \in 0 .. MaxUpdates
      BY <1>0, <2>1, FaultTypes
    <3> HIDE DEF Mirror
    <3> QED
      BY <1>0, <2>1, <2>2, <3>1, <3>2, <3>3 DEF TypeOK, daemonVars
  <2>4. StreamInv' /\ MirrorInv' /\ HolesAreGaps' /\ TakenOnce'
    BY <1>0, <2>1, <2>2, SendKeeps DEF daemonVars
  <2> QED
    BY <2>3, <2>4 DEF HistoryInv
<1>2. CASE MessageUpdate \/ AgentEnd \/ SessionShutdown
  <2>1. PICK kind \in Kind \ {"content"} : send(kind, 0)
    BY <1>2 DEF MessageUpdate, AgentEnd, SessionShutdown, Kind
  <2>2. /\ Len(journal) \in Nat /\ Len(journal) <= MaxEntries /\ 0 \in 0 .. MaxEntries
        /\ UNCHANGED <<journal, daemonVars>>
    BY <1>0, <1>2, StreamTypes DEF MessageUpdate, AgentEnd, SessionShutdown, piVars
  <2>3. /\ pi' \in {"up", "leaving", "dead"} /\ turn' \in BOOLEAN
        /\ updates' \in 0 .. MaxUpdates /\ faults' \in 0 .. MaxFaults
    <3>1. CASE MessageUpdate
      <4>1. faults' = faults /\ updates < MaxUpdates /\ updates' = updates + 1 /\ UNCHANGED <<pi, turn>>
        BY <3>1 DEF MessageUpdate, piVars
      <4> QED
        BY <1>0, <4>1, FaultTypes DEF TypeOK
    <3>2. CASE AgentEnd
      BY <1>0, <3>2, FaultTypes DEF AgentEnd, TypeOK
    <3>3. CASE SessionShutdown
      BY <1>0, <3>3, FaultTypes DEF SessionShutdown, TypeOK
    <3> QED
      BY <1>2, <3>1, <3>2, <3>3
  <2>4. TypeOK'
    BY <1>0, <2>1, <2>2, <2>3, SendFacts DEF TypeOK, daemonVars
  <2>5. StreamInv' /\ MirrorInv' /\ HolesAreGaps' /\ TakenOnce'
    BY <1>0, <2>1, <2>2, SendKeeps DEF daemonVars
  <2> QED
    BY <2>4, <2>5 DEF HistoryInv
<1> QED
    BY <1>1, <1>2

\* What Pi had not sent dies with it.
LEMMA PiDiesHistory ==
    ASSUME HistoryInv, PiDies
    PROVE  HistoryInv'
<1>1. TypeOK'
  <2>0. TypeOK
    BY DEF HistoryInv
  <2>1. /\ pi' = "dead" /\ turn' = FALSE /\ queue' = <<>> /\ attempts' = 0 /\ posting' = None
        /\ UNCHANGED <<journal, inst, nextId, daemonVars>>
    BY DEF PiDies
  <2>2. faults' \in 0 .. MaxFaults /\ updates' \in 0 .. MaxUpdates
    BY <2>0, FaultTypes DEF PiDies
  <2>3. <<>> \in Seq(Payload) /\ Len(<<>>) <= MaxQueued /\ 0 \in 0 .. MaxAttempts - 1
    BY LimitAssumption
  <2> QED
    BY <2>0, <2>1, <2>2, <2>3 DEF TypeOK, daemonVars
<1>2. ToSet(queue') = {} /\ Ordered(queue')
    BY DEF PiDies, ToSet, Ordered
<1> QED
    BY <1>1, <1>2, LettingGo DEF PiDies, daemonVars, HistoryInv, StreamInv, StreamInOrder

\* An event that was given up after its attempts, or waits for the next.
LEMMA PostFailsHistory ==
    ASSUME HistoryInv, PostFails
    PROVE  HistoryInv'
<1>0. TypeOK /\ posting # None
    BY DEF HistoryInv, PostFails
<1>1. /\ queue' \in Seq(Payload) /\ Len(queue') <= Len(queue)
      /\ ToSet(queue') \subseteq ToSet(queue) /\ Ordered(queue')
      /\ attempts' \in 0 .. MaxAttempts - 1
  <2>1. CASE UNCHANGED <<queue, attempts>>
    BY <1>0, <2>1 DEF TypeOK, HistoryInv, StreamInv, StreamInOrder
  <2>2. CASE queue # <<>> /\ queue' = Tail(queue) /\ attempts' = 0
    BY <1>0, <2>2, TailFacts, LimitAssumption DEF TypeOK, HistoryInv, StreamInv, StreamInOrder
  <2>3. CASE UNCHANGED queue /\ attempts' = attempts + 1 /\ ~(attempts + 1 >= MaxAttempts)
    BY <1>0, <2>3, LimitAssumption DEF TypeOK, HistoryInv, StreamInv, StreamInOrder
  <2> QED
    BY <1>0, <2>1, <2>2, <2>3 DEF PostFails, HeadOf
<1>2. TypeOK'
    BY <1>0, <1>1, LimitAssumption, BoundsAssumption DEF TypeOK, PostFails, Fault, piVars, daemonVars
<1> QED
    BY <1>1, <1>2, LettingGo DEF PostFails, piVars, daemonVars, HistoryInv, StreamInv, StreamInOrder

\* One POST at a time, in order: what the daemon was sent is not after what is
\* still queued (drainQueue).
LEMMA DrainHistory ==
    ASSUME HistoryInv, drainQueue
    PROVE  HistoryInv'
<1> DEFINE e == Head(queue)
<1>0. TypeOK /\ posting = None /\ queue # <<>>
    BY DEF HistoryInv, drainQueue
<1>1. /\ queue \in Seq(Payload) /\ tasks \in Seq(Payload) /\ Len(queue) <= MaxQueued
      /\ Ordered(queue) /\ Ordered(tasks)
      /\ \A f \in ToSet(tasks), g \in ToSet(queue) : NotAfter(f, g)
    BY <1>0 DEF TypeOK, HistoryInv, StreamInv, StreamInOrder
<1>2. /\ Tail(queue) \in Seq(Payload) /\ Len(Tail(queue)) <= Len(queue)
      /\ ToSet(Tail(queue)) \subseteq ToSet(queue) /\ Ordered(Tail(queue))
      /\ e \in ToSet(queue) /\ e \in Payload /\ e # None
      /\ \A g \in ToSet(queue) : NotAfter(e, g)
    BY <1>0, <1>1, TailFacts, EventTypes
<1>3. \/ /\ tasks' = Append(tasks, e) /\ queue' = Tail(queue) /\ attempts' = 0
         /\ posting' = None
      \/ /\ posting' = e /\ tasks' \in {tasks, Append(tasks, e)}
         /\ UNCHANGED <<queue, attempts>>
    BY <1>0 DEF drainQueue
<1> HIDE DEF e
<1>4. /\ Append(tasks, e) \in Seq(Payload) /\ Ordered(Append(tasks, e))
      /\ ToSet(Append(tasks, e)) = ToSet(tasks) \cup {e}
    BY <1>1, <1>2, AppendFacts
<1>5. /\ tasks' \in Seq(Payload) /\ Ordered(tasks') /\ ToSet(tasks') \subseteq ToSet(tasks) \cup {e}
      /\ queue' \in Seq(Payload) /\ Ordered(queue') /\ ToSet(queue') \subseteq ToSet(queue)
      /\ Len(queue') <= MaxQueued
      /\ posting' \in {None, e}
  <2>1. Len(queue) \in Nat /\ Len(Tail(queue)) \in Nat /\ MaxQueued \in Nat
    BY <1>1, <1>2, LimitAssumption
  <2>2. CASE tasks' = Append(tasks, e) /\ queue' = Tail(queue) /\ posting' = None
    BY <1>1, <1>2, <1>4, <2>1, <2>2
  <2>3. CASE posting' = e /\ tasks' \in {tasks, Append(tasks, e)} /\ queue' = queue
    <3>1. tasks' \in Seq(Payload) /\ Ordered(tasks') /\ ToSet(tasks') \subseteq ToSet(tasks) \cup {e}
      BY <1>1, <1>4, <2>3
    <3> QED
      BY <1>1, <2>3, <3>1
  <2> QED
    BY <1>3, <2>2, <2>3
<1>6. TypeOK'
  <2>1. attempts' \in 0 .. MaxAttempts - 1
    BY <1>0, <1>3, LimitAssumption DEF TypeOK
  <2>2. posting' \in Payload \cup {None}
    BY <1>2, <1>5
  <2>3. UNCHANGED <<pi, turn, journal, inst, nextId, daemon, mirror, checkpoint, relay, repeated,
                    updates, faults>>
    BY DEF drainQueue, piVars, bounds
  <2> QED
    BY <1>0, <1>5, <2>1, <2>2, <2>3 DEF TypeOK
<1>7. StreamInOrder'
  <2>1. /\ \A f \in ToSet(tasks'), g \in ToSet(queue') : NotAfter(f, g)
        /\ posting' # None => \A g \in ToSet(queue') : NotAfter(posting', g)
        /\ posting' # None => \A f \in ToSet(tasks') : NotAfter(f, posting')
    BY <1>1, <1>2, <1>5 DEF NotAfter
  <2> QED
    BY <1>5, <2>1 DEF StreamInOrder, Ordered, NotAfter, Before
<1>8. Stream' \subseteq Stream
    BY <1>2, <1>5 DEF Stream
<1>9. StreamInv'
    BY <1>7, <1>8, StreamShrinks DEF HistoryInv, drainQueue, piVars
<1>10. MirrorInv' /\ HolesAreGaps'
    BY <1>0, <1>8, MirrorKept DEF HistoryInv, MirrorInv, drainQueue, piVars
<1>11. TakenOnce'
    BY DEF HistoryInv, TakenOnce, drainQueue
<1> QED
    BY <1>6, <1>9, <1>10, <1>11 DEF HistoryInv

\* A new instance comes after all events of the ones before it.
LEMMA SessionStartHistory ==
    ASSUME HistoryInv, NEW reason \in {"reload", "startup"}, SessionStart(reason)
    PROVE  HistoryInv'
<1> DEFINE a == [inst |-> inst + 1, id |-> 1, kind |-> reason, entry |-> 0, at |-> Len(journal)]
           b == [inst |-> inst + 1, id |-> 2, kind |-> "list", entry |-> 0, at |-> Len(journal)]
           up == Upcoming'
<1>0. /\ TypeOK
      /\ Len(journal) \in Nat /\ Len(journal) <= MaxEntries /\ inst \in Nat /\ nextId \in Nat
      /\ Stream \subseteq Payload /\ MaxEntries \in Nat
    BY StreamTypes DEF HistoryInv
<1>1. a \in Payload /\ b \in Payload
    BY <1>0 DEF Payload, Kind
<1>2. /\ a.inst = inst + 1 /\ a.id = 1 /\ a.at = Len(journal) /\ a.kind # "content"
      /\ b.inst = inst + 1 /\ b.id = 2 /\ b.at = Len(journal) /\ b.kind # "content"
    OBVIOUS
<1>3. /\ queue' = enqueuePayload(enqueuePayload(<<>>, a), b)
      /\ inst' = inst + 1 /\ nextId' = 3 /\ attempts' = 0 /\ inst < MaxInstances
      /\ pi' = "up" /\ UNCHANGED <<turn, journal, posting, daemonVars, bounds>>
    BY DEF SessionStart
<1>4. up.inst = inst + 1 /\ up.id = 3 /\ up.at = Len(journal)
    BY <1>3 DEF Upcoming
<1> HIDE DEF a, b, up
<1>5. /\ queue' \in Seq(Payload) /\ Len(queue') <= MaxQueued
      /\ ToSet(queue') \subseteq {a, b} /\ Ordered(queue')
  <2> DEFINE q == enqueuePayload(<<>>, a)
  <2>1. /\ <<>> \in Seq(Payload) /\ Len(<<>>) <= MaxQueued /\ ToSet(<<>>) = {} /\ Ordered(<<>>)
    BY LimitAssumption DEF ToSet, Ordered
  <2>2. q \in Seq(Payload) /\ Len(q) <= MaxQueued /\ ToSet(q) \subseteq {a} /\ Ordered(q)
    BY <1>1, <2>1, EnqueueFacts
  <2>3. NotAfter(a, b)
    BY <1>2 DEF NotAfter, Before
  <2> HIDE DEF q
  <2>4. /\ enqueuePayload(q, b) \in Seq(Payload) /\ Len(enqueuePayload(q, b)) <= MaxQueued
        /\ ToSet(enqueuePayload(q, b)) \subseteq ToSet(q) \cup {b}
        /\ Ordered(enqueuePayload(q, b))
    BY <1>1, <2>2, <2>3, EnqueueFacts
  <2> QED
    BY <1>3, <2>2, <2>4 DEF q
<1>6. TypeOK'
    BY <1>0, <1>3, <1>5, LimitAssumption, BoundsAssumption DEF TypeOK, daemonVars, bounds
<1>7. Stream' \subseteq Stream \cup {a, b}
    BY <1>3, <1>5 DEF Stream, daemonVars
<1>8. \A f \in Stream : /\ Sound(f) /\ Before(f, Upcoming) /\ f.inst \in Nat /\ f.id \in Nat /\ f.inst <= inst
                        /\ f.at <= Len(journal) /\ (f.kind = "content" => f.entry <= Len(journal))
  <2> SUFFICES ASSUME NEW f \in Stream
               PROVE  /\ Sound(f) /\ Before(f, Upcoming) /\ f.inst \in Nat /\ f.id \in Nat /\ f.inst <= inst
                      /\ f.at <= Len(journal) /\ (f.kind = "content" => f.entry <= Len(journal))
    OBVIOUS
  <2>1. Upcoming.inst = inst /\ Upcoming.id = nextId /\ Upcoming.at = Len(journal)
    BY DEF Upcoming
  <2>2. Sound(f) /\ Before(f, Upcoming) /\ Consistent(f, Upcoming)
    BY DEF HistoryInv, StreamInv, Sound
  <2>3. f.inst \in Nat /\ f.id \in Nat
    BY <1>0, EventTypes
  <2>4. f.at <= Len(journal) /\ (f.kind = "content" => f.entry <= Len(journal))
    BY <2>1, <2>2 DEF Consistent
  <2>5. f.inst <= inst
    BY <1>0, <2>1, <2>2, <2>3 DEF Before
  <2> QED
    BY <2>2, <2>3, <2>4, <2>5
<1>9. \A f \in Stream : /\ Before(f, a) /\ Before(f, b) /\ Before(f, up)
                        /\ ~Before(a, f) /\ ~Before(b, f) /\ f.inst # inst + 1
    BY <1>0, <1>2, <1>4, <1>8 DEF Before
<1>10. \A g \in Stream' : Sound(g)'
    BY <1>0, <1>2, <1>4, <1>7, <1>8, <1>9 DEF Sound, Before, up
<1>11. StreamInOrder'
  <2>1. /\ ToSet(tasks') = ToSet(tasks) /\ ToSet(tasks) \subseteq Stream /\ Ordered(tasks)
        /\ tasks' = tasks /\ posting' = posting /\ (posting # None => posting \in Stream)
        /\ posting # None => \A f \in ToSet(tasks) : NotAfter(f, posting)
    BY <1>3 DEF HistoryInv, StreamInv, StreamInOrder, Stream, daemonVars
  <2>2. /\ \A f \in ToSet(tasks), g \in ToSet(queue') : NotAfter(f, g)
        /\ posting # None => \A g \in ToSet(queue') : NotAfter(posting, g)
    BY <1>5, <1>9, <2>1 DEF NotAfter
  <2> QED
    BY <1>5, <2>1, <2>2 DEF StreamInOrder, Ordered, NotAfter, Before
<1>12. ASSUME NEW f \in Stream', NEW g \in Stream' \cup {up}
       PROVE  Consistent(f, g)
  <2>1. CASE f \in Stream /\ g \in Stream
    BY <2>1 DEF HistoryInv, StreamInv
  <2>2. CASE f \in Stream /\ g \in {a, b, up}
    BY <1>2, <1>4, <1>8, <1>9, <2>2 DEF Consistent
  <2>3. CASE f \in {a, b} /\ g \in Stream
    BY <1>2, <1>9, <2>3 DEF Consistent
  <2>4. CASE f \in {a, b} /\ g \in {a, b, up}
    BY <1>0, <1>2, <1>4, <2>4 DEF Consistent, Before
  <2> QED
    BY <1>7, <2>1, <2>2, <2>3, <2>4
<1>13. StreamInv'
  <2>1. \A f, g : Consistent(f, g)' <=> Consistent(f, g)
    BY DEF Consistent, Before
  <2>2. inst' # 0
    BY <1>0, <1>3
  <2> QED
    BY <1>10, <1>11, <1>12, <2>1, <2>2 DEF StreamInv, up
<1>14. MirrorInv'
  <2> SUFFICES ASSUME mirror # None PROVE MirrorInv'
    BY <1>3 DEF MirrorInv, daemonVars
  <2>0. mirror' = mirror /\ relay' = relay /\ Entries' = Entries
    BY <1>3 DEF daemonVars, Entries
  <2>1. mirror.inst \in Nat /\ mirror.id \in Nat /\ mirror.live \subseteq Nat
    BY <1>0, MirrorTypes DEF Entry
  <2>2. mirror.inst <= inst
    BY <1>0, <2>1 DEF HistoryInv, MirrorInv, Before, Upcoming
  <2>3. Before(mirror, a) /\ Before(mirror, b) /\ Before(mirror, up)
    BY <1>0, <1>2, <1>4, <2>1, <2>2 DEF Before
  <2>4. \A x \in mirror.live : x <= Len(journal)
    BY DEF HistoryInv, MirrorInv, Upcoming
  <2>5. \A g \in Stream' : NotAfter(mirror, g)
    BY <1>7, <2>3 DEF HistoryInv, MirrorInv, NotAfter
  <2>6. ASSUME NEW g \in Stream' \cup {up}
        PROVE  /\ Before(mirror, g) => \A x \in mirror.live : x <= g.at
               /\ (g.inst = mirror.inst /\ g.id = mirror.id + 1) =>
                    \/ g.at = mirror.upTo
                    \/ g.at = mirror.upTo + 1 /\ g.at \in Held(mirror)
    <3>1. CASE g \in Stream
      BY <3>1 DEF HistoryInv, MirrorInv
    <3>2. CASE g \in {a, b, up}
      BY <1>0, <1>2, <1>4, <2>1, <2>2, <2>4, <3>2
    <3> QED
      BY <1>7, <3>1, <3>2
  <2>7. /\ mirror.upTo <= Len(journal)
        /\ mirror.confirmed \subseteq Entries
        /\ IF mirror.inst = 0 THEN mirror.covered = None /\ mirror.marks = {}
           ELSE mirror.covered \in 0 .. Len(journal)
    BY DEF HistoryInv, MirrorInv
  <2> QED
    BY <1>3, <2>0, <2>3, <2>5, <2>6, <2>7 DEF MirrorInv, NotAfter, Before, Held, up
<1>15. HolesAreGaps' /\ TakenOnce'
    BY <1>3 DEF HistoryInv, HolesAreGaps, TakenOnce, Entries, daemonVars
<1> QED
    BY <1>6, <1>13, <1>14, <1>15 DEF HistoryInv

------------------------------------------------------------------------------
(* The daemon takes an event.                                               *)

\* What is handled is the first of the chain, and nothing that stays on its way
\* is before it, the same event that is posted again included (PostAnswered).
LEMMA HandlingFacts ==
    ASSUME HistoryInv, NEW e, Handling(e), Answer(e) \/ UNCHANGED extVars, UNCHANGED piVars
    PROVE  /\ e \in Stream /\ e \in Payload /\ mirror # None
           /\ StreamInv' /\ Stream' \subseteq Stream
           /\ \A g \in Stream' : NotAfter(e, g)
           /\ queue' \in Seq(Payload) /\ Len(queue') <= MaxQueued
           /\ attempts' \in 0 .. MaxAttempts - 1 /\ posting' \in Payload \cup {None}
           /\ tasks' \in Seq(Payload)
           /\ UNCHANGED <<inst, nextId, pi, turn, journal>>
<1>0. TypeOK /\ StreamInv /\ StreamInOrder
    BY DEF HistoryInv, StreamInv
<1>1. /\ queue \in Seq(Payload) /\ tasks \in Seq(Payload) /\ Len(queue) <= MaxQueued
      /\ posting \in Payload \cup {None} /\ attempts \in 0 .. MaxAttempts - 1
      /\ Ordered(queue) /\ Ordered(tasks)
      /\ mirror # None /\ tasks # <<>> /\ e = Head(tasks) /\ tasks' = Tail(tasks)
    BY <1>0 DEF TypeOK, StreamInOrder, Handling
<1>2. /\ Tail(tasks) \in Seq(Payload) /\ ToSet(Tail(tasks)) \subseteq ToSet(tasks)
      /\ e \in ToSet(tasks) /\ e \in Payload
      /\ Ordered(Tail(tasks)) /\ \A g \in ToSet(tasks) : NotAfter(e, g)
    BY <1>1, TailFacts
<1>3. /\ UNCHANGED <<inst, nextId>> /\ posting' \in {posting, None}
      /\ \/ queue' = queue
         \/ queue # <<>> /\ queue' = Tail(queue)
    <2>1. CASE UNCHANGED extVars
      BY <2>1 DEF extVars
    <2>2. CASE posting = e /\ PostAnswered
      BY <1>2, <2>2, EventTypes DEF PostAnswered, HeadOf
    <2> QED
      BY <2>1, <2>2 DEF Answer
<1>4. /\ queue' \in Seq(Payload) /\ Len(queue') <= MaxQueued
      /\ ToSet(queue') \subseteq ToSet(queue) /\ Ordered(queue')
  <2>1. CASE queue' = queue
    BY <1>1, <2>1
  <2>2. CASE queue # <<>> /\ queue' = Tail(queue)
    <3>1. /\ Tail(queue) \in Seq(Payload) /\ Len(Tail(queue)) <= Len(queue)
          /\ ToSet(Tail(queue)) \subseteq ToSet(queue) /\ Ordered(Tail(queue))
      BY <1>1, <2>2, TailFacts
    <3>2. Len(queue) \in Nat /\ Len(Tail(queue)) \in Nat /\ MaxQueued \in Nat
      BY <1>1, <3>1, LimitAssumption
    <3> QED
      BY <1>1, <2>2, <3>1, <3>2
  <2> QED
    BY <1>3, <2>1, <2>2
<1>5. StreamInOrder' /\ Stream' \subseteq Stream
    BY <1>0, <1>1, <1>2, <1>3, <1>4, OrderKept
<1>6. StreamInv'
    BY <1>0, <1>3, <1>5, StreamShrinks DEF piVars
<1>7. \A g \in Stream : NotAfter(e, g)
    BY <1>0, <1>2 DEF StreamInOrder, Stream
<1>8. attempts' \in 0 .. MaxAttempts - 1
    BY <1>1, LimitAssumption DEF Answer, PostAnswered, KeepAttempts, extVars
<1>9. e \in Stream
    BY <1>2 DEF Stream
<1> QED
    BY <1>1, <1>2, <1>3, <1>4, <1>5, <1>6, <1>7, <1>8, <1>9 DEF piVars

\* The checks write these fields, and leave the others.
LEMMA AcceptedFields ==
    ASSUME NEW r \in Mirror, NEW e \in Payload
    PROVE  LET m == Accepted(r, e)
           IN  /\ m \in Mirror
               /\ m.inst = e.inst /\ m.id = e.id /\ m.upTo = e.at
               /\ m.live = r.live /\ m.confirmed = r.confirmed
               /\ m.outbox = r.outbox /\ m.marks = r.marks
               /\ m.gap = \/ r.gap
                          \/ e.inst = r.inst /\ e.id # r.id + 1
                          \/ e.inst # r.inst /\ (r.inst # 0 \/ e.id # 1)
               /\ m.covered = IF r.covered = None \/ e.kind \in {"reload", "startup"} THEN e.at
                              ELSE r.covered
<1>1. /\ r.inst \in Nat /\ r.id \in Nat /\ r.gap \in BOOLEAN
      /\ r.covered \in (0 .. MaxEntries) \cup {None}
      /\ e.inst \in Nat /\ e.id \in Nat /\ e.at \in 0 .. MaxEntries
    BY EventTypes DEF Mirror
<1> QED
    BY <1>1 DEF Accepted, applyPiExtensionSequence, Mirror

\* What a mirror is after the checks, and that without a gap there is nothing
\* between what it had taken and the event which it does not hold
\* (claimPiExtensionInstance, applyPiExtensionSequence).
LEMMA AcceptedFacts ==
    ASSUME HistoryInv, mirror # None, NEW e \in Stream, ~IsRepeat(mirror, e)
    PROVE  LET m == Accepted(mirror, e)
           IN  /\ m \in Mirror
               /\ m.inst = e.inst /\ m.id = e.id /\ m.upTo = e.at
               /\ m.live = mirror.live /\ m.confirmed = mirror.confirmed
               /\ m.outbox = mirror.outbox /\ m.marks = mirror.marks
               /\ e.inst >= 1 /\ e.at \in 0 .. Len(journal)
               /\ m.covered \in 0 .. Len(journal) /\ m.covered # None
               /\ m.covered = mirror.covered \/ m.covered = e.at
               /\ ~m.gap =>
                     /\ ~mirror.gap
                     /\ \/ mirror.covered = None /\ mirror.marks = {} /\ m.covered = e.at
                        \/ /\ mirror.covered # None
                           /\ \A x \in Entries :
                                 mirror.covered < x /\ x <= e.at => x \in Held(mirror)
               /\ \A x \in mirror.live : x <= e.at
<1> DEFINE m == Accepted(mirror, e)
<1>0. TypeOK /\ StreamInv /\ MirrorInv /\ HolesAreGaps
    BY DEF HistoryInv
<1>1. /\ mirror \in Mirror /\ mirror.inst \in Nat /\ mirror.id \in Nat /\ mirror.gap \in BOOLEAN
      /\ mirror.upTo \in Nat /\ mirror.covered \in (0 .. MaxEntries) \cup {None}
      /\ mirror.live \subseteq Nat
    BY <1>0, MirrorTypes DEF Entry
<1>2. /\ e \in Payload /\ e.inst \in Nat /\ e.id \in Nat /\ e.at \in 0 .. MaxEntries
      /\ Len(journal) \in Nat /\ Len(journal) <= MaxEntries /\ MaxEntries \in Nat
    BY <1>0, StreamTypes, EventTypes
<1>3. Upcoming.at = Len(journal)
    BY DEF Upcoming
<1>4. e.inst >= 1 /\ e.at <= Len(journal)
    BY <1>0, <1>3 DEF StreamInv, Sound, Consistent
<1>5. Before(mirror, e)
    BY <1>0, <1>1, <1>2 DEF MirrorInv, NotAfter, Before, IsRepeat
<1>6. /\ m \in Mirror /\ m.inst = e.inst /\ m.id = e.id /\ m.upTo = e.at
      /\ m.live = mirror.live /\ m.confirmed = mirror.confirmed
      /\ m.outbox = mirror.outbox /\ m.marks = mirror.marks
      /\ m.gap = \/ mirror.gap
                 \/ e.inst = mirror.inst /\ e.id # mirror.id + 1
                 \/ e.inst # mirror.inst /\ (mirror.inst # 0 \/ e.id # 1)
      /\ m.covered = IF mirror.covered = None \/ e.kind \in {"reload", "startup"} THEN e.at
                     ELSE mirror.covered
    BY <1>1, <1>2, AcceptedFields
<1> HIDE DEF m
<1>7. IF mirror.inst = 0 THEN mirror.covered = None /\ mirror.marks = {}
      ELSE mirror.covered \in 0 .. Len(journal) /\ mirror.covered # None
    BY <1>0, NoneAssumption DEF MirrorInv
<1>9. e.at # None /\ e.at \in 0 .. Len(journal)
    BY <1>2, <1>4, NoneAssumption
<1>10. m.covered \in 0 .. Len(journal) /\ m.covered # None
    BY <1>6, <1>7, <1>9
<1>11. ASSUME ~m.gap
       PROVE  /\ ~mirror.gap
              /\ \/ mirror.covered = None /\ mirror.marks = {} /\ m.covered = e.at
                 \/ /\ mirror.covered # None
                    /\ \A x \in Entries :
                          mirror.covered < x /\ x <= e.at => x \in Held(mirror)
  <2>1. ~mirror.gap
    BY <1>6, <1>11
  <2>2. CASE mirror.inst = 0
    BY <1>6, <1>7, <2>1, <2>2
  <2>3. CASE mirror.inst # 0
    <3>1. e.inst = mirror.inst /\ e.id = mirror.id + 1
      BY <1>6, <1>11, <2>3
    <3>2. e.at = mirror.upTo \/ (e.at = mirror.upTo + 1 /\ e.at \in Held(mirror))
      BY <1>0, <3>1 DEF MirrorInv
    <3>3. mirror.covered # None
      BY <1>7, <2>3
    <3>4. ASSUME NEW x \in Entries, mirror.covered < x, x <= e.at PROVE x \in Held(mirror)
      <4>1. x <= mirror.upTo \/ x = e.at
        BY <1>1, <3>2, <3>4 DEF Entries
      <4>2. CASE x <= mirror.upTo
        BY <1>0, <2>1, <3>3, <3>4, <4>2 DEF HolesAreGaps, Held
      <4>3. CASE x = e.at /\ ~(x <= mirror.upTo)
        BY <1>1, <3>2, <4>3
      <4> QED
        BY <4>1, <4>2, <4>3
    <3> QED
      BY <2>1, <3>3, <3>4
  <2> QED
    BY <2>2, <2>3
<1>12. \A x \in mirror.live : x <= e.at
    BY <1>0, <1>5 DEF MirrorInv
<1> QED
    BY <1>4, <1>6, <1>9, <1>10, <1>11, <1>12 DEF m

\* A mirror that took an event stands at it, and holds the entry it was about.
LEMMA TakenFacts ==
    ASSUME HistoryInv, NEW e, Taking(e), Answer(e) \/ UNCHANGED extVars,
           mirror'.inst = e.inst, mirror'.id = e.id, mirror'.upTo = e.at,
           mirror'.confirmed \subseteq Entries,
           mirror'.live \subseteq mirror.live
               \cup (IF e.kind = "content" THEN {e.entry} ELSE {}),
           e.kind = "content" => e.entry \in Held(mirror)',
           \/ mirror'.covered = e.at
           \/ /\ mirror'.covered = Accepted(mirror, e).covered
              /\ ~mirror'.gap => ~Accepted(mirror, e).gap
              /\ Held(mirror) \subseteq Held(mirror)'
    PROVE  MirrorInv' /\ HolesAreGaps'
<1>1. /\ e \in Stream /\ mirror # None /\ ~IsRepeat(mirror, e)
      /\ Stream' \subseteq Stream /\ \A g \in Stream' : NotAfter(e, g)
      /\ UNCHANGED <<inst, nextId, journal>>
    BY HandlingFacts DEF Taking
<1> DEFINE m == Accepted(mirror, e)
<1>2. /\ e.inst >= 1 /\ e.at \in 0 .. Len(journal)
      /\ m.covered \in 0 .. Len(journal) /\ m.covered # None
      /\ m.covered = mirror.covered \/ m.covered = e.at
      /\ ~m.gap =>
            \/ m.covered = e.at
            \/ /\ mirror.covered # None
               /\ \A x \in Entries : mirror.covered < x /\ x <= e.at => x \in Held(mirror)
      /\ \A x \in mirror.live : x <= e.at
    BY <1>1, AcceptedFacts
<1> HIDE DEF m
<1>3. /\ e \in Payload /\ Stream \subseteq Payload /\ Upcoming \in Payload
      /\ Len(journal) \in Nat
    BY <1>1, StreamTypes DEF HistoryInv
<1>4. Upcoming' = Upcoming /\ Entries' = Entries
    BY <1>1 DEF Upcoming, Entries
<1>5. e.inst \in Nat /\ e.id \in Nat /\ e.at \in Nat
    BY <1>2, <1>3, EventTypes
<1>6. /\ Before(e, Upcoming)
      /\ e.kind = "content" => e.entry = e.at + 1
      /\ \A g \in Stream \cup {Upcoming} : Consistent(e, g)
    BY <1>1 DEF HistoryInv, StreamInv, Sound
<1>7. \A g : /\ NotAfter(mirror, g)' <=> NotAfter(e, g)
             /\ Before(mirror, g)' <=> Before(e, g)
    BY DEF NotAfter, Before
<1>8. ASSUME NEW g \in Stream \cup {Upcoming}
      PROVE  /\ Before(e, g) => \A x \in mirror'.live : x <= g.at
             /\ (g.inst = e.inst /\ g.id = e.id + 1) =>
                    \/ g.at = e.at
                    \/ g.at = e.at + 1 /\ g.at \in Held(mirror)'
  <2>1. g.at \in Nat
    BY <1>3, EventTypes
  <2>2. \A x \in mirror.live : x \in Nat
    BY <1>1, MirrorTypes DEF HistoryInv, Entry
  <2>3. ASSUME Before(e, g), NEW x \in mirror'.live PROVE x <= g.at
    <3>1. e.at <= g.at /\ (e.kind = "content" => e.entry <= g.at)
      BY <1>6, <2>3 DEF Consistent
    <3>2. x \in mirror.live \/ (e.kind = "content" /\ x = e.entry)
      BY <2>3
    <3> QED
      BY <1>2, <1>5, <2>1, <2>2, <3>1, <3>2
  <2>4. ASSUME g.inst = e.inst, g.id = e.id + 1
        PROVE  g.at = e.at \/ (g.at = e.at + 1 /\ g.at \in Held(mirror)')
    BY <1>6, <2>4 DEF Consistent
  <2> QED
    BY <2>3, <2>4
<1>9. mirror'.covered \in 0 .. Len(journal) /\ mirror'.inst # 0
    BY <1>2, <1>5 DEF m
<1>10. MirrorInv'
    BY <1>1, <1>2, <1>4, <1>6, <1>7, <1>8, <1>9 DEF MirrorInv
<1>11. ASSUME ~mirror'.gap, NEW x \in Entries, mirror'.covered < x, x <= e.at
       PROVE  x \in Held(mirror)'
  <2>1. mirror'.covered # e.at
    BY <1>5, <1>11 DEF Entries
  <2>2. mirror'.covered = m.covered /\ ~m.gap /\ Held(mirror) \subseteq Held(mirror)'
    BY <1>11, <2>1 DEF m
  <2> QED
    BY <1>2, <1>11, <2>1, <2>2
<1>12. HolesAreGaps'
    BY <1>4, <1>11 DEF HolesAreGaps, Held
<1> QED
    BY <1>10, <1>12
\* What was on the relay or in the outbox of an event's step is of the file.
LEMMA TakingTypes ==
    ASSUME HistoryInv, NEW e, Taking(e), Answer(e) \/ UNCHANGED extVars
    PROVE  /\ TypeOK /\ e \in Payload /\ e \in Stream /\ mirror # None /\ ~IsRepeat(mirror, e)
           /\ e.at \in 0 .. MaxEntries
           /\ e.kind = "content" => e.entry \in Entries
           /\ Entries \subseteq Entry /\ Len(journal) \in 0 .. MaxEntries
           /\ mirror.confirmed \subseteq Entries
           /\ mirror.live \subseteq Entry /\ mirror.outbox \subseteq Entry
           /\ mirror.marks \subseteq Mark /\ relay \subseteq Entry
<1>1. /\ e \in Payload /\ e \in Stream /\ mirror # None
      /\ e.at \in 0 .. MaxEntries /\ e.entry \in 0 .. MaxEntries
    BY HandlingFacts, EventTypes DEF Taking
<1>2. TypeOK
    BY DEF HistoryInv
<1>3. Len(journal) \in Nat /\ Len(journal) <= MaxEntries /\ MaxEntries \in Nat /\ Entries \subseteq Entry
    BY <1>2, StreamTypes
<1>4. e.kind = "content" => e.entry = e.at + 1 /\ e.entry <= Len(journal)
    BY <1>1 DEF HistoryInv, StreamInv, Sound, Consistent, Upcoming
<1>5. e.kind = "content" => e.entry \in Entries
    BY <1>1, <1>3, <1>4 DEF Entries
<1>6. mirror.confirmed \subseteq Entries
    BY <1>1 DEF HistoryInv, MirrorInv
<1>7. /\ mirror.live \subseteq Entry /\ mirror.outbox \subseteq Entry
      /\ mirror.marks \subseteq Mark /\ relay \subseteq Entry
    BY <1>1, <1>2, MirrorTypes DEF TypeOK
<1> QED
    BY <1>1, <1>2, <1>3, <1>5, <1>6, <1>7 DEF Taking

\* The types of a step that takes an event.
LEMMA TakingTypeOK ==
    ASSUME HistoryInv, NEW e, Taking(e), Answer(e) \/ UNCHANGED extVars,
           mirror' \in Mirror \cup {None}, checkpoint' \in {checkpoint, Len(journal)},
           relay' \subseteq Entry, repeated' \subseteq Entry,
           Fault \/ UNCHANGED bounds
    PROVE  TypeOK'
<1>1. TypeOK
    BY DEF HistoryInv
<1>2. /\ queue' \in Seq(Payload) /\ Len(queue') <= MaxQueued
      /\ attempts' \in 0 .. MaxAttempts - 1 /\ posting' \in Payload \cup {None}
      /\ tasks' \in Seq(Payload)
      /\ UNCHANGED <<inst, nextId, pi, turn, journal, daemon>>
    BY HandlingFacts DEF Taking
<1>3. faults' \in 0 .. MaxFaults /\ updates' \in 0 .. MaxUpdates
    BY <1>1, FaultTypes
<1>4. Len(journal) \in Nat
    BY <1>1, StreamTypes
<1>5. checkpoint' \in 0 .. Len(journal)
    BY <1>1, <1>4 DEF TypeOK
<1> QED
    BY <1>1, <1>2, <1>3, <1>5 DEF TypeOK

\* An event of an instance that does not own the session, or a late copy, goes.
LEMMA DisregardHistory ==
    ASSUME HistoryInv, NEW e, Disregard(e)
    PROVE  HistoryInv'
<1>1. /\ Handling(e) /\ Answer(e)
      /\ mirror' \in {mirror, [mirror EXCEPT !.owner = e.inst, !.stale = FALSE]}
      /\ UNCHANGED <<piVars, daemon, checkpoint, relay, repeated, bounds>>
    BY DEF Disregard
<1>2. /\ e \in Payload /\ mirror # None /\ StreamInv' /\ Stream' \subseteq Stream
      /\ queue' \in Seq(Payload) /\ Len(queue') <= MaxQueued
      /\ attempts' \in 0 .. MaxAttempts - 1 /\ posting' \in Payload \cup {None}
      /\ tasks' \in Seq(Payload)
      /\ UNCHANGED <<inst, nextId, pi, turn, journal>>
    BY <1>1, HandlingFacts
<1>3. TypeOK /\ mirror \in Mirror /\ e.inst \in Nat
    BY <1>2, MirrorTypes, EventTypes DEF HistoryInv
<1>4. /\ mirror' \in Mirror
      /\ mirror'.inst = mirror.inst /\ mirror'.id = mirror.id
      /\ mirror'.gap = mirror.gap /\ mirror'.covered = mirror.covered
      /\ mirror'.live = mirror.live /\ mirror'.upTo = mirror.upTo
      /\ mirror'.marks = mirror.marks
      /\ mirror'.confirmed = mirror.confirmed /\ mirror'.outbox = mirror.outbox
    BY <1>1, <1>3 DEF Mirror
<1>5. TypeOK'
    BY <1>1, <1>2, <1>3, <1>4 DEF TypeOK, bounds
<1>6. MirrorInv' /\ HolesAreGaps'
    BY <1>1, <1>2, <1>4, MirrorKept DEF HistoryInv, MirrorInv
<1> QED
    BY <1>1, <1>2, <1>5, <1>6 DEF HistoryInv, TakenOnce

\* session_start, command_list and message_update.
LEMMA TakeNoteHistory ==
    ASSUME HistoryInv, NEW e, TakeNote(e)
    PROVE  HistoryInv'
<1> DEFINE m == Accepted(mirror, e)
<1>1. /\ Taking(e) /\ Answer(e) /\ mirror' = m /\ UNCHANGED <<checkpoint, relay, repeated, bounds>>
    BY DEF TakeNote
<1>2. /\ TypeOK /\ e \in Stream /\ mirror # None /\ ~IsRepeat(mirror, e)
      /\ mirror.confirmed \subseteq Entries /\ e.kind # "content"
    BY <1>1, TakingTypes DEF TakeNote
<1>3. /\ m \in Mirror /\ m.inst = e.inst /\ m.id = e.id /\ m.upTo = e.at
      /\ m.live = mirror.live /\ m.confirmed = mirror.confirmed /\ m.outbox = mirror.outbox
    BY <1>2, AcceptedFacts
<1> HIDE DEF m
<1>4. TypeOK'
    BY <1>1, <1>2, <1>3, TakingTypeOK DEF TypeOK
<1>5. Held(mirror) \subseteq Held(mirror)'
    BY <1>1, <1>3 DEF Held
<1>6. MirrorInv' /\ HolesAreGaps'
    BY <1>1, <1>2, <1>3, <1>5, TakenFacts DEF m
<1>7. StreamInv' /\ TakenOnce'
    BY <1>1, HandlingFacts DEF Taking, HistoryInv, TakenOnce
<1> QED
    BY <1>4, <1>6, <1>7 DEF HistoryInv

\* The entry an event is about comes after all the mirror took before it.
LEMMA EntryIsNew ==
    ASSUME HistoryInv, NEW e, Taking(e), Answer(e) \/ UNCHANGED extVars, e.kind = "content"
    PROVE  e.entry \notin mirror.live
<1>1. /\ TypeOK /\ e \in Stream /\ mirror # None /\ ~IsRepeat(mirror, e)
      /\ e.at \in 0 .. MaxEntries /\ mirror.live \subseteq Entry
    BY TakingTypes
<1>2. \A x \in mirror.live : x <= e.at
    BY <1>1, AcceptedFacts
<1>3. e.entry = e.at + 1
    BY <1>1 DEF HistoryInv, StreamInv, Sound
<1> QED
    BY <1>1, <1>2, <1>3 DEF Entry

\* message_end and tool_execution_end: the relay has it, or the outbox, and
\* what else the mirror marks is later than all that is covered.
LEMMA TakeContentFacts ==
    ASSUME HistoryInv, NEW e, TakeContent(e)
    PROVE  /\ Taking(e) /\ (Answer(e) \/ UNCHANGED extVars)
           /\ e.kind = "content" /\ (Fault \/ UNCHANGED bounds)
           /\ UNCHANGED <<checkpoint, repeated>>
           /\ mirror' \in Mirror
           /\ mirror'.inst = e.inst /\ mirror'.id = e.id /\ mirror'.upTo = e.at
           /\ mirror'.confirmed \subseteq Entries /\ mirror'.live = mirror.live \cup {e.entry}
           /\ mirror'.gap = Accepted(mirror, e).gap /\ mirror'.covered = Accepted(mirror, e).covered
           /\ relay \subseteq relay' /\ relay' \subseteq Entry
           /\ Held(mirror)' = Held(mirror) \cup {e.entry}
           /\ \A x \in mirror'.confirmed :
                 x \in mirror.confirmed \cup {e.entry} \/ x > Accepted(mirror, e).covered
           /\ \A k \in mirror'.marks :
                 k \in mirror.marks \/ k.since = Accepted(mirror, e).covered
<1> DEFINE a == Accepted(mirror, e)
           m == Accepted([mirror EXCEPT !.live = @ \cup {e.entry},
                                        !.outbox = @ \cup {e.entry}], e)
           text == IF journal[e.entry] = "assistant" THEN {e.entry} ELSE {}
           mark == [since |-> m.covered, assistant |-> FALSE]
           n == markPiExtensionDelivered([Flushed(m) EXCEPT !.confirmed = @ \cup text], mark)
<1>1. /\ e.kind = "content" /\ Taking(e)
      /\ repeated' = IF e.entry \in mirror.live THEN repeated \cup {e.entry} ELSE repeated
      /\ \/ mirror' = n /\ relay' = relay \cup m.outbox /\ Answer(e) /\ UNCHANGED bounds
         \/ mirror' = m /\ Fault /\ UNCHANGED <<relay, extVars>>
      /\ UNCHANGED checkpoint
    BY DEF TakeContent
<1>2. /\ TypeOK /\ e \in Stream /\ mirror # None /\ ~IsRepeat(mirror, e)
      /\ e.entry \in Entries /\ Entries \subseteq Entry /\ Len(journal) \in 0 .. MaxEntries
      /\ mirror.confirmed \subseteq Entries
      /\ mirror.live \subseteq Entry /\ mirror.outbox \subseteq Entry
      /\ mirror.marks \subseteq Mark /\ relay \subseteq Entry
    BY <1>1, TakingTypes
<1>3. /\ a \in Mirror /\ a.inst = e.inst /\ a.id = e.id /\ a.upTo = e.at
      /\ a.live = mirror.live /\ a.confirmed = mirror.confirmed /\ a.outbox = mirror.outbox
      /\ a.marks = mirror.marks /\ a.covered \in 0 .. Len(journal)
    BY <1>2, AcceptedFacts
<1>4. /\ e \in Payload /\ mirror \in Mirror
      /\ mirror.live \cup {e.entry} \subseteq Entry /\ mirror.outbox \cup {e.entry} \subseteq Entry
    BY <1>1, <1>2, TakingTypes, MirrorTypes
<1>5. /\ m \in Mirror /\ m.inst = e.inst /\ m.id = e.id /\ m.upTo = e.at
      /\ m.gap = a.gap /\ m.covered = a.covered /\ m.covered \in 0 .. MaxEntries
      /\ m.confirmed = mirror.confirmed /\ m.marks = mirror.marks
      /\ m.live = mirror.live \cup {e.entry} /\ m.outbox = mirror.outbox \cup {e.entry}
  <2> DEFINE r == [mirror EXCEPT !.live = @ \cup {e.entry}, !.outbox = @ \cup {e.entry}]
  <2>1. /\ r \in Mirror /\ r.inst = mirror.inst /\ r.id = mirror.id /\ r.gap = mirror.gap
        /\ r.covered = mirror.covered /\ r.confirmed = mirror.confirmed /\ r.marks = mirror.marks
        /\ r.live = mirror.live \cup {e.entry} /\ r.outbox = mirror.outbox \cup {e.entry}
    BY <1>4 DEF Mirror
  <2>2. m = Accepted(r, e)
    OBVIOUS
  <2> HIDE DEF r, m
  <2>3. /\ m \in Mirror /\ m.inst = e.inst /\ m.id = e.id /\ m.upTo = e.at
        /\ m.gap = a.gap /\ m.covered = a.covered
        /\ m.confirmed = mirror.confirmed /\ m.marks = mirror.marks
        /\ m.live = mirror.live \cup {e.entry} /\ m.outbox = mirror.outbox \cup {e.entry}
    <3>1. LET x == Accepted(r, e)
          IN  /\ x \in Mirror /\ x.inst = e.inst /\ x.id = e.id /\ x.upTo = e.at
              /\ x.live = r.live /\ x.confirmed = r.confirmed
              /\ x.outbox = r.outbox /\ x.marks = r.marks
              /\ x.gap = \/ r.gap
                         \/ e.inst = r.inst /\ e.id # r.id + 1
                         \/ e.inst # r.inst /\ (r.inst # 0 \/ e.id # 1)
              /\ x.covered = IF r.covered = None \/ e.kind \in {"reload", "startup"} THEN e.at
                             ELSE r.covered
      BY <1>4, <2>1, AcceptedFields
    <3>2. /\ a.gap = \/ mirror.gap
                     \/ e.inst = mirror.inst /\ e.id # mirror.id + 1
                     \/ e.inst # mirror.inst /\ (mirror.inst # 0 \/ e.id # 1)
          /\ a.covered = IF mirror.covered = None \/ e.kind \in {"reload", "startup"} THEN e.at
                         ELSE mirror.covered
      BY <1>4, AcceptedFields
    <3> HIDE DEF a
    <3> QED
      BY <2>1, <2>2, <3>1, <3>2
  <2>4. a.covered \in 0 .. MaxEntries
    BY <1>2, <1>3, BoundsAssumption
  <2> QED
    BY <2>3, <2>4
<1> HIDE DEF a, m
<1>6. /\ text \subseteq Entries /\ DeliveredSince(mark) \subseteq Entries /\ mark \in Mark
      /\ text \subseteq {e.entry} /\ mark.since = a.covered
      /\ \A x \in DeliveredSince(mark) : x > a.covered
    BY <1>2, <1>5 DEF DeliveredSince, Mark
<1> HIDE DEF text, mark
<1>7. n = [m EXCEPT !.outbox = {}, !.confirmed = (mirror.confirmed \cup text) \cup DeliveredSince(mark),
                    !.marks = mirror.marks \cup {mark}]
    BY <1>5 DEF markPiExtensionDelivered, Flushed, Mirror
<1> HIDE DEF n
<1>8. /\ n \in Mirror /\ n.inst = e.inst /\ n.id = e.id /\ n.upTo = e.at
      /\ n.gap = a.gap /\ n.covered = a.covered /\ n.live = mirror.live \cup {e.entry}
      /\ n.confirmed \subseteq Entries /\ n.outbox = {}
      /\ n.confirmed = (mirror.confirmed \cup text) \cup DeliveredSince(mark)
      /\ n.marks = mirror.marks \cup {mark}
  <2>1. /\ (mirror.confirmed \cup text) \cup DeliveredSince(mark) \subseteq Entries
        /\ (mirror.confirmed \cup text) \cup DeliveredSince(mark) \subseteq Entry
        /\ mirror.marks \cup {mark} \subseteq Mark
    BY <1>2, <1>6
  <2>2. n \in Mirror
    BY <1>5, <1>7, <2>1 DEF Mirror
  <2> QED
    BY <1>5, <1>7, <2>1 DEF Mirror
<1>9. Answer(e) \/ UNCHANGED extVars
    BY <1>1
<1>10. /\ mirror' \in Mirror /\ mirror'.inst = e.inst /\ mirror'.id = e.id /\ mirror'.upTo = e.at
       /\ mirror'.confirmed \subseteq Entries /\ mirror'.live = mirror.live \cup {e.entry}
       /\ mirror'.gap = a.gap /\ mirror'.covered = a.covered
       /\ relay \subseteq relay' /\ relay' \subseteq Entry
       /\ Held(mirror)' = Held(mirror) \cup {e.entry}
       /\ mirror'.confirmed \subseteq (mirror.confirmed \cup text) \cup DeliveredSince(mark)
       /\ mirror'.marks \subseteq mirror.marks \cup {mark}
  <2>1. CASE mirror' = n /\ relay' = relay \cup m.outbox
    BY <1>2, <1>5, <1>8, <2>1 DEF Held
  <2>2. CASE mirror' = m /\ UNCHANGED relay
    BY <1>2, <1>5, <2>2 DEF Held
  <2> QED
    BY <1>1, <2>1, <2>2
<1>11. repeated' = repeated
    BY <1>1, <1>9, EntryIsNew
<1>12. Fault \/ UNCHANGED bounds
    BY <1>1
<1> QED
    BY <1>1, <1>6, <1>9, <1>10, <1>11, <1>12 DEF a

\* So a message keeps the invariant.
LEMMA TakeContentHistory ==
    ASSUME HistoryInv, NEW e, TakeContent(e)
    PROVE  HistoryInv'
<1>0. /\ Taking(e) /\ (Answer(e) \/ UNCHANGED extVars)
      /\ e.kind = "content" /\ (Fault \/ UNCHANGED bounds)
      /\ UNCHANGED <<checkpoint, repeated>>
      /\ mirror' \in Mirror /\ relay' \subseteq Entry
      /\ mirror'.inst = e.inst /\ mirror'.id = e.id /\ mirror'.upTo = e.at
      /\ mirror'.confirmed \subseteq Entries /\ mirror'.live = mirror.live \cup {e.entry}
      /\ mirror'.gap = Accepted(mirror, e).gap /\ mirror'.covered = Accepted(mirror, e).covered
      /\ Held(mirror)' = Held(mirror) \cup {e.entry}
    BY TakeContentFacts
<1>1. TypeOK'
    BY <1>0, TakingTypeOK DEF HistoryInv, TypeOK
<1>2. MirrorInv' /\ HolesAreGaps'
    BY <1>0, TakenFacts
<1>3. StreamInv' /\ TakenOnce'
    BY <1>0, HandlingFacts DEF Taking, HistoryInv, TakenOnce
<1> QED
    BY <1>1, <1>2, <1>3 DEF HistoryInv

\* agent_end: what is missing is sent, and the checkpoint moves when the relay
\* has answered.
LEMMA TakeEndFacts ==
    ASSUME HistoryInv, NEW e, TakeEnd(e)
    PROVE  /\ Taking(e) /\ Answer(e) /\ e.kind = "end" /\ (Fault \/ UNCHANGED bounds)
           /\ UNCHANGED repeated
           /\ mirror' \in Mirror
           /\ mirror'.inst = e.inst /\ mirror'.id = e.id /\ mirror'.upTo = e.at
           /\ mirror'.confirmed \subseteq Entries /\ mirror'.live = mirror.live
           /\ relay \subseteq relay' /\ relay' \subseteq Entry
           /\ \A x \in mirror'.confirmed :
                 x \in mirror.confirmed \/ x > Accepted(mirror, e).covered
           /\ \A k \in mirror'.marks :
                 k \in mirror.marks \/ k.since = Accepted(mirror, e).covered
           /\ \/ /\ mirror'.covered = e.at /\ checkpoint' = Len(journal)
                 /\ \A x \in Entries :
                       \/ x <= checkpoint \/ x \in relay'
                       \/ ~Accepted(mirror, e).gap /\ x \in mirror'.confirmed
                 /\ Held(mirror) \subseteq relay'
              \/ /\ mirror'.covered = Accepted(mirror, e).covered
                 /\ mirror'.gap = Accepted(mirror, e).gap
                 /\ Held(mirror) \subseteq Held(mirror)' /\ UNCHANGED checkpoint
<1> DEFINE m == Accepted(mirror, e)
           mark == [since |-> m.covered, assistant |-> ~m.gap]
<1>1. /\ e.kind = "end" /\ Taking(e) /\ Answer(e) /\ repeated' = repeated
      /\ TypeOK /\ e \in Stream /\ mirror # None /\ ~IsRepeat(mirror, e)
      /\ e.at \in 0 .. MaxEntries /\ Entries \subseteq Entry /\ Len(journal) \in 0 .. MaxEntries
      /\ mirror.confirmed \subseteq Entries
      /\ mirror.live \subseteq Entry /\ mirror.outbox \subseteq Entry
      /\ mirror.marks \subseteq Mark /\ relay \subseteq Entry
    BY TakingTypes DEF TakeEnd
<1>2. /\ m \in Mirror /\ m.inst = e.inst /\ m.id = e.id /\ m.upTo = e.at
      /\ m.live = mirror.live /\ m.confirmed = mirror.confirmed /\ m.outbox = mirror.outbox
      /\ m.marks = mirror.marks /\ m.covered \in 0 .. Len(journal)
    BY <1>1, AcceptedFacts
<1>3. PICK withText \in BOOLEAN :
        LET n == IF withText THEN markPiExtensionDelivered(Flushed(m), mark) ELSE Flushed(m)
        IN  \/ /\ mirror' = [n EXCEPT !.gap = FALSE, !.covered = e.at]
               /\ relay' = relay \cup m.outbox \cup Missing(n)
               /\ checkpoint' = Len(journal) /\ UNCHANGED bounds
            \/ /\ mirror' = [n EXCEPT !.outbox = Missing(n)]
               /\ relay' = relay \cup m.outbox
               /\ Fault /\ UNCHANGED checkpoint
            \/ /\ mirror' = m /\ Fault /\ UNCHANGED <<relay, checkpoint>>
    BY DEF TakeEnd
<1> DEFINE n == IF withText THEN markPiExtensionDelivered(Flushed(m), mark) ELSE Flushed(m)
<1>4. /\ n \in Mirror /\ n.inst = e.inst /\ n.id = e.id /\ n.upTo = e.at
      /\ n.gap = m.gap /\ n.covered = m.covered /\ n.live = mirror.live
      /\ n.confirmed \subseteq Entries
      /\ \A x \in n.confirmed : x \in mirror.confirmed \/ x > m.covered
      /\ \A k \in n.marks : k \in mirror.marks \/ k.since = m.covered
  <2> HIDE DEF m
  <2>1. m.gap \in BOOLEAN
    BY <1>2 DEF Mirror
  <2>2. /\ DeliveredSince(mark) \subseteq Entries /\ mark \in Mark
        /\ mark.since = m.covered /\ \A x \in DeliveredSince(mark) : x > m.covered
    <3>1. m.covered \in 0 .. MaxEntries
      BY <1>1, <1>2, BoundsAssumption
    <3> QED
      BY <2>1, <3>1 DEF DeliveredSince, Mark
  <2> HIDE DEF mark
  <2>3. CASE withText
    <3>1. n = [m EXCEPT !.outbox = {}, !.confirmed = mirror.confirmed \cup DeliveredSince(mark),
                        !.marks = mirror.marks \cup {mark}]
      BY <1>2, <2>3 DEF markPiExtensionDelivered, Flushed, Mirror
    <3>2. /\ mirror.confirmed \cup DeliveredSince(mark) \subseteq Entries
          /\ mirror.confirmed \cup DeliveredSince(mark) \subseteq Entry
          /\ mirror.marks \cup {mark} \subseteq Mark
      BY <1>1, <2>2
    <3> HIDE DEF n
    <3>3. n \in Mirror
      BY <1>2, <3>1, <3>2 DEF Mirror
    <3>4. /\ n.confirmed = mirror.confirmed \cup DeliveredSince(mark)
          /\ n.marks = mirror.marks \cup {mark}
      BY <1>2, <3>1 DEF Mirror
    <3> QED
      BY <1>2, <2>2, <3>1, <3>2, <3>3, <3>4 DEF Mirror
  <2>4. CASE ~withText
    <3>1. n = [m EXCEPT !.outbox = {}]
      BY <2>4 DEF Flushed
    <3> HIDE DEF n
    <3>2. n \in Mirror
      BY <1>2, <3>1 DEF Mirror
    <3> QED
      BY <1>1, <1>2, <3>1, <3>2 DEF Mirror
  <2> QED
    BY <2>3, <2>4
<1>5. /\ Missing(n) \subseteq Entries
      /\ \A x \in Entries : x <= checkpoint \/ x \in Missing(n) \/ (~n.gap /\ x \in n.confirmed)
  <2> HIDE DEF n
  <2>1. Len(journal) \in Nat /\ checkpoint \in Nat
    BY <1>1 DEF TypeOK
  <2>2. \A x \in Entries : x \in Nat
    BY DEF Entries
  <2> QED
    BY <2>1, <2>2 DEF Missing
<1> HIDE DEF m, n
<1>6. Len(journal) \in Nat
    BY <1>1
<1>7. /\ mirror' \in Mirror /\ mirror'.inst = e.inst /\ mirror'.id = e.id /\ mirror'.upTo = e.at
      /\ mirror'.confirmed \subseteq Entries /\ mirror'.live = mirror.live
      /\ relay \subseteq relay' /\ relay' \subseteq Entry
      /\ (Fault \/ UNCHANGED bounds)
      /\ \A x \in mirror'.confirmed : x \in mirror.confirmed \/ x > m.covered
      /\ \A k \in mirror'.marks : k \in mirror.marks \/ k.since = m.covered
      /\ \/ /\ mirror'.covered = e.at /\ checkpoint' = Len(journal)
            /\ \A x \in Entries :
                  \/ x <= checkpoint \/ x \in relay'
                  \/ ~m.gap /\ x \in mirror'.confirmed
            /\ Held(mirror) \subseteq relay'
         \/ /\ mirror'.covered = m.covered /\ mirror'.gap = m.gap
            /\ Held(mirror) \subseteq Held(mirror)' /\ UNCHANGED checkpoint
  <2>1. CASE /\ mirror' = [n EXCEPT !.gap = FALSE, !.covered = e.at]
             /\ relay' = relay \cup m.outbox \cup Missing(n)
             /\ checkpoint' = Len(journal) /\ UNCHANGED bounds
    <3>1. mirror' \in Mirror
      BY <1>1, <1>4, <2>1 DEF Mirror
    <3>2. /\ mirror'.inst = n.inst /\ mirror'.id = n.id /\ mirror'.upTo = n.upTo
          /\ mirror'.confirmed = n.confirmed /\ mirror'.live = n.live /\ mirror'.marks = n.marks
          /\ mirror'.covered = e.at
      BY <1>4, <2>1 DEF Mirror
    <3>3. Held(mirror) \subseteq relay'
      BY <1>2, <2>1 DEF Held
    <3> QED
      BY <1>1, <1>2, <1>4, <1>5, <2>1, <3>1, <3>2, <3>3
  <2>2. CASE /\ mirror' = [n EXCEPT !.outbox = Missing(n)]
             /\ relay' = relay \cup m.outbox
             /\ Fault /\ UNCHANGED checkpoint
    <3>1. mirror' \in Mirror
      BY <1>1, <1>4, <1>5, <2>2 DEF Mirror
    <3>2. /\ mirror'.inst = n.inst /\ mirror'.id = n.id /\ mirror'.upTo = n.upTo
          /\ mirror'.confirmed = n.confirmed /\ mirror'.live = n.live /\ mirror'.marks = n.marks
          /\ mirror'.covered = n.covered /\ mirror'.gap = n.gap
      BY <1>4, <2>2 DEF Mirror
    <3>3. Held(mirror) \subseteq Held(mirror)'
      BY <1>2, <2>2 DEF Held
    <3> QED
      BY <1>1, <1>2, <1>4, <2>2, <3>1, <3>2, <3>3
  <2>3. CASE mirror' = m /\ Fault /\ UNCHANGED <<relay, checkpoint>>
    BY <1>1, <1>2, <2>3 DEF Held
  <2> QED
    BY <1>3, <2>1, <2>2, <2>3 DEF n
<1> QED
    BY <1>1, <1>7 DEF m

\* So an end keeps the invariant.
LEMMA TakeEndHistory ==
    ASSUME HistoryInv, NEW e, TakeEnd(e)
    PROVE  HistoryInv'
<1>0. /\ Taking(e) /\ Answer(e) /\ e.kind = "end" /\ (Fault \/ UNCHANGED bounds)
      /\ UNCHANGED repeated /\ checkpoint' \in {checkpoint, Len(journal)}
      /\ mirror' \in Mirror /\ relay' \subseteq Entry
      /\ mirror'.inst = e.inst /\ mirror'.id = e.id /\ mirror'.upTo = e.at
      /\ mirror'.confirmed \subseteq Entries /\ mirror'.live = mirror.live
      /\ \/ mirror'.covered = e.at
         \/ /\ mirror'.covered = Accepted(mirror, e).covered
            /\ mirror'.gap = Accepted(mirror, e).gap
            /\ Held(mirror) \subseteq Held(mirror)'
    BY TakeEndFacts
<1>1. TypeOK'
    BY <1>0, TakingTypeOK DEF HistoryInv, TypeOK
<1>2. MirrorInv' /\ HolesAreGaps'
    BY <1>0, TakenFacts
<1>3. StreamInv' /\ TakenOnce'
    BY <1>0, HandlingFacts DEF Taking, HistoryInv, TakenOnce
<1> QED
    BY <1>1, <1>2, <1>3 DEF HistoryInv

\* session_shutdown: the mirror ends with its outbox empty, or stays.
LEMMA TakeShutdownHistory ==
    ASSUME HistoryInv, NEW e, TakeShutdown(e)
    PROVE  HistoryInv'
<1> DEFINE m == Accepted(mirror, e)
<1>1. /\ e.kind = "shutdown" /\ Taking(e) /\ UNCHANGED <<checkpoint, repeated>>
      /\ \/ mirror' = None /\ relay' = relay \cup m.outbox /\ Answer(e) /\ UNCHANGED bounds
         \/ mirror' = m /\ Fault /\ UNCHANGED <<relay, extVars>>
    BY DEF TakeShutdown
<1>2. /\ TypeOK /\ e \in Stream /\ mirror # None /\ ~IsRepeat(mirror, e)
      /\ mirror.confirmed \subseteq Entries
      /\ mirror.outbox \subseteq Entry /\ relay \subseteq Entry
    BY <1>1, TakingTypes
<1>3. /\ m \in Mirror /\ m.inst = e.inst /\ m.id = e.id /\ m.upTo = e.at
      /\ m.live = mirror.live /\ m.confirmed = mirror.confirmed /\ m.outbox = mirror.outbox
    BY <1>2, AcceptedFacts
<1> HIDE DEF m
<1>4. TypeOK'
    BY <1>1, <1>2, <1>3, TakingTypeOK DEF TypeOK
<1>5. MirrorInv' /\ HolesAreGaps'
  <2>1. CASE mirror' = None
    BY <2>1 DEF MirrorInv, HolesAreGaps
  <2>2. CASE mirror' = m /\ UNCHANGED <<relay, extVars>>
    <3>1. Held(mirror) \subseteq Held(mirror)'
      BY <1>3, <2>2 DEF Held
    <3> QED
      BY <1>1, <1>2, <1>3, <2>2, <3>1, TakenFacts DEF m
  <2> QED
    BY <1>1, <2>1, <2>2
<1>6. StreamInv' /\ TakenOnce'
    BY <1>1, HandlingFacts DEF Taking, HistoryInv, TakenOnce
<1> QED
    BY <1>4, <1>5, <1>6 DEF HistoryInv
------------------------------------------------------------------------------
(* The daemon's timers, and its own life.                                   *)

\* Steps of the daemon by which no event moves.
LEMMA DaemonTypeOK ==
    ASSUME TypeOK, UNCHANGED <<piVars, extVars, repeated>>,
           daemon' \in {"down", "starting", "ready"}, tasks' \in {tasks, <<>>},
           mirror' \in Mirror \cup {None}, checkpoint' \in {checkpoint, Len(journal)},
           relay' \subseteq Entry, Fault \/ UNCHANGED bounds
    PROVE  TypeOK'
<1>1. faults' \in 0 .. MaxFaults /\ updates' \in 0 .. MaxUpdates
    BY FaultTypes
<1>2. checkpoint' \in 0 .. Len(journal)
    BY StreamTypes DEF TypeOK
<1>3. tasks' \in Seq(Payload)
  <2>1. <<>> \in Seq(Payload)
    OBVIOUS
  <2> QED
    BY <2>1 DEF TypeOK
<1>4. UNCHANGED <<pi, turn, journal, inst, nextId, queue, attempts, posting, repeated>>
    BY DEF piVars, extVars
<1> QED
    BY <1>1, <1>2, <1>3, <1>4 DEF TypeOK

\* A session's mirror begins at the length of the file, having taken nothing
\* (ensurePiSessionMirror).
LEMMA EnsureHistory ==
    ASSUME HistoryInv, ensurePiSessionMirror
    PROVE  HistoryInv'
<1> DEFINE behind == {x \in Entries : x > checkpoint}
<1>1. /\ TypeOK /\ Entries \subseteq Entry /\ Len(journal) \in 0 .. MaxEntries /\ behind \subseteq Entries
      /\ Stream \subseteq Payload
    BY StreamTypes DEF HistoryInv
<1>2. PICK gap \in BOOLEAN, outbox \in {{}, behind} : mirror' = NewMirror(gap, outbox)
    BY DEF ensurePiSessionMirror
<1>3. /\ relay' \in {relay, relay \cup behind} /\ checkpoint' \in {checkpoint, Len(journal)}
      /\ Fault \/ UNCHANGED bounds
      /\ UNCHANGED <<piVars, extVars, daemon, tasks, repeated>>
    BY DEF ensurePiSessionMirror
<1> HIDE DEF behind
<1>4. /\ mirror' \in Mirror
      /\ mirror'.inst = 0 /\ mirror'.id = 0 /\ mirror'.upTo = 0 /\ mirror'.covered = None
      /\ mirror'.confirmed = {} /\ mirror'.marks = {} /\ mirror'.live = {}
  <2>1. outbox \subseteq Entry
    BY <1>1, <1>2
  <2>2. 0 \in 0 .. MaxEntries
    BY BoundsAssumption
  <2>3. /\ mirror' = [owner |-> 0, stale |-> TRUE, inst |-> 0, id |-> 0, gap |-> gap, covered |-> None,
                      start |-> Len(journal), confirmed |-> {}, outbox |-> outbox, marks |-> {},
                      live |-> {}, upTo |-> 0]
    BY <1>2 DEF NewMirror
  <2> QED
    BY <1>1, <2>1, <2>2, <2>3 DEF Mirror
<1>5. TypeOK'
  <2>1. relay' \subseteq Entry
    BY <1>1, <1>3 DEF TypeOK
  <2> QED
    BY <1>1, <1>3, <1>4, <2>1, DaemonTypeOK DEF TypeOK
<1>6. UNCHANGED <<queue, tasks, posting, inst, nextId, pi, journal>>
    BY <1>3 DEF extVars, piVars
<1>7. StreamInv'
  <2>1. UNCHANGED <<Stream, Upcoming>>
    BY <1>6 DEF Stream, Upcoming
  <2>2. StreamInOrder' = StreamInOrder
    BY <1>6 DEF StreamInOrder, Ordered, NotAfter, Before
  <2> QED
    BY <1>6, <2>1, <2>2, StreamShrinks DEF HistoryInv, StreamInv
<1>8. MirrorInv'
  <2>1. Stream' = Stream /\ Upcoming' = Upcoming /\ Entries' = Entries
    BY <1>6 DEF Stream, Upcoming, Entries
  <2>2. ASSUME NEW g \in Stream \cup {Upcoming}
        PROVE  g.inst \in Nat /\ g.id \in Nat /\ g.id >= 1 /\ (g \in Stream => g.inst >= 1)
    <3>1. CASE g \in Stream
      BY <1>1, <3>1, EventTypes DEF HistoryInv, StreamInv, Sound
    <3>2. CASE g = Upcoming
      BY <1>1, <3>2, StreamTypes, EventTypes DEF Upcoming, TypeOK, HistoryInv, StreamInv, Sound, Before
    <3> QED
      BY <3>1, <3>2
  <2>3. ASSUME NEW g \in Stream \cup {Upcoming} PROVE Before(mirror', g)
    BY <1>4, <2>2, <2>3 DEF Before
  <2>4. ASSUME NEW g \in Stream \cup {Upcoming}, g.inst = 0 PROVE g.at = 0
    <3>1. g = Upcoming /\ inst = 0
      BY <2>2, <2>4 DEF Upcoming
    <3>2. journal = <<>>
      BY <3>1 DEF HistoryInv, StreamInv
    <3> QED
      BY <3>1, <3>2 DEF Upcoming
  <2> QED
    BY <1>1, <1>4, <1>6, <2>1, <2>3, <2>4 DEF MirrorInv, NotAfter, Before
<1>9. HolesAreGaps' /\ TakenOnce'
    BY <1>3, <1>4 DEF HistoryInv, HolesAreGaps, TakenOnce
<1> QED
    BY <1>5, <1>7, <1>8, <1>9 DEF HistoryInv

\* The mirror's own work: it learns what was delivered, sends what it does not
\* know or what waits, and forgets who owns the session.
LEMMA MirrorWorkHistory ==
    ASSUME HistoryInv, MarkAgain \/ tick \/ RelayAnswers \/ Silence
    PROVE  HistoryInv'
<1>1. /\ TypeOK /\ mirror # None /\ mirror \in Mirror
      /\ Entries \subseteq Entry /\ mirror.confirmed \subseteq Entries
      /\ mirror.outbox \subseteq Entry /\ relay \subseteq Entry
    BY StreamTypes, MirrorTypes
    DEF HistoryInv, MirrorInv, TypeOK, MarkAgain, tick, RelayAnswers, Silence
<1>2. /\ UNCHANGED <<piVars, extVars, daemon, tasks, checkpoint, repeated>>
      /\ Fault \/ UNCHANGED bounds
    BY DEF MarkAgain, tick, RelayAnswers, Silence, bounds
<1>3. \E confirmed \in SUBSET Entries, outbox \in {mirror.outbox, {}}, stale \in BOOLEAN :
         mirror' = [mirror EXCEPT !.confirmed = confirmed, !.outbox = outbox, !.stale = stale]
  <2>0. mirror.stale \in BOOLEAN
    BY <1>1 DEF Mirror
  <2>1. CASE MarkAgain
    <3>1. PICK mark \in mirror.marks :
             mirror' = [mirror EXCEPT !.confirmed = @ \cup DeliveredSince(mark)]
      BY <2>1 DEF MarkAgain
    <3>2. mirror.confirmed \cup DeliveredSince(mark) \in SUBSET Entries
      BY <1>1 DEF DeliveredSince
    <3>3. mirror' = [mirror EXCEPT !.confirmed = mirror.confirmed \cup DeliveredSince(mark),
                                   !.outbox = mirror.outbox, !.stale = mirror.stale]
      BY <1>1, <3>1 DEF Mirror
    <3> QED
      BY <2>0, <3>2, <3>3
  <2>2. CASE tick
    <3> DEFINE unknown == Entries \ Known(mirror)
    <3>1. mirror' = [mirror EXCEPT !.confirmed = mirror.confirmed \cup unknown,
                                   !.outbox = {}, !.stale = mirror.stale]
      BY <1>1, <2>2 DEF tick, Flushed, Mirror
    <3>2. mirror.confirmed \cup unknown \in SUBSET Entries
      BY <1>1
    <3> HIDE DEF unknown
    <3> QED
      BY <2>0, <3>1, <3>2
  <2>3. CASE RelayAnswers
    <3>1. mirror' = [mirror EXCEPT !.confirmed = mirror.confirmed,
                                   !.outbox = {}, !.stale = mirror.stale]
      BY <1>1, <2>3 DEF RelayAnswers, Mirror
    <3> QED
      BY <1>1, <2>0, <3>1
  <2>4. CASE Silence
    <3>1. mirror' = [mirror EXCEPT !.confirmed = mirror.confirmed,
                                   !.outbox = mirror.outbox, !.stale = TRUE]
      BY <1>1, <2>4 DEF Silence, Mirror
    <3> QED
      BY <1>1, <3>1
  <2> QED
    BY <2>1, <2>2, <2>3, <2>4
<1>4. relay \cup mirror.outbox \subseteq relay' \cup mirror'.outbox /\ relay' \subseteq Entry
  <2>1. CASE MarkAgain \/ Silence
    BY <1>1, <2>1 DEF MarkAgain, Silence, Mirror
  <2>2. CASE tick
    BY <1>1, <2>2 DEF tick
  <2>3. CASE RelayAnswers
    BY <1>1, <2>3 DEF RelayAnswers
  <2> QED
    BY <2>1, <2>2, <2>3
<1>5. /\ mirror' \in Mirror
      /\ mirror'.inst = mirror.inst /\ mirror'.id = mirror.id
      /\ mirror'.gap = mirror.gap /\ mirror'.covered = mirror.covered
      /\ mirror'.live = mirror.live /\ mirror'.upTo = mirror.upTo
      /\ mirror'.marks = mirror.marks /\ mirror'.confirmed \subseteq Entries
  <2>1. PICK confirmed \in SUBSET Entries, outbox \in {mirror.outbox, {}}, stale \in BOOLEAN :
           mirror' = [mirror EXCEPT !.confirmed = confirmed, !.outbox = outbox, !.stale = stale]
    BY <1>3
  <2>2. confirmed \subseteq Entry /\ outbox \subseteq Entry
    BY <1>1
  <2> QED
    BY <1>1, <2>1, <2>2 DEF Mirror
<1>6. TypeOK'
    BY <1>1, <1>2, <1>4, <1>5, DaemonTypeOK DEF TypeOK
<1>7. UNCHANGED <<queue, tasks, posting, inst, nextId, pi, journal>>
    BY <1>2 DEF extVars, piVars
<1>8. StreamInOrder' /\ Stream' \subseteq Stream
    BY <1>7 DEF HistoryInv, StreamInv, StreamInOrder, Ordered, NotAfter, Before, Stream
<1>9. StreamInv'
    BY <1>7, <1>8, StreamShrinks DEF HistoryInv
<1>10. MirrorInv' /\ HolesAreGaps'
    BY <1>1, <1>4, <1>5, <1>7, <1>8, MirrorKept DEF HistoryInv
<1> QED
    BY <1>2, <1>6, <1>9, <1>10 DEF HistoryInv, TakenOnce

\* The daemon comes up, and goes with all it had in memory.
LEMMA DaemonLifeHistory ==
    ASSUME HistoryInv, DaemonStarts \/ HandlerReady \/ DaemonDies
    PROVE  HistoryInv'
<1>1. /\ UNCHANGED <<piVars, extVars, checkpoint, relay, repeated>>
      /\ daemon' \in {"down", "starting", "ready"}
      /\ tasks' \in {tasks, <<>>} /\ mirror' \in {mirror, None}
      /\ Fault \/ UNCHANGED bounds
    BY DEF DaemonStarts, HandlerReady, DaemonDies
<1>2. TypeOK'
  <2>1. /\ TypeOK /\ checkpoint' \in {checkpoint, Len(journal)} /\ relay' \subseteq Entry
        /\ mirror' \in Mirror \cup {None}
    BY <1>1 DEF HistoryInv, TypeOK
  <2> QED
    BY <1>1, <2>1, DaemonTypeOK
<1>3. ToSet(tasks') \subseteq ToSet(tasks) /\ Ordered(tasks')
  <2>1. ToSet(<<>>) = {} /\ Ordered(<<>>)
    BY DEF ToSet, Ordered
  <2> QED
    BY <1>1, <2>1 DEF HistoryInv, StreamInv, StreamInOrder
<1>4. Ordered(queue') /\ UNCHANGED <<queue, posting, inst, nextId, pi, journal, repeated, relay>>
    BY <1>1 DEF extVars, piVars, HistoryInv, StreamInv, StreamInOrder
<1> QED
    BY <1>1, <1>2, <1>3, <1>4, LettingGo

------------------------------------------------------------------------------
(* The invariant.                                                           *)

\* Nothing was written, sent or taken yet.
LEMMA InitHistory == Init => HistoryInv
<1> SUFFICES ASSUME Init PROVE HistoryInv
    OBVIOUS
<1>1. TypeOK
  <2>1. /\ <<>> \in Seq(Role) /\ <<>> \in Seq(Payload) /\ Len(<<>>) = 0
        /\ 0 \in 0 .. MaxInstances /\ 0 \in 0 .. MaxAttempts - 1
        /\ 0 \in 0 .. MaxUpdates /\ 0 \in 0 .. MaxFaults
        /\ 0 <= MaxQueued /\ 0 <= MaxEntries
    BY LimitAssumption, BoundsAssumption
  <2>2. journal \in Seq(Role) /\ Len(journal) = 0 /\ checkpoint \in 0 .. Len(journal)
    BY <2>1 DEF Init
  <2>3. queue \in Seq(Payload) /\ Len(queue) = 0 /\ tasks \in Seq(Payload)
    BY <2>1 DEF Init
  <2>4. /\ pi \in {"up", "leaving", "dead"} /\ turn \in BOOLEAN
        /\ daemon \in {"down", "starting", "ready"}
        /\ posting \in Payload \cup {None} /\ mirror \in Mirror \cup {None}
        /\ relay \subseteq Entry /\ repeated \subseteq Entry
    BY DEF Init
  <2>5. /\ inst \in 0 .. MaxInstances /\ nextId \in Nat \ {0}
        /\ attempts \in 0 .. MaxAttempts - 1
        /\ updates \in 0 .. MaxUpdates /\ faults \in 0 .. MaxFaults
    BY <2>1 DEF Init
  <2> QED
    BY <2>1, <2>2, <2>3, <2>4, <2>5 DEF TypeOK
<1>2. Stream = {} /\ ToSet(queue) = {} /\ ToSet(tasks) = {}
    BY DEF Init, Stream, ToSet
<1>3. StreamInv
    BY <1>2 DEF Init, StreamInv, StreamInOrder, Ordered
<1> QED
    BY <1>1, <1>3 DEF Init, HistoryInv, MirrorInv, HolesAreGaps, TakenOnce

\* One lemma for each handler, above.
LEMMA NextHistory == HistoryInv /\ [Next]_vars => HistoryInv'
<1> SUFFICES ASSUME HistoryInv, [Next]_vars PROVE HistoryInv'
    OBVIOUS
<1>1. CASE Extension
    BY <1>1, SendingHistory, PiDiesHistory, SessionStartHistory, DrainHistory, PostFailsHistory
    DEF Extension
<1>2. CASE Event
    BY <1>2, DisregardHistory, TakeNoteHistory, TakeContentHistory, TakeEndHistory,
       TakeShutdownHistory DEF Event
<1>3. CASE Daemon
    BY <1>3, EnsureHistory, MirrorWorkHistory, DaemonLifeHistory DEF Daemon
<1>4. CASE UNCHANGED vars
  <2>1. UNCHANGED <<piVars, extVars, daemonVars, bounds>>
    BY <1>4 DEF vars
  <2>2. /\ UNCHANGED <<pi, turn, journal, inst, nextId, queue, attempts, posting>>
        /\ UNCHANGED <<daemon, tasks, mirror, checkpoint, relay, repeated, updates, faults>>
    BY <2>1 DEF piVars, extVars, daemonVars, bounds
  <2>3. TypeOK'
    BY <2>2 DEF HistoryInv, TypeOK
  <2> QED
    BY <2>2, <2>3, LettingGo DEF HistoryInv, StreamInv, StreamInOrder
<1> QED
    BY <1>1, <1>2, <1>3, <1>4 DEF Next

\* What the extension, the daemon and its mirror keep, for any limits of the
\* queue and of the attempts, and any number of instances, turns and faults.
THEOREM KeepsHistory == Spec => []HistoryInv
BY InitHistory, NextHistory, PTL DEF Spec

\* The variables have their types; the queue keeps its limit.
THEOREM TypeCorrect == Spec => []TypeOK
<1>1. HistoryInv => TypeOK
    BY DEF HistoryInv
<1> QED
    BY <1>1, KeepsHistory, PTL

\* No retry, late copy or lost answer makes a mirror send an entry twice.
THEOREM TakesOnce == Spec => []TakenOnce
<1>1. HistoryInv => TakenOnce
    BY DEF HistoryInv
<1> QED
    BY <1>1, KeepsHistory, PTL

\* What a mirror missed it knows to have missed: without a gap, all that is
\* covered up to the last event is with the relay or on its way.
THEOREM KnowsItsGaps == Spec => []HolesAreGaps
<1>1. HistoryInv => HolesAreGaps
    BY DEF HistoryInv
<1> QED
    BY <1>1, KeepsHistory, PTL

------------------------------------------------------------------------------
(* The checkpoint.                                                          *)

\* An end stays the last word of its turn: what goes takes nothing from the
\* file, and a turn begins when the ends of the last one are gone.
LEMMA EndKept ==
    ASSUME EndIsLast, UNCHANGED journal, turn' => turn,
           Stream' \subseteq Stream
    PROVE  EndIsLast'
BY DEF EndIsLast

\* What Pi sends, an end included.
LEMMA SendingProof ==
    ASSUME HistoryInv, ProofInv, ~Ahead,
           \/ \E role \in Role : MessageEnd(role)
           \/ MessageUpdate \/ AgentEnd \/ SessionShutdown
    PROVE  ProofInv'
<1>0. TypeOK /\ Stream \subseteq Payload /\ Len(journal) \in Nat
    BY StreamTypes DEF HistoryInv
<1>1. /\ UNCHANGED <<tasks, mirror, checkpoint, relay>>
      /\ \E kind \in Kind, entry \in 0 .. MaxEntries : send(kind, entry)
      /\ Len(journal') \in {Len(journal), Len(journal) + 1}
  <2>1. ASSUME NEW role \in Role, MessageEnd(role)
        PROVE  /\ UNCHANGED daemonVars /\ send("content", Len(journal) + 1)
               /\ Len(journal) + 1 \in 0 .. MaxEntries /\ "content" \in Kind
               /\ Len(journal') = Len(journal) + 1
    BY <1>0, <2>1, BoundsAssumption DEF MessageEnd, TypeOK, Kind
  <2>2. CASE MessageUpdate \/ AgentEnd \/ SessionShutdown
    <3>1. UNCHANGED <<journal, daemonVars>> /\ 0 \in 0 .. MaxEntries
      BY <2>2, BoundsAssumption DEF MessageUpdate, AgentEnd, SessionShutdown, piVars
    <3>2. \E kind \in Kind : send(kind, 0)
      BY <2>2 DEF MessageUpdate, AgentEnd, SessionShutdown, Kind
    <3> QED
      BY <3>1, <3>2 DEF daemonVars
  <2> QED
    BY <2>1, <2>2 DEF daemonVars
<1>2. EndIsLast'
  <2>1. ASSUME NEW kind \in Kind, NEW entry \in 0 .. MaxEntries, send(kind, entry)
        PROVE  \E g : /\ g.kind = kind /\ g.at = Len(journal)
                      /\ Stream' \subseteq Stream \cup {g}
    <3> DEFINE g == [inst |-> inst, id |-> nextId, kind |-> kind, entry |-> entry,
                     at |-> Len(journal)]
    <3>1. ToSet(queue') \subseteq ToSet(queue) \cup {g} /\ UNCHANGED posting
      BY <1>0, <2>1, SendFacts
    <3>2. g.kind = kind /\ g.at = Len(journal)
      OBVIOUS
    <3> HIDE DEF g
    <3>3. Stream' \subseteq Stream \cup {g}
      BY <1>1, <3>1 DEF Stream
    <3> QED
      BY <3>2, <3>3
  <2>2. ASSUME NEW role \in Role, MessageEnd(role) PROVE EndIsLast'
    <3>1. send("content", Len(journal) + 1) /\ Len(journal) + 1 \in 0 .. MaxEntries
      BY <1>0, <2>2, BoundsAssumption DEF MessageEnd, TypeOK
    <3>2. "content" \in Kind
      BY DEF Kind
    <3>3. PICK g : g.kind = "content" /\ Stream' \subseteq Stream \cup {g}
      BY <2>1, <3>1, <3>2
    <3>4. \A f \in Stream : f.kind # "end"
      <4>1. CASE turn
        BY <4>1 DEF ProofInv, EndIsLast
      <4>2. CASE Caught
        BY <4>2 DEF Caught, Stream, ToSet
      <4> QED
        BY <2>2, <4>1, <4>2 DEF MessageEnd
    <3> QED
      BY <3>3, <3>4 DEF EndIsLast
  <2>3. CASE MessageUpdate
    <3>1. turn /\ send("update", 0) /\ UNCHANGED <<turn, journal>> /\ 0 \in 0 .. MaxEntries
      BY <2>3, BoundsAssumption DEF MessageUpdate, piVars
    <3>2. "update" \in Kind
      BY DEF Kind
    <3>3. PICK g : g.kind = "update" /\ Stream' \subseteq Stream \cup {g}
      BY <2>1, <3>1, <3>2
    <3> QED
      BY <3>1, <3>3 DEF ProofInv, EndIsLast
  <2>4. CASE AgentEnd \/ SessionShutdown
    <3>1. ~turn' /\ UNCHANGED journal /\ 0 \in 0 .. MaxEntries
      BY <2>4, BoundsAssumption DEF AgentEnd, SessionShutdown
    <3>2. PICK kind \in Kind : send(kind, 0)
      BY <2>4 DEF AgentEnd, SessionShutdown, Kind
    <3>3. PICK g : g.at = Len(journal) /\ Stream' \subseteq Stream \cup {g}
      BY <2>1, <3>1, <3>2
    <3> QED
      BY <3>1, <3>3 DEF ProofInv, EndIsLast
  <2> QED
    BY <2>2, <2>3, <2>4
<1>3. BeliefIsProven'
  <2> SUFFICES ASSUME mirror # None, ~mirror.gap PROVE BeliefIsProven'
    BY <1>1 DEF BeliefIsProven
  <2>1. mirror.covered # None => mirror.covered \in 0 .. Len(journal)
    BY DEF HistoryInv, MirrorInv
  <2>2. ASSUME NEW x \in Entries', mirror.covered # None, x <= mirror.covered PROVE x \in Entries
    BY <1>0, <1>1, <2>1, <2>2 DEF Entries
  <2>3. \A x : Proven(mirror, x)' <=> Proven(mirror, x)
    BY <1>1 DEF Proven, Held
  <2> QED
    BY <1>1, <2>2, <2>3 DEF ProofInv, BeliefIsProven
<1>4. CheckpointIsProven'
    BY <1>1 DEF ProofInv, CheckpointIsProven
<1> QED
    BY <1>2, <1>3, <1>4 DEF ProofInv

\* The extension's other steps tell the mirror nothing.
LEMMA ExtensionProof ==
    ASSUME HistoryInv, ProofInv,
           \/ PiDies \/ drainQueue \/ PostFails
           \/ \E reason \in {"reload", "startup"} : SessionStart(reason)
    PROVE  ProofInv'
<1>0. TypeOK /\ StreamInOrder
    BY DEF HistoryInv, StreamInv
<1>1. UNCHANGED <<mirror, checkpoint, relay, journal>> /\ (turn' => turn)
    BY DEF PiDies, drainQueue, PostFails, SessionStart, daemonVars, piVars
<1>2. EndIsLast'
  <2>1. CASE PiDies
    <3>1. Stream' \subseteq Stream
      BY <2>1 DEF PiDies, Stream, ToSet, daemonVars
    <3> QED
      BY <1>1, <3>1, EndKept DEF ProofInv
  <2>2. CASE PostFails
    <3>1. queue' = queue \/ (queue # <<>> /\ queue' = Tail(queue))
      BY <2>2 DEF PostFails, HeadOf
    <3>2. ToSet(queue') \subseteq ToSet(queue)
      BY <1>0, <3>1, TailFacts DEF TypeOK
    <3>3. Stream' \subseteq Stream
      BY <2>2, <3>2 DEF PostFails, Stream, daemonVars
    <3> QED
      BY <1>1, <3>3, EndKept DEF ProofInv
  <2>3. CASE drainQueue
    <3>1. /\ queue # <<>> /\ posting = None
          /\ queue' \in {queue, Tail(queue)} /\ posting' \in {None, Head(queue)}
          /\ tasks' \in {tasks, Append(tasks, Head(queue))}
      BY <2>3 DEF drainQueue
    <3>2. /\ ToSet(Tail(queue)) \subseteq ToSet(queue)
          /\ Head(queue) \in ToSet(queue) /\ Head(queue) \in Payload
      BY <1>0, <3>1, TailFacts DEF TypeOK
    <3>3. ToSet(Append(tasks, Head(queue))) = ToSet(tasks) \cup {Head(queue)}
      BY <1>0, <3>2, AppendFacts DEF TypeOK
    <3>4. Stream' \subseteq Stream
      BY <3>1, <3>2, <3>3 DEF Stream
    <3> QED
      BY <1>1, <3>4, EndKept DEF ProofInv
  <2>4. ASSUME NEW reason \in {"reload", "startup"}, SessionStart(reason) PROVE EndIsLast'
    <3> DEFINE a == [inst |-> inst + 1, id |-> 1, kind |-> reason, entry |-> 0, at |-> Len(journal)]
               b == [inst |-> inst + 1, id |-> 2, kind |-> "list", entry |-> 0, at |-> Len(journal)]
    <3>1. a \in Payload /\ b \in Payload
      BY <1>0, StreamTypes DEF Payload, Kind
    <3>2. a.kind # "end" /\ b.kind # "end"
      OBVIOUS
    <3>3. /\ queue' = enqueuePayload(enqueuePayload(<<>>, a), b)
          /\ UNCHANGED <<posting, tasks>>
      BY <2>4 DEF SessionStart, daemonVars
    <3> HIDE DEF a, b
    <3>4. <<>> \in Seq(Payload) /\ Len(<<>>) <= MaxQueued /\ ToSet(<<>>) = {}
      BY LimitAssumption DEF ToSet
    <3>5. /\ enqueuePayload(<<>>, a) \in Seq(Payload) /\ Len(enqueuePayload(<<>>, a)) <= MaxQueued
          /\ ToSet(enqueuePayload(<<>>, a)) \subseteq {a}
      BY <3>1, <3>4, EnqueueFacts
    <3>6. ToSet(queue') \subseteq {a, b}
      BY <3>1, <3>3, <3>5, EnqueueFacts
    <3>7. Stream' \subseteq Stream \cup {a, b}
      BY <3>3, <3>6 DEF Stream
    <3> QED
      BY <1>1, <3>2, <3>7 DEF ProofInv, EndIsLast
  <2> QED
    BY <2>1, <2>2, <2>3, <2>4
<1>3. BeliefIsProven' /\ CheckpointIsProven'
    BY <1>1 DEF ProofInv, BeliefIsProven, CheckpointIsProven, Proven, Held, Entries
<1> QED
    BY <1>2, <1>3 DEF ProofInv

\* What a mirror believes stays proven when what it adds is held, or later than
\* its last proof.
LEMMA BeliefKept ==
    ASSUME HistoryInv, ProofInv, UNCHANGED <<checkpoint, journal>>,
           relay \subseteq relay',
           mirror' # None /\ ~mirror'.gap =>
              /\ mirror # None /\ ~mirror.gap /\ mirror'.covered = mirror.covered
              /\ Held(mirror) \subseteq Held(mirror)'
              /\ mirror'.marks = mirror.marks
              /\ \A x \in mirror'.confirmed :
                    \/ x \in mirror.confirmed \cup Held(mirror)' \/ Proven(mirror, x)
                    \/ mirror.covered # None /\ x > mirror.covered
    PROVE  BeliefIsProven' /\ CheckpointIsProven'
<1>1. CheckpointIsProven'
    BY DEF ProofInv, CheckpointIsProven
<1>2. BeliefIsProven'
    BY DEF ProofInv, BeliefIsProven, Proven, Held, Entries
<1> QED
    BY <1>1, <1>2

\* The mirror's timers, and the daemon's life.
LEMMA DaemonProof ==
    ASSUME HistoryInv, ProofInv, Daemon
    PROVE  ProofInv'
<1>0. TypeOK
    BY DEF HistoryInv
<1>1. EndIsLast'
  <2>1. UNCHANGED <<piVars, extVars>> /\ tasks' \in {tasks, <<>>}
    BY DEF Daemon, ensurePiSessionMirror, MarkAgain, tick, RelayAnswers, Silence,
           DaemonStarts, HandlerReady, DaemonDies
  <2>2. ToSet(<<>>) = {}
    BY DEF ToSet
  <2>3. Stream' \subseteq Stream
    BY <2>1, <2>2 DEF extVars, Stream
  <2> QED
    BY <2>1, <2>3, EndKept DEF piVars, ProofInv
<1>2. ASSUME ensurePiSessionMirror
      PROVE  BeliefIsProven' /\ CheckpointIsProven'
  <2>1. /\ mirror'.confirmed = {} /\ mirror'.marks = {} /\ journal' = journal
        /\ \/ /\ checkpoint' = Len(journal)
              /\ relay' = relay \cup {x \in Entries : x > checkpoint}
           \/ checkpoint' = checkpoint /\ relay' = relay
    BY <1>2 DEF ensurePiSessionMirror, NewMirror, piVars
  <2>2. BeliefIsProven'
    BY <2>1 DEF BeliefIsProven
  <2>3. CheckpointIsProven'
    <3>1. CASE checkpoint' = checkpoint /\ relay' = relay
      BY <3>1 DEF ProofInv, CheckpointIsProven
    <3>2. CASE checkpoint' = Len(journal) /\ relay' = relay \cup {x \in Entries : x > checkpoint}
      <4>1. checkpoint \in Nat /\ Len(journal) \in Nat
        BY <1>0 DEF TypeOK
      <4>2. ASSUME NEW x \in 1 .. Len(journal) PROVE x \in relay'
        BY <3>2, <4>1 DEF ProofInv, CheckpointIsProven, Entries
      <4> QED
        BY <3>2, <4>2 DEF CheckpointIsProven
    <3> QED
      BY <2>1, <3>1, <3>2
  <2> QED
    BY <2>2, <2>3
<1>3. ASSUME MarkAgain
      PROVE  BeliefIsProven' /\ CheckpointIsProven'
  <2>1. PICK mark \in mirror.marks :
           mirror' = [mirror EXCEPT !.confirmed = @ \cup DeliveredSince(mark)]
    BY <1>3 DEF MarkAgain
  <2>2. /\ mirror # None /\ UNCHANGED <<checkpoint, journal, relay>>
        /\ mirror \in Mirror /\ mirror.marks \subseteq Mark
        /\ mirror.inst = 0 => mirror.marks = {}
        /\ mirror.inst # 0 => mirror.covered \in 0 .. Len(journal)
        /\ Len(journal) \in Nat
    BY <1>0, <1>3, MirrorTypes, StreamTypes DEF MarkAgain, piVars, HistoryInv, MirrorInv
  <2>3. /\ mirror'.covered = mirror.covered /\ mirror'.gap = mirror.gap
        /\ mirror'.marks = mirror.marks /\ mirror'.outbox = mirror.outbox
        /\ mirror'.confirmed = mirror.confirmed \cup DeliveredSince(mark)
    BY <2>1, <2>2 DEF Mirror
  <2>4. mirror.covered \in Nat /\ mirror.covered # None
    BY <2>1, <2>2, NoneAssumption
  <2>5. ASSUME ~mirror.gap, NEW x \in DeliveredSince(mark)
        PROVE  Proven(mirror, x) \/ x > mirror.covered
    <3>1. x \in Entries /\ x \in Nat /\ mark.since < x
      BY <2>1, <2>2, <2>5 DEF DeliveredSince, Entries, Mark
    <3>2. x <= mirror.covered => Proven(mirror, x)
      BY <2>1, <2>2, <2>4, <2>5, <3>1 DEF ProofInv, BeliefIsProven
    <3> QED
      BY <2>4, <3>1, <3>2
  <2>6. Held(mirror)' = Held(mirror)
    BY <2>2, <2>3 DEF Held
  <2> QED
    BY <2>2, <2>3, <2>4, <2>5, <2>6, BeliefKept
<1>4. ASSUME tick \/ RelayAnswers
      PROVE  BeliefIsProven' /\ CheckpointIsProven'
  <2>1. /\ mirror # None /\ mirror \in Mirror /\ UNCHANGED <<checkpoint, journal>>
    BY <1>0, <1>4, MirrorTypes DEF tick, RelayAnswers, piVars
  <2>2. /\ mirror'.covered = mirror.covered /\ mirror'.gap = mirror.gap
        /\ mirror'.marks = mirror.marks
        /\ relay \subseteq relay' /\ mirror.outbox \subseteq relay'
        /\ \A x \in mirror'.confirmed : x \in mirror.confirmed \cup relay'
    <3>1. CASE tick
      BY <2>1, <3>1 DEF tick, Flushed, Mirror
    <3>2. CASE RelayAnswers
      BY <2>1, <3>2 DEF RelayAnswers, Mirror
    <3> QED
      BY <1>4, <3>1, <3>2
  <2>3. Held(mirror) \subseteq Held(mirror)' /\ relay' \subseteq Held(mirror)'
    BY <2>2 DEF Held
  <2> QED
    BY <2>1, <2>2, <2>3, BeliefKept
<1>5. ASSUME Silence
      PROVE  BeliefIsProven' /\ CheckpointIsProven'
  <2>1. /\ mirror # None /\ mirror \in Mirror /\ UNCHANGED <<checkpoint, journal, relay>>
        /\ mirror' = [mirror EXCEPT !.stale = TRUE]
    BY <1>0, <1>5, MirrorTypes DEF Silence, piVars
  <2>2. /\ mirror'.covered = mirror.covered /\ mirror'.gap = mirror.gap
        /\ mirror'.marks = mirror.marks /\ mirror'.confirmed = mirror.confirmed
        /\ Held(mirror)' = Held(mirror)
    BY <2>1 DEF Mirror, Held
  <2> QED
    BY <2>1, <2>2, BeliefKept
<1>6. ASSUME DaemonStarts \/ HandlerReady \/ DaemonDies
      PROVE  BeliefIsProven' /\ CheckpointIsProven'
  <2>1. UNCHANGED <<checkpoint, journal, relay>> /\ mirror' \in {mirror, None}
    BY <1>6 DEF DaemonStarts, HandlerReady, DaemonDies, piVars
  <2> QED
    BY <2>1, BeliefKept DEF Held
<1> QED
    BY <1>1, <1>2, <1>3, <1>4, <1>5, <1>6 DEF Daemon, ProofInv

\* What is believed after the checks is proven up to what is then covered.
LEMMA AcceptedBelief ==
    ASSUME HistoryInv, ProofInv, mirror # None, NEW e \in Stream, ~IsRepeat(mirror, e),
           ~Accepted(mirror, e).gap
    PROVE  LET c == Accepted(mirror, e).covered
           IN  /\ \A x \in mirror.confirmed : Proven(mirror, x) \/ x > c
               /\ \A k \in mirror.marks, x \in Entries :
                     k.since < x /\ x <= c => Proven(mirror, x)
               /\ \A x \in Entries : c < x /\ x <= e.at => x \in Held(mirror)
<1> DEFINE c == Accepted(mirror, e).covered
<1>1. /\ e.at \in 0 .. Len(journal) /\ c \in 0 .. Len(journal) /\ c # None
      /\ c = mirror.covered \/ c = e.at
      /\ ~mirror.gap
      /\ \/ mirror.covered = None /\ mirror.marks = {} /\ c = e.at
         \/ /\ mirror.covered # None
            /\ \A x \in Entries : mirror.covered < x /\ x <= e.at => x \in Held(mirror)
    BY AcceptedFacts
<1> HIDE DEF c
<1>2. mirror.confirmed \subseteq Entries /\ \A x \in Entries : x \in Nat
    BY DEF HistoryInv, MirrorInv, Entries
<1>3. CASE mirror.covered = None /\ mirror.marks = {} /\ c = e.at
  <2>1. \A x \in mirror.confirmed : Proven(mirror, x)
    BY <1>1, <1>3 DEF ProofInv, BeliefIsProven
  <2>2. \A x \in Entries : ~(c < x /\ x <= e.at)
    BY <1>1, <1>2, <1>3
  <2> QED
    BY <1>3, <2>1, <2>2 DEF c
<1>4. CASE /\ mirror.covered # None
           /\ \A x \in Entries : mirror.covered < x /\ x <= e.at => x \in Held(mirror)
  <2>0. Len(journal) \in Nat /\ mirror.covered \in Nat
    BY <1>4, StreamTypes, MirrorTypes DEF HistoryInv
  <2>1. ASSUME NEW x \in Entries, mirror.covered < x, x <= c PROVE Proven(mirror, x)
    <3>1. c = e.at
      BY <1>1, <1>2, <2>0, <2>1
    <3> QED
      BY <1>4, <2>1, <3>1 DEF Proven
  <2>2. ASSUME NEW x \in mirror.confirmed PROVE Proven(mirror, x) \/ x > c
    <3>1. Proven(mirror, x) \/ x > mirror.covered
      BY <1>1, <1>4, <2>2 DEF ProofInv, BeliefIsProven
    <3> QED
      BY <1>1, <1>2, <2>0, <2>1, <3>1
  <2>3. ASSUME NEW k \in mirror.marks, NEW x \in Entries, k.since < x, x <= c
        PROVE  Proven(mirror, x)
    <3>1. x <= mirror.covered => Proven(mirror, x)
      BY <1>1, <1>4, <2>3 DEF ProofInv, BeliefIsProven
    <3> QED
      BY <1>1, <1>2, <2>0, <2>1, <2>3, <3>1
  <2>4. ASSUME NEW x \in Entries, c < x, x <= e.at PROVE x \in Held(mirror)
    BY <1>1, <1>2, <1>4, <2>0, <2>4
  <2> QED
    BY <2>2, <2>3, <2>4 DEF c
<1> QED
    BY <1>1, <1>3, <1>4 DEF c

\* The same with what the event itself brings.
LEMMA TakenBelief ==
    ASSUME HistoryInv, ProofInv, NEW e, Taking(e), Answer(e) \/ UNCHANGED extVars,
           UNCHANGED checkpoint, relay \subseteq relay',
           mirror' # None =>
              /\ mirror'.gap = Accepted(mirror, e).gap
              /\ mirror'.covered = Accepted(mirror, e).covered
              /\ Held(mirror) \subseteq Held(mirror)'
              /\ \A x \in mirror'.confirmed :
                    x \in mirror.confirmed \cup Held(mirror)' \/ x > Accepted(mirror, e).covered
              /\ \A k \in mirror'.marks :
                    k \in mirror.marks \/ k.since = Accepted(mirror, e).covered
    PROVE  ProofInv'
<1> DEFINE c == Accepted(mirror, e).covered
<1>1. /\ e \in Stream /\ mirror # None /\ ~IsRepeat(mirror, e) /\ Stream' \subseteq Stream
      /\ UNCHANGED <<turn, journal>>
    BY HandlingFacts DEF Taking
<1>2. EndIsLast'
    BY <1>1, EndKept DEF ProofInv
<1>3. CheckpointIsProven'
    BY DEF ProofInv, CheckpointIsProven
<1>4. ASSUME mirror' # None, ~mirror'.gap
      PROVE  /\ \A x \in mirror'.confirmed : Proven(mirror, x)' \/ x > c
             /\ \A k \in mirror'.marks, x \in Entries :
                   k.since < x /\ x <= c => Proven(mirror, x)'
             /\ mirror'.covered = c /\ c # None
  <2>1. /\ \A x \in mirror.confirmed : Proven(mirror, x) \/ x > c
        /\ \A k \in mirror.marks, x \in Entries :
              k.since < x /\ x <= c => Proven(mirror, x)
    BY <1>1, <1>4, AcceptedBelief
  <2>2. c \in Nat /\ c # None /\ \A x \in Entries : x \in Nat
    BY <1>1, AcceptedFacts, NoneAssumption DEF Entries
  <2> HIDE DEF c
  <2>3. \A x : Proven(mirror, x) \/ x \in Held(mirror)' => Proven(mirror, x)'
    BY <1>4 DEF Proven
  <2>4. /\ mirror'.covered = c
        /\ \A x \in mirror'.confirmed : x \in mirror.confirmed \cup Held(mirror)' \/ x > c
        /\ \A k \in mirror'.marks : k \in mirror.marks \/ k.since = c
    BY <1>4 DEF c
  <2>5. \A x \in mirror'.confirmed : Proven(mirror, x)' \/ x > c
    BY <2>1, <2>3, <2>4
  <2>6. ASSUME NEW k \in mirror'.marks, NEW x \in Entries, k.since < x, x <= c
        PROVE  Proven(mirror, x)'
    BY <2>1, <2>2, <2>3, <2>4, <2>6
  <2> QED
    BY <2>2, <2>4, <2>5, <2>6
<1> HIDE DEF c
<1>5. BeliefIsProven'
    BY <1>1, <1>4 DEF BeliefIsProven, Entries
<1> QED
    BY <1>2, <1>3, <1>5 DEF ProofInv

\* An agent_end is the last word: what it proves is the whole file.
LEMMA TakeEndProof ==
    ASSUME HistoryInv, ProofInv, NEW e, TakeEnd(e)
    PROVE  ProofInv'
<1> DEFINE a == Accepted(mirror, e)
<1>1. /\ Taking(e) /\ Answer(e) /\ e.kind = "end"
      /\ mirror'.confirmed \subseteq Entries
      /\ relay \subseteq relay'
      /\ \A x \in mirror'.confirmed : x \in mirror.confirmed \/ x > a.covered
      /\ \A k \in mirror'.marks : k \in mirror.marks \/ k.since = a.covered
      /\ \/ /\ mirror'.covered = e.at /\ checkpoint' = Len(journal)
            /\ \A x \in Entries :
                  x <= checkpoint \/ x \in relay' \/ (~a.gap /\ x \in mirror'.confirmed)
            /\ Held(mirror) \subseteq relay'
         \/ /\ mirror'.covered = a.covered /\ mirror'.gap = a.gap
            /\ Held(mirror) \subseteq Held(mirror)' /\ UNCHANGED checkpoint
    BY TakeEndFacts
<1>2. /\ e \in Stream /\ mirror # None /\ ~IsRepeat(mirror, e) /\ Stream' \subseteq Stream
      /\ UNCHANGED <<turn, journal>>
    BY <1>1, HandlingFacts DEF Taking
<1>3. CASE /\ mirror'.covered = a.covered /\ mirror'.gap = a.gap
           /\ Held(mirror) \subseteq Held(mirror)' /\ UNCHANGED checkpoint
    BY <1>1, <1>3, TakenBelief
<1>4. CASE /\ mirror'.covered = e.at /\ checkpoint' = Len(journal)
           /\ \A x \in Entries :
                 x <= checkpoint \/ x \in relay' \/ (~a.gap /\ x \in mirror'.confirmed)
           /\ Held(mirror) \subseteq relay'
  <2>1. e.at = Len(journal) /\ Len(journal) \in Nat /\ checkpoint \in Nat
    BY <1>1, <1>2 DEF ProofInv, EndIsLast, HistoryInv, TypeOK
  <2>2. EndIsLast'
    BY <1>2, EndKept DEF ProofInv
  <2>3. ASSUME NEW x \in Entries PROVE x \in Nat /\ 1 <= x /\ x <= Len(journal)
    BY <2>1 DEF Entries
  <2>4. ASSUME NEW x \in Entries PROVE x \in relay'
    <3>1. CASE x <= checkpoint
      BY <1>1, <2>1, <2>3, <3>1 DEF ProofInv, CheckpointIsProven
    <3>2. CASE ~a.gap /\ x \in mirror'.confirmed /\ ~(x <= checkpoint)
      <4>1. /\ \A y \in mirror.confirmed : Proven(mirror, y) \/ y > a.covered
            /\ \A y \in Entries : a.covered < y /\ y <= e.at => y \in Held(mirror)
        BY <1>2, <3>2, AcceptedBelief
      <4>2. a.covered \in Nat
        BY <1>2, AcceptedFacts
      <4> HIDE DEF a
      <4>3. CASE x > a.covered
        BY <1>4, <2>1, <2>3, <4>1, <4>2, <4>3
      <4>4. CASE Proven(mirror, x)
        BY <1>4, <3>2, <4>4 DEF Proven
      <4> QED
        BY <1>1, <3>2, <4>1, <4>3, <4>4
    <3> QED
      BY <1>4, <3>1, <3>2
  <2>5. CheckpointIsProven'
    BY <1>4, <2>4 DEF CheckpointIsProven, Entries
  <2>6. BeliefIsProven'
    <3>1. \A x \in Entries : Proven(mirror, x)'
      BY <1>4, <2>3 DEF Proven
    <3>2. Entries' = Entries
      BY <1>2 DEF Entries
    <3> QED
      BY <1>1, <3>1, <3>2 DEF BeliefIsProven
  <2> QED
    BY <2>2, <2>5, <2>6 DEF ProofInv
<1> QED
    BY <1>1, <1>3, <1>4

\* The other events move no checkpoint.
LEMMA EventProof ==
    ASSUME HistoryInv, ProofInv, NEW e,
           Disregard(e) \/ TakeNote(e) \/ TakeContent(e) \/ TakeShutdown(e)
    PROVE  ProofInv'
<1>1. CASE Disregard(e)
  <2>1. /\ Handling(e) /\ Answer(e) /\ UNCHANGED <<piVars, checkpoint, relay>>
        /\ mirror' \in {mirror, [mirror EXCEPT !.owner = e.inst, !.stale = FALSE]}
    BY <1>1 DEF Disregard
  <2>2. Stream' \subseteq Stream /\ UNCHANGED <<turn, journal>> /\ mirror # None
    BY <2>1, HandlingFacts
  <2>3. mirror \in Mirror
    BY <2>2, MirrorTypes DEF HistoryInv
  <2>4. /\ mirror'.covered = mirror.covered /\ mirror'.gap = mirror.gap
        /\ mirror'.marks = mirror.marks /\ mirror'.confirmed = mirror.confirmed
        /\ mirror'.outbox = mirror.outbox
    BY <2>1, <2>3 DEF Mirror
  <2>5. Held(mirror)' = Held(mirror)
    BY <2>1, <2>4 DEF Held
  <2>6. BeliefIsProven' /\ CheckpointIsProven'
    BY <2>1, <2>2, <2>4, <2>5, BeliefKept
  <2> QED
    BY <2>2, <2>6, EndKept DEF ProofInv
<1>2. CASE TakeNote(e) \/ TakeShutdown(e)
  <2>1. /\ Taking(e) /\ (Answer(e) \/ UNCHANGED extVars)
        /\ UNCHANGED checkpoint /\ relay \subseteq relay'
        /\ mirror' # None => mirror' = Accepted(mirror, e) /\ UNCHANGED relay
    BY <1>2 DEF TakeNote, TakeShutdown
  <2>2. e \in Stream /\ mirror # None /\ ~IsRepeat(mirror, e)
    BY <2>1, HandlingFacts DEF Taking
  <2>3. LET m == Accepted(mirror, e)
        IN  m.confirmed = mirror.confirmed /\ m.outbox = mirror.outbox /\ m.marks = mirror.marks
    BY <2>2, AcceptedFacts
  <2>4. mirror' # None => Held(mirror)' = Held(mirror)
    BY <2>1, <2>3 DEF Held
  <2> QED
    BY <2>1, <2>3, <2>4, TakenBelief
<1>3. CASE TakeContent(e)
  <2>1. /\ Taking(e) /\ (Answer(e) \/ UNCHANGED extVars)
        /\ UNCHANGED checkpoint /\ relay \subseteq relay'
        /\ mirror'.gap = Accepted(mirror, e).gap /\ mirror'.covered = Accepted(mirror, e).covered
        /\ Held(mirror)' = Held(mirror) \cup {e.entry}
        /\ \A x \in mirror'.confirmed :
              x \in mirror.confirmed \cup {e.entry} \/ x > Accepted(mirror, e).covered
        /\ \A k \in mirror'.marks :
              k \in mirror.marks \/ k.since = Accepted(mirror, e).covered
    BY <1>3, TakeContentFacts
  <2> QED
    BY <2>1, TakenBelief
<1> QED
    BY <1>1, <1>2, <1>3

\* Every step of the extension and of the daemon.
LEMMA NextProof ==
    ASSUME ~Ahead
    PROVE  HistoryInv /\ ProofInv /\ [Next]_vars => ProofInv'
<1> SUFFICES ASSUME HistoryInv, ProofInv, [Next]_vars PROVE ProofInv'
    OBVIOUS
<1>1. CASE Extension
    BY <1>1, SendingProof, ExtensionProof DEF Extension
<1>2. CASE Event
    BY <1>2, EventProof, TakeEndProof DEF Event
<1>3. CASE Daemon
    BY <1>3, DaemonProof
<1>4. CASE UNCHANGED vars
  <2>1. UNCHANGED <<piVars, extVars, daemonVars, bounds>>
    BY <1>4 DEF vars
  <2>2. UNCHANGED <<turn, journal, queue, posting, tasks, mirror, checkpoint, relay>>
    BY <2>1 DEF piVars, extVars, daemonVars
  <2>3. Stream' = Stream
    BY <2>2 DEF Stream
  <2> QED
    BY <2>2, <2>3 DEF ProofInv, EndIsLast, BeliefIsProven, CheckpointIsProven, Proven, Held, Entries
<1> QED
    BY <1>1, <1>2, <1>3, <1>4 DEF Next

\* The relay holds every entry up to the checkpoint on disk, whatever was lost,
\* repeated or restarted, as long as a turn begins only when the events of the
\* last one were handled or lost.
THEOREM ProvesCheckpoint ==
    ASSUME ~Ahead
    PROVE  Spec => []CheckpointIsProven
<1>1. Init => HistoryInv
    BY InitHistory
<1>2. Init => ProofInv
    BY DEF Init, ProofInv, EndIsLast, BeliefIsProven, CheckpointIsProven, Stream, ToSet
<1>3. HistoryInv /\ [Next]_vars => HistoryInv'
    BY NextHistory
<1>4. HistoryInv /\ ProofInv /\ [Next]_vars => ProofInv'
    BY NextProof
<1>5. ProofInv => CheckpointIsProven
    BY DEF ProofInv
<1> QED
    BY <1>1, <1>2, <1>3, <1>4, <1>5, PTL DEF Spec
================================================================================
