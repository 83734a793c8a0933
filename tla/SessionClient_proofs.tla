-------------------------- MODULE SessionClient_proofs --------------------------
(***************************************************************************)
(* Proofs about SessionClient: the relay's log has one row per localId, in *)
(* the order of asking, what the client holds for logged is logged, a      *)
(* confirmed flush is one, and the cursor leaves no gap, for any messages, *)
(* page and batch sizes, lives and faults.                                 *)
(***************************************************************************)
EXTENDS SessionClient, FiniteSetTheorems, SequenceTheorems, TLAPS

-----------------------------------------------------------------------------
(* Least and greatest numbers of a set.                                    *)

\* Every non-empty set of natural numbers has a least element.
LEMMA Least ==
    ASSUME NEW T, T \subseteq Nat, T # {}
    PROVE  \E x \in T : \A y \in T : x <= y
<1> DEFINE R == OpToRel(<, Nat)
<1>1. \E x \in T : \A y \in T : ~ (<<y, x>> \in R)
    <2>1. IsWellFoundedOn(R, Nat)
        BY NatLessThanWellFounded
    <2> QED
        BY <2>1, WFMin
<1>2. PICK x \in T : \A y \in T : ~ (<<y, x>> \in R)
    BY <1>1
<1>3. ASSUME NEW y \in T PROVE x <= y
    <2>1. x \in Nat /\ y \in Nat
        OBVIOUS
    <2>2. ~ (y < x)
        BY <1>2, <2>1 DEF OpToRel
    <2> QED
        BY <2>1, <2>2
<1> QED
    BY <1>3

\* And every bounded one has a greatest.
LEMMA Greatest ==
    ASSUME NEW n \in Nat, NEW T, T \subseteq 0..n, T # {}
    PROVE  \E x \in T : \A y \in T : y <= x
<1> DEFINE U == {m \in Nat : m <= n /\ n - m \in T}
<1>1. PICK t \in T : TRUE
    OBVIOUS
<1>2. n - t \in U
    BY <1>1
<1>3. PICK m \in U : \A k \in U : m <= k
    BY <1>2, Least
<1>4. ASSUME NEW y \in T PROVE y <= n - m
    <2>1. n - y \in U
        OBVIOUS
    <2> QED
        BY <2>1, <1>3
<1> QED
    BY <1>3, <1>4

-----------------------------------------------------------------------------
(* Counting the places of a sequence.                                      *)

Upto(places, i) == {h \in places : h <= i}
Rank(places, i) == Cardinality(Upto(places, i))

\* The elements up to i are as many as i allows.
LEMMA RankType ==
    ASSUME NEW n \in Nat, NEW places \in SUBSET (1..n)
    PROVE  /\ IsFiniteSet(places)
           /\ Cardinality(places) \in Nat
           /\ \A i : IsFiniteSet(Upto(places, i)) /\ Rank(places, i) \in Nat
           /\ \A i : Rank(places, i) <= Cardinality(places)
<1>1. IsFiniteSet(1..n)
    BY FS_Interval
<1>2. IsFiniteSet(places)
    BY <1>1, FS_Subset
<1>3. Cardinality(places) \in Nat
    BY <1>2, FS_CardinalityType
<1>4. ASSUME NEW i
      PROVE  IsFiniteSet(Upto(places, i)) /\ Rank(places, i) \in Nat
             /\ Rank(places, i) <= Cardinality(places)
    <2>1. Upto(places, i) \in SUBSET places
        BY DEF Upto
    <2>2. IsFiniteSet(Upto(places, i)) /\ Cardinality(Upto(places, i)) <= Cardinality(places)
        BY <1>2, <2>1, FS_Subset
    <2>3. Cardinality(Upto(places, i)) \in Nat
        BY <2>2, FS_CardinalityType
    <2> QED
        BY <2>2, <2>3 DEF Rank
<1> QED
    BY <1>2, <1>3, <1>4

\* Rank counts the places one by one.
LEMMA RankStep ==
    ASSUME NEW n \in Nat, NEW places \in SUBSET (1..n), NEW i \in 1..n
    PROVE  Rank(places, i) = IF i \in places THEN Rank(places, i - 1) + 1
                             ELSE Rank(places, i - 1)
<1>0. \A h \in places : h \in Int
    OBVIOUS
<1>1. CASE i \in places
    <2>1. Upto(places, i) = Upto(places, i - 1) \cup {i}
        <3>1. ASSUME NEW h \in places PROVE h <= i <=> (h <= i - 1 \/ h = i)
            BY <1>0
        <3> QED
            BY <1>1, <3>1 DEF Upto
    <2>2. i \notin Upto(places, i - 1)
        BY DEF Upto
    <2>3. IsFiniteSet(Upto(places, i - 1))
        BY RankType
    <2> QED
        BY <1>1, <2>1, <2>2, <2>3, FS_AddElement DEF Rank
<1>2. CASE i \notin places
    <2>1. Upto(places, i) = Upto(places, i - 1)
        <3>1. ASSUME NEW h \in places PROVE h <= i <=> h <= i - 1
            BY <1>0, <1>2
        <3> QED
            BY <3>1 DEF Upto
    <2> QED
        BY <1>2, <2>1 DEF Rank
<1> QED
    BY <1>1, <1>2

\* Two places have different ranks.
LEMMA RankInjective ==
    ASSUME NEW n \in Nat, NEW places \in SUBSET (1..n),
           NEW i \in places, NEW k \in places, Rank(places, i) = Rank(places, k)
    PROVE  i = k
<1>1. ASSUME NEW a \in places, NEW b \in places, a < b, Rank(places, a) = Rank(places, b)
      PROVE  FALSE
    <2>0. \A h \in places : h \in Int
        OBVIOUS
    <2>1. Upto(places, a) \in SUBSET Upto(places, b)
        <3>1. ASSUME NEW h \in places, h <= a PROVE h <= b
            BY <1>1, <2>0, <3>1
        <3> QED
            BY <3>1 DEF Upto
    <2>2. IsFiniteSet(Upto(places, b))
        BY RankType
    <2>3. Upto(places, b) = Upto(places, a)
        BY <1>1, <2>1, <2>2, FS_Subset DEF Rank
    <2>4. b \in Upto(places, b) /\ b \notin Upto(places, a)
        BY <1>1 DEF Upto
    <2> QED
        BY <2>3, <2>4
<1>2. i \in 1..n /\ k \in 1..n
    OBVIOUS
<1> QED
    BY <1>1, <1>2

\* Later places have greater ranks.
LEMMA RankMonotone ==
    ASSUME NEW n \in Nat, NEW places \in SUBSET (1..n),
           NEW i \in places, NEW k \in places, i < k
    PROVE  Rank(places, i) < Rank(places, k)
<1>0. \A h \in places : h \in Int
    OBVIOUS
<1>1. Upto(places, i) \in SUBSET Upto(places, k)
    <2>1. ASSUME NEW h \in places, h <= i PROVE h <= k
        BY <1>0, <2>1
    <2> QED
        BY <2>1 DEF Upto
<1>2. Rank(places, i) <= Rank(places, k)
    BY <1>1, RankType, FS_Subset DEF Rank
<1>3. ASSUME Rank(places, i) = Rank(places, k) PROVE FALSE
    <2>1. i = k
        BY <1>3, RankInjective
    <2> QED
        BY <1>0, <2>1
<1>4. Rank(places, i) \in Nat /\ Rank(places, k) \in Nat
    BY RankType
<1> QED
    BY <1>2, <1>3, <1>4

\* Every place has a rank, and every number up to the last one is a rank: the
\* least place with a rank of at least j has rank j.
LEMMA RankOnto ==
    ASSUME NEW n \in Nat, NEW places \in SUBSET (1..n)
    PROVE  /\ \A i \in places : Rank(places, i) \in 1..Cardinality(places)
           /\ \A j \in 1..Cardinality(places) : \E i \in places : Rank(places, i) = j
<1>0. \A h \in places : h \in Int /\ h > 0 /\ h <= n
    OBVIOUS
<1>1. ASSUME NEW i \in places PROVE Rank(places, i) \in 1..Cardinality(places)
    <2>1. i \in Upto(places, i)
        BY <1>0 DEF Upto
    <2>3. /\ IsFiniteSet(Upto(places, i)) /\ Cardinality(places) \in Nat
          /\ Rank(places, i) \in Nat /\ Rank(places, i) <= Cardinality(places)
        BY RankType
    <2>2. Rank(places, i) # 0
        BY <2>1, <2>3, FS_EmptySet DEF Rank
    <2> QED
        BY <2>2, <2>3
<1>2. ASSUME NEW j \in 1..Cardinality(places)
      PROVE  \E i \in places : Rank(places, i) = j
    <2> DEFINE T == {i \in 0..n : Rank(places, i) >= j}
    <2>1. Upto(places, n) = places
        BY <1>0 DEF Upto
    <2>2. n \in T
        BY <2>1, RankType DEF Rank
    <2>3. PICK i \in T : \A k \in T : i <= k
        <3>1. T \subseteq Nat /\ T # {}
            BY <2>2
        <3> QED
            BY <3>1, Least
    <2>4. Upto(places, 0) = {}
        <3>1. ASSUME NEW h \in places PROVE ~ (h <= 0)
            BY <1>0
        <3> QED
            BY <3>1 DEF Upto
    <2>5. i # 0
        BY <2>4, FS_EmptySet DEF Rank
    <2>6. i \in 1..n /\ i - 1 \in 0..n
        BY <2>5
    <2>7. ~ (Rank(places, i - 1) >= j)
        BY <2>3, <2>6
    <2>8. Rank(places, i) \in Nat /\ Rank(places, i - 1) \in Nat
        BY RankType
    <2>9. Rank(places, i) = IF i \in places THEN Rank(places, i - 1) + 1
                            ELSE Rank(places, i - 1)
        BY <2>6, RankStep
    <2>10. i \in places /\ Rank(places, i) = j
        BY <2>3, <2>7, <2>8, <2>9
    <2> QED
        BY <2>10
<1> QED
    BY <1>1, <1>2

-----------------------------------------------------------------------------
(* Picked and DistinctKeys.                                                *)

\* What Picked returns: a sequence of the elements at the given places, each
\* place once, in the order of the places.
LEMMA PickedPlaces ==
    ASSUME NEW S, NEW s \in Seq(S), NEW places \in SUBSET (1..Len(s))
    PROVE  /\ Picked(s, places) \in Seq(S)
           /\ Len(Picked(s, places)) \in Nat
           /\ \E f \in [1..Len(Picked(s, places)) -> places] :
                 /\ \A j \in 1..Len(Picked(s, places)) : Picked(s, places)[j] = s[f[j]]
                 /\ \A j, k \in 1..Len(Picked(s, places)) : f[j] = f[k] => j = k
                 /\ \A j, k \in 1..Len(Picked(s, places)) : j < k => f[j] < f[k]
                 /\ \A i \in places : \E j \in 1..Len(Picked(s, places)) : f[j] = i
<1> DEFINE nth(j) == CHOOSE i \in places : Cardinality({h \in places : h <= i}) = j
           c == Cardinality(places)
           f == [j \in 1..c |-> nth(j)]
<1>1. Picked(s, places) = [j \in 1..c |-> s[nth(j)]]
    BY DEF Picked
<1>2. Len(s) \in Nat /\ c \in Nat
    BY RankType, LenProperties
<1>3. ASSUME NEW j \in 1..c PROVE nth(j) \in places /\ Rank(places, nth(j)) = j
    <2>1. \E i \in places : Cardinality({h \in places : h <= i}) = j
        BY <1>2, RankOnto DEF Rank, Upto
    <2>2. nth(j) \in places /\ Cardinality({h \in places : h <= nth(j)}) = j
        BY <2>1
    <2> QED
        BY <2>2 DEF Rank, Upto
<1>4. \A j \in 1..c : s[nth(j)] \in S
    BY <1>3, ElementOfSeq
<1> HIDE DEF nth
<1>5. [j \in 1..c |-> s[nth(j)]] \in Seq(S)
    BY <1>2, <1>4
<1>6. Len(Picked(s, places)) = c
    BY <1>1, <1>2
<1>7. f \in [1..c -> places]
    BY <1>3
<1>8. \A j \in 1..c : Picked(s, places)[j] = s[f[j]]
    BY <1>1
<1>9. \A j, k \in 1..c : f[j] = f[k] => j = k
    BY <1>3
<1>10. ASSUME NEW i \in places PROVE \E j \in 1..c : f[j] = i
    <2> DEFINE j == Rank(places, i)
    <2>1. j \in 1..c
        BY <1>2, RankOnto
    <2>2. nth(j) \in places /\ Rank(places, nth(j)) = j
        BY <1>3, <2>1
    <2>3. nth(j) = i
        BY <1>2, <2>2, RankInjective
    <2> QED
        BY <2>1, <2>3
<1>12. ASSUME NEW j \in 1..c, NEW k \in 1..c, j < k PROVE f[j] < f[k]
    <2>1. /\ nth(j) \in places /\ Rank(places, nth(j)) = j
          /\ nth(k) \in places /\ Rank(places, nth(k)) = k
        BY <1>3
    <2>2. nth(j) \in 1..Len(s) /\ nth(k) \in 1..Len(s)
        BY <2>1
    <2>3. ~ (nth(k) < nth(j))
        <3>1. ASSUME nth(k) < nth(j) PROVE FALSE
            <4>1. Rank(places, nth(k)) < Rank(places, nth(j))
                BY <1>2, <2>1, <3>1, RankMonotone
            <4> QED
                BY <1>12, <2>1, <4>1
        <3> QED
            BY <3>1
    <2>4. nth(k) # nth(j)
        BY <1>12, <2>1
    <2>5. nth(j) < nth(k)
        BY <2>2, <2>3, <2>4
    <2> QED
        BY <2>5
<1>11. /\ f \in [1..Len(Picked(s, places)) -> places]
       /\ \A j \in 1..Len(Picked(s, places)) : Picked(s, places)[j] = s[f[j]]
       /\ \A j, k \in 1..Len(Picked(s, places)) : f[j] = f[k] => j = k
       /\ \A j, k \in 1..Len(Picked(s, places)) : j < k => f[j] < f[k]
       /\ \A i \in places : \E j \in 1..Len(Picked(s, places)) : f[j] = i
    BY <1>6, <1>7, <1>8, <1>9, <1>10, <1>12
<1> HIDE DEF f
<1> QED
    BY <1>1, <1>2, <1>5, <1>6, <1>11

\* Every picked element is one of the places, and every place is picked.
LEMMA PickedElements ==
    ASSUME NEW S, NEW s \in Seq(S), NEW places \in SUBSET (1..Len(s))
    PROVE  Elements(Picked(s, places)) = {s[i] : i \in places}
<1> DEFINE t == Picked(s, places)
<1>1. PICK f \in [1..Len(t) -> places] :
          /\ \A j \in 1..Len(t) : t[j] = s[f[j]]
          /\ \A j, k \in 1..Len(t) : f[j] = f[k] => j = k
          /\ \A i \in places : \E j \in 1..Len(t) : f[j] = i
    BY PickedPlaces
<1> HIDE DEF t
<1>2. ASSUME NEW j \in 1..Len(t) PROVE t[j] \in {s[i] : i \in places}
    <2>1. f[j] \in places /\ t[j] = s[f[j]]
        BY <1>1
    <2> QED
        BY <2>1
<1>3. ASSUME NEW i \in places PROVE s[i] \in Elements(t)
    BY <1>1 DEF Elements
<1> QED
    BY <1>2, <1>3 DEF t, Elements

\* Picking keeps keys distinct.
LEMMA PickedDistinct ==
    ASSUME NEW S, NEW s \in Seq(S), NEW places \in SUBSET (1..Len(s)), DistinctKeys(s)
    PROVE  DistinctKeys(Picked(s, places))
<1> DEFINE t == Picked(s, places)
<1>1. PICK f \in [1..Len(t) -> places] :
          /\ \A j \in 1..Len(t) : t[j] = s[f[j]]
          /\ \A j, k \in 1..Len(t) : f[j] = f[k] => j = k
    BY PickedPlaces
<1> HIDE DEF t
<1>2. ASSUME NEW j \in 1..Len(t), NEW k \in 1..Len(t), t[j].key = t[k].key
      PROVE  j = k
    <2>1. f[j] \in 1..Len(s) /\ f[k] \in 1..Len(s)
        BY <1>1
    <2>2. s[f[j]].key = s[f[k]].key
        BY <1>1, <1>2
    <2>3. f[j] = f[k]
        BY <2>1, <2>2 DEF DistinctKeys
    <2> QED
        BY <1>1, <2>3
<1> QED
    BY <1>2 DEF DistinctKeys, t

\* The outbox without some keys is an outbox and holds all the others.
LEMMA WithoutSound ==
    ASSUME TypeOK, DistinctKeys(pendingOutbox), NEW keys
    PROVE  /\ Without(keys) \in Seq(Own) /\ DistinctKeys(Without(keys))
           /\ \A x \in Elements(pendingOutbox) : x.key \notin keys => x \in Elements(Without(keys))
<1> DEFINE places == {i \in 1..Len(pendingOutbox) : pendingOutbox[i].key \notin keys}
<1>1. places \in SUBSET (1..Len(pendingOutbox)) /\ pendingOutbox \in Seq(Own)
    BY DEF TypeOK
<1>2. \A x \in Elements(pendingOutbox) : x.key \notin keys => \E i \in places : x = pendingOutbox[i]
    BY DEF Elements
<1> HIDE DEF places
<1>3. Picked(pendingOutbox, places) \in Seq(Own) /\ DistinctKeys(Picked(pendingOutbox, places))
    BY <1>1, PickedPlaces, PickedDistinct
<1>4. Elements(Picked(pendingOutbox, places)) = {pendingOutbox[i] : i \in places}
    BY <1>1, PickedElements
<1>5. Without(keys) = Picked(pendingOutbox, places)
    BY DEF Without, places
<1> QED
    BY <1>2, <1>3, <1>4, <1>5

\* Two messages of one key are the same message.
LEMMA SameKeySame ==
    ASSUME NEW s, DistinctKeys(s), NEW x \in Elements(s), NEW y \in Elements(s), x.key = y.key
    PROVE  x = y
BY DEF DistinctKeys, Elements

-----------------------------------------------------------------------------
(* The relay's append.                                                     *)

\* Rows that are appended leave the log below them as it was.
LEMMA Appended ==
    ASSUME NEW old \in Seq(Record), NEW rows \in Seq(Record)
    PROVE  /\ old \o rows \in Seq(Record)
           /\ Len(old) \in Nat /\ Len(rows) \in Nat
           /\ Len(old \o rows) = Len(old) + Len(rows)
           /\ \A n \in 1..Len(old) : (old \o rows)[n] = old[n]
           /\ \A n \in 1..Len(rows) : (old \o rows)[Len(old) + n] = rows[n]
<1>1. Len(old) \in Nat /\ Len(rows) \in Nat
    BY LenProperties
<1> QED
    BY <1>1, ConcatProperties

\* The rows of a batch that are not there yet: each under a key the log lacks
\* (the transaction of POST /v3/sessions/:sessionId/messages).
LEMMA FreshRows ==
    ASSUME TypeOK, LoggedOnce, NEW batch \in Seq(Own), DistinctKeys(batch)
    PROVE  /\ Fresh(batch) \in Seq(Record)
           /\ DistinctKeys(log \o Fresh(batch))
           /\ Taken(batch) = {} => Elements(batch) \subseteq Elements(log \o Fresh(batch))
<1> DEFINE places == {i \in 1..Len(batch) : batch[i].key \notin Keys(log)}
           rows == Picked(batch, places)
<1>1. places \in SUBSET (1..Len(batch)) /\ log \in Seq(Record)
    BY DEF TypeOK
<1>2. Fresh(batch) = rows
    BY DEF Fresh
<1>3. \A i \in places : batch[i].key \notin Keys(log)
    OBVIOUS
<1>4. \A i \in 1..Len(batch) : i \notin places => batch[i].key \in Keys(log)
    OBVIOUS
<1> HIDE DEF places
<1>5. rows \in Seq(Own) /\ DistinctKeys(rows) /\ Elements(rows) = {batch[i] : i \in places}
    BY <1>1, PickedPlaces, PickedDistinct, PickedElements
<1> HIDE DEF rows
<1>6. rows \in Seq(Record)
    BY <1>5, SeqMonotonic DEF Record
<1>7. /\ Len(log) \in Nat /\ Len(rows) \in Nat
      /\ Len(log \o rows) = Len(log) + Len(rows)
      /\ \A n \in 1..Len(log) : (log \o rows)[n] = log[n]
      /\ \A n \in 1..Len(rows) : (log \o rows)[Len(log) + n] = rows[n]
    BY <1>1, <1>6, Appended
<1>8. \A n \in 1..Len(rows) : rows[n].key \notin Keys(log)
    <2>1. \A n \in 1..Len(rows) : rows[n] \in Elements(rows)
        BY DEF Elements
    <2> QED
        BY <1>3, <1>5, <2>1
<1>9. \A n \in 1..Len(log) : log[n].key \in Keys(log)
    BY DEF Keys
<1>10. DistinctKeys(log \o rows)
    <2> SUFFICES ASSUME NEW m \in 1..Len(log \o rows), NEW n \in 1..Len(log \o rows),
                        (log \o rows)[m].key = (log \o rows)[n].key
                 PROVE  m = n
        BY DEF DistinctKeys
    <2>1. CASE m \in 1..Len(log) /\ n \in 1..Len(log)
        BY <2>1, <1>7 DEF LoggedOnce
    <2>2. CASE m \in 1..Len(log) /\ n \notin 1..Len(log)
        <3>1. n - Len(log) \in 1..Len(rows) /\ n = Len(log) + (n - Len(log))
            BY <2>2, <1>7
        <3> QED
            BY <2>2, <3>1, <1>7, <1>8, <1>9
    <2>3. CASE m \notin 1..Len(log) /\ n \in 1..Len(log)
        <3>1. m - Len(log) \in 1..Len(rows) /\ m = Len(log) + (m - Len(log))
            BY <2>3, <1>7
        <3> QED
            BY <2>3, <3>1, <1>7, <1>8, <1>9
    <2>4. CASE m \notin 1..Len(log) /\ n \notin 1..Len(log)
        <3>1. m - Len(log) \in 1..Len(rows) /\ m = Len(log) + (m - Len(log))
            BY <2>4, <1>7
        <3>2. n - Len(log) \in 1..Len(rows) /\ n = Len(log) + (n - Len(log))
            BY <2>4, <1>7
        <3>3. rows[m - Len(log)].key = rows[n - Len(log)].key
            BY <3>1, <3>2, <1>7
        <3>4. m - Len(log) = n - Len(log)
            BY <3>1, <3>2, <3>3, <1>5 DEF DistinctKeys
        <3> QED
            BY <3>1, <3>2, <3>4, <1>7
    <2> QED
        BY <2>1, <2>2, <2>3, <2>4
<1>11. ASSUME Taken(batch) = {}, NEW i \in 1..Len(batch)
       PROVE  batch[i] \in Elements(log \o rows)
    <2>1. CASE i \in places
        <3>1. batch[i] \in Elements(rows)
            BY <2>1, <1>5
        <3>2. PICK j \in 1..Len(rows) : rows[j] = batch[i]
            BY <3>1 DEF Elements
        <3>3. Len(log) + j \in 1..Len(log \o rows)
            BY <1>7
        <3> QED
            BY <3>2, <3>3, <1>7 DEF Elements
    <2>2. CASE i \notin places
        <3>1. batch[i].key \in Keys(log) /\ batch[i] \in Elements(batch)
            BY <2>2, <1>4 DEF Elements
        <3>2. batch[i] \in Elements(log)
            BY <3>1, <1>11 DEF Taken
        <3>3. PICK n \in 1..Len(log) : log[n] = batch[i]
            BY <3>2 DEF Elements
        <3>4. n \in 1..Len(log \o rows)
            BY <1>7
        <3> QED
            BY <3>3, <3>4, <1>7 DEF Elements
    <2> QED
        BY <2>1, <2>2
<1> QED
    BY <1>2, <1>6, <1>10, <1>11 DEF Elements

\* What an append leaves true of everybody else.
LEMMA LogGrows ==
    ASSUME IInv, NEW rows \in Seq(Record), AppendRows(rows), DistinctKeys(log \o rows),
           UNCHANGED <<skipThrough, cursorVars, receiveVars, known>>
    PROVE  /\ log' \in Seq(Record) /\ unemitted' \subseteq 1..Len(log')
           /\ receiveSeq' \in 0..Len(log') /\ lastSeq' \in 0..Len(log')
           /\ routed' \subseteq 1..Len(log')
           /\ \/ fetch' = NoFetch
              \/ fetch' \in [after: 0..Len(log'), through: 0..Len(log') \cup {NoPage},
                            more: BOOLEAN]
           /\ Elements(log) \subseteq Elements(log')
           /\ \A k, c : Logged(k, c) => Logged(k, c)'
           /\ LoggedOnce' /\ KnownIsLogged' /\ RoutedWithoutGap' /\ FetchSound'
<1>1. TypeOK /\ log \in Seq(Record)
    BY DEF IInv, TypeOK
<1>2. /\ log' \in Seq(Record)
      /\ Len(log) \in Nat /\ Len(rows) \in Nat
      /\ Len(log') = Len(log) + Len(rows)
      /\ \A n \in 1..Len(log) : log'[n] = log[n]
    BY <1>1, Appended DEF AppendRows
<1>3. unemitted' \subseteq 1..Len(log')
    <2>1. unemitted' = unemitted \cup (Len(log) + 1 .. Len(log) + Len(rows))
        BY DEF AppendRows
    <2>2. unemitted \subseteq 1..Len(log)
        BY <1>1 DEF TypeOK
    <2>3. 1..Len(log) \subseteq 1..Len(log')
        BY <1>2
    <2>4. Len(log) + 1 .. Len(log) + Len(rows) \subseteq 1..Len(log')
        BY <1>2
    <2> QED
        BY <2>1, <2>2, <2>3, <2>4
<1>4. /\ receiveSeq' \in 0..Len(log') /\ lastSeq' \in 0..Len(log')
      /\ routed' \subseteq 1..Len(log')
    BY <1>1, <1>2 DEF TypeOK, cursorVars, receiveVars
<1>5. \/ fetch' = NoFetch
      \/ fetch' \in [after: 0..Len(log'), through: 0..Len(log') \cup {NoPage},
                    more: BOOLEAN]
    BY <1>1, <1>2 DEF TypeOK, receiveVars
<1>6. Elements(log) \subseteq Elements(log')
    BY <1>2 DEF Elements
<1>11. \A k, c : Logged(k, c) => Logged(k, c)'
    BY <1>2 DEF Logged
<1>7. LoggedOnce'
    BY DEF AppendRows, LoggedOnce, DistinctKeys
<1>8. KnownIsLogged'
    BY <1>2 DEF IInv, KnownIsLogged, Logged
<1>9. RoutedWithoutGap'
    <2>1. receiveSeq <= Len(log) /\ receiveSeq \in Nat /\ skipThrough \in Nat
        BY <1>1, <1>2 DEF TypeOK
    <2>2. UNCHANGED <<receiveSeq, routed, skipThrough>>
        BY DEF cursorVars, receiveVars
    <2>3. \A n \in skipThrough + 1 .. receiveSeq : n \in 1..Len(log)
        BY <1>2, <2>1
    <2>4. \A n \in skipThrough + 1 .. receiveSeq : Readable(n)' => Readable(n)
        BY <1>2, <2>3 DEF Readable
    <2>5. RoutedWithoutGap
        BY DEF IInv
    <2> QED
        BY <2>2, <2>4, <2>5 DEF RoutedWithoutGap
<1>10. FetchSound'
    BY DEF IInv, FetchSound, cursorVars, receiveVars
<1> QED
    BY <1>2, <1>3, <1>4, <1>5, <1>6, <1>7, <1>8, <1>9, <1>10, <1>11

\* Whoever leaves the outbox and its callers alone keeps what was asked for.
LEMMA AskedUntouched ==
    ASSUME IInv, UNCHANGED <<asked, pendingOutbox, flushVars>>,
           post' = NoPost \/ (post # NoPost /\ post'.batch = post.batch),
           \A k, c : Logged(k, c) => Logged(k, c)'
    PROVE  AskedIsKept' /\ FlushMeansLogged'
<1> USE DEF flushVars
<1>1. AskedIsKept'
    <2>1. ASSUME NEW i \in 1..Len(asked)
          PROVE  \/ asked[i].key \in conflicts \cup reported
                 \/ Logged(asked[i].key, asked[i].content)'
                 \/ \E m \in Elements(pendingOutbox) :
                       m.key = asked[i].key /\ m.content = asked[i].content
        BY DEF IInv, AskedIsKept
    <2>2. post' # NoPost => Elements(post'.batch) \subseteq Elements(pendingOutbox)
        BY DEF IInv, AskedIsKept
    <2>3. \A f \in Flusher : owed[f] <= Len(asked)
        BY DEF IInv, AskedIsKept
    <2> QED
        BY <2>1, <2>2, <2>3 DEF AskedIsKept
<1>2. FlushMeansLogged'
    BY DEF IInv, FlushMeansLogged
<1> QED
    BY <1>1, <1>2

\* In particular whoever also leaves the log alone.
LEMMA AskedAlone ==
    ASSUME IInv, UNCHANGED <<log, asked, pendingOutbox, flushVars>>,
           post' = NoPost \/ (post # NoPost /\ post'.batch = post.batch)
    PROVE  AskedIsKept' /\ FlushMeansLogged'
<1>1. \A k, c : Logged(k, c) => Logged(k, c)'
    BY DEF Logged
<1> QED
    BY <1>1, AskedUntouched

\* What the client remembers of rows of the log is logged (rememberRelayMessage).
LEMMA RememberedSound ==
    ASSUME IInv, NEW seqs, seqs \subseteq 1..Len(log)
    PROVE  /\ Remembered(seqs) \in [OwnKey -> Content \cup {Unknown}]
           /\ \A k \in OwnKey : Remembered(seqs)[k] # Unknown =>
                 \E n \in 1..Len(log) : log[n].key = k /\ log[n].content = Remembered(seqs)[k]
<1> DEFINE now == Remembered(seqs)
<1>1. log \in Seq(Record) /\ known \in [OwnKey -> Content \cup {Unknown}]
    BY DEF IInv, TypeOK
<1>2. ASSUME NEW k \in OwnKey
      PROVE  /\ now[k] \in Content \cup {Unknown}
             /\ now[k] # Unknown =>
                   \E n \in 1..Len(log) : log[n].key = k /\ log[n].content = now[k]
    <2>1. CASE \E n \in seqs : log[n].key = k
        <3> DEFINE n == CHOOSE n \in seqs : log[n].key = k
        <3>1. n \in seqs /\ log[n].key = k
            BY <2>1
        <3>2. now[k] = log[n].content
            BY <2>1 DEF Remembered
        <3> HIDE DEF n
        <3>3. n \in 1..Len(log) /\ log[n] \in Record
            BY <1>1, <3>1, ElementOfSeq
        <3>4. log[n].content \in Content \cup {Unknown}
            BY <3>3 DEF Record, Own, Phone
        <3> QED
            BY <3>1, <3>2, <3>3, <3>4
    <2>2. CASE ~ \E n \in seqs : log[n].key = k
        <3>1. now[k] = known[k]
            BY <2>2 DEF Remembered
        <3> QED
            BY <1>1, <3>1 DEF IInv, KnownIsLogged, Logged
    <2> QED
        BY <2>1, <2>2
<1>3. now = [k \in OwnKey |-> now[k]]
    BY DEF Remembered
<1> HIDE DEF now
<1>4. now \in [OwnKey -> Content \cup {Unknown}]
    BY <1>2, <1>3
<1> QED
    BY <1>2, <1>4 DEF now

\* Messages may leave the outbox when they are logged or a conflict is kept.
LEMMA OutboxShrinks ==
    ASSUME IInv, NEW keys, pendingOutbox' = Without(keys), post' = NoPost,
           UNCHANGED <<log, asked, flusher, owed, reported>>, conflicts \subseteq conflicts',
           \A x \in Elements(pendingOutbox) :
               x.key \in keys => x.key \in conflicts' \/ Logged(x.key, x.content)
    PROVE  AskedIsKept' /\ FlushMeansLogged'
<1>1. \A x \in Elements(pendingOutbox) : x.key \notin keys => x \in Elements(pendingOutbox')
    BY WithoutSound DEF IInv, BatchesDistinct
<1>2. \A x, c : Logged(x, c)' <=> Logged(x, c)
    BY DEF Logged
<1>3. ASSUME NEW i \in 1..Len(asked)
      PROVE  \/ asked[i].key \in conflicts' \cup reported
             \/ Logged(asked[i].key, asked[i].content)
             \/ \E m \in Elements(pendingOutbox') :
                   m.key = asked[i].key /\ m.content = asked[i].content
    <2>1. CASE \E m \in Elements(pendingOutbox) :
                   m.key = asked[i].key /\ m.content = asked[i].content
        <3>1. PICK m \in Elements(pendingOutbox) :
                   m.key = asked[i].key /\ m.content = asked[i].content
            BY <2>1
        <3> QED
            BY <1>1, <3>1
    <2> QED
        BY <2>1 DEF IInv, AskedIsKept
<1>4. AskedIsKept'
    <2>1. \A f \in Flusher : owed[f] <= Len(asked)
        BY DEF IInv, AskedIsKept
    <2> QED
        BY <1>2, <1>3, <2>1 DEF AskedIsKept
<1>5. FlushMeansLogged'
    BY <1>2 DEF IInv, FlushMeansLogged
<1> QED
    BY <1>4, <1>5

-----------------------------------------------------------------------------
(* The relay and the life of a client.                                     *)

\* A message of the phone is a row under a key of its own.
LEMMA PhonePostsKeeps ==
    ASSUME IInv, NEW k \in PhoneKey, PhonePosts(k)
    PROVE  IInv'
<1> USE DEF PhonePosts
<1> DEFINE row == [key |-> k, content |-> Unknown, life |-> 0]
<1>1. row \in Record /\ row.key = k
    BY DEF Record, Phone
<1> HIDE DEF row
<1>2. /\ <<row>> \in Seq(Record) /\ Len(<<row>>) = 1 /\ <<row>>[1] = row
      /\ AppendRows(<<row>>)
    BY <1>1 DEF row
<1>3. log \in Seq(Record)
    BY DEF IInv, TypeOK
<1>4. /\ Len(log) \in Nat /\ Len(log \o <<row>>) = Len(log) + 1
      /\ \A n \in 1..Len(log) : (log \o <<row>>)[n] = log[n]
      /\ (log \o <<row>>)[Len(log) + 1] = row
    BY <1>2, <1>3, Appended
<1>5. \A n \in 1..Len(log) : log[n].key # k
    BY DEF Keys
<1>6. DistinctKeys(log \o <<row>>)
    <2> SUFFICES ASSUME NEW m \in 1..Len(log) + 1, NEW n \in 1..Len(log) + 1,
                        (log \o <<row>>)[m].key = (log \o <<row>>)[n].key
                 PROVE  m = n
        BY <1>4 DEF DistinctKeys
    <2>1. \A j \in 1..Len(log) + 1 : j \in 1..Len(log) \/ j = Len(log) + 1
        BY <1>4
    <2> QED
        BY <2>1, <1>1, <1>4, <1>5 DEF IInv, LoggedOnce
<1>7. /\ log' \in Seq(Record) /\ unemitted' \subseteq 1..Len(log')
      /\ receiveSeq' \in 0..Len(log') /\ lastSeq' \in 0..Len(log')
      /\ routed' \subseteq 1..Len(log')
      /\ \/ fetch' = NoFetch
         \/ fetch' \in [after: 0..Len(log'), through: 0..Len(log') \cup {NoPage},
                       more: BOOLEAN]
      /\ Elements(log) \subseteq Elements(log')
      /\ \A x, c : Logged(x, c) => Logged(x, c)'
      /\ LoggedOnce' /\ KnownIsLogged' /\ RoutedWithoutGap' /\ FetchSound'
    BY <1>2, <1>6, LogGrows
<1>8. TypeOK'
    BY <1>7 DEF IInv, TypeOK, receiveVars, sendVars, flushVars
<1>9. BatchesDistinct' /\ AnswerSound'
    BY <1>7 DEF IInv, BatchesDistinct, AnswerSound, sendVars
<1>20. AskedIsKept' /\ FlushMeansLogged'
    <2>1. UNCHANGED <<asked, pendingOutbox, flushVars>> /\ post' = post
        BY DEF sendVars
    <2> QED
        BY <1>7, <2>1, AskedUntouched
<1> QED
    BY <1>7, <1>8, <1>9, <1>20 DEF IInv

\* A batch of which the client gave up adds rows under new keys or none.
LEMMA GhostArrivesKeeps ==
    ASSUME IInv, NEW batch \in ghosts, GhostArrives(batch)
    PROVE  IInv'
<1> USE DEF GhostArrives
<1>1. batch \in Seq(Own) /\ DistinctKeys(batch)
    BY DEF IInv, TypeOK, BatchesDistinct
<1>2. CASE Taken(batch) = {}
    <2>1. Fresh(batch) \in Seq(Record) /\ DistinctKeys(log \o Fresh(batch))
        BY <1>1, FreshRows DEF IInv
    <2>2. /\ log' \in Seq(Record) /\ unemitted' \subseteq 1..Len(log')
          /\ receiveSeq' \in 0..Len(log') /\ lastSeq' \in 0..Len(log')
          /\ routed' \subseteq 1..Len(log')
          /\ \/ fetch' = NoFetch
             \/ fetch' \in [after: 0..Len(log'), through: 0..Len(log') \cup {NoPage},
                           more: BOOLEAN]
          /\ Elements(log) \subseteq Elements(log')
          /\ \A x, c : Logged(x, c) => Logged(x, c)'
          /\ LoggedOnce' /\ KnownIsLogged' /\ RoutedWithoutGap' /\ FetchSound'
        BY <1>2, <2>1, LogGrows
    <2>3. TypeOK'
        BY <2>2 DEF IInv, TypeOK, receiveVars, sendVars, flushVars
    <2>4. BatchesDistinct' /\ AnswerSound'
        BY <2>2 DEF IInv, BatchesDistinct, AnswerSound, sendVars
    <2>5. UNCHANGED <<asked, pendingOutbox, flushVars>> /\ post' = post
        BY DEF sendVars
    <2>6. AskedIsKept' /\ FlushMeansLogged'
        BY <2>2, <2>5, AskedUntouched
    <2> QED
        BY <2>2, <2>3, <2>4, <2>6 DEF IInv
<1>3. CASE Taken(batch) # {}
    <2>1. TypeOK'
        BY <1>3 DEF IInv, TypeOK, cursorVars, receiveVars, sendVars, flushVars
    <2>2. LoggedOnce' /\ KnownIsLogged' /\ RoutedWithoutGap'
        BY <1>3 DEF IInv, LoggedOnce, KnownIsLogged, Logged, RoutedWithoutGap, Readable,
                    cursorVars, receiveVars
    <2>3. BatchesDistinct' /\ AnswerSound' /\ FetchSound'
        BY <1>3 DEF IInv, BatchesDistinct, AnswerSound, FetchSound,
                    cursorVars, receiveVars, sendVars
    <2>4. UNCHANGED <<log, asked, pendingOutbox, flushVars>> /\ post' = post
        BY <1>3 DEF sendVars
    <2>5. AskedIsKept' /\ FlushMeansLogged'
        BY <2>4, AskedAlone
    <2> QED
        BY <2>1, <2>2, <2>3, <2>5 DEF IInv
<1> QED
    BY <1>2, <1>3

\* A push that is lost changes no cursor (nobody is connected).
LEMMA PushLostKeeps ==
    ASSUME IInv, NEW n, PushLost(n)
    PROVE  IInv'
<1> USE DEF PushLost, relayVars, cursorVars, receiveVars, sendVars, flushVars
<1>1. TypeOK'
    BY ClientAssumption DEF IInv, TypeOK, Sync
<1>2. LoggedOnce' /\ KnownIsLogged' /\ RoutedWithoutGap'
    BY DEF IInv, LoggedOnce, KnownIsLogged, Logged, RoutedWithoutGap, Readable
<1>3. BatchesDistinct' /\ AnswerSound' /\ FetchSound'
    BY DEF IInv, BatchesDistinct, AnswerSound, FetchSound
<1>20. AskedIsKept' /\ FlushMeansLogged'
    <2>1. UNCHANGED <<log, asked, pendingOutbox, flushVars>>
        BY DEF relayVars, sendVars, flushVars
    <2>2. post' = post
        BY DEF sendVars
    <2> QED
        BY <2>1, <2>2, AskedAlone
<1> QED
    BY <1>1, <1>2, <1>3, <1>20 DEF IInv

\* A new client begins with nothing; what its predecessor sent may still arrive.
LEMMA NewLifeKeeps ==
    ASSUME IInv, NewLife
    PROVE  IInv'
<1> USE DEF NewLife
<1>1. log \in Seq(Record) /\ Len(log) \in Nat
    BY LenProperties DEF IInv, TypeOK
<1>2. TypeOK'
    <2>1. TypeOK
        BY DEF IInv
    <2>2. life' \in 0..MaxLives /\ skipThrough' \in Nat
        BY <1>1, <2>1, ClientAssumption DEF TypeOK
    <2>3. \A b \in ghosts' : b \in Seq(Own)
        BY <2>1 DEF TypeOK
    <2>4. log' \in Seq(Record) /\ unemitted' \subseteq 1..Len(log') /\ faults' \in 0..MaxFaults
        BY <2>1 DEF TypeOK
    <2>5. receiveSeq' \in 0..Len(log') /\ lastSeq' \in 0..Len(log') /\ routed' \subseteq 1..Len(log')
        BY <1>1
    <2>6. known' \in [OwnKey -> Content \cup {Unknown}]
        OBVIOUS
    <2>7. /\ flusher' \in [Flusher -> {"idle", "waiting", "woken", "confirmed"}]
          /\ owed' \in [Flusher -> Nat]
        OBVIOUS
    <2>8. pendingOutbox' \in Seq(Own) /\ asked' \in Seq(Own)
        BY EmptySeq
    <2> QED
        BY <2>1, <2>2, <2>3, <2>4, <2>5, <2>6, <2>7, <2>8 DEF TypeOK, Sync
<1>3. LoggedOnce' /\ KnownIsLogged' /\ RoutedWithoutGap'
    <2>1. LoggedOnce' /\ KnownIsLogged'
        BY DEF IInv, LoggedOnce, KnownIsLogged, Logged
    <2>2. skipThrough' \in Nat /\ receiveSeq' = 0 /\ routed' = {}
        BY <1>2 DEF TypeOK
    <2>3. RoutedWithoutGap'
        BY <2>2 DEF RoutedWithoutGap
    <2> QED
        BY <2>1, <2>3
<1>4. BatchesDistinct' /\ AnswerSound' /\ FetchSound'
    <2>1. DistinctKeys(<<>>)
        BY DEF DistinctKeys
    <2> QED
        BY <2>1 DEF IInv, BatchesDistinct, AnswerSound, FetchSound
<1>20. AskedIsKept' /\ FlushMeansLogged'
    <2>1. Elements(<<>>) = {} /\ Len(<<>>) = 0
        BY DEF Elements
    <2> QED
        BY <2>1 DEF AskedIsKept, FlushMeansLogged
<1> QED
    BY <1>2, <1>3, <1>4, <1>20 DEF IInv

\* Connecting asks for a fetch (startSmartReconnect).
LEMMA ConnectKeeps ==
    ASSUME IInv, Connect
    PROVE  IInv'
<1> USE DEF Connect, Invalidated, relayVars, cursorVars, receiveVars, sendVars, flushVars
<1>1. TypeOK'
    <2>1. receiveSync' \in Sync
        BY DEF IInv, TypeOK, Sync
    <2> QED
        BY <2>1 DEF IInv, TypeOK
<1>2. LoggedOnce' /\ KnownIsLogged' /\ RoutedWithoutGap'
    BY DEF IInv, LoggedOnce, KnownIsLogged, Logged, RoutedWithoutGap, Readable
<1>3. BatchesDistinct' /\ AnswerSound' /\ FetchSound'
    BY DEF IInv, BatchesDistinct, AnswerSound, FetchSound
<1>20. AskedIsKept' /\ FlushMeansLogged'
    <2>1. UNCHANGED <<log, asked, pendingOutbox, flushVars>>
        BY DEF relayVars, sendVars, flushVars
    <2>2. post' = post
        BY DEF sendVars
    <2> QED
        BY <2>1, <2>2, AskedAlone
<1> QED
    BY <1>1, <1>2, <1>3, <1>20 DEF IInv

\* A lost connection leaves everything else (the socket).
LEMMA DisconnectKeeps ==
    ASSUME IInv, Disconnect
    PROVE  IInv'
<1> USE DEF Disconnect, Fault, relayVars, cursorVars, receiveVars, sendVars, flushVars
<1>1. TypeOK'
    <2>1. TypeOK /\ faults' \in 0..MaxFaults
        BY ClientAssumption DEF IInv, TypeOK
    <2> QED
        BY <2>1 DEF TypeOK
<1>2. LoggedOnce' /\ KnownIsLogged' /\ RoutedWithoutGap'
    BY DEF IInv, LoggedOnce, KnownIsLogged, Logged, RoutedWithoutGap, Readable
<1>3. BatchesDistinct' /\ AnswerSound' /\ FetchSound'
    BY DEF IInv, BatchesDistinct, AnswerSound, FetchSound
<1>20. AskedIsKept' /\ FlushMeansLogged'
    <2>1. UNCHANGED <<log, asked, pendingOutbox, flushVars>>
        BY DEF relayVars, sendVars, flushVars
    <2>2. post' = post
        BY DEF sendVars
    <2> QED
        BY <2>1, <2>2, AskedAlone
<1> QED
    BY <1>1, <1>2, <1>3, <1>20 DEF IInv

-----------------------------------------------------------------------------
(* Receiving.                                                              *)

\* A push moves the cursor by one or not at all (the update handler).
LEMMA PushArrivesKeeps ==
    ASSUME IInv, NEW n \in unemitted, PushArrives(n)
    PROVE  IInv'
<1> USE DEF PushArrives
<1>1. /\ Len(log) \in Nat /\ n \in 1..Len(log) /\ receiveSeq \in 0..Len(log)
      /\ skipThrough \in Nat
    BY LenProperties DEF IInv, TypeOK
<1>2. /\ Remembered({n}) \in [OwnKey -> Content \cup {Unknown}]
      /\ \A k \in OwnKey : Remembered({n})[k] # Unknown =>
            \E i \in 1..Len(log) : log[i].key = k /\ log[i].content = Remembered({n})[k]
    BY <1>1, RememberedSound
<1>3. TypeOK'
    <2>1. TypeOK /\ unemitted' \subseteq 1..Len(log') /\ log' = log
        BY DEF IInv, TypeOK
    <2>2. receiveSync' \in Sync
        BY <2>1 DEF TypeOK, Sync, Invalidated
    <2>3. known' \in [OwnKey -> Content \cup {Unknown}]
        BY <1>2, <2>1 DEF TypeOK
    <2>4. /\ receiveSeq' \in 0..Len(log') /\ lastSeq' \in 0..Len(log')
          /\ routed' \subseteq 1..Len(log')
        <3>1. CASE UNCHANGED <<receiveSeq, lastSeq, routed>>
            BY <2>1, <3>1 DEF TypeOK
        <3>2. CASE receiveSeq' = n /\ lastSeq' = n /\ routed' = routed \cup {n}
            BY <1>1, <2>1, <3>2 DEF TypeOK
        <3> QED
            BY <3>1, <3>2 DEF cursorVars
    <2> QED
        BY <2>1, <2>2, <2>3, <2>4 DEF TypeOK, sendVars, flushVars
<1>4. LoggedOnce' /\ KnownIsLogged'
    <2>1. LoggedOnce'
        BY DEF IInv, LoggedOnce
    <2>2. CASE known' = known
        <3>1. log' = log
            OBVIOUS
        <3> QED
            BY <2>1, <2>2, <3>1 DEF IInv, KnownIsLogged, Logged
    <2>3. CASE known' = Remembered({n})
        <3>1. log' = log
            OBVIOUS
        <3> HIDE DEF PushArrives
        <3> QED
            BY <1>2, <2>1, <2>3, <3>1 DEF KnownIsLogged, Logged
    <2> QED
        BY <2>1, <2>2, <2>3
<1>5. RoutedWithoutGap'
    <2>1. CASE UNCHANGED <<receiveSeq, routed>>
        BY <2>1 DEF IInv, RoutedWithoutGap, Readable
    <2>2. CASE n = receiveSeq + 1 /\ receiveSeq' = n /\ routed' = routed \cup {n}
        BY <1>1, <2>2 DEF IInv, RoutedWithoutGap, Readable
    <2> QED
        BY <2>1, <2>2 DEF NextInOrder, cursorVars
<1>6. BatchesDistinct' /\ AnswerSound'
    BY DEF IInv, BatchesDistinct, AnswerSound, sendVars
<1>7. FetchSound'
    <2>1. receiveSeq <= receiveSeq'
        BY <1>1 DEF NextInOrder, cursorVars
    <2> QED
        BY <1>1, <1>3, <2>1 DEF IInv, TypeOK, FetchSound
<1>20. AskedIsKept' /\ FlushMeansLogged'
    <2>1. UNCHANGED <<log, asked, pendingOutbox, flushVars>>
        BY DEF relayVars, sendVars, flushVars
    <2>2. post' = post
        BY DEF sendVars
    <2> QED
        BY <2>1, <2>2, AskedAlone
<1> QED
    BY <1>3, <1>4, <1>5, <1>6, <1>7, <1>20 DEF IInv

\* A fetch begins at the cursor (fetchMessages).
LEMMA StartFetchKeeps ==
    ASSUME IInv, StartFetch
    PROVE  IInv'
<1> USE DEF StartFetch, relayVars, cursorVars, receiveVars, sendVars, flushVars
<1>1. TypeOK'
    BY ClientAssumption DEF IInv, TypeOK, Sync
<1>2. LoggedOnce' /\ KnownIsLogged' /\ RoutedWithoutGap'
    BY DEF IInv, LoggedOnce, KnownIsLogged, Logged, RoutedWithoutGap, Readable
<1>3. BatchesDistinct' /\ AnswerSound'
    BY DEF IInv, BatchesDistinct, AnswerSound
<1>4. FetchSound'
    <2>1. receiveSeq \in Nat /\ receiveSeq' = receiveSeq /\ fetch'.after = receiveSeq
        BY DEF IInv, TypeOK
    <2> QED
        BY <2>1 DEF FetchSound
<1>20. AskedIsKept' /\ FlushMeansLogged'
    <2>1. UNCHANGED <<log, asked, pendingOutbox, flushVars>>
        BY DEF relayVars, sendVars, flushVars
    <2>2. post' = post
        BY DEF sendVars
    <2> QED
        BY <2>1, <2>2, AskedAlone
<1> QED
    BY <1>1, <1>2, <1>3, <1>4, <1>20 DEF IInv

\* A page ends within the log (GET /v3/sessions/:sessionId/messages).
LEMMA ServePageKeeps ==
    ASSUME IInv, ServePage
    PROVE  IInv'
<1> USE DEF ServePage
<1>1. /\ Len(log) \in Nat
      /\ fetch \in [after: 0..Len(log), through: 0..Len(log) \cup {NoPage}, more: BOOLEAN]
    BY LenProperties DEF IInv, TypeOK
<1>2. PageEnd(fetch.after) \in 0..Len(log)
    BY <1>1, ClientAssumption DEF PageEnd, Smaller
<1>3. /\ fetch' \in [after: 0..Len(log), through: 0..Len(log) \cup {NoPage}, more: BOOLEAN]
      /\ fetch'.after = fetch.after
    <2> DEFINE through == PageEnd(fetch.after)
    <2>1. fetch' = [fetch EXCEPT !.through = through, !.more = through < Len(log)]
        OBVIOUS
    <2>2. through \in 0..Len(log) /\ (through < Len(log)) \in BOOLEAN
        BY <1>2
    <2> HIDE DEF through
    <2> QED
        BY <1>1, <2>1, <2>2
<1>4. TypeOK'
    BY <1>3 DEF IInv, TypeOK, relayVars, cursorVars, sendVars, flushVars
<1>5. LoggedOnce' /\ KnownIsLogged' /\ RoutedWithoutGap'
    BY DEF IInv, LoggedOnce, KnownIsLogged, Logged, RoutedWithoutGap, Readable, relayVars, cursorVars
<1>6. BatchesDistinct' /\ AnswerSound' /\ FetchSound'
    BY <1>3 DEF IInv, BatchesDistinct, AnswerSound, FetchSound, relayVars, cursorVars, sendVars
<1>20. AskedIsKept' /\ FlushMeansLogged'
    <2>1. UNCHANGED <<log, asked, pendingOutbox, flushVars>>
        BY DEF relayVars, sendVars, flushVars
    <2>2. post' = post
        BY DEF sendVars
    <2> QED
        BY <2>1, <2>2, AskedAlone
<1> QED
    BY <1>4, <1>5, <1>6, <1>20 DEF IInv

\* A page begins at or below the cursor, so that the cursor passes nothing that
\* was not routed (fetchMessages).
LEMMA HandlePageKeeps ==
    ASSUME IInv, HandlePage
    PROVE  IInv'
<1> USE DEF HandlePage
<1> DEFINE page == {n \in fetch.after + 1 .. fetch.through : Readable(n)}
<1>1. /\ Len(log) \in Nat
      /\ fetch \in [after: 0..Len(log), through: 0..Len(log) \cup {NoPage}, more: BOOLEAN]
      /\ receiveSeq \in 0..Len(log) /\ lastSeq \in 0..Len(log)
      /\ skipThrough \in Nat
    BY LenProperties DEF IInv, TypeOK
<1>2. /\ fetch.after \in 0..Len(log) /\ fetch.through \in 0..Len(log)
      /\ fetch.after <= receiveSeq
    BY <1>1 DEF IInv, FetchSound
<1>3. /\ receiveSeq' \in 0..Len(log) /\ lastSeq' \in 0..Len(log)
      /\ receiveSeq <= receiveSeq' /\ fetch.through <= receiveSeq'
      /\ receiveSeq' \in {receiveSeq, fetch.through}
    BY <1>1, <1>2 DEF Larger
<1>4. page \subseteq 1..Len(log) /\ page \subseteq 1..receiveSeq'
    BY <1>2, <1>3
<1>5. /\ routed' = routed \cup {n \in page : n > skipThrough}
      /\ known' = Remembered(page)
    OBVIOUS
<1>6. \A n \in fetch.after + 1 .. fetch.through : Readable(n) => n \in page
    OBVIOUS
<1> HIDE DEF page
<1>7. /\ Remembered(page) \in [OwnKey -> Content \cup {Unknown}]
      /\ \A k \in OwnKey : Remembered(page)[k] # Unknown =>
            \E i \in 1..Len(log) : log[i].key = k /\ log[i].content = Remembered(page)[k]
    BY <1>4, RememberedSound
<1>8. \/ fetch' = NoFetch
      \/ /\ fetch' = [after |-> fetch.through, through |-> NoPage, more |-> FALSE]
         /\ fetch' \in [after: 0..Len(log), through: 0..Len(log) \cup {NoPage}, more: BOOLEAN]
    <2>1. CASE fetch.more
        <3>1. fetch' = [after |-> fetch.through, through |-> NoPage, more |-> FALSE]
            BY <2>1
        <3> QED
            BY <1>2, <3>1
    <2>2. CASE ~fetch.more
        BY <2>2
    <2> QED
        BY <2>1, <2>2
<1>9. receiveSync' \in Sync
    BY DEF IInv, TypeOK, Sync, AfterRun
<1>10. TypeOK'
    BY <1>3, <1>4, <1>5, <1>7, <1>8, <1>9 DEF IInv, TypeOK, relayVars, sendVars, flushVars
<1>11. LoggedOnce' /\ KnownIsLogged'
    <2>1. log' = log
        BY DEF relayVars
    <2>2. LoggedOnce'
        BY <2>1 DEF IInv, LoggedOnce
    <2>3. KnownIsLogged'
        BY <1>5, <1>7, <2>1 DEF KnownIsLogged, Logged
    <2> QED
        BY <2>2, <2>3
<1>12. RoutedWithoutGap'
    <2>1. routed' \subseteq 1..receiveSeq'
        <3>1. 1..receiveSeq \subseteq 1..receiveSeq'
            BY <1>1, <1>3
        <3> QED
            BY <1>4, <1>5, <3>1 DEF IInv, RoutedWithoutGap
    <2>2. ASSUME NEW n \in skipThrough + 1 .. receiveSeq', Readable(n) PROVE n \in routed'
        <3>1. CASE n <= receiveSeq
            <4>1. n \in skipThrough + 1 .. receiveSeq
                BY <1>1, <1>3, <3>1
            <4> QED
                BY <1>5, <2>2, <4>1 DEF IInv, RoutedWithoutGap
        <3>2. CASE ~ (n <= receiveSeq)
            <4>1. n \in fetch.after + 1 .. fetch.through /\ n > skipThrough
                BY <1>1, <1>2, <1>3, <3>2
            <4> QED
                BY <1>5, <1>6, <2>2, <4>1
        <3> QED
            BY <3>1, <3>2
    <2>3. \A n : Readable(n)' <=> Readable(n)
        BY DEF Readable, relayVars
    <2>4. skipThrough' = skipThrough
        OBVIOUS
    <2> QED
        BY <2>1, <2>2, <2>3, <2>4 DEF RoutedWithoutGap
<1>13. BatchesDistinct' /\ AnswerSound'
    BY DEF IInv, BatchesDistinct, AnswerSound, relayVars, sendVars
<1>14. FetchSound'
    BY <1>3, <1>8 DEF FetchSound
<1>20. AskedIsKept' /\ FlushMeansLogged'
    <2>1. UNCHANGED <<log, asked, pendingOutbox, flushVars>>
        BY DEF relayVars, sendVars, flushVars
    <2>2. post' = post
        BY DEF sendVars
    <2> QED
        BY <2>1, <2>2, AskedAlone
<1> QED
    BY <1>10, <1>11, <1>12, <1>13, <1>14, <1>20 DEF IInv

\* A fetch that fails starts over (backoff).
LEMMA FetchFailsKeeps ==
    ASSUME IInv, FetchFails
    PROVE  IInv'
<1> USE DEF FetchFails, Fault, relayVars, cursorVars, receiveVars, sendVars, flushVars
<1>1. TypeOK'
    BY ClientAssumption DEF IInv, TypeOK, Sync
<1>2. LoggedOnce' /\ KnownIsLogged' /\ RoutedWithoutGap'
    BY DEF IInv, LoggedOnce, KnownIsLogged, Logged, RoutedWithoutGap, Readable
<1>3. BatchesDistinct' /\ AnswerSound' /\ FetchSound'
    BY DEF IInv, BatchesDistinct, AnswerSound, FetchSound
<1>20. AskedIsKept' /\ FlushMeansLogged'
    <2>1. UNCHANGED <<log, asked, pendingOutbox, flushVars>>
        BY DEF relayVars, sendVars, flushVars
    <2>2. post' = post
        BY DEF sendVars
    <2> QED
        BY <2>1, <2>2, AskedAlone
<1> QED
    BY <1>1, <1>2, <1>3, <1>20 DEF IInv

-----------------------------------------------------------------------------
(* Sending.                                                                *)

\* A message is queued only when none with its localId is (enqueueMessage).
LEMMA EnqueueMessageKeeps ==
    ASSUME IInv, NEW k \in OwnKey, NEW c \in Content, EnqueueMessage(k, c)
    PROVE  IInv'
<1> USE DEF EnqueueMessage, relayVars, cursorVars, receiveVars
<1> DEFINE m == [key |-> k, content |-> c, life |-> life]
           pending == {x \in Elements(pendingOutbox) : x.key = k}
<1>1. /\ TypeOK
      /\ pendingOutbox \in Seq(Own) /\ asked \in Seq(Own)
    BY DEF IInv, TypeOK
<1>2. m \in Own /\ m.key = k
    BY <1>1, ClientAssumption DEF TypeOK, Own
<1>3. /\ asked' = Append(asked, m)
      /\ pendingOutbox' = IF known[k] = Unknown /\ pending = {}
                          THEN Append(pendingOutbox, m) ELSE pendingOutbox
    OBVIOUS
<1>4. pending = {} => \A n \in 1..Len(pendingOutbox) : pendingOutbox[n].key # k
    BY DEF Elements
<1> HIDE DEF m, pending
<1>5. /\ Append(pendingOutbox, m) \in Seq(Own)
      /\ Len(pendingOutbox) \in Nat
      /\ Len(Append(pendingOutbox, m)) = Len(pendingOutbox) + 1
      /\ \A n \in 1..Len(pendingOutbox) : Append(pendingOutbox, m)[n] = pendingOutbox[n]
      /\ Append(pendingOutbox, m)[Len(pendingOutbox) + 1] = m
    BY <1>1, <1>2, AppendProperties, LenProperties
<1>6. pendingOutbox' \in Seq(Own) /\ asked' \in Seq(Own)
    BY <1>1, <1>2, <1>3, <1>5, AppendProperties
<1>7. TypeOK'
    <2>1. sendSync' \in Sync
        BY <1>1 DEF TypeOK, Sync, Invalidated
    <2>2. conflicts' \subseteq OwnKey
        BY <1>1 DEF TypeOK
    <2> QED
        BY <1>1, <1>6, <2>1, <2>2 DEF TypeOK
<1>8. LoggedOnce' /\ KnownIsLogged' /\ RoutedWithoutGap'
    BY DEF IInv, LoggedOnce, KnownIsLogged, Logged, RoutedWithoutGap, Readable
<1>9. DistinctKeys(pendingOutbox')
    <2>1. DistinctKeys(pendingOutbox)
        BY DEF IInv, BatchesDistinct
    <2>2. ASSUME pending = {} PROVE DistinctKeys(Append(pendingOutbox, m))
        <3>1. \A j \in 1..Len(pendingOutbox) + 1 :
                  j \in 1..Len(pendingOutbox) \/ j = Len(pendingOutbox) + 1
            BY <1>5
        <3> QED
            BY <1>2, <1>4, <1>5, <2>1, <2>2, <3>1 DEF DistinctKeys
    <2> QED
        BY <1>3, <2>1, <2>2
<1>10. BatchesDistinct' /\ AnswerSound' /\ FetchSound'
    BY <1>9 DEF IInv, BatchesDistinct, AnswerSound, FetchSound
<1>20. AskedIsKept' /\ FlushMeansLogged'
    <2>1. /\ Len(asked) \in Nat /\ Len(asked') = Len(asked) + 1
          /\ \A i \in 1..Len(asked) : asked'[i] = asked[i]
          /\ asked'[Len(asked) + 1] = m
        BY <1>1, <1>2, <1>3, AppendProperties, LenProperties
    <2>2. Elements(pendingOutbox) \subseteq Elements(pendingOutbox')
        BY <1>3, <1>5 DEF Elements
    <2>3. /\ conflicts \subseteq conflicts' /\ reported' = reported
          /\ UNCHANGED <<log, post, flusher, owed>>
        OBVIOUS
    <2>4. \/ k \in conflicts'
          \/ Logged(k, c)
          \/ \E x \in Elements(pendingOutbox') : x.key = k /\ x.content = c
        <3>1. CASE known[k] = Unknown /\ pending = {}
            <4>1. Len(pendingOutbox) + 1 \in 1..Len(pendingOutbox')
                BY <1>3, <1>5, <3>1
            <4>2. m \in Elements(pendingOutbox')
                BY <1>3, <1>5, <3>1, <4>1 DEF Elements
            <4>3. m.key = k /\ m.content = c
                BY DEF m
            <4> QED
                BY <4>2, <4>3
        <3>2. CASE known[k] = Unknown /\ pending # {}
            <4>1. PICK x \in pending : TRUE
                BY <3>2
            <4>2. x \in Elements(pendingOutbox) /\ x.key = k
                BY <4>1 DEF pending
            <4>3. x.content # c => k \in conflicts'
                BY <3>2, <4>1 DEF pending
            <4> QED
                BY <2>2, <4>2, <4>3
        <3>3. CASE known[k] = c /\ known[k] # Unknown
            BY <3>3 DEF IInv, KnownIsLogged
        <3>4. CASE known[k] \notin {Unknown, c}
            BY <3>4
        <3> QED
            BY <3>1, <3>2, <3>3, <3>4
    <2>5. m.key = k /\ m.content = c
        BY DEF m
    <2>6. \A x, y : Logged(x, y)' <=> Logged(x, y)
        BY <2>3 DEF Logged
    <2> HIDE DEF EnqueueMessage
    <2>7. ASSUME NEW i \in 1..Len(asked')
          PROVE  \/ asked'[i].key \in conflicts' \cup reported'
                 \/ Logged(asked'[i].key, asked'[i].content)
                 \/ \E x \in Elements(pendingOutbox') :
                       x.key = asked'[i].key /\ x.content = asked'[i].content
        <3>1. CASE i \in 1..Len(asked)
            BY <2>1, <2>2, <2>3, <3>1 DEF IInv, AskedIsKept
        <3>2. CASE i = Len(asked) + 1
            BY <2>1, <2>4, <2>5, <3>2
        <3> QED
            BY <2>1, <3>1, <3>2
    <2>8. AskedIsKept'
        <3>1. post' # NoPost => Elements(post'.batch) \subseteq Elements(pendingOutbox')
            BY <2>2, <2>3 DEF IInv, AskedIsKept
        <3>2. \A f \in Flusher : owed'[f] <= Len(asked')
            BY <1>1, <2>1, <2>3 DEF IInv, AskedIsKept, TypeOK
        <3> QED
            BY <2>6, <2>7, <3>1, <3>2 DEF AskedIsKept
    <2>9. FlushMeansLogged'
        <3>1. ASSUME NEW f \in Flusher, NEW i \in 1..owed[f] PROVE asked'[i] = asked[i]
            <4>1. owed[f] \in Nat /\ owed[f] <= Len(asked)
                BY <1>1 DEF IInv, AskedIsKept, TypeOK
            <4> QED
                BY <2>1, <4>1
        <3> QED
            BY <2>3, <2>6, <3>1 DEF IInv, FlushMeansLogged
    <2> QED
        BY <2>8, <2>9
<1> QED
    BY <1>7, <1>8, <1>10, <1>20 DEF IInv

\* A batch is the beginning of the outbox (flushOutbox).
LEMMA SendBatchKeeps ==
    ASSUME IInv, SendBatch
    PROVE  IInv'
<1> USE DEF SendBatch, relayVars, cursorVars, receiveVars, flushVars
<1> DEFINE n == Smaller(BatchSize, Len(pendingOutbox))
<1>1. pendingOutbox \in Seq(Own) /\ Len(pendingOutbox) \in Nat /\ DistinctKeys(pendingOutbox)
    BY LenProperties DEF IInv, TypeOK, BatchesDistinct
<1>2. n \in Nat /\ n <= Len(pendingOutbox)
    BY <1>1, ClientAssumption DEF Smaller
<1>3. OldestBatch = SubSeq(pendingOutbox, 1, n)
    BY DEF OldestBatch
<1> HIDE DEF n
<1>4. /\ OldestBatch \in Seq(Own) /\ Len(OldestBatch) = n
      /\ \A i \in 1..n : OldestBatch[i] = pendingOutbox[i]
    BY <1>1, <1>2, <1>3
<1>5. DistinctKeys(OldestBatch)
    BY <1>1, <1>2, <1>4 DEF DistinctKeys
<1>6. /\ post' \in [batch: Seq(Own), stage: Stage, hint: OwnKey \cup {Unknown}]
      /\ post'.batch = OldestBatch /\ post'.stage = "sent"
    BY <1>4 DEF Stage
<1>7. TypeOK'
    BY <1>6 DEF IInv, TypeOK
<1>8. LoggedOnce' /\ KnownIsLogged' /\ RoutedWithoutGap'
    BY DEF IInv, LoggedOnce, KnownIsLogged, Logged, RoutedWithoutGap, Readable
<1>9. BatchesDistinct' /\ AnswerSound' /\ FetchSound'
    BY <1>5, <1>6 DEF IInv, BatchesDistinct, AnswerSound, FetchSound
<1>20. AskedIsKept' /\ FlushMeansLogged'
    <2>1. Elements(OldestBatch) \subseteq Elements(pendingOutbox)
        BY <1>1, <1>2, <1>4 DEF Elements
    <2>2. \A x, c : Logged(x, c)' <=> Logged(x, c)
        BY DEF Logged
    <2>3. AskedIsKept'
        BY <1>6, <2>1, <2>2 DEF IInv, AskedIsKept
    <2>4. FlushMeansLogged'
        BY <2>2 DEF IInv, FlushMeansLogged
    <2> QED
        BY <2>3, <2>4
<1> QED
    BY <1>7, <1>8, <1>9, <1>20 DEF IInv

\* What the relay accepts is in the log by then; what it refuses has a name.
LEMMA RelayHandlesBatchKeeps ==
    ASSUME IInv, RelayHandlesBatch
    PROVE  IInv'
<1> USE DEF RelayHandlesBatch
<1>1. /\ post \in [batch: Seq(Own), stage: Stage, hint: OwnKey \cup {Unknown}]
      /\ post.batch \in Seq(Own) /\ DistinctKeys(post.batch)
    BY DEF IInv, TypeOK, BatchesDistinct
<1>2. CASE /\ Taken(post.batch) = {}
           /\ AppendRows(Fresh(post.batch))
           /\ post' = [post EXCEPT !.stage = "accepted"]
    <2>1. /\ Fresh(post.batch) \in Seq(Record) /\ DistinctKeys(log \o Fresh(post.batch))
          /\ Elements(post.batch) \subseteq Elements(log \o Fresh(post.batch))
        BY <1>1, <1>2, FreshRows DEF IInv
    <2>2. /\ log' \in Seq(Record) /\ unemitted' \subseteq 1..Len(log')
          /\ receiveSeq' \in 0..Len(log') /\ lastSeq' \in 0..Len(log')
          /\ routed' \subseteq 1..Len(log')
          /\ \/ fetch' = NoFetch
             \/ fetch' \in [after: 0..Len(log'), through: 0..Len(log') \cup {NoPage},
                           more: BOOLEAN]
          /\ Elements(log) \subseteq Elements(log')
          /\ \A x, c : Logged(x, c) => Logged(x, c)'
          /\ LoggedOnce' /\ KnownIsLogged' /\ RoutedWithoutGap' /\ FetchSound'
        BY <1>2, <2>1, LogGrows
    <2>3. /\ post' \in [batch: Seq(Own), stage: Stage, hint: OwnKey \cup {Unknown}]
          /\ post'.batch = post.batch /\ post'.stage = "accepted"
        BY <1>1, <1>2 DEF Stage
    <2>4. TypeOK'
        BY <2>2, <2>3 DEF IInv, TypeOK, receiveVars, flushVars
    <2>5. BatchesDistinct'
        BY <1>1, <2>3 DEF IInv, BatchesDistinct
    <2>6. AnswerSound'
        <3>1. log' = log \o Fresh(post.batch)
            BY <1>2 DEF AppendRows
        <3> QED
            BY <2>1, <2>3, <3>1 DEF AnswerSound
    <2>7. AskedIsKept' /\ FlushMeansLogged'
        BY <2>2, <2>3, AskedUntouched
    <2> QED
        BY <2>2, <2>4, <2>5, <2>6, <2>7 DEF IInv
<1>3. ASSUME NEW k \in Taken(post.batch),
             post' = [post EXCEPT !.stage = "refused", !.hint = k],
             UNCHANGED <<log, unemitted>>
      PROVE  IInv'
    <2>1. k \in OwnKey
        <3>1. PICK r \in Elements(post.batch) : r.key = k
            BY DEF Taken
        <3>2. PICK n \in 1..Len(post.batch) : r = post.batch[n]
            BY DEF Elements
        <3>3. r \in Own
            BY <1>1, <3>2, ElementOfSeq
        <3> QED
            BY <3>1, <3>3 DEF Own
    <2>2. /\ post' \in [batch: Seq(Own), stage: Stage, hint: OwnKey \cup {Unknown}]
          /\ post'.batch = post.batch /\ post'.stage = "refused" /\ post'.hint \in OwnKey
        BY <1>1, <1>3, <2>1 DEF Stage
    <2>3. TypeOK'
        BY <1>3, <2>2 DEF IInv, TypeOK, cursorVars, receiveVars, flushVars
    <2>4. LoggedOnce' /\ KnownIsLogged' /\ RoutedWithoutGap'
        BY <1>3 DEF IInv, LoggedOnce, KnownIsLogged, Logged, RoutedWithoutGap, Readable,
                    cursorVars, receiveVars
    <2>5. BatchesDistinct' /\ AnswerSound' /\ FetchSound'
        BY <1>1, <1>3, <2>2 DEF IInv, BatchesDistinct, AnswerSound, FetchSound,
                    cursorVars, receiveVars
    <2>6. AskedIsKept' /\ FlushMeansLogged'
        BY <1>3, <2>2, AskedAlone
    <2> QED
        BY <2>3, <2>4, <2>5, <2>6 DEF IInv
<1> QED
    BY <1>2, <1>3

\* The client gives up on an answer; the batch may still arrive (backoff).
LEMMA PostFailsKeeps ==
    ASSUME IInv, PostFails
    PROVE  IInv'
<1> USE DEF PostFails, Fault, cursorVars, receiveVars, flushVars
<1>1. TypeOK'
    <2>1. TypeOK /\ faults' \in 0..MaxFaults
        BY ClientAssumption DEF IInv, TypeOK
    <2>2. post.batch \in Seq(Own)
        BY DEF IInv, TypeOK
    <2>3. \A b \in ghosts' : b \in Seq(Own)
        BY <2>1, <2>2 DEF TypeOK
    <2> QED
        BY <2>1, <2>3 DEF TypeOK
<1>2. LoggedOnce' /\ KnownIsLogged' /\ RoutedWithoutGap'
    BY DEF IInv, LoggedOnce, KnownIsLogged, Logged, RoutedWithoutGap, Readable
<1>3. BatchesDistinct' /\ AnswerSound' /\ FetchSound'
    BY DEF IInv, BatchesDistinct, AnswerSound, FetchSound
<1>20. AskedIsKept' /\ FlushMeansLogged'
    BY AskedAlone
<1> QED
    BY <1>1, <1>2, <1>3, <1>20 DEF IInv

\* Every message of an accepted batch is in the log, so it may leave the outbox
\* and be held for logged (flushOutbox).
LEMMA BatchAcceptedKeeps ==
    ASSUME IInv, BatchAccepted
    PROVE  IInv'
<1> USE DEF BatchAccepted
<1> DEFINE seqs == SeqsOf(post.batch) \cup {lastSeq}
<1>1. /\ TypeOK /\ Len(log) \in Nat /\ lastSeq \in 0..Len(log)
      /\ post.batch \in Seq(Own) /\ Elements(post.batch) \subseteq Elements(log)
      /\ DistinctKeys(pendingOutbox)
    BY LenProperties DEF IInv, TypeOK, AnswerSound, BatchesDistinct
<1>2. lastSeq' \in 0..Len(log)
    <2>1. seqs \subseteq 0..Len(log) /\ seqs # {}
        BY <1>1 DEF SeqsOf
    <2>2. lastSeq' = CHOOSE s \in seqs : \A n \in seqs : n <= s
        OBVIOUS
    <2> HIDE DEF seqs
    <2>3. \E s \in seqs : \A n \in seqs : n <= s
        BY <1>1, <2>1, Greatest
    <2> QED
        BY <2>1, <2>2, <2>3
<1>3. ASSUME NEW k \in OwnKey
      PROVE  /\ known'[k] \in Content \cup {Unknown}
             /\ known'[k] # Unknown =>
                   \E n \in 1..Len(log) : log[n].key = k /\ log[n].content = known'[k]
    <2>1. CASE k \in Keys(post.batch)
        <3> DEFINE m == CHOOSE m \in Elements(post.batch) : m.key = k
        <3>1. \E x \in Elements(post.batch) : x.key = k
            BY <2>1 DEF Keys, Elements
        <3>2. m \in Elements(post.batch) /\ m.key = k
            BY <3>1
        <3>3. known'[k] = m.content
            BY <2>1
        <3> HIDE DEF m
        <3>4. m \in Own
            BY <1>1, <3>2, ElementOfSeq DEF Elements
        <3>5. \E n \in 1..Len(log) : log[n] = m
            BY <1>1, <3>2 DEF Elements
        <3> QED
            BY <3>2, <3>3, <3>4, <3>5 DEF Own
    <2>2. CASE k \notin Keys(post.batch)
        <3>1. known'[k] = known[k]
            BY <2>2
        <3>2. known \in [OwnKey -> Content \cup {Unknown}] /\ KnownIsLogged
            BY DEF IInv, TypeOK
        <3> HIDE DEF BatchAccepted
        <3> QED
            BY <3>1, <3>2 DEF KnownIsLogged, Logged
    <2> QED
        BY <2>1, <2>2
<1>4. known' \in [OwnKey -> Content \cup {Unknown}]
    <2>1. known' = [k \in OwnKey |-> known'[k]]
        OBVIOUS
    <2> QED
        BY <1>3, <2>1
<1>5. pendingOutbox' \in Seq(Own) /\ DistinctKeys(pendingOutbox')
    BY <1>1, WithoutSound
<1>6. TypeOK'
    BY <1>1, <1>2, <1>4, <1>5 DEF TypeOK, relayVars, receiveVars, flushVars
<1>7. log' = log
    BY DEF relayVars
<1>8. LoggedOnce' /\ RoutedWithoutGap'
    BY DEF IInv, LoggedOnce, RoutedWithoutGap, Readable, relayVars, receiveVars
<1>9. BatchesDistinct' /\ AnswerSound' /\ FetchSound'
    BY <1>5 DEF IInv, BatchesDistinct, AnswerSound, FetchSound, relayVars, receiveVars
<1> HIDE DEF BatchAccepted
<1>10. KnownIsLogged'
    BY <1>3, <1>7 DEF KnownIsLogged, Logged
<1>20. AskedIsKept' /\ FlushMeansLogged'
    <2>1. ASSUME NEW x \in Elements(pendingOutbox), x.key \in Keys(post.batch)
          PROVE  Logged(x.key, x.content)
        <3>1. PICK y \in Elements(post.batch) : y.key = x.key
            BY <2>1 DEF Keys, Elements
        <3>2. y \in Elements(pendingOutbox) /\ y \in Elements(log)
            BY <1>1 DEF BatchAccepted, IInv, AskedIsKept
        <3>3. x = y
            BY <1>1, <3>1, <3>2, SameKeySame
        <3> QED
            BY <3>2, <3>3 DEF Logged, Elements
    <2>2. /\ pendingOutbox' = Without(Keys(post.batch)) /\ post' = NoPost
          /\ UNCHANGED <<log, asked, flusher, owed, reported, conflicts>>
        BY DEF BatchAccepted, relayVars, flushVars
    <2> QED
        BY <2>1, <2>2, OutboxShrinks
<1> QED
    BY <1>6, <1>8, <1>9, <1>10, <1>20 DEF IInv

\* Whether the inventory got to the end or not, what it read is logged
\* (reconcileOutboxConflict).
LEMMA BatchRefusedKeeps ==
    ASSUME IInv, BatchRefused
    PROVE  IInv'
<1> USE DEF BatchRefused
<1>1. /\ TypeOK /\ Len(log) \in Nat
      /\ post.batch \in Seq(Own) /\ post.hint \in OwnKey
      /\ DistinctKeys(pendingOutbox)
    BY LenProperties DEF IInv, TypeOK, AnswerSound, BatchesDistinct
<1>2. PICK seqs \in SUBSET (1..Len(log)), keys \in SUBSET OwnKey :
          /\ known' = Remembered(seqs)
          /\ pendingOutbox' = Without(keys)
          /\ conflicts' \subseteq OwnKey /\ conflicts \subseteq conflicts'
          /\ \A x \in Elements(pendingOutbox) :
                x.key \in keys => x.key \in conflicts' \/ Logged(x.key, x.content)
    <2>1. CASE Reconcile
        <3> DEFINE seqs == InventoryReach \ {0}
                   logged == {m \in Elements(post.batch) : Remembered(seqs)[m.key] # Unknown}
        <3>1. seqs \in SUBSET (1..Len(log))
            BY <1>1 DEF InventoryReach
        <3>2. known' = Remembered(seqs) /\ pendingOutbox' = Without({m.key : m \in logged})
            BY <2>1 DEF Reconcile
        <3>3. \A m \in Elements(post.batch) : m.key \in OwnKey
            <4>1. \A m \in Elements(post.batch) : m \in Own
                BY <1>1, ElementOfSeq DEF Elements
            <4> QED
                BY <4>1 DEF Own
        <3>4. conflicts' \subseteq OwnKey
            BY <1>1, <2>1, <3>3 DEF Reconcile, TypeOK
        <3>5. ASSUME NEW x \in Elements(pendingOutbox), x.key \in {m.key : m \in logged}
              PROVE  x.key \in conflicts' \/ Logged(x.key, x.content)
            <4>1. PICK m \in logged : m.key = x.key
                BY <3>5
            <4>2. m \in Elements(post.batch) /\ m \in Elements(pendingOutbox)
                BY DEF IInv, AskedIsKept
            <4>3. m = x
                BY <1>1, <4>1, <4>2, SameKeySame
            <4>4. x.key \in OwnKey /\ Remembered(seqs)[x.key] # Unknown
                BY <3>3, <4>2, <4>3
            <4>5. Logged(x.key, Remembered(seqs)[x.key])
                <5>1. seqs \subseteq 1..Len(log)
                    BY <3>1
                <5> HIDE DEF seqs
                <5> QED
                    BY <4>4, <5>1, RememberedSound DEF Logged
            <4>6. CASE Remembered(seqs)[x.key] = x.content
                BY <4>5, <4>6
            <4>7. CASE Remembered(seqs)[x.key] # x.content
                BY <2>1, <4>3, <4>7 DEF Reconcile
            <4> QED
                BY <4>6, <4>7
        <3>6. conflicts \subseteq conflicts'
            BY <2>1 DEF Reconcile
        <3>7. {m.key : m \in logged} \in SUBSET OwnKey
            BY <3>3
        <3> HIDE DEF seqs, logged
        <3> QED
            BY <3>1, <3>2, <3>4, <3>5, <3>6, <3>7
    <2>2. ASSUME NEW n \in InventoryReach, Quarantine(n)
          PROVE  \E seqs \in SUBSET (1..Len(log)), keys \in SUBSET OwnKey :
                    /\ known' = Remembered(seqs)
                    /\ pendingOutbox' = Without(keys)
                    /\ conflicts' \subseteq OwnKey /\ conflicts \subseteq conflicts'
                    /\ \A x \in Elements(pendingOutbox) :
                          x.key \in keys => x.key \in conflicts' \/ Logged(x.key, x.content)
        <3>1. 1..n \in SUBSET (1..Len(log))
            BY <1>1 DEF InventoryReach
        <3>2. conflicts' \subseteq OwnKey
            BY <1>1, <2>2 DEF Quarantine, TypeOK
        <3>3. {post.hint} \in SUBSET OwnKey
            BY <1>1
        <3> QED
            BY <2>2, <3>1, <3>2, <3>3 DEF Quarantine
    <2> QED
        BY <2>1, <2>2
<1>3. /\ known' \in [OwnKey -> Content \cup {Unknown}]
      /\ \A k \in OwnKey : known'[k] # Unknown =>
            \E n \in 1..Len(log) : log[n].key = k /\ log[n].content = known'[k]
    <2>1. seqs \subseteq 1..Len(log)
        OBVIOUS
    <2> QED
        BY <1>2, <2>1, RememberedSound
<1>4. pendingOutbox' \in Seq(Own) /\ DistinctKeys(pendingOutbox')
    BY <1>1, <1>2, WithoutSound
<1>5. faults' \in 0..MaxFaults
    BY <1>1, ClientAssumption DEF TypeOK, Fault
<1>6. TypeOK'
    BY <1>1, <1>2, <1>3, <1>4, <1>5 DEF TypeOK, relayVars, cursorVars, receiveVars
<1>7. log' = log
    BY DEF relayVars
<1>8. LoggedOnce' /\ RoutedWithoutGap'
    BY DEF IInv, LoggedOnce, RoutedWithoutGap, Readable, relayVars, cursorVars, receiveVars
<1>9. BatchesDistinct' /\ AnswerSound' /\ FetchSound'
    BY <1>4 DEF IInv, BatchesDistinct, AnswerSound, FetchSound,
                relayVars, cursorVars, receiveVars
<1> HIDE DEF BatchRefused
<1>10. KnownIsLogged'
    BY <1>3, <1>7 DEF KnownIsLogged, Logged
<1>20. AskedIsKept' /\ FlushMeansLogged'
    <2>1. /\ post' = NoPost
          /\ UNCHANGED <<log, asked, flusher, owed, reported>>
        BY DEF BatchRefused, relayVars
    <2> QED
        BY <1>2, <2>1, OutboxShrinks
<1> QED
    BY <1>6, <1>8, <1>9, <1>10, <1>20 DEF IInv

\* The end of flushOutbox wakes its waiters.
LEMMA OutboxEmptyKeeps ==
    ASSUME IInv, OutboxEmpty
    PROVE  IInv'
<1> USE DEF OutboxEmpty, relayVars, cursorVars, receiveVars, sendVars, flushVars
<1>1. TypeOK'
    <2>1. sendSync' \in Sync
        BY DEF IInv, TypeOK, Sync, AfterRun
    <2>2. flusher' \in [Flusher -> {"idle", "waiting", "woken", "confirmed"}]
        BY DEF IInv, TypeOK
    <2> QED
        BY <2>1, <2>2 DEF IInv, TypeOK
<1>2. LoggedOnce' /\ KnownIsLogged' /\ RoutedWithoutGap'
    BY DEF IInv, LoggedOnce, KnownIsLogged, Logged, RoutedWithoutGap, Readable
<1>3. BatchesDistinct' /\ AnswerSound' /\ FetchSound'
    BY DEF IInv, BatchesDistinct, AnswerSound, FetchSound
<1>20. AskedIsKept' /\ FlushMeansLogged'
    <2>1. \A x, c : Logged(x, c)' <=> Logged(x, c)
        BY DEF Logged
    <2>2. AskedIsKept'
        BY <2>1 DEF IInv, AskedIsKept
    <2>3. FlushMeansLogged'
        BY <2>1 DEF IInv, FlushMeansLogged, TypeOK
    <2> QED
        BY <2>2, <2>3
<1> QED
    BY <1>1, <1>2, <1>3, <1>20 DEF IInv

-----------------------------------------------------------------------------
(* flushConfirmed.                                                         *)

\* A call of flushConfirmed asks for a run of the outbox.
LEMMA FlushCalledKeeps ==
    ASSUME IInv, NEW f \in Flusher, FlushCalled(f)
    PROVE  IInv'
<1> USE DEF FlushCalled, relayVars, cursorVars, receiveVars, sendVars, flushVars
<1>1. TypeOK'
    <2>1. sendSync' \in Sync
        BY DEF IInv, TypeOK, Sync, Invalidated
    <2>2. /\ flusher' \in [Flusher -> {"idle", "waiting", "woken", "confirmed"}]
          /\ owed' \in [Flusher -> Nat]
        BY LenProperties DEF IInv, TypeOK
    <2> QED
        BY <2>1, <2>2 DEF IInv, TypeOK
<1>2. LoggedOnce' /\ KnownIsLogged' /\ RoutedWithoutGap'
    BY DEF IInv, LoggedOnce, KnownIsLogged, Logged, RoutedWithoutGap, Readable
<1>3. BatchesDistinct' /\ AnswerSound' /\ FetchSound'
    BY DEF IInv, BatchesDistinct, AnswerSound, FetchSound
<1>20. AskedIsKept' /\ FlushMeansLogged'
    <2>1. \A x, c : Logged(x, c)' <=> Logged(x, c)
        BY DEF Logged
    <2>2. Len(asked) \in Nat /\ owed \in [Flusher -> Nat]
          /\ flusher \in [Flusher -> {"idle", "waiting", "woken", "confirmed"}]
        BY LenProperties DEF IInv, TypeOK
    <2>3. AskedIsKept'
        BY <2>1, <2>2 DEF IInv, AskedIsKept
    <2>4. FlushMeansLogged'
        BY <2>1, <2>2 DEF IInv, FlushMeansLogged
    <2> QED
        BY <2>3, <2>4
<1> QED
    BY <1>1, <1>2, <1>3, <1>20 DEF IInv

\* Its deadline ends the wait and nothing else.
LEMMA FlushTimesOutKeeps ==
    ASSUME IInv, NEW f \in Flusher, FlushTimesOut(f)
    PROVE  IInv'
<1> USE DEF FlushTimesOut, relayVars, cursorVars, receiveVars, sendVars, flushVars
<1>1. TypeOK'
    BY DEF IInv, TypeOK
<1>2. LoggedOnce' /\ KnownIsLogged' /\ RoutedWithoutGap'
    BY DEF IInv, LoggedOnce, KnownIsLogged, Logged, RoutedWithoutGap, Readable
<1>3. BatchesDistinct' /\ AnswerSound' /\ FetchSound'
    BY DEF IInv, BatchesDistinct, AnswerSound, FetchSound
<1>20. AskedIsKept' /\ FlushMeansLogged'
    <2>1. \A x, c : Logged(x, c)' <=> Logged(x, c)
        BY DEF Logged
    <2>2. AskedIsKept'
        BY <2>1 DEF IInv, AskedIsKept
    <2>3. FlushMeansLogged'
        BY <2>1 DEF IInv, FlushMeansLogged, TypeOK
    <2> QED
        BY <2>2, <2>3
<1> QED
    BY <1>1, <1>2, <1>3, <1>20 DEF IInv

\* Its return reports the conflicts when the outbox is empty.
LEMMA FlushReturnsKeeps ==
    ASSUME IInv, NEW f \in Flusher, FlushReturns(f)
    PROVE  IInv'
<1> USE DEF FlushReturns, relayVars, cursorVars, receiveVars, sendVars, flushVars
<1>1. TypeOK'
    <2>1. /\ flusher' \in [Flusher -> {"idle", "waiting", "woken", "confirmed"}]
          /\ conflicts' \subseteq OwnKey /\ reported' \subseteq OwnKey
        BY DEF IInv, TypeOK
    <2> QED
        BY <2>1 DEF IInv, TypeOK
<1>2. LoggedOnce' /\ KnownIsLogged' /\ RoutedWithoutGap'
    BY DEF IInv, LoggedOnce, KnownIsLogged, Logged, RoutedWithoutGap, Readable
<1>3. BatchesDistinct' /\ AnswerSound' /\ FetchSound'
    BY DEF IInv, BatchesDistinct, AnswerSound, FetchSound
<1>20. AskedIsKept' /\ FlushMeansLogged'
    <2>1. \A x, c : Logged(x, c)' <=> Logged(x, c)
        BY DEF Logged
    <2>2. /\ conflicts \cup reported \subseteq conflicts' \cup reported'
          /\ reported \subseteq reported'
        OBVIOUS
    <2>3. AskedIsKept'
        BY <2>1, <2>2 DEF IInv, AskedIsKept
    <2>4. ASSUME NEW g \in Flusher, flusher'[g] = "confirmed", NEW i \in 1..owed[g]
          PROVE  asked[i].key \in reported' \/ Logged(asked[i].key, asked[i].content)
        <3>1. CASE flusher[g] = "confirmed"
            BY <2>2, <3>1 DEF IInv, FlushMeansLogged
        <3>2. CASE g = f /\ flusher[g] # "confirmed"
            <4>1. pendingOutbox = <<>> /\ conflicts = {}
                BY <2>4, <3>2 DEF IInv, TypeOK
            <4>2. Elements(pendingOutbox) = {}
                BY <4>1 DEF Elements
            <4>3. i \in 1..Len(asked)
                <5>1. owed[g] \in Nat /\ owed[g] <= Len(asked) /\ Len(asked) \in Nat
                    BY LenProperties DEF IInv, TypeOK, AskedIsKept
                <5> QED
                    BY <5>1
            <4> QED
                BY <2>2, <4>1, <4>2, <4>3 DEF IInv, AskedIsKept
        <3> QED
            BY <2>4, <3>1, <3>2 DEF IInv, TypeOK
    <2>5. FlushMeansLogged'
        BY <2>1, <2>4 DEF FlushMeansLogged
    <2> QED
        BY <2>3, <2>5
<1> QED
    BY <1>1, <1>2, <1>3, <1>20 DEF IInv

-----------------------------------------------------------------------------
(* The theorems.                                                           *)

\* A relay without messages and no client satisfy the invariant.
LEMMA InitHolds == Init => IInv
<1> SUFFICES ASSUME Init PROVE IInv
    OBVIOUS
<1> USE DEF Init
<1>1. Len(log) = 0
    OBVIOUS
<1>2. TypeOK
    <2>1. /\ log \in Seq(Record) /\ pendingOutbox \in Seq(Own) /\ asked \in Seq(Own)
        BY EmptySeq
    <2>2. known \in [OwnKey -> Content \cup {Unknown}]
        OBVIOUS
    <2>3. /\ flusher \in [Flusher -> {"idle", "waiting", "woken", "confirmed"}]
          /\ owed \in [Flusher -> Nat]
        OBVIOUS
    <2>4. life \in 0..MaxLives /\ faults \in 0..MaxFaults
        BY ClientAssumption
    <2>5. /\ receiveSeq \in 0..Len(log) /\ lastSeq \in 0..Len(log)
          /\ unemitted \subseteq 1..Len(log) /\ routed \subseteq 1..Len(log)
        BY <1>1
    <2> QED
        BY <2>1, <2>2, <2>3, <2>4, <2>5 DEF TypeOK, Sync
<1>3. LoggedOnce /\ KnownIsLogged /\ RoutedWithoutGap
    BY <1>1 DEF LoggedOnce, KnownIsLogged, Logged, RoutedWithoutGap
<1>4. BatchesDistinct /\ AnswerSound /\ FetchSound
    BY DEF BatchesDistinct, DistinctKeys, AnswerSound, FetchSound
<1>5. AskedIsKept /\ FlushMeansLogged
    <2>1. Len(asked) = 0
        OBVIOUS
    <2> QED
        BY <2>1 DEF AskedIsKept, FlushMeansLogged
<1> QED
    BY <1>2, <1>3, <1>4, <1>5 DEF IInv

\* Every step of the client, the relay and the phone keeps it.
LEMMA NextKeeps == IInv /\ [Next]_vars => IInv'
<1> SUFFICES ASSUME IInv, [Next]_vars PROVE IInv'
    OBVIOUS
<1>1. CASE UNCHANGED vars
    <2> USE <1>1 DEF vars, relayVars, cursorVars, receiveVars, sendVars, flushVars
    <2>1. TypeOK'
        BY DEF IInv, TypeOK
    <2>2. LoggedOnce' /\ KnownIsLogged' /\ RoutedWithoutGap'
        BY DEF IInv, LoggedOnce, KnownIsLogged, Logged, RoutedWithoutGap, Readable
    <2>3. BatchesDistinct' /\ AnswerSound' /\ FetchSound'
        BY DEF IInv, BatchesDistinct, AnswerSound, FetchSound
    <2>4. post' = NoPost \/ (post # NoPost /\ post'.batch = post.batch)
        OBVIOUS
    <2>5. AskedIsKept' /\ FlushMeansLogged'
        BY <2>4, AskedAlone
    <2> QED
        BY <2>1, <2>2, <2>3, <2>5 DEF IInv
<1>2. CASE \E k \in PhoneKey : PhonePosts(k)
    BY <1>2, PhonePostsKeeps
<1>3. CASE \E n \in unemitted : PushLost(n)
    BY <1>3, PushLostKeeps
<1>4. CASE \E batch \in ghosts : GhostArrives(batch)
    BY <1>4, GhostArrivesKeeps
<1>5. CASE NewLife \/ Connect \/ Disconnect
    BY <1>5, NewLifeKeeps, ConnectKeeps, DisconnectKeeps
<1>6. CASE Receive
    BY <1>6, PushArrivesKeeps, StartFetchKeeps, ServePageKeeps, HandlePageKeeps,
       FetchFailsKeeps DEF Receive
<1>7. CASE Send
    <2>1. ASSUME NEW m \in Message, EnqueueMessage(m[1], m[2]) PROVE IInv'
        <3>1. m[1] \in OwnKey /\ m[2] \in Content
            BY ClientAssumption
        <3> QED
            BY <2>1, <3>1, EnqueueMessageKeeps
    <2> QED
        BY <1>7, <2>1, SendBatchKeeps, RelayHandlesBatchKeeps, PostFailsKeeps,
           BatchAcceptedKeeps, BatchRefusedKeeps, OutboxEmptyKeeps DEF Send
<1>8. CASE Flush
    BY <1>8, FlushCalledKeeps, FlushTimesOutKeeps, FlushReturnsKeeps DEF Flush
<1> QED
    BY <1>1, <1>2, <1>3, <1>4, <1>5, <1>6, <1>7, <1>8 DEF Next

\* The inductive invariant holds in every state of the session client and the
\* relay, for any messages, sizes, lives and faults.
THEOREM ClientInvariance == Spec => []IInv
<1>1. Init => IInv
    BY InitHolds
<1>2. IInv /\ [Next]_vars => IInv'
    BY NextKeeps
<1> QED
    BY <1>1, <1>2, PTL DEF Spec

\* Every variable keeps its type; the cursors stay within the log.
THEOREM ClientTypes == Spec => []TypeOK
<1>1. IInv => TypeOK
    BY DEF IInv
<1> QED
    BY <1>1, ClientInvariance, PTL

\* The log never holds two rows of one localId, whatever batches are retried,
\* repeated by a new client or late (the relay's transaction).
THEOREM OneRowPerKey == Spec => []LoggedOnce
<1>1. IInv => LoggedOnce
    BY DEF IInv
<1> QED
    BY <1>1, ClientInvariance, PTL

\* What the client holds for logged is logged, with the content it believes
\* (knownRelayMessageDigests).
THEOREM KnownStaysLogged == Spec => []KnownIsLogged
<1>1. IInv => KnownIsLogged
    BY DEF IInv
<1> QED
    BY <1>1, ClientInvariance, PTL

\* The receive cursor leaves no gap, whatever pushes are lost, late or overtaken
\* by fetches (update handler, fetchMessages).
THEOREM CursorLeavesNoGap == Spec => []RoutedWithoutGap
<1>1. IInv => RoutedWithoutGap
    BY DEF IInv
<1> QED
    BY <1>1, ClientInvariance, PTL

\* A confirmed flush has everything that was enqueued before it in the log, or
\* has reported its conflict (flushConfirmed).
THEOREM ConfirmedMeansLogged == Spec => []FlushMeansLogged
<1>1. IInv => FlushMeansLogged
    BY DEF IInv
<1> QED
    BY <1>1, ClientInvariance, PTL

-----------------------------------------------------------------------------
(* The order of the log.                                                   *)

\* Picking keeps the order.
LEMMA PickedInOrder ==
    ASSUME NEW S, NEW s \in Seq(S), NEW places \in SUBSET (1..Len(s)), InAskedOrder(s)
    PROVE  InAskedOrder(Picked(s, places))
<1> DEFINE t == Picked(s, places)
<1>1. PICK f \in [1..Len(t) -> places] :
          /\ \A j \in 1..Len(t) : t[j] = s[f[j]]
          /\ \A j, k \in 1..Len(t) : j < k => f[j] < f[k]
    BY PickedPlaces
<1> HIDE DEF t
<1>2. ASSUME NEW m \in 1..Len(t), NEW n \in 1..Len(t),
             NEW i \in 1..Len(asked), NEW j \in 1..Len(asked),
             m < n, t[m] = asked[i], t[n] = asked[j]
      PROVE  i < j
    <2>1. f[m] \in 1..Len(s) /\ f[n] \in 1..Len(s) /\ f[m] < f[n]
        BY <1>1, <1>2
    <2>2. s[f[m]] = asked[i] /\ s[f[n]] = asked[j]
        BY <1>1, <1>2
    <2> QED
        BY <2>1, <2>2 DEF InAskedOrder
<1> QED
    BY <1>2 DEF InAskedOrder, t

\* The outbox without some keys keeps its order and nothing else.
LEMMA WithoutInOrder ==
    ASSUME TypeOK, InAskedOrder(pendingOutbox), NEW keys
    PROVE  /\ InAskedOrder(Without(keys))
           /\ Elements(Without(keys)) = {x \in Elements(pendingOutbox) : x.key \notin keys}
<1> DEFINE places == {i \in 1..Len(pendingOutbox) : pendingOutbox[i].key \notin keys}
<1>1. places \in SUBSET (1..Len(pendingOutbox)) /\ pendingOutbox \in Seq(Own)
    BY DEF TypeOK
<1>2. {x \in Elements(pendingOutbox) : x.key \notin keys} = {pendingOutbox[i] : i \in places}
    BY DEF Elements
<1> HIDE DEF places
<1>3. InAskedOrder(Picked(pendingOutbox, places))
    BY <1>1, PickedInOrder
<1>4. Elements(Picked(pendingOutbox, places)) = {pendingOutbox[i] : i \in places}
    BY <1>1, PickedElements
<1>5. Without(keys) = Picked(pendingOutbox, places)
    BY DEF Without, places
<1> QED
    BY <1>2, <1>3, <1>4, <1>5

\* The rows a batch adds are its messages that are not logged, in its order.
LEMMA FreshInOrder ==
    ASSUME TypeOK, NEW batch \in Seq(Own), InAskedOrder(batch)
    PROVE  /\ Fresh(batch) \in Seq(Record)
           /\ InAskedOrder(Fresh(batch))
           /\ Elements(Fresh(batch)) = {m \in Elements(batch) : Unlogged(m)}
<1> DEFINE places == {i \in 1..Len(batch) : batch[i].key \notin Keys(log)}
<1>1. places \in SUBSET (1..Len(batch))
    OBVIOUS
<1>2. {m \in Elements(batch) : Unlogged(m)} = {batch[i] : i \in places}
    BY DEF Elements, Unlogged
<1> HIDE DEF places
<1>3. InAskedOrder(Picked(batch, places)) /\ Picked(batch, places) \in Seq(Own)
    BY <1>1, PickedInOrder, PickedPlaces
<1>4. Elements(Picked(batch, places)) = {batch[i] : i \in places}
    BY <1>1, PickedElements
<1>5. Fresh(batch) = Picked(batch, places)
    BY DEF Fresh, places
<1>6. Fresh(batch) \in Seq(Record)
    BY <1>3, <1>5, SeqMonotonic DEF Record
<1> QED
    BY <1>2, <1>3, <1>4, <1>5, <1>6

\* What OutboxInOrder says of the state after a step.
LEMMA InOrderAfterwards ==
    ASSUME \A m, n \in 1..Len(log'), i, j \in 1..Len(asked') :
               (m < n /\ log'[m] = asked'[i] /\ log'[n] = asked'[j]) => i < j
    PROVE  OutboxInOrder'
BY DEF OutboxInOrder, InAskedOrder

\* The relay's append keeps the order: what a batch adds was asked for after all
\* that is logged, and what stays in the outbox after what it adds.
LEMMA AppendInOrder ==
    ASSUME IInv, OrderInv, NEW batch \in Seq(Own), InAskedOrder(batch), SkipsNothing(batch),
           log' = log \o Fresh(batch), UNCHANGED <<asked, life, pendingOutbox>>
    PROVE  /\ Elements(log') = Elements(log) \cup Elements(Fresh(batch))
           /\ Keys(log) \subseteq Keys(log')
           /\ LoggedFirst' /\ OutboxInOrder'
<1> DEFINE rows == Fresh(batch)
<1>1. TypeOK /\ log \in Seq(Record) /\ asked \in Seq(Own) /\ Len(asked) \in Nat
    BY LenProperties DEF IInv, TypeOK
<1>2. /\ rows \in Seq(Record) /\ InAskedOrder(rows)
      /\ Elements(rows) = {m \in Elements(batch) : Unlogged(m)}
    BY <1>1, FreshInOrder
<1>13. log' = log \o rows
    OBVIOUS
<1> HIDE DEF rows
<1>3. /\ Len(log) \in Nat /\ Len(rows) \in Nat
      /\ Len(log') = Len(log) + Len(rows)
      /\ \A n \in 1..Len(log) : log'[n] = log[n]
      /\ \A n \in 1..Len(rows) : log'[Len(log) + n] = rows[n]
    BY <1>1, <1>2, <1>13, Appended
<1>4. \A n \in 1..Len(log') : \/ n \in 1..Len(log) /\ log'[n] = log[n]
                              \/ /\ n - Len(log) \in 1..Len(rows)
                                 /\ n = Len(log) + (n - Len(log))
                                 /\ log'[n] = rows[n - Len(log)]
    <2> SUFFICES ASSUME NEW n \in 1..Len(log')
                 PROVE  \/ n \in 1..Len(log) /\ log'[n] = log[n]
                        \/ /\ n - Len(log) \in 1..Len(rows)
                           /\ n = Len(log) + (n - Len(log))
                           /\ log'[n] = rows[n - Len(log)]
        OBVIOUS
    <2>1. CASE n <= Len(log)
        BY <1>3, <2>1
    <2>2. CASE n > Len(log)
        <3>1. n - Len(log) \in 1..Len(rows) /\ n = Len(log) + (n - Len(log))
            BY <1>3, <2>2
        <3>2. log'[Len(log) + (n - Len(log))] = rows[n - Len(log)]
            BY <1>3, <3>1
        <3> QED
            BY <3>1, <3>2
    <2> QED
        BY <1>3, <2>1, <2>2
<1>5. Elements(log') = Elements(log) \cup Elements(rows)
    <2>1. Elements(log') \subseteq Elements(log) \cup Elements(rows)
        BY <1>4 DEF Elements
    <2>2. ASSUME NEW n \in 1..Len(log) PROVE log[n] \in Elements(log')
        BY <1>3 DEF Elements
    <2>3. ASSUME NEW n \in 1..Len(rows) PROVE rows[n] \in Elements(log')
        <3>1. Len(log) + n \in 1..Len(log')
            BY <1>3
        <3> QED
            BY <1>3, <3>1 DEF Elements
    <2> QED
        BY <2>1, <2>2, <2>3 DEF Elements
<1>6. \A s : Keys(s) = {m.key : m \in Elements(s)}
    BY DEF Keys, Elements
<1>7. Keys(log) \subseteq Keys(log') /\ \A m \in Elements(rows) : m.key \in Keys(log')
    BY <1>5, <1>6
<1>8. \A i \in 1..Len(asked) : i \in Nat
    BY <1>1
<1>9. LoggedFirst'
    <2> SUFFICES ASSUME NEW i \in 1..Len(asked), NEW j \in 1..Len(asked),
                        asked[i] \in Elements(log'), asked[j] \in Elements(pendingOutbox),
                        asked[j].key \notin Keys(log')
                 PROVE  i < j
        BY DEF LoggedFirst, Unlogged
    <2>1. Unlogged(asked[j])
        BY <1>7 DEF Unlogged
    <2>2. CASE asked[i] \in Elements(log)
        BY <2>1, <2>2 DEF OrderInv, LoggedFirst
    <2>3. CASE asked[i] \in Elements(rows)
        <3>1. asked[i] \in Elements(batch) /\ Unlogged(asked[i])
            BY <1>2, <2>3
        <3>2. asked[j] \notin Elements(batch)
            BY <1>2, <1>7, <2>1
        <3>3. ~ (j < i)
            BY <2>1, <3>1, <3>2 DEF SkipsNothing
        <3>4. i # j
            BY <1>7, <2>3
        <3> QED
            BY <1>8, <3>3, <3>4
    <2> QED
        BY <1>5, <2>2, <2>3
<1>10. OutboxInOrder'
    <2>1. ASSUME NEW m \in 1..Len(log'), NEW n \in 1..Len(log'),
                 NEW i \in 1..Len(asked), NEW j \in 1..Len(asked),
                 m < n, log'[m] = asked[i], log'[n] = asked[j]
          PROVE  i < j
        <3>1. CASE m \in 1..Len(log) /\ n \in 1..Len(log)
            BY <1>3, <2>1, <3>1 DEF OrderInv, OutboxInOrder, InAskedOrder
        <3>2. CASE m \in 1..Len(log) /\ n \notin 1..Len(log)
            <4>1. asked[i] \in Elements(log)
                BY <2>1, <1>3, <3>2 DEF Elements
            <4>2. asked[j] \in Elements(rows)
                BY <2>1, <1>4, <3>2 DEF Elements
            <4>3. asked[j] \in Elements(batch) /\ Unlogged(asked[j])
                BY <1>2, <4>2
            <4>4. asked[j] \in Elements(pendingOutbox)
                BY <4>3 DEF SkipsNothing
            <4> QED
                BY <4>1, <4>3, <4>4 DEF OrderInv, LoggedFirst
        <3>3. CASE m \notin 1..Len(log)
            <4>1. n \notin 1..Len(log)
                BY <2>1, <1>3, <3>3
            <4> DEFINE x == m - Len(log)
                       y == n - Len(log)
            <4>2. /\ x \in 1..Len(rows) /\ y \in 1..Len(rows) /\ x < y
                  /\ rows[x] = asked[i] /\ rows[y] = asked[j]
                BY <2>1, <1>3, <1>4, <3>3, <4>1
            <4> QED
                BY <1>2, <4>2 DEF InAskedOrder
        <3> QED
            BY <3>1, <3>2, <3>3
    <2>2. asked' = asked
        OBVIOUS
    <2>3. \A m, n \in 1..Len(log'), i, j \in 1..Len(asked') :
              (m < n /\ log'[m] = asked'[i] /\ log'[n] = asked'[j]) => i < j
        BY <2>1, <2>2
    <2> QED
        BY <2>3, InOrderAfterwards, Zenon
<1> QED
    BY <1>5, <1>7, <1>9, <1>10 DEF rows

\* A growing log disturbs no batch, whoever sent it.
LEMMA BatchesUndisturbed ==
    ASSUME Keys(log) \subseteq Keys(log'), UNCHANGED <<asked, pendingOutbox>>
    PROVE  /\ \A b : InAskedOrder(b) => InAskedOrder(b)'
           /\ \A b : SkipsNothing(b) => SkipsNothing(b)'
<1>1. \A b : InAskedOrder(b) => InAskedOrder(b)'
    BY DEF InAskedOrder
<1>2. \A x : Unlogged(x)' => Unlogged(x)
    BY DEF Unlogged
<1>3. \A b : SkipsNothing(b) => SkipsNothing(b)'
    BY <1>2 DEF SkipsNothing
<1> QED
    BY <1>1, <1>3

\* Whoever touches no message keeps the order.
LEMMA OrderUntouched ==
    ASSUME OrderInv, UNCHANGED <<log, ghosts, post, pendingOutbox, asked, life>>
    PROVE  OrderInv'
<1>1. LivesSound'
    BY DEF OrderInv, LivesSound
<1>2. Keys(log') = Keys(log)
    OBVIOUS
<1>3. BatchesInOrder'
    BY <1>2, BatchesUndisturbed DEF OrderInv, BatchesInOrder
<1>4. LoggedFirst'
    BY DEF OrderInv, LoggedFirst, Unlogged
<1>5. OutboxInOrder'
    BY DEF OrderInv, OutboxInOrder, InAskedOrder
<1> QED
    BY <1>1, <1>3, <1>4, <1>5 DEF OrderInv

\* What leaves the outbox is logged: nothing is skipped (removePendingOutboxLocalIds).
LEMMA RemovalKeepsOrder ==
    ASSUME IInv, OrderInv, NEW keys, keys \subseteq Keys(log), pendingOutbox' = Without(keys),
           post' = NoPost, UNCHANGED <<log, ghosts, asked, life>>
    PROVE  OrderInv'
<1>1. /\ InAskedOrder(Without(keys))
      /\ Elements(pendingOutbox') = {x \in Elements(pendingOutbox) : x.key \notin keys}
    BY WithoutInOrder DEF IInv, OrderInv, BatchesInOrder
<1>2. \A x \in Elements(pendingOutbox) : Unlogged(x) => x \in Elements(pendingOutbox')
    BY <1>1 DEF Unlogged
<1>3. Elements(pendingOutbox') \subseteq Elements(pendingOutbox)
    BY <1>1
<1>4. LivesSound'
    BY DEF OrderInv, LivesSound
<1>5. \A b : InAskedOrder(b) => InAskedOrder(b)'
    BY DEF InAskedOrder
<1>6. \A b : SkipsNothing(b) => SkipsNothing(b)'
    <2>1. \A x : Unlogged(x)' <=> Unlogged(x)
        BY DEF Unlogged
    <2> QED
        BY <1>2, <1>3, <2>1 DEF SkipsNothing
<1>7. BatchesInOrder'
    <2>1. InAskedOrder(pendingOutbox)'
        BY <1>1 DEF InAskedOrder
    <2>2. Elements(pendingOutbox') \subseteq Elements(asked')
        BY <1>3 DEF OrderInv, BatchesInOrder
    <2> QED
        BY <1>5, <1>6, <2>1, <2>2 DEF OrderInv, BatchesInOrder
<1>8. LoggedFirst'
    BY <1>3 DEF OrderInv, LoggedFirst, Unlogged
<1>9. OutboxInOrder'
    BY DEF OrderInv, OutboxInOrder, InAskedOrder
<1> QED
    BY <1>4, <1>7, <1>8, <1>9 DEF OrderInv

\* A row of the phone is none of the client's messages.
LEMMA PhonePostsOrdered ==
    ASSUME IInv, OrderInv, NEW k \in PhoneKey, PhonePosts(k)
    PROVE  OrderInv'
<1> DEFINE row == [key |-> k, content |-> Unknown, life |-> 0]
<1>1. row \in Record /\ row.key = k /\ row.life = 0
    BY DEF Record, Phone
<1>2. log' = log \o <<row>>
    BY DEF PhonePosts, AppendRows
<1> HIDE DEF row
<1>3. /\ log \in Seq(Record) /\ <<row>> \in Seq(Record) /\ Len(<<row>>) = 1
      /\ <<row>>[1] = row /\ life \in Nat
    BY <1>1, ClientAssumption DEF IInv, TypeOK
<1>4. /\ Len(log) \in Nat /\ Len(log') = Len(log) + 1
      /\ \A n \in 1..Len(log) : log'[n] = log[n]
      /\ log'[Len(log) + 1] = row
    BY <1>2, <1>3, Appended
<1>5. UNCHANGED <<ghosts, post, pendingOutbox, asked, life>>
    BY DEF PhonePosts, sendVars
<1>6. \A n \in 1..Len(log') : n \in 1..Len(log) \/ n = Len(log) + 1
    BY <1>4
<1>7. Elements(log') = Elements(log) \cup {row}
    <2>1. Len(log) + 1 \in 1..Len(log') /\ \A n \in 1..Len(log) : n \in 1..Len(log')
        BY <1>4
    <2> QED
        BY <1>4, <1>6, <2>1 DEF Elements
<1>8. Keys(log) \subseteq Keys(log')
    <2>1. \A s : Keys(s) = {m.key : m \in Elements(s)}
        BY DEF Keys, Elements
    <2> QED
        BY <1>7, <2>1
<1>9. \A i \in 1..Len(asked) : asked[i] # row
    <2>1. asked \in Seq(Own)
        BY DEF IInv, TypeOK
    <2>2. \A i \in 1..Len(asked) : asked[i] \in Own
        BY <2>1, ElementOfSeq
    <2>3. row \notin Own
        BY <1>1, ClientAssumption DEF Own
    <2> QED
        BY <2>2, <2>3
<1>10. LivesSound'
    <2>1. row.life <= life /\ row.key \notin OwnKey
        BY <1>1, <1>3, ClientAssumption
    <2> QED
        BY <1>5, <1>7, <2>1 DEF OrderInv, LivesSound
<1>11. BatchesInOrder'
    BY <1>5, <1>8, BatchesUndisturbed DEF OrderInv, BatchesInOrder
<1>12. LoggedFirst'
    BY <1>5, <1>7, <1>8, <1>9 DEF OrderInv, LoggedFirst, Unlogged
<1>13. OutboxInOrder'
    BY <1>4, <1>5, <1>6, <1>9 DEF OrderInv, OutboxInOrder, InAskedOrder
<1> QED
    BY <1>10, <1>11, <1>12, <1>13 DEF OrderInv

\* A batch of a sender that gave up, or of an earlier life, comes in time.
LEMMA GhostArrivesOrdered ==
    ASSUME IInv, OrderInv, NEW batch \in ghosts, GhostArrives(batch)
    PROVE  OrderInv'
<1>1. /\ batch \in Seq(Own) /\ InAskedOrder(batch) /\ SkipsNothing(batch)
      /\ UNCHANGED <<post, pendingOutbox, asked, life>> /\ ghosts' \subseteq ghosts
    BY DEF IInv, TypeOK, OrderInv, BatchesInOrder, GhostArrives, sendVars
<1>2. CASE Taken(batch) = {}
    <2>1. log' = log \o Fresh(batch)
        BY <1>2 DEF GhostArrives, AppendRows
    <2>2. /\ Elements(log') = Elements(log) \cup Elements(Fresh(batch))
          /\ Keys(log) \subseteq Keys(log')
          /\ LoggedFirst' /\ OutboxInOrder'
        BY <1>1, <2>1, AppendInOrder
    <2>3. Elements(Fresh(batch)) \subseteq Elements(batch)
        BY <1>1, FreshInOrder DEF IInv
    <2>4. LivesSound'
        BY <1>1, <2>2, <2>3 DEF OrderInv, LivesSound
    <2>5. BatchesInOrder'
        BY <1>1, <2>2, BatchesUndisturbed DEF OrderInv, BatchesInOrder
    <2> QED
        BY <2>2, <2>4, <2>5 DEF OrderInv
<1>3. CASE Taken(batch) # {}
    <2>1. log' = log
        BY <1>3 DEF GhostArrives
    <2>2. LivesSound'
        BY <1>1, <2>1 DEF OrderInv, LivesSound
    <2>3. BatchesInOrder'
        BY <1>1, <2>1, BatchesUndisturbed DEF OrderInv, BatchesInOrder
    <2>4. LoggedFirst' /\ OutboxInOrder'
        BY <1>1, <2>1 DEF OrderInv, LoggedFirst, Unlogged, OutboxInOrder, InAskedOrder
    <2> QED
        BY <2>2, <2>3, <2>4 DEF OrderInv
<1> QED
    BY <1>2, <1>3

\* A new life has asked for nothing.
LEMMA NewLifeOrdered ==
    ASSUME IInv, OrderInv, NewLife
    PROVE  OrderInv'
<1> USE DEF NewLife
<1>1. asked' = <<>> /\ pendingOutbox' = <<>> /\ post' = NoPost /\ log' = log /\ life' = life + 1
    OBVIOUS
<1>2. Len(asked') = 0 /\ Elements(<<>>) = {}
    BY DEF Elements
<1>3. \A b : InAskedOrder(b)' /\ SkipsNothing(b)'
    BY <1>2 DEF InAskedOrder, SkipsNothing
<1>4. LivesSound'
    <2>0. life \in Nat /\ \A x \in Record : x.life \in Nat
        BY ClientAssumption DEF IInv, TypeOK, Record, Own, Phone
    <2>1. ASSUME NEW x \in Elements(log') \cup UNION {Elements(batch) : batch \in ghosts'}
          PROVE  x.life <= life /\ x.life \in Nat
        <3>1. CASE x \in Elements(log) \cup UNION {Elements(batch) : batch \in ghosts}
            <4>1. x.life <= life
                BY <3>1 DEF OrderInv, LivesSound
            <4>2. x \in Record
                <5>1. log \in Seq(Record) /\ \A b \in ghosts : b \in Seq(Own)
                    BY DEF IInv, TypeOK
                <5> QED
                    BY <3>1, <5>1, ElementOfSeq DEF Elements, Record
            <4> QED
                BY <2>0, <4>1, <4>2
        <3>2. CASE post # NoPost /\ x \in Elements(post.batch)
            <4>1. x \in Elements(asked)
                BY <3>2 DEF IInv, AskedIsKept, OrderInv, BatchesInOrder
            <4> QED
                BY <2>0, <4>1 DEF OrderInv, LivesSound, Elements
        <3> QED
            BY <2>1, <3>1, <3>2
    <2>2. \A x \in Elements(log') \cup UNION {Elements(batch) : batch \in ghosts'} :
              x.life <= life' /\ x.life # life'
        BY <1>1, <2>0, <2>1
    <2> HIDE DEF NewLife
    <2> QED
        BY <1>2, <2>2 DEF LivesSound
<1> HIDE DEF NewLife
<1>5. BatchesInOrder'
    BY <1>1, <1>2, <1>3 DEF BatchesInOrder
<1>6. LoggedFirst' /\ OutboxInOrder'
    BY <1>2, <1>3 DEF LoggedFirst, OutboxInOrder
<1> QED
    BY <1>4, <1>5, <1>6 DEF OrderInv

\* What is asked for now was asked for last; the log does not know it yet.
LEMMA EnqueueMessageOrdered ==
    ASSUME IInv, OrderInv, NEW k \in OwnKey, NEW c \in Content, EnqueueMessage(k, c)
    PROVE  OrderInv'
<1> DEFINE m == [key |-> k, content |-> c, life |-> life]
<1>1. /\ pendingOutbox \in Seq(Own) /\ asked \in Seq(Own)
      /\ Len(pendingOutbox) \in Nat /\ Len(asked) \in Nat /\ life \in Nat
    BY LenProperties DEF IInv, TypeOK
<1>2. /\ m.key = k /\ m.life = life /\ m \notin Elements(asked)
      /\ asked' = Append(asked, m)
      /\ pendingOutbox' = Append(pendingOutbox, m) \/ pendingOutbox' = pendingOutbox
      /\ UNCHANGED <<log, ghosts, post, life>>
    BY DEF EnqueueMessage, relayVars
<1>3. m \in Own
    BY ClientAssumption DEF EnqueueMessage, IInv, TypeOK, Own
<1> HIDE DEF m
<1>4. /\ Len(asked') = Len(asked) + 1
      /\ \A i \in 1..Len(asked) : asked'[i] = asked[i]
      /\ asked'[Len(asked) + 1] = m
    BY <1>1, <1>2, <1>3, AppendProperties
<1>5. \A i \in 1..Len(asked') : i \in 1..Len(asked) \/ i = Len(asked) + 1
    BY <1>1, <1>4
<1>6. \A i \in 1..Len(asked) : asked[i] # m /\ i < Len(asked) + 1
    BY <1>1, <1>2 DEF Elements
<1>7. Elements(asked) \subseteq Elements(asked')
    <2>1. \A i \in 1..Len(asked) : i \in 1..Len(asked')
        BY <1>1, <1>4
    <2> QED
        BY <1>4, <2>1 DEF Elements
<1>8. m \in Elements(asked')
    <2>1. Len(asked) + 1 \in 1..Len(asked')
        BY <1>1, <1>4
    <2> QED
        BY <1>4, <2>1 DEF Elements
<1>9. m \notin Elements(log) /\ \A b \in ghosts : m \notin Elements(b)
    BY <1>2 DEF OrderInv, LivesSound
<1>10. post # NoPost => m \notin Elements(post.batch)
    BY <1>2 DEF IInv, AskedIsKept, OrderInv, BatchesInOrder
<1>11. m \notin Elements(pendingOutbox)
    BY <1>2 DEF OrderInv, BatchesInOrder
<1>12. Elements(pendingOutbox') \subseteq Elements(pendingOutbox) \cup {m}
    <2>1. CASE pendingOutbox' = Append(pendingOutbox, m)
        <3>1. /\ Len(pendingOutbox') = Len(pendingOutbox) + 1
              /\ \A n \in 1..Len(pendingOutbox) : pendingOutbox'[n] = pendingOutbox[n]
              /\ pendingOutbox'[Len(pendingOutbox) + 1] = m
            BY <1>1, <1>3, <2>1, AppendProperties
        <3>2. \A n \in 1..Len(pendingOutbox') :
                  n \in 1..Len(pendingOutbox) \/ n = Len(pendingOutbox) + 1
            BY <1>1, <3>1
        <3> QED
            BY <3>1, <3>2 DEF Elements
    <2> QED
        BY <1>2, <2>1
<1>13. Elements(pendingOutbox) \subseteq Elements(pendingOutbox')
    <2>1. CASE pendingOutbox' = Append(pendingOutbox, m)
        <3>1. \A n \in 1..Len(pendingOutbox) :
                  n \in 1..Len(pendingOutbox') /\ pendingOutbox'[n] = pendingOutbox[n]
            BY <1>1, <1>3, <2>1, AppendProperties
        <3> QED
            BY <3>1 DEF Elements
    <2> QED
        BY <1>2, <2>1
<1>14. ASSUME NEW b, InAskedOrder(b), m \notin Elements(b) PROVE InAskedOrder(b)'
    <2> SUFFICES ASSUME NEW x \in 1..Len(b), NEW y \in 1..Len(b),
                        NEW i \in 1..Len(asked'), NEW j \in 1..Len(asked'),
                        x < y, b[x] = asked'[i], b[y] = asked'[j]
                 PROVE  i < j
        BY DEF InAskedOrder
    <2>1. b[x] # m /\ b[y] # m
        BY <1>14 DEF Elements
    <2>2. i \in 1..Len(asked) /\ j \in 1..Len(asked)
        BY <1>4, <1>5, <2>1
    <2> QED
        BY <1>4, <1>14, <2>2 DEF InAskedOrder
<1>15. ASSUME NEW b, SkipsNothing(b), m \notin Elements(b) PROVE SkipsNothing(b)'
    <2> SUFFICES ASSUME NEW i \in 1..Len(asked'), asked'[i] \in Elements(b),
                        asked'[i].key \notin Keys(log)
                 PROVE  /\ asked'[i] \in Elements(pendingOutbox')
                        /\ \A j \in 1..Len(asked') :
                              (/\ j < i /\ asked'[j] \in Elements(pendingOutbox')
                               /\ asked'[j].key \notin Keys(log))
                                  => asked'[j] \in Elements(b)
        BY <1>2 DEF SkipsNothing, Unlogged
    <2>1. i \in 1..Len(asked) /\ asked'[i] = asked[i]
        BY <1>4, <1>5, <1>15
    <2>2. asked[i] \in Elements(pendingOutbox')
        BY <1>13, <1>15, <2>1 DEF SkipsNothing, Unlogged
    <2>3. ASSUME NEW j \in 1..Len(asked'), j < i, asked'[j] \in Elements(pendingOutbox'),
                 asked'[j].key \notin Keys(log)
          PROVE  asked'[j] \in Elements(b)
        <3>1. j \in 1..Len(asked) /\ asked'[j] = asked[j]
            BY <1>1, <1>4, <1>5, <2>1, <2>3
        <3>2. asked[j] \in Elements(pendingOutbox)
            BY <1>6, <1>12, <2>3, <3>1
        <3> QED
            BY <1>15, <2>1, <2>3, <3>1, <3>2 DEF SkipsNothing, Unlogged
    <2> QED
        BY <2>1, <2>2, <2>3
<1>16. LivesSound'
    <2>1. \A i, j \in 1..Len(asked') : asked'[i] = asked'[j] => i = j
        BY <1>4, <1>5, <1>6 DEF OrderInv, LivesSound
    <2>2. \A i \in 1..Len(asked') : asked'[i].life = life
        BY <1>2, <1>4, <1>5 DEF OrderInv, LivesSound
    <2> QED
        BY <1>2, <1>7, <2>1, <2>2 DEF OrderInv, LivesSound
<1>17. InAskedOrder(pendingOutbox)'
    <2>1. CASE pendingOutbox' = Append(pendingOutbox, m)
        <3>1. /\ Len(pendingOutbox') = Len(pendingOutbox) + 1
              /\ \A n \in 1..Len(pendingOutbox) : pendingOutbox'[n] = pendingOutbox[n]
              /\ pendingOutbox'[Len(pendingOutbox) + 1] = m
            BY <1>1, <1>3, <2>1, AppendProperties
        <3>2. \A n \in 1..Len(pendingOutbox) : pendingOutbox[n] # m
            BY <1>11 DEF Elements
        <3> SUFFICES ASSUME NEW x \in 1..Len(pendingOutbox'), NEW y \in 1..Len(pendingOutbox'),
                            NEW i \in 1..Len(asked'), NEW j \in 1..Len(asked'),
                            x < y, pendingOutbox'[x] = asked'[i], pendingOutbox'[y] = asked'[j]
                     PROVE  i < j
            BY DEF InAskedOrder
        <3>3. x \in 1..Len(pendingOutbox)
            BY <1>1, <3>1
        <3>4. i \in 1..Len(asked)
            BY <1>4, <1>5, <3>1, <3>2, <3>3
        <3>5. CASE j = Len(asked) + 1
            BY <1>6, <3>4, <3>5
        <3>6. CASE j \in 1..Len(asked)
            <4>1. asked'[j] # m
                BY <1>4, <1>6, <3>6
            <4>2. y \in 1..Len(pendingOutbox)
                BY <1>1, <3>1, <4>1
            <4> QED
                BY <1>4, <3>1, <3>3, <3>4, <3>6, <4>2 DEF OrderInv, BatchesInOrder, InAskedOrder
        <3> QED
            BY <1>5, <3>5, <3>6
    <2>2. CASE pendingOutbox' = pendingOutbox
        <3>1. PICK b : b = pendingOutbox
            OBVIOUS
        <3>2. InAskedOrder(b) /\ m \notin Elements(b)
            BY <1>11, <3>1 DEF OrderInv, BatchesInOrder
        <3>3. InAskedOrder(b)'
            BY <1>14, <3>2
        <3>4. b = pendingOutbox'
            BY <2>2, <3>1
        <3> QED
            BY <3>3, <3>4 DEF InAskedOrder
    <2> QED
        BY <1>2, <2>1, <2>2
<1>18. BatchesInOrder'
    <2>1. Elements(pendingOutbox') \subseteq Elements(asked')
        BY <1>7, <1>8, <1>12 DEF OrderInv, BatchesInOrder
    <2>2. post # NoPost => InAskedOrder(post.batch)' /\ SkipsNothing(post.batch)'
        <3> SUFFICES ASSUME post # NoPost
                     PROVE  InAskedOrder(post.batch)' /\ SkipsNothing(post.batch)'
            OBVIOUS
        <3>1. PICK b : b = post.batch
            OBVIOUS
        <3>2. InAskedOrder(b) /\ SkipsNothing(b) /\ m \notin Elements(b)
            BY <1>10, <3>1 DEF OrderInv, BatchesInOrder
        <3>3. InAskedOrder(b)' /\ SkipsNothing(b)'
            BY <1>14, <1>15, <3>2
        <3>4. b = post'.batch
            BY <1>2, <3>1
        <3>5. InAskedOrder(post.batch)'
            BY <3>3, <3>4 DEF InAskedOrder
        <3>6. SkipsNothing(post.batch)'
            BY <3>3, <3>4 DEF SkipsNothing
        <3> QED
            BY <3>5, <3>6
    <2>3. \A b \in ghosts : InAskedOrder(b)' /\ SkipsNothing(b)'
        BY <1>9, <1>14, <1>15 DEF OrderInv, BatchesInOrder
    <2> QED
        BY <1>2, <1>17, <2>1, <2>2, <2>3 DEF OrderInv, BatchesInOrder
<1>19. LoggedFirst'
    <2> SUFFICES ASSUME NEW i \in 1..Len(asked'), NEW j \in 1..Len(asked'),
                        asked'[i] \in Elements(log), asked'[j] \in Elements(pendingOutbox'),
                        asked'[j].key \notin Keys(log)
                 PROVE  i < j
        BY <1>2 DEF LoggedFirst, Unlogged
    <2>1. i \in 1..Len(asked) /\ asked'[i] = asked[i]
        BY <1>4, <1>5, <1>9
    <2>2. CASE j = Len(asked) + 1
        BY <1>6, <2>1, <2>2
    <2>3. CASE j \in 1..Len(asked)
        <3>1. asked'[j] = asked[j] /\ asked[j] \in Elements(pendingOutbox)
            BY <1>4, <1>6, <1>12, <2>3
        <3> QED
            BY <2>1, <2>3, <3>1 DEF OrderInv, LoggedFirst, Unlogged
    <2> QED
        BY <1>5, <2>2, <2>3
<1>20. OutboxInOrder'
    <2>1. InAskedOrder(log) /\ log' = log
        BY <1>2 DEF OrderInv, OutboxInOrder
    <2>2. InAskedOrder(log)'
        <3>1. \A b : InAskedOrder(b) /\ m \notin Elements(b) => InAskedOrder(b)'
            BY <1>14
        <3> QED
            BY <1>9, <2>1, <3>1 DEF InAskedOrder
    <2> QED
        BY <2>2 DEF OutboxInOrder
<1> QED
    BY <1>16, <1>18, <1>19, <1>20 DEF OrderInv

\* A batch is the beginning of the outbox: what it leaves there is younger.
LEMMA SendBatchOrdered ==
    ASSUME IInv, OrderInv, SendBatch
    PROVE  OrderInv'
<1> DEFINE n == Smaller(BatchSize, Len(pendingOutbox))
<1>1. /\ pendingOutbox \in Seq(Own) /\ Len(pendingOutbox) \in Nat
      /\ asked \in Seq(Own) /\ Len(asked) \in Nat
    BY LenProperties DEF IInv, TypeOK
<1>2. n \in Nat /\ n <= Len(pendingOutbox)
    BY <1>1, ClientAssumption DEF Smaller
<1>3. OldestBatch = SubSeq(pendingOutbox, 1, n)
    BY DEF OldestBatch
<1> HIDE DEF n
<1>4. Len(OldestBatch) = n /\ \A i \in 1..n : OldestBatch[i] = pendingOutbox[i]
    BY <1>1, <1>2, <1>3
<1>5. /\ post'.batch = OldestBatch /\ post'.stage = "sent"
      /\ UNCHANGED <<log, ghosts, pendingOutbox, asked, life>>
    BY DEF SendBatch, relayVars
<1>6. InAskedOrder(pendingOutbox)
    BY DEF OrderInv, BatchesInOrder
<1>7. InAskedOrder(OldestBatch)
    BY <1>1, <1>2, <1>4, <1>6 DEF InAskedOrder
<1>8. SkipsNothing(OldestBatch)
    <2> SUFFICES ASSUME NEW i \in 1..Len(asked), asked[i] \in Elements(OldestBatch)
                 PROVE  /\ asked[i] \in Elements(pendingOutbox)
                        /\ \A j \in 1..Len(asked) :
                              j < i /\ asked[j] \in Elements(pendingOutbox)
                                  => asked[j] \in Elements(OldestBatch)
        BY DEF SkipsNothing
    <2>1. PICK x \in 1..n : asked[i] = pendingOutbox[x]
        BY <1>4 DEF Elements
    <2>2. x \in 1..Len(pendingOutbox)
        BY <1>1, <1>2
    <2>3. ASSUME NEW j \in 1..Len(asked), j < i, asked[j] \in Elements(pendingOutbox)
          PROVE  asked[j] \in Elements(OldestBatch)
        <3>1. PICK y \in 1..Len(pendingOutbox) : asked[j] = pendingOutbox[y]
            BY <2>3 DEF Elements
        <3>2. ~ (x < y)
            <4>1. x < y => i < j
                BY <1>6, <2>1, <2>2, <3>1 DEF InAskedOrder
            <4> QED
                BY <1>1, <2>3, <4>1
        <3>3. y \in 1..n
            BY <1>1, <1>2, <3>2
        <3> QED
            BY <1>4, <3>1, <3>3 DEF Elements
    <2> QED
        BY <2>1, <2>2, <2>3 DEF Elements
<1>9. LivesSound' /\ LoggedFirst' /\ OutboxInOrder'
    BY <1>5 DEF OrderInv, LivesSound, LoggedFirst, Unlogged, OutboxInOrder, InAskedOrder
<1>10. BatchesInOrder'
    <2>1. PICK b : b = OldestBatch
        OBVIOUS
    <2>2. InAskedOrder(b) /\ SkipsNothing(b) /\ post'.batch = b
        BY <1>5, <1>7, <1>8, <2>1
    <2>3. \A d : (InAskedOrder(d) => InAskedOrder(d)') /\ (SkipsNothing(d) => SkipsNothing(d)')
        BY <1>5, BatchesUndisturbed
    <2>4. InAskedOrder(post.batch)'
        BY <2>2, <2>3 DEF InAskedOrder
    <2>5. SkipsNothing(post.batch)'
        BY <2>2, <2>3 DEF SkipsNothing
    <2>6. InAskedOrder(pendingOutbox)'
        BY <1>5, <1>6 DEF InAskedOrder
    <2>7. \A d \in ghosts' : InAskedOrder(d)' /\ SkipsNothing(d)'
        BY <1>5, <2>3 DEF OrderInv, BatchesInOrder
    <2>8. Elements(pendingOutbox') \subseteq Elements(asked')
        BY <1>5 DEF OrderInv, BatchesInOrder
    <2> QED
        BY <1>5, <2>4, <2>5, <2>6, <2>7, <2>8 DEF BatchesInOrder
<1> QED
    BY <1>9, <1>10 DEF OrderInv

\* A batch the relay accepts keeps the order; a refusal names a row.
LEMMA RelayHandlesBatchOrdered ==
    ASSUME IInv, OrderInv, RelayHandlesBatch
    PROVE  OrderInv'
<1>1. /\ post # NoPost /\ post.batch \in Seq(Own)
      /\ post \in [batch: Seq(Own), stage: Stage, hint: OwnKey \cup {Unknown}]
      /\ InAskedOrder(post.batch) /\ SkipsNothing(post.batch)
      /\ UNCHANGED <<ghosts, pendingOutbox, asked, life>>
    BY DEF RelayHandlesBatch, IInv, TypeOK, OrderInv, BatchesInOrder
<1>2. ASSUME Keys(log) \subseteq Keys(log'), post'.batch = post.batch,
             post'.stage = "refused" => post'.hint \in Keys(log')
      PROVE  BatchesInOrder'
    <2>1. \A d : (InAskedOrder(d) => InAskedOrder(d)') /\ (SkipsNothing(d) => SkipsNothing(d)')
        BY <1>1, <1>2, BatchesUndisturbed
    <2>2. PICK b : b = post.batch
        OBVIOUS
    <2>3. InAskedOrder(b)' /\ SkipsNothing(b)' /\ post'.batch = b
        BY <1>1, <1>2, <2>1, <2>2
    <2>4. InAskedOrder(post.batch)'
        BY <2>3 DEF InAskedOrder
    <2>5. SkipsNothing(post.batch)'
        BY <2>3 DEF SkipsNothing
    <2>6. InAskedOrder(pendingOutbox)'
        BY <1>1 DEF OrderInv, BatchesInOrder, InAskedOrder
    <2>7. \A d \in ghosts' : InAskedOrder(d)' /\ SkipsNothing(d)'
        BY <1>1, <2>1 DEF OrderInv, BatchesInOrder
    <2>8. Elements(pendingOutbox') \subseteq Elements(asked')
        BY <1>1 DEF OrderInv, BatchesInOrder
    <2> QED
        BY <1>2, <2>4, <2>5, <2>6, <2>7, <2>8 DEF BatchesInOrder
<1>3. CASE /\ AppendRows(Fresh(post.batch))
           /\ post' = [post EXCEPT !.stage = "accepted"]
    <2>1. log' = log \o Fresh(post.batch)
        BY <1>3 DEF AppendRows
    <2>2. /\ Elements(log') = Elements(log) \cup Elements(Fresh(post.batch))
          /\ Keys(log) \subseteq Keys(log')
          /\ LoggedFirst' /\ OutboxInOrder'
        BY <1>1, <2>1, AppendInOrder
    <2>3. Elements(Fresh(post.batch)) \subseteq Elements(post.batch)
        BY <1>1, FreshInOrder DEF IInv
    <2>4. Elements(post.batch) \subseteq Elements(asked)
        BY <1>1 DEF IInv, AskedIsKept, OrderInv, BatchesInOrder
    <2>5. \A x \in Elements(asked) : x.life = life /\ x.life <= life
        <3>1. life \in Nat
            BY ClientAssumption DEF IInv, TypeOK
        <3> QED
            BY <3>1 DEF OrderInv, LivesSound, Elements
    <2>6. LivesSound'
        BY <1>1, <2>2, <2>3, <2>4, <2>5 DEF OrderInv, LivesSound
    <2>7. post'.batch = post.batch /\ post'.stage = "accepted"
        BY <1>1, <1>3
    <2>8. BatchesInOrder'
        BY <1>2, <2>2, <2>7
    <2> QED
        BY <2>2, <2>6, <2>8 DEF OrderInv
<1>4. ASSUME NEW k \in Taken(post.batch),
             post' = [post EXCEPT !.stage = "refused", !.hint = k], log' = log
      PROVE  OrderInv'
    <2>1. k \in Keys(log) /\ post'.batch = post.batch /\ post'.hint = k
        BY <1>1, <1>4 DEF Taken
    <2>2. BatchesInOrder'
        BY <1>2, <1>4, <2>1
    <2>3. LivesSound' /\ LoggedFirst' /\ OutboxInOrder'
        BY <1>1, <1>4 DEF OrderInv, LivesSound, LoggedFirst, Unlogged, OutboxInOrder, InAskedOrder
    <2> QED
        BY <2>2, <2>3 DEF OrderInv
<1> QED
    BY <1>3, <1>4 DEF RelayHandlesBatch

\* A batch that may still arrive is as good as one under way.
LEMMA PostFailsOrdered ==
    ASSUME IInv, OrderInv, PostFails
    PROVE  OrderInv'
<1>1. /\ post # NoPost /\ post' = NoPost /\ ghosts' \subseteq ghosts \cup {post.batch}
      /\ UNCHANGED <<log, pendingOutbox, asked, life>>
    BY DEF PostFails
<1>2. Elements(post.batch) \subseteq Elements(asked)
    BY <1>1 DEF IInv, AskedIsKept, OrderInv, BatchesInOrder
<1>3. \A x \in Elements(asked) : x.life = life /\ x.life <= life
    <2>1. life \in Nat
        BY ClientAssumption DEF IInv, TypeOK
    <2> QED
        BY <2>1 DEF OrderInv, LivesSound, Elements
<1>4. LivesSound'
    BY <1>1, <1>2, <1>3 DEF OrderInv, LivesSound
<1>5. BatchesInOrder'
    <2>1. \A d : (InAskedOrder(d) => InAskedOrder(d)') /\ (SkipsNothing(d) => SkipsNothing(d)')
        BY <1>1, BatchesUndisturbed
    <2>2. InAskedOrder(pendingOutbox)'
        BY <1>1 DEF OrderInv, BatchesInOrder, InAskedOrder
    <2>3. \A d \in ghosts' : InAskedOrder(d)' /\ SkipsNothing(d)'
        BY <1>1, <2>1 DEF OrderInv, BatchesInOrder
    <2> QED
        BY <1>1, <2>2, <2>3 DEF OrderInv, BatchesInOrder
<1>6. LoggedFirst' /\ OutboxInOrder'
    BY <1>1 DEF OrderInv, LoggedFirst, Unlogged, OutboxInOrder, InAskedOrder
<1> QED
    BY <1>4, <1>5, <1>6 DEF OrderInv

\* An accepted batch is in the log, so it may leave the outbox.
LEMMA BatchAcceptedOrdered ==
    ASSUME IInv, OrderInv, BatchAccepted
    PROVE  OrderInv'
<1>1. Keys(post.batch) \subseteq Keys(log)
    <2>1. Elements(post.batch) \subseteq Elements(log)
        BY DEF IInv, AnswerSound, BatchAccepted
    <2> QED
        BY <2>1 DEF Keys, Elements
<1>2. /\ pendingOutbox' = Without(Keys(post.batch)) /\ post' = NoPost
      /\ UNCHANGED <<log, ghosts, asked, life>>
    BY DEF BatchAccepted, relayVars
<1> QED
    BY <1>1, <1>2, RemovalKeepsOrder

\* What a refusal takes from the outbox is logged, by this life or another.
LEMMA BatchRefusedOrdered ==
    ASSUME IInv, OrderInv, BatchRefused
    PROVE  OrderInv'
<1>1. Len(log) \in Nat /\ post.batch \in Seq(Own) /\ post.hint \in Keys(log)
    BY LenProperties DEF IInv, TypeOK, OrderInv, BatchesInOrder, BatchRefused
<1>2. post' = NoPost /\ UNCHANGED <<log, ghosts, asked, life>>
    BY DEF BatchRefused, relayVars
<1>3. CASE Reconcile
    <2> DEFINE seqs == InventoryReach \ {0}
               logged == {m \in Elements(post.batch) : Remembered(seqs)[m.key] # Unknown}
    <2>1. seqs \subseteq 1..Len(log)
        BY <1>1 DEF InventoryReach
    <2>2. pendingOutbox' = Without({m.key : m \in logged})
        BY <1>3 DEF Reconcile
    <2>3. ASSUME NEW m \in logged PROVE m.key \in Keys(log)
        <3>1. m \in Own
            BY <1>1, ElementOfSeq DEF Elements
        <3>2. m.key \in OwnKey /\ Remembered(seqs)[m.key] # Unknown
            BY <3>1 DEF Own
        <3> HIDE DEF seqs
        <3>3. \E n \in 1..Len(log) : log[n].key = m.key
            BY <2>1, <3>2, RememberedSound
        <3> QED
            BY <3>3 DEF Keys
    <2>4. {m.key : m \in logged} \subseteq Keys(log)
        BY <2>3
    <2> HIDE DEF seqs, logged
    <2> QED
        BY <1>2, <2>2, <2>4, RemovalKeepsOrder
<1>4. ASSUME NEW n \in InventoryReach, Quarantine(n) PROVE OrderInv'
    <2>1. pendingOutbox' = Without({post.hint}) /\ {post.hint} \subseteq Keys(log)
        BY <1>1, <1>4 DEF Quarantine
    <2> QED
        BY <1>2, <2>1, RemovalKeepsOrder
<1> QED
    BY <1>3, <1>4 DEF BatchRefused

\* Every step of the client, the relay and the phone keeps the order.
LEMMA NextOrdered == IInv /\ OrderInv /\ [Next]_vars => OrderInv'
<1> SUFFICES ASSUME IInv, OrderInv, [Next]_vars PROVE OrderInv'
    OBVIOUS
<1>1. CASE UNCHANGED <<log, ghosts, post, pendingOutbox, asked, life>>
    BY <1>1, OrderUntouched
<1>2. CASE UNCHANGED vars
    BY <1>1, <1>2 DEF vars, relayVars, sendVars
<1>3. CASE \E k \in PhoneKey : PhonePosts(k)
    BY <1>3, PhonePostsOrdered
<1>4. CASE \E n \in unemitted : PushLost(n)
    BY <1>1, <1>4 DEF PushLost, sendVars
<1>5. CASE \E batch \in ghosts : GhostArrives(batch)
    BY <1>5, GhostArrivesOrdered
<1>6. CASE NewLife
    BY <1>6, NewLifeOrdered
<1>7. CASE Connect \/ Disconnect
    BY <1>1, <1>7 DEF Connect, Disconnect, relayVars, sendVars
<1>8. CASE Receive
    BY <1>1, <1>8 DEF Receive, PushArrives, StartFetch, ServePage, HandlePage, FetchFails,
                      relayVars, sendVars
<1>9. CASE Send
    <2>1. ASSUME NEW m \in Message, EnqueueMessage(m[1], m[2]) PROVE OrderInv'
        <3>1. m[1] \in OwnKey /\ m[2] \in Content
            BY ClientAssumption
        <3> QED
            BY <2>1, <3>1, EnqueueMessageOrdered
    <2>2. CASE OutboxEmpty
        BY <1>1, <2>2 DEF OutboxEmpty, relayVars
    <2> QED
        BY <1>9, <2>1, <2>2, SendBatchOrdered, RelayHandlesBatchOrdered, PostFailsOrdered,
           BatchAcceptedOrdered, BatchRefusedOrdered DEF Send
<1>10. CASE Flush
    BY <1>1, <1>10 DEF Flush, FlushCalled, FlushTimesOut, FlushReturns, relayVars, sendVars
<1> QED
    BY <1>2, <1>3, <1>4, <1>5, <1>6, <1>7, <1>8, <1>9, <1>10 DEF Next

\* An empty log is in order.
LEMMA InitOrdered == Init => OrderInv
<1> SUFFICES ASSUME Init PROVE OrderInv
    OBVIOUS
<1>1. /\ log = <<>> /\ asked = <<>> /\ pendingOutbox = <<>> /\ ghosts = {} /\ post = NoPost
      /\ Len(<<>>) = 0 /\ Elements(<<>>) = {}
    BY DEF Init, Elements
<1> QED
    BY <1>1 DEF OrderInv, LivesSound, BatchesInOrder, LoggedFirst, OutboxInOrder,
                InAskedOrder, SkipsNothing

\* The relay's log has the messages of one life in the order in which they were
\* enqueued, whatever is retried, refused, given up or late (flushOutbox).
THEOREM LogKeepsOrder == Spec => []OutboxInOrder
<1>1. Init => OrderInv
    BY InitOrdered
<1>2. IInv /\ OrderInv /\ [Next]_vars => OrderInv'
    BY NextOrdered
<1>3. OrderInv => OutboxInOrder
    BY DEF OrderInv
<1> QED
    BY <1>1, <1>2, <1>3, ClientInvariance, PTL DEF Spec

=============================================================================
