--------------------------- MODULE CollectionProofs ---------------------------
(***************************************************************************)
(* Theorems about Collection.  The inductive invariant relates four        *)
(* records of the same facts: the collection's map and tombstones, the     *)
(* index's nodes and flags, the counters, and the snapshot.                *)
(***************************************************************************)
EXTENDS Collection, DataLemmas

\* The collection and its index.  A node that is not marked holds a live
\* vector; tombstones are marked; new identifiers are above all others.
Agreement ==
    /\ \A i \in Domain(vectors) : i < nextID
    /\ Domain(vectors) \subseteq Domain(nodes)
    /\ dead \subseteq Domain(nodes)
    /\ deletedIDs \subseteq Domain(vectors) \cap dead
    /\ \A i \in Searchable : vectors[i] = nodes[i]
    /\ Clean => Domain(vectors) \cap dead \subseteq deletedIDs

\* The counters, each by itself.
Counted ==
    /\ size = Cardinality(Searchable)
    /\ deletedCount = Cardinality(deletedIDs)
    /\ Clean => vectorCount = Cardinality(Domain(vectors))

\* What Restore needs of a snapshot to establish the two again.
SnapshotOK ==
    snap # NoSnapshot =>
        /\ Domain(snap.vectors) \subseteq Domain(snap.nodes)
        /\ snap.dead \subseteq Domain(snap.nodes)
        /\ \A i \in Domain(snap.nodes) \ snap.dead : snap.vectors[i] = snap.nodes[i]
        /\ Clean => Domain(snap.vectors) \cap snap.dead = {}
        /\ snap.size = Cardinality(Domain(snap.nodes) \ snap.dead)

\* An insertion on its way to the log has consecutive identifiers.
PendingOK ==
    \A k \in DOMAIN unlogged : unlogged[k].op = "insert" =>
        LET c == unlogged[k] IN
        /\ c.batch # <<>>
        /\ c.ids = [j \in DOMAIN c.batch |-> c.ids[1] + j - 1]

IInv == TypeOK /\ Agreement /\ Counted /\ SnapshotOK /\ PendingOK

-----------------------------------------------------------------------------
(* Finite sets of identifiers.                                             *)

LEMMA IdFinite ==
    ASSUME NEW S \in SUBSET Id
    PROVE  IsFiniteSet(S) /\ Cardinality(S) \in Nat
<1>1. IsFiniteSet(Id)
  BY MaxIdAssumption, FS_Interval DEF Id
<1>2. IsFiniteSet(S)
  BY <1>1, FS_Subset
<1> QED
  BY <1>2, FS_CardinalityType

\* Adding new identifiers adds their number.
LEMMA IdAdd ==
    ASSUME NEW S \in SUBSET Id, NEW T \in SUBSET Id, S \cap T = {}
    PROVE  Cardinality(S \cup T) = Cardinality(S) + Cardinality(T)
<1>1. IsFiniteSet(S) /\ IsFiniteSet(T) /\ Cardinality(S) \in Nat /\ Cardinality(T) \in Nat
  BY IdFinite
<1>2. Cardinality(S \cap T) = 0
  BY FS_EmptySet
<1>3. Cardinality(S \cup T) = Cardinality(S) + Cardinality(T) - Cardinality(S \cap T)
  BY <1>1, FS_Union
<1> QED
  BY <1>1, <1>2, <1>3

\* Taking identifiers away takes away their number.
LEMMA IdRemove ==
    ASSUME NEW S \in SUBSET Id, NEW T \in SUBSET S
    PROVE  Cardinality(S \ T) = Cardinality(S) - Cardinality(T)
<1>1. IsFiniteSet(S) /\ S \cap T = T
  BY IdFinite
<1> QED
  BY <1>1, FS_Difference

-----------------------------------------------------------------------------
(* What Insert and Delete preserve.                                        *)

\* The first k vectors of a batch enter a map under the next k identifiers.
LEMMA WithLemma ==
    ASSUME NEW m \in Map, NEW batch \in Seq(Vector), NEW k \in 0 .. Len(batch),
           nextID \in 1 .. (MaxId + 1), nextID + k - 1 <= MaxId
    PROVE  /\ With(m, batch, k) \in Map
           /\ Domain(With(m, batch, k)) = Domain(m) \cup NewIds(k)
           /\ NewIds(k) \subseteq Id
           /\ Cardinality(NewIds(k)) = k
           /\ \A i \in Id \ NewIds(k) : With(m, batch, k)[i] = m[i]
           /\ \A i \in NewIds(k) : With(m, batch, k)[i] = batch[i - nextID + 1]
<1>1. NewIds(k) \subseteq Id
  BY MaxIdAssumption DEF NewIds, Id
<1>2. \A i \in NewIds(k) : i - nextID + 1 \in DOMAIN batch
  BY MaxIdAssumption DEF NewIds
<1>3. \A i \in NewIds(k) : batch[i - nextID + 1] \in Vector
  BY <1>2
<1>4. With(m, batch, k) \in Map
  BY <1>3 DEF With, Map
<1>5. \A i \in NewIds(k) : With(m, batch, k)[i] = batch[i - nextID + 1]
  BY <1>1 DEF With
<1>6. \A i \in Id \ NewIds(k) : With(m, batch, k)[i] = m[i]
  BY DEF With
<1>7. Domain(With(m, batch, k)) = Domain(m) \cup NewIds(k)
  BY <1>1, <1>3, <1>5, <1>6, AbsentAssumption DEF Domain
<1>8. Cardinality(NewIds(k)) = k
  BY MaxIdAssumption, FS_Interval DEF NewIds
<1> QED
  BY <1>1, <1>4, <1>5, <1>6, <1>7, <1>8

MemoryType ==
    /\ vectors \in Map /\ nodes \in Map
    /\ deletedIDs \subseteq Id /\ dead \subseteq Id
    /\ nextID \in 1 .. (MaxId + 1)
    /\ vectorCount \in Nat /\ deletedCount \in Nat /\ size \in Nat

\* An insertion that succeeds.
LEMMA InsertKeeps ==
    ASSUME MemoryType, Agreement, Counted, NEW batch \in Seq(Vector),
           ApplyInsert(batch), causes' = causes
    PROVE  MemoryType' /\ Agreement' /\ Counted'
<1> DEFINE new == NewIds(Len(batch))
<1>1. /\ With(vectors, batch, Len(batch)) \in Map
      /\ Domain(With(vectors, batch, Len(batch))) = Domain(vectors) \cup new
      /\ new \subseteq Id /\ Cardinality(new) = Len(batch)
      /\ \A i \in Id \ new : With(vectors, batch, Len(batch))[i] = vectors[i]
      /\ \A i \in new : With(vectors, batch, Len(batch))[i] = batch[i - nextID + 1]
  BY WithLemma DEF MemoryType, ApplyInsert, Room
<1>2. /\ With(nodes, batch, Len(batch)) \in Map
      /\ Domain(With(nodes, batch, Len(batch))) = Domain(nodes) \cup new
      /\ \A i \in Id \ new : With(nodes, batch, Len(batch))[i] = nodes[i]
      /\ \A i \in new : With(nodes, batch, Len(batch))[i] = batch[i - nextID + 1]
  BY WithLemma DEF MemoryType, ApplyInsert, Room
<1>3. /\ vectors' = With(vectors, batch, Len(batch))
      /\ nodes' = With(nodes, batch, Len(batch))
      /\ nextID' = nextID + Len(batch) /\ size' = size + Len(batch)
      /\ vectorCount' = vectorCount + Len(batch)
      /\ deletedIDs' = deletedIDs /\ deletedCount' = deletedCount /\ dead' = dead
  BY DEF ApplyInsert, Store
<1>4. new \cap Domain(nodes) = {}
  <2> SUFFICES ASSUME NEW i \in new PROVE nodes[i] = Absent
    BY DEF Domain
  <2>1. i - nextID + 1 \in DOMAIN batch /\ nextID + (i - nextID + 1) - 1 = i
    BY DEF NewIds, MemoryType
  <2> QED
    BY <2>1 DEF ApplyInsert, Taken
<1>5. /\ Domain(vectors)' = Domain(vectors) \cup new
      /\ Domain(nodes)' = Domain(nodes) \cup new
      /\ Searchable' = Searchable \cup new
  BY <1>1, <1>2, <1>3, <1>4 DEF Searchable, Domain, Agreement
<1>6. MemoryType'
  BY <1>1, <1>2, <1>3, MaxIdAssumption DEF MemoryType, ApplyInsert, Room
<1>7. Agreement'
  <2>1. (\A i \in Domain(vectors) : i < nextID)'
    BY <1>3, <1>5 DEF Agreement, NewIds, MemoryType, Domain, Id
  <2>2. \A i \in Searchable' : vectors'[i] = nodes'[i]
    BY <1>1, <1>2, <1>3, <1>5 DEF Agreement, Searchable, Domain
  <2> QED
    BY <2>1, <2>2, <1>3, <1>4, <1>5 DEF Agreement, Clean
<1>8. Counted'
  <2>1. Cardinality(Searchable \cup new) = Cardinality(Searchable) + Len(batch)
    BY <1>1, <1>4, IdAdd DEF Searchable, Domain
  <2>2. Cardinality(Domain(vectors) \cup new) = Cardinality(Domain(vectors)) + Len(batch)
    BY <1>1, <1>4, IdAdd DEF Agreement, Domain
  <2> QED
    BY <1>3, <1>5, <2>1, <2>2 DEF Counted, Clean
<1> QED
  BY <1>6, <1>7, <1>8

\* An insertion that the index refuses: the collection keeps the vector whose
\* identifier was taken, and the node that has it is marked.
LEMMA RefusedInsertKeeps ==
    ASSUME MemoryType, Agreement, Counted, NEW batch \in Seq(Vector),
           ApplyInsertFails(batch)
    PROVE  MemoryType' /\ Agreement' /\ Counted'
<1>1. PICK k \in Taken(batch) : /\ \A j \in Taken(batch) : k <= j
                               /\ Store(batch, k, k - 1)
  BY DEF ApplyInsertFails
<1>2. /\ k \in 1 .. Len(batch) /\ k \in 0 .. Len(batch) /\ k - 1 \in 0 .. Len(batch)
      /\ nextID + k - 1 <= MaxId /\ nextID + (k - 1) - 1 <= MaxId
      /\ nextID + k - 1 \in Id /\ nextID \in Nat \ {0}
  BY MaxIdAssumption DEF Taken, ApplyInsertFails, Room, MemoryType, Id
<1> DEFINE all == NewIds(k)
           new == NewIds(k - 1)
           bad == nextID + k - 1
<1>3. /\ With(vectors, batch, k) \in Map
      /\ Domain(With(vectors, batch, k)) = Domain(vectors) \cup all
      /\ all \subseteq Id
      /\ \A i \in Id \ all : With(vectors, batch, k)[i] = vectors[i]
      /\ \A i \in all : With(vectors, batch, k)[i] = batch[i - nextID + 1]
  BY <1>2, WithLemma DEF MemoryType
<1>4. /\ With(nodes, batch, k - 1) \in Map
      /\ Domain(With(nodes, batch, k - 1)) = Domain(nodes) \cup new
      /\ new \subseteq Id /\ Cardinality(new) = k - 1
      /\ \A i \in Id \ new : With(nodes, batch, k - 1)[i] = nodes[i]
      /\ \A i \in new : With(nodes, batch, k - 1)[i] = batch[i - nextID + 1]
  BY <1>2, WithLemma DEF MemoryType
<1>5. /\ vectors' = With(vectors, batch, k) /\ nodes' = With(nodes, batch, k - 1)
      /\ nextID' = nextID + k /\ size' = size + (k - 1) /\ vectorCount' = vectorCount
      /\ deletedIDs' = deletedIDs /\ deletedCount' = deletedCount /\ dead' = dead
      /\ causes' = causes \cup {"conflict"}
  BY <1>1 DEF ApplyInsertFails, Store
<1>6. all = new \cup {bad} /\ bad \notin new
  BY <1>2 DEF NewIds
<1>7. new \cap Domain(nodes) = {}
  <2> SUFFICES ASSUME NEW i \in new PROVE nodes[i] = Absent
    BY DEF Domain
  <2>1. /\ i - nextID + 1 \in DOMAIN batch /\ nextID + (i - nextID + 1) - 1 = i
        /\ i - nextID + 1 < k
    BY <1>2 DEF NewIds
  <2>2. i - nextID + 1 \notin Taken(batch)
    BY <1>1, <1>2, <2>1 DEF NewIds
  <2> QED
    BY <2>1, <2>2 DEF Taken
<1>8. bad \in Domain(nodes) /\ bad \in dead
  <2>1. bad \in Domain(nodes)
    BY <1>1, <1>2 DEF Taken, Domain
  <2>2. bad \notin Domain(vectors)
    BY <1>2 DEF Agreement
  <2>3. vectors[bad] = Absent
    BY <1>2, <2>2 DEF Domain
  <2>4. bad \notin Searchable
    BY <2>1, <2>3 DEF Agreement, Searchable, Domain
  <2> QED
    BY <2>1, <2>4 DEF Searchable
<1>9. /\ Domain(vectors)' = Domain(vectors) \cup new \cup {bad}
      /\ Domain(nodes)' = Domain(nodes) \cup new
      /\ Searchable' = Searchable \cup new
  BY <1>3, <1>4, <1>5, <1>6, <1>7 DEF Searchable, Domain, Agreement
<1>10. MemoryType'
  BY <1>2, <1>3, <1>4, <1>5, MaxIdAssumption DEF MemoryType
<1>11. Agreement'
  <2>1. (\A i \in Domain(vectors) : i < nextID)'
    BY <1>2, <1>3, <1>5, <1>6, <1>9 DEF Agreement, NewIds, Domain, Id
  <2>2. \A i \in Searchable' : vectors'[i] = nodes'[i]
    BY <1>3, <1>4, <1>5, <1>6, <1>8, <1>9 DEF Agreement, Searchable, Domain
  <2> QED
    BY <2>1, <2>2, <1>5, <1>7, <1>8, <1>9 DEF Agreement, Clean
<1>12. Counted'
  <2>1. Cardinality(Searchable \cup new) = Cardinality(Searchable) + (k - 1)
    BY <1>4, <1>7, IdAdd DEF Searchable, Domain
  <2> QED
    BY <1>5, <1>9, <2>1 DEF Counted, Clean
<1> QED
  BY <1>10, <1>11, <1>12

\* A deletion, of identifiers that may not exist or be deleted already.
LEMMA DeleteKeeps ==
    ASSUME MemoryType, Agreement, Counted, NEW ids \in SUBSET Id,
           ApplyDelete(ids), causes' = causes
    PROVE  MemoryType' /\ Agreement' /\ Counted'
<1> DEFINE new == ids \cap Live
<1>1. /\ deletedIDs' = deletedIDs \cup new /\ deletedCount' = deletedCount + Cardinality(new)
      /\ dead' = dead \cup new /\ size' = size - Cardinality(new \ dead)
      /\ UNCHANGED <<vectors, nodes, nextID, vectorCount>>
  BY DEF ApplyDelete
<1>2. new \subseteq Domain(vectors) /\ new \cap deletedIDs = {} /\ new \subseteq Id
  BY DEF Live
<1>3. Domain(vectors)' = Domain(vectors) /\ Domain(nodes)' = Domain(nodes)
  BY <1>1 DEF Domain
<1>4. /\ new \ dead \subseteq Searchable
      /\ Searchable' = Searchable \ (new \ dead)
  BY <1>1, <1>2, <1>3 DEF Searchable, Agreement
<1>5. Agreement'
  BY <1>1, <1>2, <1>3, <1>4 DEF Agreement, Clean
<1>6. /\ deletedCount' = Cardinality(deletedIDs')
      /\ Cardinality(new) \in Nat
  BY <1>1, <1>2, IdAdd, IdFinite DEF Counted, MemoryType
<1>7. size' = Cardinality(Searchable') /\ Cardinality(Searchable') \in Nat
  <2>1. Searchable \in SUBSET Id
    BY DEF Searchable, Domain
  <2> QED
    BY <1>1, <1>4, <2>1, IdRemove, IdFinite DEF Counted
<1>8. Counted'
  BY <1>1, <1>3, <1>6, <1>7 DEF Counted, Clean
<1>9. MemoryType'
  BY <1>1, <1>2, <1>6, <1>7 DEF MemoryType
<1> QED
  BY <1>5, <1>8, <1>9

-----------------------------------------------------------------------------
(* What a save and a restart preserve.                                     *)

\* A copy of a collection that agrees with its index can be restored.
LEMMA CopyOK ==
    ASSUME MemoryType, Agreement, Counted, snap' = Copy, Clean' => Clean
    PROVE  Copy \in Snapshot /\ SnapshotOK'
<1> DEFINE live == [i \in Id |-> IF i \in Live THEN vectors[i] ELSE Absent]
<1>1. live \in Map /\ Domain(live) = Live
  BY DEF MemoryType, Map, Live, Domain
<1>2. Copy.vectors = live /\ Copy.nodes = nodes /\ Copy.dead = dead /\ Copy.size = size
  BY DEF Copy
<1>3. Copy \in Snapshot
  BY <1>1 DEF Copy, Snapshot, MemoryType
<1>4. Domain(Copy.vectors) \subseteq Domain(Copy.nodes) /\ Copy.dead \subseteq Domain(Copy.nodes)
  BY <1>1, <1>2 DEF Agreement, Live
<1>5. \A i \in Domain(Copy.nodes) \ Copy.dead : Copy.vectors[i] = Copy.nodes[i]
  <2>1. \A i \in Searchable : i \in Live /\ live[i] = vectors[i]
    BY DEF Agreement, Searchable, Live, Domain
  <2> QED
    BY <1>2, <2>1 DEF Agreement, Searchable
<1>6. Clean => Domain(Copy.vectors) \cap Copy.dead = {}
  BY <1>1, <1>2 DEF Agreement, Live
<1>7. Copy.size = Cardinality(Domain(Copy.nodes) \ Copy.dead)
  BY <1>2 DEF Counted, Searchable
<1> HIDE DEF live
<1> QED
  BY <1>3, <1>4, <1>5, <1>6, <1>7 DEF SnapshotOK

\* Restoring establishes what Insert and Delete preserve.
LEMMA RestoreOK ==
    ASSUME TypeOK, SnapshotOK, Restore, causes' = causes
    PROVE  MemoryType' /\ Agreement' /\ Counted'
<1>1. /\ Saved.vectors \in Map /\ Saved.nodes \in Map /\ Saved.dead \subseteq Id
      /\ Domain(Saved.vectors) \subseteq Domain(Saved.nodes)
      /\ Saved.dead \subseteq Domain(Saved.nodes)
      /\ \A i \in Domain(Saved.nodes) \ Saved.dead : Saved.vectors[i] = Saved.nodes[i]
      /\ Clean => Domain(Saved.vectors) \cap Saved.dead = {}
      /\ Saved.size = Cardinality(Domain(Saved.nodes) \ Saved.dead)
  <2>1. CASE snap = NoSnapshot
    <3>1. Nothing \in Map /\ Domain(Nothing) = {}
      BY DEF Nothing, Map, Domain
    <3> QED
      BY <2>1, <3>1, FS_EmptySet DEF Saved
  <2>2. CASE snap # NoSnapshot
    BY <2>2 DEF Saved, SnapshotOK, TypeOK, Snapshot
  <2> QED
    BY <2>1, <2>2
<1>2. /\ vectors' = Saved.vectors /\ nodes' = Saved.nodes /\ dead' = Saved.dead
      /\ deletedIDs' = {} /\ deletedCount' = 0 /\ size' = Saved.size
      /\ vectorCount' = Cardinality(Domain(Saved.vectors))
      /\ nextID' \in 1 .. (MaxId + 1) /\ \A i \in Domain(Saved.vectors) : i < nextID'
  BY DEF Restore, NextIdAfter
<1>3. /\ Domain(vectors)' = Domain(Saved.vectors) /\ Domain(nodes)' = Domain(Saved.nodes)
      /\ Searchable' = Domain(Saved.nodes) \ Saved.dead
  BY <1>2 DEF Domain, Searchable
<1>4. size' \in Nat /\ vectorCount' \in Nat
  <2>1. Domain(Saved.vectors) \in SUBSET Id /\ Domain(Saved.nodes) \ Saved.dead \in SUBSET Id
    BY DEF Domain
  <2> QED
    BY <1>1, <1>2, <2>1, IdFinite
<1>5. MemoryType'
  BY <1>1, <1>2, <1>4 DEF MemoryType
<1>6. Agreement'
  BY <1>1, <1>2, <1>3 DEF Agreement, Clean
<1>7. Counted'
  BY <1>1, <1>2, <1>3, FS_EmptySet DEF Counted, Clean
<1> QED
  BY <1>5, <1>6, <1>7

-----------------------------------------------------------------------------
(* What the handlers' second half preserves.                               *)

Command == InsertCmd \cup DeleteCmd

\* Taking one element out of a sequence leaves elements of the sequence.
LEMMA RemoveAtOK ==
    ASSUME NEW S, NEW s \in Seq(S), NEW k \in DOMAIN s
    PROVE  /\ RemoveAt(s, k) \in Seq(S)
           /\ \A j \in DOMAIN RemoveAt(s, k) : \E i \in DOMAIN s : RemoveAt(s, k)[j] = s[i]
<1> DEFINE p == SubSeq(s, 1, k - 1)
           q == SubSeq(s, k + 1, Len(s))
<1>1. p \in Seq(S) /\ Len(p) = k - 1 /\ \A j \in 1 .. Len(p) : p[j] = s[j]
  OBVIOUS
<1>2. q \in Seq(S) /\ Len(q) = Len(s) - k /\ \A j \in 1 .. Len(q) : q[j] = s[k + j]
  OBVIOUS
<1>3. RemoveAt(s, k) = p \o q
  BY DEF RemoveAt
<1> HIDE DEF p, q
<1>4. /\ p \o q \in Seq(S) /\ Len(p \o q) = Len(p) + Len(q)
      /\ \A j \in 1 .. (Len(p) + Len(q)) :
            (p \o q)[j] = IF j <= Len(p) THEN p[j] ELSE q[j - Len(p)]
  BY <1>1, <1>2, ConcatProperties
<1>5. ASSUME NEW j \in DOMAIN (p \o q)
      PROVE  \E i \in DOMAIN s : (p \o q)[j] = s[i]
  <2>1. CASE j <= Len(p)
    <3>1. j \in DOMAIN s /\ (p \o q)[j] = s[j]
      BY <1>1, <1>2, <1>4, <2>1
    <3> QED
      BY <3>1
  <2>2. CASE ~(j <= Len(p))
    <3>1. j - Len(p) \in 1 .. Len(q) /\ j + 1 \in DOMAIN s /\ k + (j - Len(p)) = j + 1
      BY <1>1, <1>2, <1>4, <2>2, SMTT(60)
    <3>2. (p \o q)[j] = s[j + 1]
      BY <1>1, <1>2, <1>4, <2>2, <3>1, SMTT(60)
    <3> QED
      BY <3>1, <3>2
  <2> QED
    BY <2>1, <2>2
<1> QED
  BY <1>3, <1>4, <1>5

\* The part of the type that is about the log and the answers.
HistoryType ==
    /\ durable \in 0 .. Len(log)
    /\ told \in Seq(Answers) /\ Len(told) = Len(log) + 1

\* The identifiers of an insertion are consecutive.
Consecutive(c) ==
    c.op = "insert" => /\ c.batch # <<>>
                       /\ c.ids = [j \in DOMAIN c.batch |-> c.ids[1] + j - 1]

\* An answered insertion tells the clients vectors of the batch.
LEMMA LearnedOK ==
    ASSUME NEW a \in Answers, NEW c \in Command, Consecutive(c)
    PROVE  Learned(a, c) \in Answers
<1>1. CASE c.op = "insert"
  <2>1. c \in InsertCmd
    BY <1>1 DEF Command, DeleteCmd
  <2>2. c.batch \in Seq(Vector) /\ c.ids \in Seq(Id) /\ c.batch # <<>>
    BY <1>1, <2>1 DEF InsertCmd, Consecutive
  <2>3. c.ids = [j \in DOMAIN c.batch |-> c.ids[1] + j - 1]
    BY <1>1 DEF Consecutive
  <2>4. Len(c.ids) = Len(c.batch) /\ c.ids[1] \in Id
    BY <2>2, <2>3
  <2>5. \A i \in ToSet(c.ids) : i \in Id /\ c.batch[i - c.ids[1] + 1] \in Vector
    <3> SUFFICES ASSUME NEW j \in DOMAIN c.ids
                 PROVE  c.ids[j] \in Id /\ c.batch[c.ids[j] - c.ids[1] + 1] \in Vector
      BY DEF ToSet
    <3>1. j \in DOMAIN c.batch /\ c.ids[j] = c.ids[1] + j - 1 /\ c.ids[j] \in Id
      BY <2>2, <2>3, <2>4
    <3>2. c.ids[j] - c.ids[1] + 1 = j
      BY <2>2, <2>4, <3>1 DEF Id
    <3> QED
      BY <2>2, <3>1, <3>2
  <2> QED
    BY <1>1, <2>5 DEF Learned, Answers, Map
<1>2. CASE c.op # "insert"
  BY <1>2 DEF Learned, Answers, Map
<1> QED
  BY <1>1, <1>2

LEMMA LastTold ==
    ASSUME TypeOK
    PROVE  Last(told) \in Answers /\ Last(told) = told[Len(log) + 1] /\ Len(log) \in Nat
BY DEF TypeOK, Last

\* A command leaves the queue: it is in the log or not, and clients learn of it or not.
LEMMA LeavesOK ==
    ASSUME IInv, NEW k \in DOMAIN unlogged, NEW a \in Answers,
           \/ log' = log /\ told' = [told EXCEPT ![Len(told)] = a]
           \/ log' = Append(log, unlogged[k]) /\ told' = Append(told, a),
           unlogged' = RemoveAt(unlogged, k),
           UNCHANGED <<memory, phase, pos, snap, durable, restarts>>,
           causes' \subseteq causes \cup {"order", "unlogged"}
    PROVE  TypeOK' /\ PendingOK'
<1> DEFINE c == unlogged[k]
<1>1. c \in Command /\ unlogged \in Seq(Command) /\ log \in Seq(Command)
  BY DEF IInv, TypeOK, Command
<1>2. unlogged' \in Seq(Command) /\ log' \in Seq(Command)
  <2> HIDE DEF Command
  <2>1. unlogged' \in Seq(Command)
    BY <1>1, RemoveAtOK
  <2>2. Append(log, c) \in Seq(Command)
    BY <1>1
  <2> QED
    BY <1>1, <2>1, <2>2
<1>3. PendingOK'
  <2>1. \A j \in DOMAIN unlogged' : \E i \in DOMAIN unlogged : unlogged'[j] = unlogged[i]
    BY <1>1, RemoveAtOK
  <2> QED
    BY <2>1 DEF IInv, PendingOK
<1>4. HistoryType'
  <2>1. told \in Seq(Answers) /\ Len(told) = Len(log) + 1 /\ durable \in 0 .. Len(log)
    BY DEF IInv, TypeOK
  <2> HIDE DEF c, Command
  <2>2. Len(log) \in Nat
    BY <1>1
  <2>3. CASE log' = log /\ told' = [told EXCEPT ![Len(told)] = a]
    <3>1. told' \in Seq(Answers) /\ Len(told') = Len(told)
      BY <2>1, <2>2, <2>3
    <3> QED
      BY <2>1, <2>3, <3>1 DEF HistoryType
  <2>4. CASE log' = Append(log, c) /\ told' = Append(told, a)
    <3>1. Len(log') = Len(log) + 1
      BY <1>1, <2>4
    <3>2. told' \in Seq(Answers) /\ Len(told') = Len(told) + 1
      BY <2>1, <2>4
    <3> QED
      BY <2>1, <2>2, <3>1, <3>2 DEF HistoryType
  <2> QED
    BY <2>3, <2>4 DEF c
<1>5. causes' \subseteq {"conflict", "tombstone", "order", "rewrite", "unlogged"}
  BY DEF IInv, TypeOK
<1>6. TypeOK'
  BY <1>2, <1>4, <1>5 DEF IInv, TypeOK, HistoryType, Command, memory
<1> QED
  BY <1>3, <1>6

LEMMA LogOK ==
    ASSUME IInv, NEW k \in DOMAIN unlogged, Log(k)
    PROVE  TypeOK' /\ PendingOK' /\ Clean' = Clean
<1>1. PICK c \in Command : c = unlogged[k]
  BY DEF IInv, TypeOK, Command
<1>2. PICK a : a = Learned(Last(told), c)
  OBVIOUS
<1>3. a \in Answers
  BY <1>1, <1>2, LastTold, LearnedOK DEF IInv, PendingOK, Consecutive
<1>4. /\ log' = Append(log, unlogged[k]) /\ told' = Append(told, a)
      /\ unlogged' = RemoveAt(unlogged, k)
      /\ UNCHANGED <<memory, phase, pos, snap, durable, restarts>>
      /\ causes' \subseteq causes \cup {"order", "unlogged"} /\ Clean' = Clean
  BY <1>1, <1>2 DEF Log, Clean
<1> QED
  BY <1>3, <1>4, LeavesOK

LEMMA LogFailsOK ==
    ASSUME IInv, NEW k \in DOMAIN unlogged, LogFails(k)
    PROVE  TypeOK' /\ PendingOK' /\ Clean' = Clean
<1>1. PICK c \in Command : c = unlogged[k]
  BY DEF IInv, TypeOK, Command
<1>2. Last(told) \in Answers /\ Learned(Last(told), c) \in Answers
  BY <1>1, LastTold, LearnedOK DEF IInv, PendingOK, Consecutive
<1>3. PICK a \in {Last(told), Learned(Last(told), c)} :
        \/ log' = log /\ told' = [told EXCEPT ![Len(told)] = a]
        \/ log' = Append(log, unlogged[k]) /\ told' = Append(told, a)
  BY <1>1 DEF LogFails
<1>4. a \in Answers
  BY <1>2, <1>3
<1>5. /\ unlogged' = RemoveAt(unlogged, k)
      /\ UNCHANGED <<memory, phase, pos, snap, durable, restarts>>
      /\ causes' \subseteq causes \cup {"order", "unlogged"} /\ Clean' = Clean
  BY DEF LogFails, Clean
<1> QED
  BY <1>3, <1>4, <1>5, LeavesOK

\* What a process that ends leaves of the log and of the answers.
LEMMA StopOK ==
    ASSUME TypeOK, Stop
    PROVE  \E n \in durable .. Len(log) :
              /\ log' = SubSeq(log, 1, n) /\ log' \in Seq(Command) /\ Len(log') = n
              /\ DOMAIN log' = 1 .. n /\ DOMAIN log' \subseteq DOMAIN log
              /\ \A i \in 1 .. n : log'[i] = log[i]
              /\ \A i \in 1 .. (n + 1) : told'[i] = told[i]
              /\ HistoryType' /\ durable' = durable
<1> HIDE DEF Command
<1>1. /\ log \in Seq(Command) /\ Len(log) \in Nat /\ durable \in 0 .. Len(log)
      /\ told \in Seq(Answers) /\ Len(told) = Len(log) + 1
  BY DEF TypeOK, Command
<1>2. PICK n \in durable .. Len(log) :
        log' = SubSeq(log, 1, n) /\ told' = SubSeq(told, 1, n + 1) /\ durable' = durable
  BY DEF Stop
<1>3. n \in Nat /\ n <= Len(log) /\ durable \in 0 .. n
  BY <1>1
<1>4. /\ log' \in Seq(Command) /\ Len(log') = n /\ DOMAIN log' = 1 .. n
      /\ \A i \in 1 .. n : log'[i] = log[i]
  BY <1>1, <1>2, <1>3
<1>5. DOMAIN log' \subseteq DOMAIN log
  BY <1>1, <1>3, <1>4
<1>6. /\ told' \in Seq(Answers) /\ Len(told') = n + 1
      /\ \A i \in 1 .. (n + 1) : told'[i] = told[i]
  BY <1>1, <1>2, <1>3
<1>7. HistoryType'
  BY <1>2, <1>3, <1>4, <1>6 DEF HistoryType
<1> QED
  BY <1>2, <1>4, <1>5, <1>6, <1>7

-----------------------------------------------------------------------------
(* The invariant, action by action.                                        *)

LEMMA InitInv == Init => IInv
<1> SUFFICES ASSUME Init PROVE IInv
  OBVIOUS
<1>1. Domain(Nothing) = {} /\ Nothing \in Map
  BY DEF Domain, Nothing, Map
<1>2. Domain(vectors) = {} /\ Domain(nodes) = {} /\ Searchable = {}
  BY <1>1 DEF Init, Searchable
<1>3. TypeOK
  <2>1. told \in Seq(Answers) /\ Len(told) = 1
    <3>1. [live |-> Nothing, ids |-> {}] \in Answers
      BY <1>1 DEF Answers
    <3> QED
      BY <3>1 DEF Init
  <2> QED
    BY <1>1, <2>1, MaxIdAssumption DEF Init, TypeOK
<1> QED
  BY <1>2, <1>3, FS_EmptySet DEF Init, IInv, Agreement, Counted, SnapshotOK, PendingOK, Clean

\* The memory part of the type, and the rest of it.
LEMMA TypeOfMemory ==
    TypeOK <=> /\ MemoryType
               /\ phase \in {"serving", "replaying", "refused"}
               /\ pos \in Nat \ {0}
               /\ snap \in Snapshot \cup {NoSnapshot}
               /\ log \in Seq(Command) /\ unlogged \in Seq(Command)
               /\ restarts \in Nat
               /\ HistoryType
               /\ causes \subseteq {"conflict", "tombstone", "order", "rewrite", "unlogged"}
BY DEF TypeOK, MemoryType, HistoryType, Command

LEMMA NextInv == IInv /\ [Next]_vars => IInv'
<1> SUFFICES ASSUME IInv, [Next]_vars PROVE IInv'
  OBVIOUS
<1> USE DEF Command
<1>0. /\ TypeOK /\ MemoryType /\ HistoryType /\ Agreement /\ Counted /\ SnapshotOK /\ PendingOK
  BY TypeOfMemory DEF IInv
<1>1. ASSUME NEW batch \in Batch, Insert(batch)
      PROVE  IInv'
  <2>1. batch \in Seq(Vector) /\ batch # <<>>
    BY BatchAssumption
  <2>2. ApplyInsert(batch) /\ UNCHANGED <<phase, pos, files, restarts, history>>
    BY <1>1 DEF Insert
  <2>3. MemoryType' /\ Agreement' /\ Counted'
    BY <1>0, <2>1, <2>2, InsertKeeps DEF history
  <2> DEFINE c == [op |-> "insert", batch |-> batch,
                   ids |-> [j \in DOMAIN batch |-> nextID + j - 1]]
  <2>4. unlogged' = Append(unlogged, c)
    BY <1>1 DEF Insert
  <2>5. c \in Command
    <3>1. \A j \in DOMAIN batch : nextID + j - 1 \in Id
      BY <1>0, <2>1, <2>2, MaxIdAssumption DEF ApplyInsert, Room, MemoryType, Id
    <3>2. c.ids \in Seq(Id)
      BY <2>1, <3>1
    <3> QED
      BY <2>1, <3>2 DEF InsertCmd
  <2>6. c.batch # <<>> /\ c.ids = [j \in DOMAIN c.batch |-> c.ids[1] + j - 1]
    <3>1. c.ids[1] = nextID
      BY <1>0, <2>1 DEF MemoryType
    <3> QED
      BY <2>1, <3>1
  <2>7. PendingOK'
    <3> HIDE DEF c
    <3>1. unlogged \in Seq(Command)
      BY <1>0, TypeOfMemory
    <3> QED
      BY <1>0, <2>4, <2>6, <3>1 DEF PendingOK
  <2>8. TypeOK'
    <3> HIDE DEF c
    <3> QED
      BY <1>0, <2>2, <2>3, <2>4, <2>5, TypeOfMemory DEF TypeOK, MemoryType, files, history
  <2>9. SnapshotOK'
    BY <1>0, <2>2 DEF SnapshotOK, Clean, files, history
  <2> QED
    BY <2>3, <2>7, <2>8, <2>9 DEF IInv
<1>2. ASSUME NEW batch \in Batch, InsertFails(batch)
      PROVE  IInv'
  <2>1. batch \in Seq(Vector)
    BY BatchAssumption
  <2>2. /\ ApplyInsertFails(batch)
        /\ UNCHANGED <<phase, pos, files, unlogged, restarts, told>>
    BY <1>2 DEF InsertFails
  <2>3. MemoryType' /\ Agreement' /\ Counted'
    BY <1>0, <2>1, <2>2, RefusedInsertKeeps
  <2>4. causes' = causes \cup {"conflict"}
    BY <2>2 DEF ApplyInsertFails
  <2>5. TypeOK'
    BY <1>0, <2>2, <2>3, <2>4 DEF TypeOK, MemoryType, files
  <2>6. SnapshotOK' /\ PendingOK'
    BY <1>0, <2>2, <2>4 DEF SnapshotOK, PendingOK, Clean, files
  <2> QED
    BY <2>3, <2>5, <2>6 DEF IInv
<1>3. ASSUME NEW ids \in Deletion, Delete(ids)
      PROVE  IInv'
  <2>1. ids \in SUBSET Id
    BY DeletionAssumption
  <2>2. /\ ApplyDelete(ids) /\ UNCHANGED <<phase, pos, files, restarts, history>>
        /\ unlogged' = Append(unlogged, [op |-> "delete", ids |-> ids])
    BY <1>3 DEF Delete
  <2>3. MemoryType' /\ Agreement' /\ Counted'
    BY <1>0, <2>1, <2>2, DeleteKeeps DEF history
  <2>4. [op |-> "delete", ids |-> ids] \in Command
    BY <2>1 DEF DeleteCmd
  <2>5. PendingOK'
    <3> SUFFICES ASSUME NEW k \in DOMAIN unlogged', unlogged'[k].op = "insert"
                 PROVE  /\ unlogged'[k].batch # <<>>
                        /\ unlogged'[k].ids = [j \in DOMAIN unlogged'[k].batch |->
                                                 unlogged'[k].ids[1] + j - 1]
      BY Zenon DEF PendingOK
    <3>1. unlogged \in Seq(Command)
      BY <1>0 DEF TypeOK
    <3>2. k \in 1 .. Len(unlogged) + 1
      BY <2>2, <2>4, <3>1
    <3>3. k # Len(unlogged) + 1
      BY <2>2, <2>4, <3>1
    <3>4. k \in DOMAIN unlogged /\ unlogged'[k] = unlogged[k]
      BY <2>2, <2>4, <3>1, <3>2, <3>3
    <3> QED
      BY <1>0, <3>4, Zenon DEF PendingOK
  <2>6. TypeOK'
    BY <1>0, <2>2, <2>3, <2>4 DEF TypeOK, MemoryType, files, history
  <2>7. SnapshotOK'
    BY <1>0, <2>2 DEF SnapshotOK, Clean, files, history
  <2> QED
    BY <2>3, <2>5, <2>6, <2>7 DEF IInv
<1>4. ASSUME NEW k \in DOMAIN unlogged, Log(k)
      PROVE  IInv'
  <2>1. TypeOK' /\ PendingOK' /\ Clean' = Clean
    BY <1>4, LogOK
  <2>2. UNCHANGED <<memory, snap>>
    BY <1>4 DEF Log
  <2>3. Agreement' /\ Counted' /\ SnapshotOK'
    BY <1>0, <2>1, <2>2 DEF Agreement, Counted, SnapshotOK, Domain, Searchable, memory
  <2> QED
    BY <2>1, <2>3 DEF IInv
<1>13. ASSUME NEW k \in DOMAIN unlogged, LogFails(k)
       PROVE  IInv'
  <2>1. TypeOK' /\ PendingOK' /\ Clean' = Clean
    BY <1>13, LogFailsOK
  <2>2. UNCHANGED <<memory, snap>>
    BY <1>13 DEF LogFails
  <2>3. Agreement' /\ Counted' /\ SnapshotOK'
    BY <1>0, <2>1, <2>2 DEF Agreement, Counted, SnapshotOK, Domain, Searchable, memory
  <2> QED
    BY <2>1, <2>3 DEF IInv
<1>14. CASE Sync
  <2>1. durable' = Len(log)
        /\ UNCHANGED <<memory, phase, pos, snap, log, unlogged, restarts, history>>
    BY <1>14 DEF Sync
  <2>2. Len(log) \in Nat
    BY LastTold, <1>0
  <2> QED
    BY <1>0, <2>1, <2>2 DEF IInv, TypeOK, Agreement, Counted, SnapshotOK, PendingOK, Clean,
                            Domain, Searchable, memory, history
<1>5. CASE Save
  <2>1. /\ snap' = Copy /\ log' = <<>> /\ causes' \subseteq causes \cup {"tombstone"}
        /\ causes \subseteq causes' /\ durable' = 0 /\ told' = <<Last(told)>>
        /\ UNCHANGED <<memory, phase, pos, unlogged, restarts>>
    BY <1>5 DEF Save
  <2>2. Clean' = Clean
    BY <2>1 DEF Clean
  <2>3. Copy \in Snapshot /\ SnapshotOK'
    BY <1>0, <2>1, <2>2, CopyOK
  <2>6. HistoryType'
    BY <1>0, <2>1, LastTold DEF HistoryType
  <2>4. TypeOK'
    BY <1>0, <2>1, <2>3, <2>6 DEF TypeOK, HistoryType, memory
  <2>5. Agreement' /\ Counted' /\ PendingOK'
    BY <1>0, <2>1, <2>2 DEF Agreement, Counted, PendingOK, Domain, Searchable, memory
  <2> QED
    BY <2>3, <2>4, <2>5 DEF IInv
<1>6. CASE Rewrite
  <2>1. PICK ids \in SetToSeqs(Live) :
            /\ log' = IF ids = <<>> THEN <<>>
                      ELSE <<[op |-> "insert", ids |-> ids,
                              batch |-> [k \in DOMAIN ids |-> vectors[ids[k]]]]>>
            /\ causes' = causes \cup (IF ids = [k \in 1 .. (nextID - 1) |-> k]
                                      THEN {} ELSE {"rewrite"})
    BY <1>6 DEF Rewrite
  <2>2. /\ durable' = Len(log') /\ told' = [n \in 1 .. (Len(log') + 1) |-> Last(told)]
        /\ UNCHANGED <<memory, phase, pos, snap, unlogged, restarts>>
    BY <1>6 DEF Rewrite
  <2>3. Clean' = Clean
    BY <2>1 DEF Clean
  <2> DEFINE batch == [k \in DOMAIN ids |-> vectors[ids[k]]]
  <2>4. ids \in Seq(Live)
    <3>1. Live \in SUBSET Id
      BY DEF Live, Domain
    <3>2. Cardinality(Live) \in Nat
      BY <3>1, IdFinite
    <3>3. ids \in [1 .. Cardinality(Live) -> Live]
      BY DEF SetToSeqs
    <3> QED
      BY <3>2, <3>3
  <2>5. \A k \in DOMAIN ids : ids[k] \in Id /\ vectors[ids[k]] \in Vector
    BY <1>0, <2>4 DEF Live, Domain, MemoryType, Map
  <2>6. ids \in Seq(Id) /\ batch \in Seq(Vector)
    BY <2>4, <2>5
  <2>7. log' \in Seq(Command)
    <3> DEFINE c == [op |-> "insert", ids |-> ids, batch |-> batch]
    <3>1. c \in Command
      BY <2>6 DEF InsertCmd
    <3>2. log' = <<>> \/ log' = <<c>>
      BY <2>1
    <3> HIDE DEF c
    <3>3. <<c>> \in Seq(Command) /\ <<>> \in Seq(Command)
      BY <3>1
    <3> QED
      BY <3>2, <3>3
  <2>10. HistoryType'
    <3> HIDE DEF Command
    <3>1. Len(log') \in Nat
      BY <2>7
    <3>2. Last(told) \in Answers
      BY <1>0, LastTold
    <3> QED
      BY <2>2, <3>1, <3>2 DEF HistoryType
  <2>8. TypeOK'
    BY <1>0, <2>1, <2>2, <2>7, <2>10 DEF TypeOK, HistoryType, memory
  <2>9. Agreement' /\ Counted' /\ PendingOK' /\ SnapshotOK'
    BY <1>0, <2>2, <2>3
    DEF Agreement, Counted, PendingOK, SnapshotOK, Domain, Searchable, memory
  <2> QED
    BY <2>8, <2>9 DEF IInv
<1>7. CASE Restart
  <2>1. /\ Restore /\ Stop /\ phase' = "replaying" /\ pos' = 1 /\ unlogged' = <<>>
        /\ restarts' = restarts + 1 /\ UNCHANGED <<snap, causes>>
    BY <1>7 DEF Restart, Stop
  <2>2. MemoryType' /\ Agreement' /\ Counted'
    BY <1>0, <2>1, RestoreOK
  <2>3. log' \in Seq(Command) /\ HistoryType'
    BY <1>0, <2>1, StopOK
  <2>4. TypeOK' /\ SnapshotOK' /\ PendingOK'
    BY <1>0, <2>1, <2>2, <2>3, SMTT(60)
    DEF TypeOK, MemoryType, HistoryType, SnapshotOK, PendingOK, Clean
  <2> QED
    BY <2>2, <2>4 DEF IInv
<1>8. CASE RestartRefused
  <2>1. /\ Stop /\ phase' = "refused" /\ unlogged' = <<>> /\ restarts' = restarts + 1
        /\ UNCHANGED <<memory, pos, snap, causes>>
    BY <1>8 DEF RestartRefused, Stop
  <2>2. log' \in Seq(Command) /\ HistoryType'
    BY <1>0, <2>1, StopOK
  <2> QED
    BY <1>0, <2>1, <2>2 DEF IInv, TypeOK, HistoryType, Agreement, Counted, SnapshotOK,
                            PendingOK, Clean, Domain, Searchable, memory
<1>9. CASE Replay
  <2>1. /\ pos \in DOMAIN log /\ pos' = pos + 1
        /\ UNCHANGED <<phase, files, unlogged, restarts, history>>
    BY <1>0, <1>9 DEF Replay, TypeOK
  <2>2. log[pos] \in Command
    BY <1>0, <2>1 DEF TypeOK
  <2>3. MemoryType' /\ Agreement' /\ Counted'
    <3>1. CASE log[pos].op = "insert" /\ ApplyInsert(log[pos].batch)
      <4>1. log[pos].batch \in Seq(Vector)
        BY <2>2, <3>1 DEF InsertCmd, DeleteCmd
      <4> QED
        BY <1>0, <2>1, <3>1, <4>1, InsertKeeps DEF history
    <3>2. CASE log[pos].op = "delete" /\ ApplyDelete(log[pos].ids)
      <4>1. log[pos].ids \in SUBSET Id
        BY <2>2, <3>2 DEF InsertCmd, DeleteCmd
      <4> QED
        BY <1>0, <2>1, <3>2, <4>1, DeleteKeeps DEF history
    <3> QED
      BY <1>9, <3>1, <3>2 DEF Replay
  <2>4. TypeOK' /\ SnapshotOK' /\ PendingOK'
    BY <1>0, <2>1, <2>3
    DEF TypeOK, MemoryType, SnapshotOK, PendingOK, Clean, files, history
  <2> QED
    BY <2>3, <2>4 DEF IInv
<1>10. CASE ReplayFails
  <2>1. /\ pos \in DOMAIN log /\ log[pos].op = "insert" /\ phase' = "refused"
        /\ UNCHANGED <<pos, files, unlogged, restarts, told>>
    BY <1>0, <1>10 DEF ReplayFails, TypeOK
  <2>2. CASE UNCHANGED <<memory, causes>>
    BY <1>0, <2>1, <2>2
    DEF IInv, TypeOK, Agreement, Counted, SnapshotOK, PendingOK, Clean,
        Domain, Searchable, memory, files
  <2>3. CASE ApplyInsertFails(log[pos].batch)
    <3>1. log[pos].batch \in Seq(Vector)
      BY <1>0, <2>1 DEF TypeOK, InsertCmd, DeleteCmd
    <3>2. MemoryType' /\ Agreement' /\ Counted'
      BY <1>0, <2>3, <3>1, RefusedInsertKeeps
    <3>3. causes' = causes \cup {"conflict"}
      BY <2>3 DEF ApplyInsertFails
    <3>4. TypeOK'
      BY <1>0, <2>1, <3>2, <3>3 DEF TypeOK, MemoryType, files
    <3>5. SnapshotOK' /\ PendingOK'
      BY <1>0, <2>1, <3>3 DEF SnapshotOK, PendingOK, Clean, files
    <3> QED
      BY <3>2, <3>4, <3>5 DEF IInv
  <2> QED
    BY <1>10, <2>2, <2>3 DEF ReplayFails
<1>11. CASE ReplayDone
  <2>1. phase' = "serving" /\ pos' = 1
        /\ UNCHANGED <<memory, files, unlogged, restarts, history>>
    BY <1>11 DEF ReplayDone
  <2> QED
    BY <1>0, <2>1 DEF IInv, TypeOK, Agreement, Counted, SnapshotOK, PendingOK, Clean,
                      Domain, Searchable, memory, files, history
<1>12. CASE UNCHANGED vars
  BY <1>0, <1>12 DEF IInv, TypeOK, Agreement, Counted, SnapshotOK, PendingOK, Clean,
                     Domain, Searchable, vars, memory, files, history
<1> QED
  BY <1>1, <1>2, <1>3, <1>4, <1>5, <1>6, <1>7, <1>8, <1>9, <1>10, <1>11, <1>12, <1>13, <1>14
  DEF Next

THEOREM Invariance == Spec => []IInv
BY InitInv, NextInv, PTL DEF Spec

-----------------------------------------------------------------------------
(* The theorems.                                                           *)

\* The state of the collection keeps its type, and no counter goes below 0.
THEOREM CollectionTypeCorrect == Spec => []TypeOK
BY Invariance, PTL DEF IInv

\* What can be found is live and has the right content, always.
THEOREM IndexAlwaysCovers == Spec => []IndexCovers
<1>1. IInv => IndexCovers
  BY DEF IInv, Agreement, IndexCovers, Searchable, Live, Domain
<1> QED
  BY <1>1, Invariance, PTL

\* What is live can be found, as long as the index has refused nothing.
THEOREM LiveIsSearchable == Spec => []AllSearchable
<1>1. IInv => AllSearchable
  BY DEF IInv, Agreement, AllSearchable, Searchable, Live
<1> QED
  BY <1>1, Invariance, PTL

\* The counters of collection and index are the numbers they stand for.
THEOREM CountsStayExact == Spec => []CountsExact
<1>1. ASSUME IInv PROVE CountsExact
  <2>1. Domain(vectors) \in SUBSET Id /\ deletedIDs \in SUBSET Domain(vectors)
    BY <1>1 DEF IInv, Agreement, Domain
  <2>2. Cardinality(Live) = Cardinality(Domain(vectors)) - Cardinality(deletedIDs)
    BY <2>1, IdRemove DEF Live
  <2> QED
    BY <1>1, <2>2 DEF IInv, Counted, CountsExact
<1> QED
  BY <1>1, Invariance, PTL

\* All vectors have one dimension, as long as the index has refused nothing:
\* a collection that counts no vectors then has none.
THEOREM DimensionStaysOne == Spec => []OneDimension
<1>1. Init => OneDimension
  BY DEF Init, OneDimension, OneDim, Domain, Nothing
<1>2. ASSUME IInv, OneDimension, NEW batch \in Seq(Vector), ApplyInsert(batch), Clean
      PROVE  OneDim(vectors)'
  <2>1. PICK d : /\ \A i \in Domain(vectors) : Dim[vectors[i]] = d
                 /\ SameDim(batch, d)
    <3>1. CASE vectorCount > 0
      <4>1. PICK j \in Domain(vectors) : SameDim(batch, Dim[vectors[j]])
        BY <1>2, <3>1 DEF ApplyInsert, DimensionsFit, IInv, TypeOK
      <4> QED
        BY <1>2, <4>1 DEF OneDimension, OneDim
    <3>2. CASE ~(vectorCount > 0)
      <4>1. Domain(vectors) \in SUBSET Id /\ Cardinality(Domain(vectors)) = 0
        BY <1>2, <3>2, IdFinite DEF Domain, IInv, TypeOK, Counted
      <4>2. Domain(vectors) = {}
        BY <4>1, IdFinite, FS_EmptySet
      <4>3. SameDim(batch, Dim[batch[1]])
        BY <1>2, <3>2 DEF ApplyInsert, DimensionsFit
      <4> QED
        BY <4>2, <4>3
    <3> QED
      BY <3>1, <3>2
  <2>2. /\ vectors' = With(vectors, batch, Len(batch))
        /\ nextID \in 1 .. (MaxId + 1) /\ nextID + Len(batch) - 1 <= MaxId
        /\ vectors \in Map
    BY <1>2 DEF ApplyInsert, Store, Room, IInv, TypeOK
  <2>3. \A i \in Domain(vectors)' : Dim[vectors'[i]] = d
    <3> SUFFICES ASSUME NEW i \in Id, vectors'[i] # Absent PROVE Dim[vectors'[i]] = d
      BY DEF Domain
    <3>1. CASE i \in NewIds(Len(batch))
      <4>1. i - nextID + 1 \in DOMAIN batch
        BY <2>2, <3>1 DEF NewIds
      <4>2. vectors'[i] = batch[i - nextID + 1]
        BY <2>2, <3>1 DEF With
      <4> QED
        BY <2>1, <4>1, <4>2 DEF SameDim
    <3>2. CASE i \notin NewIds(Len(batch))
      <4>1. vectors'[i] = vectors[i] /\ i \in Domain(vectors)
        BY <2>2, <3>2 DEF With, Domain
      <4> QED
        BY <2>1, <4>1
    <3> QED
      BY <3>1, <3>2
  <2> QED
    BY <2>3 DEF OneDim
<1>3. ASSUME IInv, OneDimension, [Next]_vars PROVE OneDimension'
  <2> SUFFICES ASSUME Clean' PROVE OneDim(vectors)'
    BY DEF OneDimension
  <2>1. ASSUME NEW batch \in Batch, Insert(batch) PROVE OneDim(vectors)'
    <3>1. batch \in Seq(Vector) /\ ApplyInsert(batch) /\ Clean
      BY <2>1, BatchAssumption DEF Insert, Clean, history
    <3> QED
      BY <1>2, <1>3, <3>1
  <2>2. ASSUME NEW batch \in Batch, InsertFails(batch) PROVE FALSE
    BY <2>2 DEF InsertFails, ApplyInsertFails, Clean
  <2>3. CASE vectors' = vectors /\ causes \subseteq causes'
    BY <1>3, <2>3 DEF OneDimension, OneDim, Domain, Clean
  <2>4. ASSUME NEW ids \in Deletion, Delete(ids) PROVE OneDim(vectors)'
    BY <2>3, <2>4 DEF Delete, ApplyDelete, history
  <2>5. ASSUME NEW k \in DOMAIN unlogged, Log(k) PROVE OneDim(vectors)'
    BY <2>3, <2>5 DEF Log, memory
  <2>10. ASSUME NEW k \in DOMAIN unlogged, LogFails(k) PROVE OneDim(vectors)'
    BY <2>3, <2>10 DEF LogFails, memory
  <2>6. CASE Sync \/ Save \/ Rewrite \/ RestartRefused \/ ReplayDone \/ UNCHANGED vars
    BY <2>3, <2>6 DEF Sync, Save, Rewrite, RestartRefused, Stop, ReplayDone, vars, memory, history
  <2>7. CASE Restart
    BY <2>7 DEF Restart, Restore, OneDim, Domain
  <2>8. CASE Replay
    <3>1. UNCHANGED history /\ pos \in DOMAIN log /\ log[pos] \in InsertCmd \cup DeleteCmd
      BY <1>3, <2>8 DEF Replay, IInv, TypeOK
    <3>2. CASE log[pos].op = "insert" /\ ApplyInsert(log[pos].batch)
      BY <1>2, <1>3, <3>1, <3>2 DEF InsertCmd, DeleteCmd, Clean, history
    <3>3. CASE log[pos].op = "delete" /\ ApplyDelete(log[pos].ids)
      BY <2>3, <3>1, <3>3 DEF ApplyDelete, history
    <3> QED
      BY <2>8, <3>2, <3>3 DEF Replay
  <2>9. CASE ReplayFails
    BY <2>3, <2>9 DEF ReplayFails, ApplyInsertFails, Clean, memory
  <2> QED
    BY <1>3, <2>1, <2>2, <2>4, <2>5, <2>6, <2>7, <2>8, <2>9, <2>10 DEF Next
<1> QED
  BY <1>1, <1>3, Invariance, PTL DEF Spec

\* Within a life no vector is ever replaced by another.
THEOREM NothingIsOverwritten == Spec => NothingOverwritten
<1>1. ASSUME IInv, NEW batch \in Seq(Vector), NEW k \in 0 .. Len(batch),
             vectors' = With(vectors, batch, k)
      PROVE  \A i \in Domain(vectors) : vectors'[i] = vectors[i]
  <2>1. \A i \in Domain(vectors) : i \in Id /\ i \notin NewIds(k)
    BY <1>1 DEF IInv, Agreement, TypeOK, NewIds, Domain, Id
  <2> QED
    BY <1>1, <2>1 DEF With
<1>2. ASSUME IInv, [Next]_vars
      PROVE  [restarts' = restarts => \A i \in Domain(vectors) : vectors'[i] = vectors[i]]_vars
  <2> SUFFICES ASSUME restarts' = restarts
               PROVE  \A i \in Domain(vectors) : vectors'[i] = vectors[i]
    OBVIOUS
  <2>1. CASE vectors' = vectors
    BY <2>1
  <2>2. ASSUME NEW batch \in Seq(Vector), ApplyInsert(batch)
        PROVE  \A i \in Domain(vectors) : vectors'[i] = vectors[i]
    BY <1>1, <1>2, <2>2 DEF ApplyInsert, Store
  <2>3. ASSUME NEW batch \in Seq(Vector), ApplyInsertFails(batch)
        PROVE  \A i \in Domain(vectors) : vectors'[i] = vectors[i]
    <3>1. PICK k \in Taken(batch) : Store(batch, k, k - 1)
      BY <2>3 DEF ApplyInsertFails
    <3> QED
      BY <1>1, <1>2, <3>1 DEF Taken, Store
  <2>4. ASSUME NEW batch \in Batch, Insert(batch) \/ InsertFails(batch)
        PROVE  \A i \in Domain(vectors) : vectors'[i] = vectors[i]
    BY <2>2, <2>3, <2>4, BatchAssumption DEF Insert, InsertFails
  <2>5. ASSUME NEW ids \in Deletion, Delete(ids) PROVE vectors' = vectors
    BY <2>5 DEF Delete, ApplyDelete
  <2>6. ASSUME NEW k \in DOMAIN unlogged, Log(k) PROVE vectors' = vectors
    BY <2>6 DEF Log, memory
  <2>12. ASSUME NEW k \in DOMAIN unlogged, LogFails(k) PROVE vectors' = vectors
    BY <2>12 DEF LogFails, memory
  <2>7. CASE Sync \/ Save \/ Rewrite \/ RestartRefused \/ ReplayDone \/ UNCHANGED vars
    BY <2>1, <2>7 DEF Sync, Save, Rewrite, RestartRefused, ReplayDone, vars, memory
  <2>8. CASE Restart
    BY <1>2, <2>8 DEF Restart, Stop, IInv, TypeOK
  <2>9. ASSUME pos \in DOMAIN log, log[pos].op = "insert"
        PROVE  log[pos].batch \in Seq(Vector)
    BY <1>2, <2>9 DEF IInv, TypeOK, InsertCmd, DeleteCmd
  <2>10. CASE Replay
    BY <1>2, <2>1, <2>2, <2>9, <2>10 DEF Replay, ApplyDelete, IInv, TypeOK
  <2>11. CASE ReplayFails
    BY <1>2, <2>1, <2>3, <2>9, <2>11 DEF ReplayFails, memory, IInv, TypeOK
  <2> QED
    BY <1>2, <2>1, <2>4, <2>5, <2>6, <2>7, <2>8, <2>10, <2>11, <2>12 DEF Next
<1> QED
  BY <1>2, Invariance, PTL DEF Spec, NothingOverwritten

-----------------------------------------------------------------------------
(* Why a recovery of the collection does not fail: as long as no snapshot  *)
(* was taken with a tombstone above all live vectors, the index has a node *)
(* only below the next identifier, and memory, snapshot and log hold       *)
(* vectors of one dimension.                                               *)

NoTombstone == "tombstone" \notin causes

\* No node waits where an insertion will want to put one, now or after Restore.
Below ==
    /\ \A i \in Domain(nodes) : i < nextID
    /\ snap # NoSnapshot =>
          \A i \in Domain(snap.nodes) : \E j \in Domain(snap.vectors) : i <= j

IsInsert(c) == c.op = "insert"

\* An insertion in the log has vectors.
Filled == \A k \in DOMAIN log : IsInsert(log[k]) => log[k].batch # <<>>

\* All vectors, wherever they are, have dimension d.
Kind(d) ==
    /\ \A i \in Domain(vectors) : Dim[vectors[i]] = d
    /\ snap # NoSnapshot => \A i \in Domain(snap.vectors) : Dim[snap.vectors[i]] = d
    /\ \A k \in DOMAIN log : IsInsert(log[k]) => SameDim(log[k].batch, d)
    /\ \A k \in DOMAIN unlogged : IsInsert(unlogged[k]) => SameDim(unlogged[k].batch, d)

\* Where the vectors of a collection in memory may have come from.
Sourced ==
    /\ snap # NoSnapshot /\ Domain(snap.vectors) # {} => Domain(vectors) # {}
    /\ \A k \in DOMAIN log :
          IsInsert(log[k]) /\ (phase = "serving" \/ k < pos) => Domain(vectors) # {}
    /\ \A k \in DOMAIN unlogged : IsInsert(unlogged[k]) => Domain(vectors) # {}

Sound == Clean /\ phase # "refused" /\ Below /\ Filled /\ Sourced /\ \E d \in Nat : Kind(d)

RInv == NoTombstone => Sound

-----------------------------------------------------------------------------
(* The bodies of Insert and Delete.                                        *)

\* A batch of the dimension of all others.
LEMMA InsertSound ==
    ASSUME IInv, NEW batch \in Seq(Vector), batch # <<>>, ApplyInsert(batch),
           NEW d \in Nat, SameDim(batch, d),
           \A i \in Domain(nodes) : i < nextID,
           \A i \in Domain(vectors) : Dim[vectors[i]] = d
    PROVE  /\ \A i \in Domain(nodes') : i < nextID'
           /\ \A i \in Domain(vectors') : Dim[vectors'[i]] = d
           /\ Domain(vectors') # {}
<1> DEFINE n == Len(batch)
<1>1. n \in Nat \ {0} /\ n \in 0 .. Len(batch) /\ nextID \in 1 .. (MaxId + 1) /\ nextID + n - 1 <= MaxId
      /\ vectors \in Map /\ nodes \in Map
  BY DEF IInv, TypeOK, ApplyInsert, Room
<1>2. vectors' = With(vectors, batch, n) /\ nodes' = With(nodes, batch, n) /\ nextID' = nextID + n
  BY DEF ApplyInsert, Store
<1>3. /\ Domain(vectors') = Domain(vectors) \cup NewIds(n)
      /\ NewIds(n) \subseteq Id
      /\ \A i \in Id \ NewIds(n) : vectors'[i] = vectors[i]
      /\ \A i \in NewIds(n) : vectors'[i] = batch[i - nextID + 1]
  BY <1>1, <1>2, WithLemma
<1>4. Domain(nodes') = Domain(nodes) \cup NewIds(n)
  BY <1>1, <1>2, WithLemma
<1>5. NewIds(n) = nextID .. (nextID + n - 1) /\ nextID \in NewIds(n)
  BY <1>1, MaxIdAssumption DEF NewIds
<1>6. \A i \in Domain(nodes') : i < nextID'
  <2> SUFFICES ASSUME NEW i \in Domain(nodes) \cup NewIds(n) PROVE i < nextID + n
    BY <1>2, <1>4
  <2>1. CASE i \in Domain(nodes)
    <3>1. i \in Int /\ i < nextID BY <2>1, MaxIdAssumption DEF Domain, Id
    <3> QED BY <3>1, <1>1, MaxIdAssumption
  <2>2. CASE i \in NewIds(n)
    BY <2>2, <1>1, <1>5, MaxIdAssumption
  <2> QED BY <2>1, <2>2
<1>7. \A i \in Domain(vectors') : Dim[vectors'[i]] = d
  <2> SUFFICES ASSUME NEW i \in Domain(vectors) \cup NewIds(n) PROVE Dim[vectors'[i]] = d
    BY <1>3
  <2>1. CASE i \in NewIds(n)
    <3>1. i - nextID + 1 \in DOMAIN batch
      BY <2>1, <1>1, <1>5, MaxIdAssumption
    <3> QED BY <2>1, <3>1, <1>3 DEF SameDim
  <2>2. CASE i \notin NewIds(n)
    <3>1. i \in Domain(vectors) /\ i \in Id BY <2>2 DEF Domain
    <3> QED BY <2>2, <3>1, <1>3
  <2> QED BY <2>1, <2>2
<1> QED BY <1>3, <1>5, <1>6, <1>7

\* The index refuses nothing below its nodes.
LEMMA NothingTaken ==
    ASSUME IInv, NEW batch \in Seq(Vector), \A i \in Domain(nodes) : i < nextID,
           ApplyInsertFails(batch)
    PROVE  FALSE
<1>1. nextID \in 1 .. (MaxId + 1) /\ nextID + Len(batch) - 1 <= MaxId
  BY DEF IInv, TypeOK, ApplyInsertFails, Room
<1>2. PICK k \in Taken(batch) : TRUE
  BY DEF ApplyInsertFails
<1>3. k \in 1 .. Len(batch) /\ nodes[nextID + k - 1] # Absent
  BY <1>2 DEF Taken
<1>4. nextID + k - 1 \in Id /\ ~(nextID + k - 1 < nextID)
  BY <1>1, <1>3, MaxIdAssumption DEF Id
<1> QED BY <1>3, <1>4 DEF Domain

\* An empty count is an empty map.
LEMMA NoneCounted ==
    ASSUME IInv, Clean, vectorCount <= 0 PROVE Domain(vectors) = {}
<1>1. Domain(vectors) \in SUBSET Id BY DEF Domain
<1>2. IsFiniteSet(Domain(vectors)) /\ Cardinality(Domain(vectors)) \in Nat
  BY <1>1, IdFinite
<1>3. Cardinality(Domain(vectors)) = 0
  BY <1>2 DEF IInv, Counted, TypeOK
<1> QED BY <1>2, <1>3, FS_EmptySet

\* An insertion that a client asks for has the dimension of all others, or comes
\* first.
LEMMA BatchFits ==
    ASSUME IInv, Sound, phase = "serving", NEW batch \in Seq(Vector), batch # <<>>,
           DimensionsFit(batch)
    PROVE  \E d \in Nat : Kind(d) /\ SameDim(batch, d)
<1>1. PICK d \in Nat : Kind(d) BY DEF Sound
<1>2. CASE vectorCount > 0
  <2>1. ~(vectorCount <= 0) BY <1>2, TypeOfMemory DEF IInv, MemoryType
  <2>2. PICK i \in Domain(vectors) : SameDim(batch, Dim[vectors[i]])
    BY <2>1 DEF DimensionsFit
  <2>3. Dim[vectors[i]] = d BY <1>1 DEF Kind
  <2> QED BY <1>1, <2>2, <2>3
<1>3. CASE vectorCount <= 0
  <2>1. Domain(vectors) = {}
    BY <1>3, NoneCounted DEF Sound
  <2>2. Dim[batch[1]] \in Nat /\ SameDim(batch, Dim[batch[1]])
    <3>1. batch[1] \in Vector OBVIOUS
    <3>2. SameDim(batch, Dim[batch[1]])
      BY <1>3 DEF DimensionsFit, IInv, TypeOK
    <3> QED BY <3>1, <3>2, DimAssumption
  <2>3. Kind(Dim[batch[1]])
    BY <2>1 DEF Kind, Sound, Sourced
  <2> QED BY <2>2, <2>3
<1>4. vectorCount \in Nat BY DEF IInv, TypeOK
<1> QED BY <1>2, <1>3, <1>4

-----------------------------------------------------------------------------
(* The steps.                                                              *)

LEMMA InsertRInv ==
    ASSUME IInv, Sound, NEW batch \in Batch, Insert(batch) PROVE Sound'
<1>1. batch \in Seq(Vector) /\ batch # <<>>
  BY BatchAssumption
<1> DEFINE c == [op |-> "insert", batch |-> batch, ids |-> [k \in DOMAIN batch |-> nextID + k - 1]]
<1>2. /\ phase = "serving" /\ ApplyInsert(batch) /\ unlogged' = Append(unlogged, c)
      /\ UNCHANGED <<phase, pos, snap, log, causes>>
  BY DEF Insert, files, history
<1>3. PICK d \in Nat : Kind(d) /\ SameDim(batch, d)
  BY <1>1, <1>2, BatchFits DEF ApplyInsert
<1>4. /\ \A i \in Domain(nodes') : i < nextID'
      /\ \A i \in Domain(vectors') : Dim[vectors'[i]] = d
      /\ Domain(vectors') # {}
  BY <1>1, <1>2, <1>3, InsertSound DEF Sound, Below, Kind
<1>5. unlogged \in Seq(Command) /\ c.batch = batch
  BY TypeOfMemory DEF IInv
<1> HIDE DEF c
<1>6. Kind(d)'
  BY <1>2, <1>3, <1>4, <1>5 DEF Kind
<1> QED BY <1>2, <1>4, <1>6 DEF Sound, Clean, Below, Filled, Sourced

\* Deletions change neither the maps nor the next identifier.
LEMMA DeleteRInv ==
    ASSUME IInv, Sound, NEW ids \in Deletion, Delete(ids) PROVE Sound'
<1> DEFINE c == [op |-> "delete", ids |-> ids]
<1>1. /\ UNCHANGED <<vectors, nodes, nextID, phase, pos, snap, log, causes>>
      /\ unlogged' = Append(unlogged, c)
  BY DEF Delete, ApplyDelete, files, history
<1>2. unlogged \in Seq(Command) /\ ~IsInsert(c)
  BY TypeOfMemory DEF IInv, IsInsert
<1> HIDE DEF c
<1>3. PICK d \in Nat : Kind(d) BY DEF Sound
<1>4. Kind(d)' BY <1>1, <1>2, <1>3 DEF Kind
<1> QED BY <1>1, <1>2, <1>4 DEF Sound, Clean, Below, Filled, Sourced

\* A command leaves the queue, for the log or for nothing.
LEMMA LeavesRInv ==
    ASSUME IInv, Sound, NEW k \in DOMAIN unlogged,
           phase = "serving", unlogged' = RemoveAt(unlogged, k),
           log' = log \/ log' = Append(log, unlogged[k]),
           UNCHANGED <<vectors, nodes, nextID, phase, pos, snap>>,
           causes' \subseteq causes \cup {"order", "unlogged"}
    PROVE  Sound'
<1> DEFINE c == unlogged[k]
<1>1. log' = log \/ log' = Append(log, c)
  OBVIOUS
<1>2. log \in Seq(Command) /\ unlogged \in Seq(Command)
  BY TypeOfMemory DEF IInv
<1>3. IsInsert(c) => c.batch # <<>> /\ Domain(vectors) # {}
  BY DEF IInv, PendingOK, IsInsert, Sound, Sourced
<1>4. \A j \in DOMAIN unlogged' : \E i \in DOMAIN unlogged : unlogged'[j] = unlogged[i]
  BY <1>2, RemoveAtOK
<1>5. PICK d \in Nat : Kind(d) BY DEF Sound
<1>6. IsInsert(c) => SameDim(c.batch, d) BY <1>5 DEF Kind
<1> HIDE DEF c
<1>7. Kind(d)'
  BY <1>1, <1>2, <1>4, <1>5, <1>6, SMTT(60) DEF Kind
<1>8. Filled'
  BY <1>1, <1>2, <1>3, SMTT(60) DEF Filled, Sound
<1>9. Sourced'
  BY <1>1, <1>2, <1>3, <1>4 DEF Sourced, Sound
<1>10. Clean' BY DEF Clean, Sound
<1> QED BY <1>7, <1>8, <1>9, <1>10 DEF Sound, Below

LEMMA LogRInv ==
    ASSUME IInv, Sound, NEW k \in DOMAIN unlogged, Log(k) \/ LogFails(k) PROVE Sound'
<1>1. /\ phase = "serving" /\ unlogged' = RemoveAt(unlogged, k)
      /\ log' = log \/ log' = Append(log, unlogged[k])
      /\ UNCHANGED <<vectors, nodes, nextID, phase, pos, snap>>
      /\ causes' \subseteq causes \cup {"order", "unlogged"}
  BY DEF Log, LogFails, memory
<1> QED BY <1>1, LeavesRInv

LEMMA SyncRInv ==
    ASSUME Sound, Sync PROVE Sound'
<1>1. UNCHANGED <<memory, phase, pos, snap, log, unlogged, history>>
  BY DEF Sync
<1>2. PICK d \in Nat : Kind(d) BY DEF Sound
<1>3. Kind(d)' BY <1>1, <1>2 DEF Kind, memory
<1> QED BY <1>1, <1>3 DEF Sound, Clean, Below, Filled, Sourced, memory, history

LEMMA SaveRInv ==
    ASSUME IInv, Sound, Save, NoTombstone' PROVE Sound'
<1>1. /\ snap' = Copy /\ log' = <<>> /\ unlogged = <<>> /\ unlogged' = <<>>
      /\ UNCHANGED <<vectors, nodes, nextID, phase, pos>>
      /\ causes' \subseteq causes \cup {"tombstone"}
  BY DEF Save, memory
<1>2. ~\E i \in Domain(nodes) : \A j \in Live : j < i
  BY DEF Save, NoTombstone
<1>3. /\ Copy.nodes = nodes /\ Domain(Copy.vectors) = Live
      /\ \A i \in Live : Copy.vectors[i] = vectors[i]
  BY DEF Copy, Domain, Live
<1>4. \A i \in Domain(nodes) : \E j \in Live : i <= j
  <2> SUFFICES ASSUME NEW i \in Domain(nodes) PROVE \E j \in Live : i <= j
    OBVIOUS
  <2>1. PICK j \in Live : ~(j < i) BY <1>2
  <2>2. i \in Int /\ j \in Int BY MaxIdAssumption DEF Domain, Live, Id
  <2> QED BY <2>1, <2>2
<1>5. Live \subseteq Domain(vectors) BY DEF Live
<1>6. PICK d \in Nat : Kind(d) BY DEF Sound
<1>7. Kind(d)'
  BY <1>1, <1>3, <1>5, <1>6 DEF Kind
<1>8. Below' BY <1>1, <1>3, <1>4 DEF Below, Sound
<1>9. Filled' /\ Sourced' BY <1>1, <1>3, <1>5 DEF Filled, Sourced
<1>10. Clean' BY <1>1 DEF Clean, Sound
<1> QED BY <1>1, <1>7, <1>8, <1>9, <1>10 DEF Sound

LEMMA RewriteRInv ==
    ASSUME IInv, Sound, Rewrite PROVE Sound'
<1>1. PICK ids \in SetToSeqs(Live) :
        /\ log' = IF ids = <<>> THEN <<>>
                  ELSE <<[op |-> "insert", ids |-> ids,
                          batch |-> [k \in DOMAIN ids |-> vectors[ids[k]]]]>>
        /\ causes' \subseteq causes \cup {"rewrite"}
  BY DEF Rewrite
<1>2. /\ unlogged = <<>> /\ unlogged' = <<>>
      /\ UNCHANGED <<vectors, nodes, nextID, phase, pos, snap>>
  BY DEF Rewrite, memory
<1>3. ids \in Seq(Live)
  <2>1. Live \in SUBSET Id BY DEF Live, Domain
  <2>2. IsFiniteSet(Live) /\ Cardinality(Live) \in Nat BY <2>1, IdFinite
  <2> QED BY <2>2 DEF SetToSeqs
<1> DEFINE batch == [k \in DOMAIN ids |-> vectors[ids[k]]]
           c == [op |-> "insert", ids |-> ids, batch |-> batch]
<1>4. PICK d \in Nat : Kind(d) BY DEF Sound
<1>5. ids # <<>> => /\ c.batch # <<>> /\ Domain(vectors) # {}
                    /\ SameDim(c.batch, d)
  <2> SUFFICES ASSUME ids # <<>> PROVE batch # <<>> /\ Domain(vectors) # {} /\ SameDim(batch, d)
    OBVIOUS
  <2>1. 1 \in DOMAIN ids /\ \A k \in DOMAIN ids : ids[k] \in Live
    BY <1>3
  <2>2. Live \subseteq Domain(vectors) BY DEF Live
  <2>3. batch # <<>>
    <3>1. DOMAIN batch = DOMAIN ids OBVIOUS
    <3> QED BY <2>1, <3>1
  <2>4. SameDim(batch, d)
    BY <1>4, <2>1, <2>2 DEF SameDim, Kind
  <2> QED BY <2>1, <2>2, <2>3, <2>4
<1>6. log' = (IF ids = <<>> THEN <<>> ELSE <<c>>) BY <1>1
<1> HIDE DEF c, batch
<1>7. Kind(d)' BY <1>2, <1>4, <1>5, <1>6 DEF Kind
<1>8. Filled' /\ Sourced' BY <1>2, <1>5, <1>6 DEF Filled, Sourced, Sound
<1>9. Clean' BY <1>1 DEF Clean, Sound
<1> QED BY <1>2, <1>7, <1>8, <1>9 DEF Sound, Below

\* What a process restores has nodes below the next identifier and one dimension.
LEMMA SavedSound ==
    ASSUME IInv, Sound, NEW d \in Nat, Kind(d)
    PROVE  /\ \A i \in Domain(Saved.nodes) : \E j \in Domain(Saved.vectors) : i <= j
           /\ \A i \in Domain(Saved.vectors) : Dim[Saved.vectors[i]] = d
           /\ snap # NoSnapshot => Saved = snap
<1>1. CASE snap = NoSnapshot
  <2>1. Saved.vectors = Nothing /\ Saved.nodes = Nothing
    BY <1>1 DEF Saved
  <2>2. Domain(Nothing) = {} BY DEF Domain, Nothing
  <2> QED BY <1>1, <2>1, <2>2
<1>2. CASE snap # NoSnapshot
  BY <1>2 DEF Saved, Sound, Below, Kind
<1> QED BY <1>1, <1>2

LEMMA RestartRInv ==
    ASSUME IInv, Sound, Restart PROVE Sound'
<1>1. /\ vectors' = Saved.vectors /\ nodes' = Saved.nodes
      /\ nextID' \in NextIdAfter(Saved.vectors)
      /\ phase' = "replaying" /\ pos' = 1 /\ unlogged' = <<>>
      /\ snap' = snap /\ causes' = causes
  BY DEF Restart, Stop, Restore
<1>9. /\ DOMAIN log' \subseteq DOMAIN log /\ \A k \in DOMAIN log' : log'[k] = log[k]
      /\ \A k \in DOMAIN log' : ~(k < 1)
  BY StopOK DEF IInv, Restart
<1>2. PICK d \in Nat : Kind(d) BY DEF Sound
<1>3. /\ \A i \in Domain(Saved.nodes) : \E j \in Domain(Saved.vectors) : i <= j
      /\ \A i \in Domain(Saved.vectors) : Dim[Saved.vectors[i]] = d
      /\ snap # NoSnapshot => Saved = snap
  BY <1>2, SavedSound
<1>4. \A i \in Domain(nodes') : i < nextID'
  <2> SUFFICES ASSUME NEW i \in Domain(Saved.nodes) PROVE i < nextID'
    BY <1>1
  <2>1. PICK j \in Domain(Saved.vectors) : i <= j BY <1>3
  <2>2. j < nextID' /\ nextID' \in Int
    BY <1>1, MaxIdAssumption DEF NextIdAfter
  <2>3. i \in Int /\ j \in Int BY MaxIdAssumption DEF Domain, Id
  <2> QED BY <2>1, <2>2, <2>3
<1>5. Kind(d)' BY <1>1, <1>2, <1>3, <1>9 DEF Kind
<1>6. Below' BY <1>1, <1>4 DEF Below, Sound
<1>7. Filled' BY <1>9 DEF Filled, Sound
<1>8. Sourced' BY <1>1, <1>3, <1>9 DEF Sourced
<1> QED BY <1>1, <1>5, <1>6, <1>7, <1>8 DEF Sound, Clean

\* validateSnapshot finds one dimension.
LEMMA NeverRefused ==
    ASSUME IInv, Sound, RestartRefused PROVE FALSE
<1>1. PICK d \in Nat : Kind(d) BY DEF Sound
<1>2. OneDim(Saved.vectors)
  BY <1>1, SavedSound DEF OneDim
<1> QED BY <1>2 DEF RestartRefused

\* The command that the replay has come to.
LEMMA NextCommand ==
    ASSUME IInv, Sound, pos <= Len(log), NEW d \in Nat, Kind(d)
    PROVE  /\ pos \in DOMAIN log /\ pos \in Nat
           /\ log[pos].op = "insert" =>
                 /\ log[pos].batch \in Seq(Vector) /\ log[pos].batch # <<>>
                 /\ SameDim(log[pos].batch, d)
<1>1. log \in Seq(InsertCmd \cup DeleteCmd) /\ pos \in Nat \ {0}
  BY DEF IInv, TypeOK
<1>2. pos \in DOMAIN log /\ log[pos] \in InsertCmd \cup DeleteCmd
  BY <1>1
<1>3. log[pos].op = "insert" => log[pos] \in InsertCmd
  BY <1>2 DEF DeleteCmd
<1>4. log[pos].op = "insert" => log[pos].batch \in Seq(Vector)
  BY <1>3 DEF InsertCmd
<1> QED BY <1>1, <1>2, <1>4 DEF Sound, Filled, Kind, IsInsert

LEMMA ReplayRInv ==
    ASSUME IInv, Sound, Replay PROVE Sound'
<1>1. /\ phase = "replaying" /\ phase' = phase /\ pos <= Len(log) /\ pos' = pos + 1
      /\ snap' = snap /\ log' = log /\ unlogged' = unlogged /\ causes' = causes
  BY DEF Replay, files, history
<1>2. PICK d \in Nat : Kind(d) BY DEF Sound
<1>3. /\ pos \in DOMAIN log /\ pos \in Nat
      /\ log[pos].op = "insert" =>
            /\ log[pos].batch \in Seq(Vector) /\ log[pos].batch # <<>>
            /\ SameDim(log[pos].batch, d)
  BY <1>1, <1>2, NextCommand
<1>4. \A k \in DOMAIN log : k < pos' => k < pos \/ k = pos
  <2>1. log \in Seq(Command) BY TypeOfMemory DEF IInv
  <2> QED BY <1>1, <1>3, <2>1
<1>5. CASE log[pos].op = "insert" /\ ApplyInsert(log[pos].batch)
  <2>1. /\ \A i \in Domain(nodes') : i < nextID'
        /\ \A i \in Domain(vectors') : Dim[vectors'[i]] = d
        /\ Domain(vectors') # {}
    BY <1>2, <1>3, <1>5, InsertSound DEF Sound, Below, Kind
  <2>2. Kind(d)' BY <1>1, <1>2, <2>1 DEF Kind
  <2> QED BY <1>1, <2>1, <2>2 DEF Sound, Clean, Below, Filled, Sourced
<1>6. CASE log[pos].op = "delete" /\ ApplyDelete(log[pos].ids)
  <2>1. UNCHANGED <<vectors, nodes, nextID>> /\ ~IsInsert(log[pos])
    BY <1>6 DEF ApplyDelete, IsInsert
  <2>2. Kind(d)' BY <1>1, <1>2, <2>1 DEF Kind
  <2>3. Sourced'
    BY <1>1, <1>4, <2>1 DEF Sourced, Sound
  <2> QED BY <1>1, <2>1, <2>2, <2>3 DEF Sound, Clean, Below, Filled
<1> QED BY <1>5, <1>6 DEF Replay

LEMMA NeverFails ==
    ASSUME IInv, Sound, ReplayFails PROVE FALSE
<1>1. PICK d \in Nat : Kind(d) BY DEF Sound
<1> DEFINE batch == log[pos].batch
<1>2. batch \in Seq(Vector) /\ batch # <<>> /\ SameDim(batch, d)
  BY <1>1, NextCommand DEF ReplayFails
<1> HIDE DEF batch
<1>3. ~DimensionsMayClash(batch)
  <2>1. 1 \in DOMAIN batch BY <1>2
  <2>2. Dim[batch[1]] = d BY <1>2, <2>1 DEF SameDim
  <2> QED BY <1>1, <1>2, <2>2 DEF DimensionsMayClash, Kind
<1>4. ~ApplyInsertFails(batch)
  BY <1>2, NothingTaken DEF Sound, Below
<1> QED BY <1>3, <1>4 DEF ReplayFails, batch

LEMMA ReplayDoneRInv ==
    ASSUME IInv, Sound, ReplayDone PROVE Sound'
<1>1. /\ pos > Len(log) /\ phase' = "serving"
      /\ UNCHANGED <<vectors, nodes, nextID, snap, log, unlogged, causes>>
  BY DEF ReplayDone, memory, files, history
<1>2. \A k \in DOMAIN log : k < pos
  <2>1. log \in Seq(Command) /\ pos \in Nat BY TypeOfMemory DEF IInv
  <2> QED BY <1>1, <2>1
<1>3. PICK d \in Nat : Kind(d) BY DEF Sound
<1>4. Kind(d)' BY <1>1, <1>3 DEF Kind
<1> QED BY <1>1, <1>2, <1>4 DEF Sound, Clean, Below, Filled, Sourced

LEMMA SameRInv == Sound /\ UNCHANGED vars => Sound'
<1> SUFFICES ASSUME Sound, UNCHANGED vars PROVE Sound' OBVIOUS
<1>1. PICK d \in Nat : Kind(d) BY DEF Sound
<1>2. Kind(d)' BY <1>1 DEF Kind, vars, memory, files
<1> QED BY <1>2 DEF Sound, Clean, Below, Filled, Sourced, vars, memory, files, history

-----------------------------------------------------------------------------

LEMMA InitRInv == Init => RInv
<1> SUFFICES ASSUME Init PROVE Sound BY DEF RInv
<1>1. Domain(Nothing) = {} BY DEF Domain, Nothing
<1>2. Kind(0) BY <1>1 DEF Init, Kind
<1> QED BY <1>1, <1>2 DEF Init, Sound, Clean, Below, Filled, Sourced

LEMMA NextRInv == IInv /\ RInv /\ [Next]_vars => RInv'
<1> SUFFICES ASSUME IInv, RInv, [Next]_vars, NoTombstone' PROVE Sound'
  BY DEF RInv
<1>1. causes \subseteq causes'
  BY DEF Next, Insert, InsertFails, ApplyInsertFails, Delete, Log, LogFails, Sync, Save, Rewrite,
         Restart, RestartRefused, Stop, Replay, ReplayFails, ReplayDone, vars, history
<1>2. Sound BY <1>1 DEF RInv, NoTombstone
<1>3. ASSUME NEW batch \in Batch, InsertFails(batch) PROVE FALSE
  <2>1. batch \in Seq(Vector) BY BatchAssumption
  <2> QED BY <1>2, <1>3, <2>1, NothingTaken DEF InsertFails, Sound, Below
<1>4. CASE \E batch \in Batch : Insert(batch) BY <1>2, <1>4, InsertRInv
<1>5. CASE \E ids \in Deletion : Delete(ids) BY <1>2, <1>5, DeleteRInv
<1>6. CASE \E k \in DOMAIN unlogged : Log(k) \/ LogFails(k) BY <1>2, <1>6, LogRInv
<1>15. CASE Sync BY <1>2, <1>15, SyncRInv
<1>7. CASE Save BY <1>2, <1>7, SaveRInv
<1>8. CASE Rewrite BY <1>2, <1>8, RewriteRInv
<1>9. CASE Restart BY <1>2, <1>9, RestartRInv
<1>10. CASE RestartRefused BY <1>2, <1>10, NeverRefused
<1>11. CASE Replay BY <1>2, <1>11, ReplayRInv
<1>12. CASE ReplayFails BY <1>2, <1>12, NeverFails
<1>13. CASE ReplayDone BY <1>2, <1>13, ReplayDoneRInv
<1>14. CASE UNCHANGED vars BY <1>2, <1>14, SameRInv
<1> QED
  BY <1>3, <1>4, <1>5, <1>6, <1>7, <1>8, <1>9, <1>10, <1>11, <1>12, <1>13, <1>14, <1>15
  DEF Next

\* As long as no snapshot was taken with a tombstone above all live vectors, the
\* index refuses no insertion, live or replayed, every snapshot passes
\* validateSnapshot and no recovery fails.
THEOREM RecoveryInvariance == Spec => []RInv
<1>1. IInv /\ RInv /\ [Next]_vars => RInv' BY NextRInv
<1> QED BY InitRInv, <1>1, Invariance, PTL DEF Spec

\* Recovery fails only after a tombstone was saved above all live vectors.
THEOREM RefusedNeedsTombstone == Spec => []RefusedOnlyByTombstone
<1>1. RInv => RefusedOnlyByTombstone
  BY DEF RInv, NoTombstone, Sound, RefusedOnlyByTombstone
<1> QED BY <1>1, RecoveryInvariance, PTL

-----------------------------------------------------------------------------
(***************************************************************************)
(* Why a recovery brings back what clients were told, and why identifiers  *)
(* are not answered twice.  The nodes of the index are always numbered     *)
(* 1, 2, ..., so that an insertion takes the next numbers or is refused.   *)
(* The commands of the log, followed by those on their way to it, lead     *)
(* through a trace of maps from the snapshot to the memory, as long as     *)
(* every command that was executed has been logged, and what clients were  *)
(* told when the log was shorter are the points of that trace: a crash     *)
(* that cuts the log goes back to one of them.  Handlers log in any order: *)
(* a command that is logged before others it commutes with takes its       *)
(* numbers in the new place too, and leaves a trace of the same kind.      *)
(***************************************************************************)

\* Identifiers are consecutive in the index and in the snapshot of it.  A process
\* that has restored none gives every number.
Dense ==
    /\ \E n \in 0 .. MaxId : /\ Domain(nodes) = 1 .. n /\ nextID <= n + 1
                             /\ snap = NoSnapshot => nextID = n + 1
    /\ \E n \in 0 .. MaxId : Domain(Saved.nodes) = 1 .. n

\* A point of a trace: the live vectors and the largest identifier given.
Point == [map : Map, last : Nat]

\* What a command makes of it.
After(s, c) ==
    IF c.op = "insert"
    THEN [map |-> [i \in Id |-> IF i \in ToSet(c.ids)
                                THEN c.batch[i - c.ids[1] + 1] ELSE s.map[i]],
          last |-> s.last + Len(c.batch)]
    ELSE [map |-> [i \in Id |-> IF i \in c.ids THEN Absent ELSE s.map[i]],
          last |-> s.last]

\* An insertion has the identifiers that follow.
Numbered(s, c) ==
    c.op = "insert" => /\ c.batch # <<>>
                       /\ c.ids = [k \in DOMAIN c.batch |-> s.last + k]

\* t leads through the commands of the sequence.
Leads(t, s) ==
    /\ t \in [0 .. Len(s) -> Point]
    /\ \A i \in 1 .. Len(s) : t[i] = After(t[i - 1], s[i]) /\ Numbered(t[i - 1], s[i])

\* All commands since the snapshot.
Course == log \o unlogged

\* The memory is at a point of the trace.
Matches(s) ==
    /\ Domain(nodes) = 1 .. s.last
    /\ Clean => s.map = Current

\* What clients have been told at a point of the trace.
Tells(s, a) == a.ids \subseteq 1 .. s.last /\ (Clean => s.map = a.live)

\* The trace starts at the snapshot, passes what clients were told by each part of
\* the log that a crash may leave and has come to the memory.
Explains(t) ==
    /\ Leads(t, Course)
    /\ t[0].map = Saved.vectors /\ Domain(Saved.nodes) = 1 .. t[0].last
    /\ \A n \in durable .. Len(log) : Tells(t[n], told[n + 1])
    /\ phase = "serving" => Matches(t[Len(Course)])
    /\ phase = "replaying" => pos <= Len(log) + 1 /\ Matches(t[pos - 1])

Ordered == causes \cap {"order", "rewrite", "unlogged"} = {}

TInv ==
    /\ Dense
    /\ phase # "serving" => unlogged = <<>>
    /\ Ordered => \E t \in [0 .. Len(Course) -> Point] : Explains(t)

-----------------------------------------------------------------------------
(* Points and commands.                                                    *)

LEMMA SameTop ==
    ASSUME NEW a \in Nat, NEW b \in Nat, 1 .. a = 1 .. b PROVE a = b
<1>1. a > 0 => a \in 1 .. b OBVIOUS
<1>2. b > 0 => b \in 1 .. a OBVIOUS
<1> QED BY <1>1, <1>2

\* An insertion that has its numbers.
LEMMA InsertAfter ==
    ASSUME NEW s \in Point, NEW c \in Command, c.op = "insert", Numbered(s, c)
    PROVE  /\ c.batch \in Seq(Vector) /\ Len(c.batch) \in Nat \ {0}
           /\ c.ids[1] = s.last + 1
           /\ ToSet(c.ids) = (s.last + 1) .. (s.last + Len(c.batch))
           /\ ToSet(c.ids) \subseteq Id
           /\ After(s, c).last = s.last + Len(c.batch)
           /\ After(s, c).map = [i \in Id |-> IF i \in ToSet(c.ids)
                                              THEN c.batch[i - s.last] ELSE s.map[i]]
           /\ After(s, c) \in Point
<1>1. c \in InsertCmd BY DEF Command, DeleteCmd
<1>2. c.batch \in Seq(Vector) /\ c.batch # <<>> /\ c.ids \in Seq(Id) /\ s.last \in Nat
      /\ s.map \in Map
  BY <1>1 DEF InsertCmd, Numbered, Point
<1>3. Len(c.batch) \in Nat \ {0} /\ DOMAIN c.batch = 1 .. Len(c.batch) BY <1>2
<1>4. c.ids = [k \in DOMAIN c.batch |-> s.last + k] BY DEF Numbered
<1>5. c.ids[1] = s.last + 1 BY <1>3, <1>4
<1>6. ToSet(c.ids) = {c.ids[k] : k \in DOMAIN c.ids} BY DEF ToSet
<1>7. DOMAIN c.ids = 1 .. Len(c.batch) /\ \A k \in 1 .. Len(c.batch) : c.ids[k] = s.last + k
  BY <1>3, <1>4
<1>8. ToSet(c.ids) = (s.last + 1) .. (s.last + Len(c.batch))
  <2>1. ASSUME NEW i \in (s.last + 1) .. (s.last + Len(c.batch)) PROVE i \in ToSet(c.ids)
    <3>1. i - s.last \in 1 .. Len(c.batch) /\ s.last + (i - s.last) = i
      BY <1>2, <1>3
    <3> QED BY <1>6, <1>7, <3>1
  <2>2. ASSUME NEW i \in ToSet(c.ids) PROVE i \in (s.last + 1) .. (s.last + Len(c.batch))
    BY <1>2, <1>3, <1>6, <1>7
  <2> QED BY <2>1, <2>2
<1>9. ToSet(c.ids) \subseteq Id BY <1>2, <1>6
<1> DEFINE m == [i \in Id |-> IF i \in ToSet(c.ids) THEN c.batch[i - s.last] ELSE s.map[i]]
<1>10. After(s, c) = [map |-> m, last |-> s.last + Len(c.batch)]
  <2>1. \A i \in Id : i - c.ids[1] + 1 = i - s.last
    BY <1>2, <1>5, MaxIdAssumption DEF Id
  <2> QED BY <2>1 DEF After
<1>11. m \in Map
  <2> SUFFICES ASSUME NEW i \in Id PROVE m[i] \in Vector \cup {Absent}
    BY DEF Map
  <2>1. CASE i \in ToSet(c.ids)
    <3>1. i - s.last \in DOMAIN c.batch BY <1>2, <1>3, <1>8, <2>1
    <3> QED BY <1>2, <2>1, <3>1
  <2>2. CASE i \notin ToSet(c.ids) BY <1>2, <2>2 DEF Map
  <2> QED BY <2>1, <2>2
<1> HIDE DEF m
<1>12. After(s, c) \in Point BY <1>2, <1>3, <1>10, <1>11 DEF Point
<1> QED BY <1>2, <1>3, <1>5, <1>8, <1>9, <1>10, <1>12 DEF m

LEMMA DeleteAfter ==
    ASSUME NEW s \in Point, NEW c \in Command, c.op = "delete"
    PROVE  /\ After(s, c).last = s.last
           /\ After(s, c).map = [i \in Id |-> IF i \in c.ids THEN Absent ELSE s.map[i]]
           /\ After(s, c) \in Point
<1> DEFINE m == [i \in Id |-> IF i \in c.ids THEN Absent ELSE s.map[i]]
<1>1. After(s, c) = [map |-> m, last |-> s.last] BY DEF After
<1>2. m \in Map BY DEF Map, Point
<1> HIDE DEF m
<1>3. After(s, c) \in Point BY <1>1, <1>2 DEF Point
<1> QED BY <1>1, <1>3 DEF m

LEMMA CommandKinds ==
    ASSUME NEW c \in Command PROVE c.op = "insert" \/ c.op = "delete"
BY DEF Command, InsertCmd, DeleteCmd

\* A command leads to a point, and no number is given back.
LEMMA AfterOK ==
    ASSUME NEW s \in Point, NEW c \in Command, Numbered(s, c)
    PROVE  After(s, c) \in Point /\ s.last <= After(s, c).last
<1>1. s.last \in Nat BY DEF Point
<1>2. CASE c.op = "insert"
  <2>1. /\ Len(c.batch) \in Nat \ {0} /\ After(s, c).last = s.last + Len(c.batch)
        /\ After(s, c) \in Point
    BY <1>2, InsertAfter
  <2> QED BY <1>1, <2>1
<1>3. CASE c.op = "delete"
  <2>1. After(s, c).last = s.last /\ After(s, c) \in Point
    BY <1>3, DeleteAfter
  <2> QED BY <1>1, <2>1
<1> QED BY <1>2, <1>3, CommandKinds

LEMMA SamePoint ==
    ASSUME NEW s \in Point, NEW r \in Point, s.map = r.map, s.last = r.last
    PROVE  s = r
BY DEF Point

\* Commands that commute lead to one point in either order, with the same numbers.
LEMMA AfterCommutes ==
    ASSUME NEW s \in Point, NEW c \in Command, NEW d \in Command, Commute(c, d),
           Numbered(s, d), Numbered(After(s, d), c)
    PROVE  /\ Numbered(s, c) /\ Numbered(After(s, c), d)
           /\ After(After(s, c), d) = After(After(s, d), c)
<1>1. CASE c.op = "insert" /\ d.op = "delete"
  <2>1. /\ After(s, d).last = s.last /\ After(s, d) \in Point
        /\ After(s, d).map = [i \in Id |-> IF i \in d.ids THEN Absent ELSE s.map[i]]
    BY <1>1, DeleteAfter
  <2>2. Numbered(s, c) BY <2>1 DEF Numbered
  <2>3. Numbered(After(s, c), d) BY <1>1 DEF Numbered
  <2>4. ToSet(c.ids) \cap d.ids = {} BY <1>1 DEF Commute
  <2>5. /\ After(s, c).last = s.last + Len(c.batch) /\ After(s, c) \in Point
        /\ After(s, c).map = [i \in Id |-> IF i \in ToSet(c.ids) THEN c.batch[i - s.last]
                                           ELSE s.map[i]]
    BY <1>1, <2>2, InsertAfter
  <2>6. /\ After(After(s, d), c).last = s.last + Len(c.batch) /\ After(After(s, d), c) \in Point
        /\ After(After(s, d), c).map = [i \in Id |-> IF i \in ToSet(c.ids) THEN c.batch[i - s.last]
                                                     ELSE After(s, d).map[i]]
    BY <1>1, <2>1, InsertAfter
  <2>7. /\ After(After(s, c), d).last = s.last + Len(c.batch) /\ After(After(s, c), d) \in Point
        /\ After(After(s, c), d).map = [i \in Id |-> IF i \in d.ids THEN Absent
                                                     ELSE After(s, c).map[i]]
    BY <1>1, <2>5, DeleteAfter
  <2>8. After(After(s, c), d).map = After(After(s, d), c).map
    BY <2>1, <2>4, <2>5, <2>6, <2>7
  <2> QED BY <2>2, <2>3, <2>6, <2>7, <2>8, SamePoint
<1>2. CASE c.op = "delete" /\ d.op = "insert"
  <2>1. /\ After(s, c).last = s.last /\ After(s, c) \in Point
        /\ After(s, c).map = [i \in Id |-> IF i \in c.ids THEN Absent ELSE s.map[i]]
    BY <1>2, DeleteAfter
  <2>2. Numbered(After(s, c), d) BY <2>1 DEF Numbered
  <2>3. Numbered(s, c) BY <1>2 DEF Numbered
  <2>4. ToSet(d.ids) \cap c.ids = {} BY <1>2 DEF Commute
  <2>5. /\ After(s, d).last = s.last + Len(d.batch) /\ After(s, d) \in Point
        /\ After(s, d).map = [i \in Id |-> IF i \in ToSet(d.ids) THEN d.batch[i - s.last]
                                           ELSE s.map[i]]
    BY <1>2, InsertAfter
  <2>6. /\ After(After(s, c), d).last = s.last + Len(d.batch) /\ After(After(s, c), d) \in Point
        /\ After(After(s, c), d).map = [i \in Id |-> IF i \in ToSet(d.ids) THEN d.batch[i - s.last]
                                                     ELSE After(s, c).map[i]]
    BY <1>2, <2>1, <2>2, InsertAfter
  <2>7. /\ After(After(s, d), c).last = s.last + Len(d.batch) /\ After(After(s, d), c) \in Point
        /\ After(After(s, d), c).map = [i \in Id |-> IF i \in c.ids THEN Absent
                                                     ELSE After(s, d).map[i]]
    BY <1>2, <2>5, DeleteAfter
  <2>8. After(After(s, c), d).map = After(After(s, d), c).map
    BY <2>1, <2>4, <2>5, <2>6, <2>7
  <2> QED BY <2>2, <2>3, <2>6, <2>7, <2>8, SamePoint
<1>3. CASE c.op = "delete" /\ d.op = "delete"
  <2>1. Numbered(s, c) /\ Numbered(After(s, c), d) BY <1>3 DEF Numbered
  <2>2. /\ After(s, c).last = s.last /\ After(s, c) \in Point
        /\ After(s, c).map = [i \in Id |-> IF i \in c.ids THEN Absent ELSE s.map[i]]
        /\ After(s, d).last = s.last /\ After(s, d) \in Point
        /\ After(s, d).map = [i \in Id |-> IF i \in d.ids THEN Absent ELSE s.map[i]]
    BY <1>3, DeleteAfter
  <2>3. /\ After(After(s, c), d).last = s.last /\ After(After(s, c), d) \in Point
        /\ After(After(s, d), c).last = s.last /\ After(After(s, d), c) \in Point
        /\ After(After(s, c), d).map = [i \in Id |-> IF i \in d.ids THEN Absent
                                                     ELSE After(s, c).map[i]]
        /\ After(After(s, d), c).map = [i \in Id |-> IF i \in c.ids THEN Absent
                                                     ELSE After(s, d).map[i]]
    BY <1>3, <2>2, DeleteAfter
  <2>4. After(After(s, c), d).map = After(After(s, d), c).map
    BY <2>2, <2>3
  <2> QED BY <2>1, <2>3, <2>4, SamePoint
<1>4. ~(c.op = "insert" /\ d.op = "insert") BY DEF Commute
<1> QED BY <1>1, <1>2, <1>3, <1>4, CommandKinds

-----------------------------------------------------------------------------
(* Sequences of commands.                                                  *)

LEMMA CourseOK ==
    ASSUME NEW a \in Seq(Command), NEW b \in Seq(Command)
    PROVE  /\ a \o b \in Seq(Command) /\ Len(a \o b) = Len(a) + Len(b)
           /\ \A i \in 1 .. Len(a) : (a \o b)[i] = a[i]
           /\ \A i \in 1 .. Len(b) : (a \o b)[Len(a) + i] = b[i]
           /\ \A i \in Len(a) + 1 .. Len(a) + Len(b) : (a \o b)[i] = b[i - Len(a)]
<1>1. /\ a \o b \in Seq(Command) /\ Len(a \o b) = Len(a) + Len(b)
      /\ \A j \in 1 .. (Len(a) + Len(b)) :
            (a \o b)[j] = IF j <= Len(a) THEN a[j] ELSE b[j - Len(a)]
  BY ConcatProperties
<1>2. Len(a) \in Nat /\ Len(b) \in Nat OBVIOUS
<1> HIDE DEF Command
<1>3. ASSUME NEW i \in 1 .. Len(b) PROVE (a \o b)[Len(a) + i] = b[i]
  <2>1. Len(a) + i \in 1 .. (Len(a) + Len(b)) /\ ~(Len(a) + i <= Len(a)) /\ (Len(a) + i) - Len(a) = i
    BY <1>2
  <2> QED BY <1>1, <2>1
<1>4. ASSUME NEW i \in Len(a) + 1 .. Len(a) + Len(b) PROVE (a \o b)[i] = b[i - Len(a)]
  BY <1>1, <1>2
<1>5. ASSUME NEW i \in 1 .. Len(a) PROVE (a \o b)[i] = a[i]
  BY <1>1, <1>2
<1> QED BY <1>1, <1>3, <1>4, <1>5

\* One command more at the end.
LEMMA LeadsOn ==
    ASSUME NEW s \in Seq(Command), NEW c \in Command, NEW t \in [0 .. Len(s) -> Point],
           Leads(t, s), Numbered(t[Len(s)], c), NEW u,
           u = [i \in 0 .. Len(s) + 1 |-> IF i <= Len(s) THEN t[i] ELSE After(t[Len(s)], c)]
    PROVE  /\ u \in [0 .. Len(s) + 1 -> Point]
           /\ Leads(u, Append(s, c))
<1>1. Len(s) \in Nat /\ t[Len(s)] \in Point BY DEF Leads
<1>2. After(t[Len(s)], c) \in Point BY <1>1, AfterOK
<1>3. u \in [0 .. Len(s) + 1 -> Point]
  <2> SUFFICES ASSUME NEW i \in 0 .. Len(s) + 1 PROVE u[i] \in Point
    OBVIOUS
  <2>1. CASE i <= Len(s)
    <3>1. i \in 0 .. Len(s) BY <1>1, <2>1
    <3> QED BY <2>1, <3>1
  <2>2. CASE ~(i <= Len(s)) BY <1>2, <2>2
  <2> QED BY <2>1, <2>2
<1>4. /\ Append(s, c) \in Seq(Command) /\ Len(Append(s, c)) = Len(s) + 1
      /\ \A i \in 1 .. Len(s) : Append(s, c)[i] = s[i]
      /\ Append(s, c)[Len(s) + 1] = c
  OBVIOUS
<1>5. ASSUME NEW i \in 1 .. Len(s) + 1
      PROVE  /\ u[i] = After(u[i - 1], Append(s, c)[i])
             /\ Numbered(u[i - 1], Append(s, c)[i])
  <2>1. i - 1 \in 0 .. Len(s) /\ i - 1 \in 0 .. Len(s) + 1 /\ u[i - 1] = t[i - 1]
    BY <1>1
  <2>2. CASE i <= Len(s)
    <3>1. i \in 1 .. Len(s) /\ u[i] = t[i] BY <1>1, <2>2
    <3>2. t[i] = After(t[i - 1], s[i]) /\ Numbered(t[i - 1], s[i]) BY <3>1 DEF Leads
    <3> QED BY <1>4, <2>1, <3>1, <3>2
  <2>3. CASE i = Len(s) + 1
    <3>1. u[i] = After(t[Len(s)], c) BY <1>1, <2>3
    <3>2. i - 1 = Len(s) BY <1>1, <2>3
    <3> QED BY <1>4, <2>1, <2>3, <3>1, <3>2
  <2> QED BY <1>1, <2>2, <2>3
<1> QED BY <1>3, <1>4, <1>5 DEF Leads

\* s2 is s with its command at p moved to l + 1.
Moves(s, s2, l, p) ==
    /\ Len(s2) = Len(s) /\ l \in Nat /\ p \in l + 1 .. Len(s)
    /\ \A i \in 1 .. Len(s) : i <= l \/ i > p => s2[i] = s[i]
    /\ \A i \in l + 2 .. p : s2[i] = s[i - 1]
    /\ s2[l + 1] = s[p]

Passes(s, l, p) == \A i \in l + 1 .. p - 1 : Commute(s[p], s[i])

\* The trace t of s becomes this one.
Moved(t, s, l, p) ==
    [i \in 0 .. Len(s) |-> IF i \in l + 1 .. p THEN After(t[i - 1], s[p]) ELSE t[i]]

\* A command that commutes with those before it, down to l, has its numbers there
\* too, and can be moved.
LEMMA Overtakes ==
    ASSUME NEW s \in Seq(Command), NEW t \in [0 .. Len(s) -> Point], Leads(t, s),
           NEW l \in Nat, NEW p \in l + 1 .. Len(s),
           \A i \in l + 1 .. p - 1 : Commute(s[p], s[i])
    PROVE  \A i \in l .. p - 1 : Numbered(t[i], s[p])
<1> DEFINE T == {j \in Nat : j <= p - 1 - l => Numbered(t[l + j], s[p])}
<1>1. Len(s) \in Nat /\ p \in Nat /\ l <= p - 1 /\ p <= Len(s) OBVIOUS
<1>2. p - 1 - l \in Nat BY <1>1
<1>3. p - 1 - l \in T
  <2>1. p \in 1 .. Len(s) /\ l + (p - 1 - l) = p - 1 BY <1>1
  <2> QED BY <1>2, <2>1 DEF Leads
<1>4. ASSUME NEW j \in 0 .. (p - 1 - l) - 1, j + 1 \in T PROVE j \in T
  <2> DEFINE i == l + j + 1
  <2>1. /\ j \in Nat /\ j + 1 <= p - 1 - l /\ l + (j + 1) = i /\ i - 1 = l + j
        /\ i \in l + 1 .. p - 1 /\ i \in 1 .. Len(s) /\ i - 1 \in 0 .. Len(s) /\ p \in 1 .. Len(s)
    BY <1>1
  <2>2. Numbered(t[i], s[p])
    BY <1>4, <2>1
  <2>3. t[i] = After(t[i - 1], s[i]) /\ Numbered(t[i - 1], s[i]) BY <2>1 DEF Leads
  <2>4. Commute(s[p], s[i]) BY <2>1
  <2>5. t[i - 1] \in Point /\ s[p] \in Command /\ s[i] \in Command BY <2>1
  <2> HIDE DEF i
  <2>6. Numbered(t[i - 1], s[p]) BY <2>2, <2>3, <2>4, <2>5, AfterCommutes
  <2> QED BY <2>1, <2>6
<1>5. \A j \in 0 .. p - 1 - l : j \in T
  <2> HIDE DEF T
  <2> QED BY <1>2, <1>3, <1>4, DownFrom
<1>6. ASSUME NEW i \in l .. p - 1 PROVE Numbered(t[i], s[p])
  <2>1. i - l \in 0 .. p - 1 - l /\ l + (i - l) = i BY <1>1
  <2>2. i - l \in T BY <1>5, <2>1
  <2> QED BY <2>1, <2>2
<1> QED BY <1>6

\* The trace of the sequence in which it is moved.
LEMMA MovedTrace ==
    ASSUME NEW s \in Seq(Command), NEW s2 \in Seq(Command), NEW t \in [0 .. Len(s) -> Point],
           Leads(t, s), NEW l, NEW p, Moves(s, s2, l, p), Passes(s, l, p),
           NEW u, u = Moved(t, s, l, p)
    PROVE  /\ u \in [0 .. Len(s) -> Point] /\ Leads(u, s2)
           /\ \A i \in 0 .. Len(s) : i <= l \/ i >= p => u[i] = t[i]
           /\ u[l + 1] = After(t[l], s[p]) /\ Numbered(t[l], s[p])
<1>1. /\ Len(s) \in Nat /\ l \in Nat /\ p \in l + 1 .. Len(s) /\ p \in 1 .. Len(s)
      /\ Len(s2) = Len(s)
  BY DEF Moves
<1>2. \A i \in l .. p - 1 : Numbered(t[i], s[p]) BY <1>1, Overtakes DEF Passes
<1>3. s[p] \in Command BY <1>1
<1>4. ASSUME NEW i \in 1 .. Len(s)
      PROVE  /\ t[i - 1] \in Point /\ s[i] \in Command
             /\ t[i] = After(t[i - 1], s[i]) /\ Numbered(t[i - 1], s[i])
  <2>1. i - 1 \in 0 .. Len(s) BY <1>1
  <2> QED BY <2>1 DEF Leads
<1>5. u \in [0 .. Len(s) -> Point]
  <2> SUFFICES ASSUME NEW i \in 0 .. Len(s) PROVE u[i] \in Point BY DEF Moved
  <2>1. CASE i \in l + 1 .. p
    <3>1. i \in 1 .. Len(s) /\ i - 1 \in l .. p - 1 BY <1>1, <2>1
    <3>2. t[i - 1] \in Point /\ Numbered(t[i - 1], s[p]) BY <1>2, <1>4, <3>1
    <3> QED BY <1>3, <2>1, <3>2, AfterOK DEF Moved
  <2>2. CASE i \notin l + 1 .. p BY <2>2 DEF Moved
  <2> QED BY <2>1, <2>2
<1>6. u[p] = t[p]
  <2>1. p \in 0 .. Len(s) /\ p \in l + 1 .. p BY <1>1
  <2>2. t[p] = After(t[p - 1], s[p]) BY <1>1, <1>4
  <2> QED BY <2>1, <2>2 DEF Moved
<1>7. ASSUME NEW i \in 0 .. Len(s), i <= l \/ i >= p PROVE u[i] = t[i]
  <2>1. CASE i = p BY <1>6, <2>1
  <2>2. CASE i # p
    <3>1. i \notin l + 1 .. p BY <1>1, <1>7, <2>2
    <3> QED BY <3>1 DEF Moved
  <2> QED BY <2>1, <2>2
<1>8. u[l + 1] = After(t[l], s[p]) /\ Numbered(t[l], s[p])
  <2>1. l + 1 \in 0 .. Len(s) /\ l + 1 \in l + 1 .. p /\ (l + 1) - 1 = l /\ l \in l .. p - 1
    BY <1>1
  <2> QED BY <1>2, <2>1 DEF Moved
<1>9. ASSUME NEW i \in 1 .. Len(s)
      PROVE  u[i] = After(u[i - 1], s2[i]) /\ Numbered(u[i - 1], s2[i])
  <2>1. i \in 0 .. Len(s) /\ i - 1 \in 0 .. Len(s) OBVIOUS
  <2>2. CASE i <= l \/ i > p
    <3>1. s2[i] = s[i] BY <2>2 DEF Moves
    <3>2. (i <= l \/ i >= p) /\ (i - 1 <= l \/ i - 1 >= p) BY <1>1, <2>2
    <3>3. u[i] = t[i] /\ u[i - 1] = t[i - 1] BY <1>7, <2>1, <3>2
    <3> QED BY <1>4, <3>1, <3>3
  <2>3. CASE i = l + 1
    <3>1. s2[i] = s[p] BY <2>3 DEF Moves
    <3>2. i - 1 = l /\ l <= l BY <1>1, <2>3
    <3>3. u[i - 1] = t[l] BY <1>7, <2>1, <3>2
    <3> QED BY <1>8, <2>3, <3>1, <3>3
  <2>4. CASE i \in l + 2 .. p
    <3>1. s2[i] = s[i - 1] BY <2>4 DEF Moves
    <3>2. /\ i - 1 \in 1 .. Len(s) /\ i - 1 \in l + 1 .. p - 1 /\ (i - 1) - 1 = i - 2
          /\ i \in l + 1 .. p /\ i - 1 \in l + 1 .. p
      BY <1>1, <2>4
    <3>3. u[i] = After(t[i - 1], s[p]) /\ u[i - 1] = After(t[i - 2], s[p])
      BY <2>1, <3>2 DEF Moved
    <3>4. /\ t[i - 2] \in Point /\ s[i - 1] \in Command
          /\ t[i - 1] = After(t[i - 2], s[i - 1]) /\ Numbered(t[i - 2], s[i - 1])
      BY <1>4, <3>2
    <3>5. Numbered(t[i - 1], s[p])
      <4>1. i - 1 \in l .. p - 1 BY <1>1, <2>4
      <4> QED BY <1>2, <4>1
    <3>6. Commute(s[p], s[i - 1]) BY <3>2 DEF Passes
    <3>7. /\ Numbered(After(t[i - 2], s[p]), s[i - 1])
          /\ After(After(t[i - 2], s[p]), s[i - 1]) = After(After(t[i - 2], s[i - 1]), s[p])
      BY <1>3, <3>4, <3>5, <3>6, AfterCommutes
    <3> QED BY <3>1, <3>3, <3>4, <3>7
  <2> QED BY <1>1, <2>2, <2>3, <2>4
<1> QED BY <1>1, <1>5, <1>7, <1>8, <1>9 DEF Leads

-----------------------------------------------------------------------------
(* The memory.                                                             *)

LEMMA LiveType ==
    ASSUME MemoryType
    PROVE  /\ Current \in Map /\ Live \subseteq Domain(vectors) /\ Domain(vectors) \subseteq Id
           /\ Domain(nodes) \subseteq Id
           /\ Domain(Current) = Live
BY DEF MemoryType, Current, Live, Domain, Map

LEMMA NewIdsAre ==
    ASSUME nextID \in 1 .. (MaxId + 1), NEW n \in Nat
    PROVE  NewIds(n) = nextID .. (nextID + n - 1) /\ NewIds(0) = {}
           /\ (n > 0 => nextID \in NewIds(n))
BY MaxIdAssumption DEF NewIds

\* An insertion that succeeds takes the numbers after the last node.
LEMMA InsertDense ==
    ASSUME IInv, Dense, NEW batch \in Seq(Vector), ApplyInsert(batch),
           NEW n \in Nat, Domain(nodes) = 1 .. n
    PROVE  /\ batch # <<>> => nextID = n + 1
           /\ nextID + Len(batch) - 1 <= MaxId
           /\ Domain(nodes') = 1 .. (n + Len(batch))
           /\ nextID' = nextID + Len(batch)
<1> DEFINE b == Len(batch)
<1>1. /\ b \in Nat /\ b \in 0 .. Len(batch) /\ nextID \in 1 .. (MaxId + 1) /\ nextID + b - 1 <= MaxId
      /\ nodes \in Map
  BY DEF IInv, TypeOK, ApplyInsert, Room
<1>2. nodes' = With(nodes, batch, b) /\ nextID' = nextID + b
  BY DEF ApplyInsert, Store
<1>3. Domain(nodes') = Domain(nodes) \cup NewIds(b)
  BY <1>1, <1>2, WithLemma
<1>4. nextID <= n + 1
  <2>1. PICK m \in 0 .. MaxId : Domain(nodes) = 1 .. m /\ nextID <= m + 1 BY DEF Dense
  <2>2. m = n BY <2>1, SameTop
  <2> QED BY <2>1, <2>2
<1>5. CASE batch = <<>>
  <2>1. b = 0 BY <1>5
  <2>2. NewIds(b) = {} BY <1>1, <2>1, NewIdsAre
  <2> QED BY <1>1, <1>2, <1>3, <1>5, <2>1, <2>2
<1>6. CASE batch # <<>>
  <2>1. b > 0 /\ 1 \in DOMAIN batch BY <1>1, <1>6
  <2>2. nodes[nextID] = Absent
    <3>1. nodes[nextID + 1 - 1] = Absent BY <2>1 DEF ApplyInsert, Taken
    <3> QED BY <1>1, <3>1, MaxIdAssumption
  <2>3. nextID \notin Domain(nodes) BY <2>2 DEF Domain
  <2>4. nextID = n + 1 BY <1>1, <1>4, <2>3, MaxIdAssumption
  <2>5. NewIds(b) = (n + 1) .. (n + 1 + b - 1) BY <1>1, <2>4, NewIdsAre
  <2>6. (1 .. n) \cup ((n + 1) .. (n + 1 + b - 1)) = 1 .. (n + b) BY <1>1
  <2> QED BY <1>1, <1>2, <1>3, <2>4, <2>5, <2>6
<1> QED BY <1>5, <1>6

LEMMA InsertKeepsDense ==
    ASSUME IInv, Dense, NEW batch \in Seq(Vector), ApplyInsert(batch), snap' = snap
    PROVE  Dense'
<1>1. PICK n \in 0 .. MaxId : /\ Domain(nodes) = 1 .. n /\ nextID <= n + 1
                              /\ snap = NoSnapshot => nextID = n + 1
  BY DEF Dense
<1>2. n \in Nat /\ MaxId \in Nat /\ Len(batch) \in Nat /\ nextID \in Nat
  BY MaxIdAssumption DEF IInv, TypeOK
<1>3. /\ batch # <<>> => nextID = n + 1
      /\ nextID + Len(batch) - 1 <= MaxId
      /\ Domain(nodes') = 1 .. (n + Len(batch))
      /\ nextID' = nextID + Len(batch)
  BY <1>1, <1>2, InsertDense
<1>4. batch = <<>> => Len(batch) = 0 OBVIOUS
<1>5. /\ n + Len(batch) \in 0 .. MaxId /\ nextID' <= (n + Len(batch)) + 1
      /\ snap' = NoSnapshot => nextID' = (n + Len(batch)) + 1
  BY <1>1, <1>2, <1>3, <1>4
<1>6. \E m \in 0 .. MaxId : Domain(Saved.nodes)' = 1 .. m
  BY DEF Dense, Saved, Domain
<1>7. Domain(nodes)' = 1 .. (n + Len(batch)) BY <1>3 DEF Domain
<1> QED BY <1>5, <1>6, <1>7 DEF Dense

\* It takes the memory to the next point.
LEMMA InsertPoint ==
    ASSUME IInv, Dense, NEW c \in Command, c.op = "insert", ApplyInsert(c.batch),
           NEW s \in Point, Matches(s), Numbered(s, c), Clean' => Clean
    PROVE  Matches(After(s, c))'
<1> DEFINE b == Len(c.batch)
<1>1. /\ c.batch \in Seq(Vector) /\ b \in Nat \ {0}
      /\ ToSet(c.ids) = (s.last + 1) .. (s.last + b)
      /\ After(s, c).last = s.last + b
      /\ After(s, c).map = [i \in Id |-> IF i \in ToSet(c.ids)
                                         THEN c.batch[i - s.last] ELSE s.map[i]]
  BY InsertAfter
<1>2. s.last \in Nat /\ Domain(nodes) = 1 .. s.last BY DEF Point, Matches
<1>3. /\ nextID = s.last + 1 /\ nextID + b - 1 <= MaxId
      /\ Domain(nodes') = 1 .. (s.last + b)
  <2>1. c.batch # <<>> BY <1>1
  <2> QED BY <1>1, <1>2, <2>1, InsertDense
<1>4. /\ vectors \in Map /\ nextID \in 1 .. (MaxId + 1) /\ b \in 0 .. Len(c.batch)
      /\ vectors' = With(vectors, c.batch, b) /\ deletedIDs' = deletedIDs
  BY <1>1 DEF IInv, TypeOK, ApplyInsert, Store
<1>5. /\ Domain(vectors') = Domain(vectors) \cup NewIds(b) /\ NewIds(b) \subseteq Id
      /\ \A i \in Id \ NewIds(b) : vectors'[i] = vectors[i]
      /\ \A i \in NewIds(b) : vectors'[i] = c.batch[i - nextID + 1]
  <2>1. nextID + b - 1 <= MaxId /\ c.batch \in Seq(Vector) BY <1>1, <1>3
  <2>2. /\ Domain(With(vectors, c.batch, b)) = Domain(vectors) \cup NewIds(b)
        /\ NewIds(b) \subseteq Id
        /\ \A i \in Id \ NewIds(b) : With(vectors, c.batch, b)[i] = vectors[i]
        /\ \A i \in NewIds(b) : With(vectors, c.batch, b)[i] = c.batch[i - nextID + 1]
    BY <1>4, <2>1, WithLemma
  <2> QED BY <1>4, <2>2
<1>6. NewIds(b) = ToSet(c.ids)
  <2>1. NewIds(b) = nextID .. (nextID + b - 1) BY <1>1, <1>4, NewIdsAre
  <2>2. nextID .. (nextID + b - 1) = (s.last + 1) .. (s.last + b) BY <1>1, <1>2, <1>3, SMTT(60)
  <2> QED BY <1>1, <2>1, <2>2
<1>7. deletedIDs \cap NewIds(b) = {}
  <2>1. \A i \in deletedIDs : i \in Domain(vectors) /\ i < nextID BY DEF IInv, Agreement
  <2>2. NewIds(b) = nextID .. (nextID + b - 1) BY <1>1, <1>4, NewIdsAre
  <2> QED BY <1>4, <2>1, <2>2, MaxIdAssumption
<1>8. Live' = Live \cup NewIds(b)
  BY <1>4, <1>5, <1>7 DEF Live
<1>9. ASSUME Clean PROVE After(s, c).map = Current'
  <2>1. s.map = Current BY <1>9 DEF Matches
  <2>2. ASSUME NEW i \in Id
        PROVE  (IF i \in ToSet(c.ids) THEN c.batch[i - s.last] ELSE s.map[i])
               = (IF i \in Live' THEN vectors'[i] ELSE Absent)
    <3>1. CASE i \in NewIds(b)
      <4>1. i - nextID + 1 = i - s.last BY <1>2, <1>3, <3>1, MaxIdAssumption DEF Id
      <4> QED BY <1>5, <1>6, <1>8, <3>1, <4>1
    <3>2. CASE i \notin NewIds(b)
      <4>1. s.map[i] = IF i \in Live THEN vectors[i] ELSE Absent BY <2>1 DEF Current
      <4> QED BY <1>5, <1>6, <1>8, <3>2, <4>1
    <3> QED BY <3>1, <3>2
  <2>3. Current' = [i \in Id |-> IF i \in Live' THEN vectors'[i] ELSE Absent]
    BY DEF Current
  <2> QED BY <1>1, <2>2, <2>3
<1>10. Domain(nodes)' = 1 .. After(s, c).last BY <1>1, <1>3 DEF Domain
<1> QED BY <1>9, <1>10 DEF Matches

\* A deletion does the same.
LEMMA DeletePoint ==
    ASSUME IInv, NEW c \in Command, c.op = "delete", ApplyDelete(c.ids),
           NEW s \in Point, Matches(s), Clean' => Clean
    PROVE  Matches(After(s, c))'
<1>1. /\ After(s, c).last = s.last
      /\ After(s, c).map = [i \in Id |-> IF i \in c.ids THEN Absent ELSE s.map[i]]
  BY DeleteAfter
<1>2. /\ vectors' = vectors /\ nodes' = nodes
      /\ deletedIDs' = deletedIDs \cup (c.ids \cap Live)
  BY DEF ApplyDelete
<1>3. Live' = Live \ c.ids BY <1>2 DEF Live
<1>4. ASSUME Clean PROVE After(s, c).map = Current'
  <2>1. s.map = [i \in Id |-> IF i \in Live THEN vectors[i] ELSE Absent]
    BY <1>4 DEF Matches, Current
  <2>2. Current' = [i \in Id |-> IF i \in Live' THEN vectors'[i] ELSE Absent]
    BY DEF Current
  <2> QED BY <1>1, <1>2, <1>3, <2>1, <2>2
<1>5. Domain(nodes)' = 1 .. After(s, c).last BY <1>1, <1>2 DEF Matches, Domain
<1> QED BY <1>4, <1>5 DEF Matches

\* An insertion that the index refuses only uses up a number below its last node.
LEMMA FailsDense ==
    ASSUME IInv, Dense, NEW batch \in Seq(Vector), ApplyInsertFails(batch), snap' = snap
    PROVE  Dense' /\ Domain(nodes') = Domain(nodes)
<1>1. PICK n \in 0 .. MaxId : /\ Domain(nodes) = 1 .. n /\ nextID <= n + 1
                              /\ snap = NoSnapshot => nextID = n + 1
  BY DEF Dense
<1>2. PICK k \in Taken(batch) : /\ \A j \in Taken(batch) : k <= j
                                /\ Store(batch, k, k - 1)
  BY DEF ApplyInsertFails
<1>3. /\ nextID \in 1 .. (MaxId + 1) /\ nextID + Len(batch) - 1 <= MaxId /\ nodes \in Map
      /\ MaxId \in Nat /\ n \in Nat
  BY MaxIdAssumption DEF IInv, TypeOK, ApplyInsertFails, Room
<1>4. k \in 1 .. Len(batch) /\ nodes[nextID + k - 1] # Absent BY <1>2 DEF Taken
<1>5. nextID + k - 1 \in Id BY <1>3, <1>4 DEF Id
<1>6. nextID + k - 1 <= n BY <1>1, <1>4, <1>5 DEF Domain
<1>7. nextID \in Domain(nodes) /\ nextID <= n
  BY <1>1, <1>3, <1>4, <1>6
<1>8. 1 \in Taken(batch)
  <2>1. nodes[nextID] # Absent /\ nextID + 1 - 1 = nextID BY <1>3, <1>7 DEF Domain
  <2>2. 1 \in DOMAIN batch BY <1>4
  <2> QED BY <2>1, <2>2 DEF Taken
<1>9. k = 1 BY <1>2, <1>4, <1>8
<1>10. nodes' = With(nodes, batch, 0) /\ nextID' = nextID + 1
  BY <1>2, <1>9 DEF Store
<1>11. Domain(nodes') = Domain(nodes)
  <2>1. 0 \in 0 .. Len(batch) /\ nextID + 0 - 1 <= MaxId BY <1>3
  <2>2. Domain(With(nodes, batch, 0)) = Domain(nodes) \cup NewIds(0)
    BY <1>3, <2>1, WithLemma
  <2>3. NewIds(0) = {} BY <1>3, NewIdsAre
  <2> QED BY <1>10, <2>2, <2>3
<1>12. snap # NoSnapshot BY <1>1, <1>7
<1>13. Domain(nodes)' = 1 .. n /\ nextID' <= n + 1 BY <1>1, <1>3, <1>7, <1>10, <1>11 DEF Domain
<1>14. \E m \in 0 .. MaxId : Domain(Saved.nodes)' = 1 .. m BY DEF Dense, Saved, Domain
<1> QED BY <1>11, <1>12, <1>13, <1>14 DEF Dense

-----------------------------------------------------------------------------
(* The steps.                                                              *)

LEMMA CourseType ==
    ASSUME TypeOK
    PROVE  /\ log \in Seq(Command) /\ unlogged \in Seq(Command) /\ Course \in Seq(Command)
           /\ Len(log) \in Nat /\ Len(Course) \in Nat /\ Len(log) <= Len(Course)
           /\ Len(Course) = Len(log) + Len(unlogged)
           /\ pos \in Nat \ {0}
<1>1. log \in Seq(Command) /\ unlogged \in Seq(Command) /\ pos \in Nat \ {0} BY TypeOfMemory
<1>2. Course \in Seq(Command) /\ Len(Course) = Len(log) + Len(unlogged)
  BY <1>1, CourseOK DEF Course
<1> HIDE DEF Command
<1>3. Len(log) \in Nat /\ Len(unlogged) \in Nat BY <1>1
<1> QED BY <1>1, <1>2, <1>3

LEMMA AppendCourse ==
    ASSUME NEW a \in Seq(Command), NEW b \in Seq(Command), NEW c \in Command
    PROVE  a \o Append(b, c) = Append(a \o b, c)
OBVIOUS

\* The snapshot is the same, and so is what clients were told, when the trace has
\* become longer.
LEMMA GrowTInv ==
    ASSUME IInv, NEW t \in [0 .. Len(Course) -> Point], Explains(t),
           phase = "serving", phase' = phase, snap' = snap, log' = log,
           durable' = durable, told' = told, causes' = causes,
           NEW c \in Command, unlogged' = Append(unlogged, c),
           NEW s \in Point, s = t[Len(Course)], Numbered(s, c), Matches(After(s, c))'
    PROVE  \E u \in [0 .. Len(Course') -> Point] : Explains(u)'
<1>1. /\ log \in Seq(Command) /\ unlogged \in Seq(Command) /\ Course \in Seq(Command)
      /\ Len(log) \in Nat /\ Len(Course) \in Nat /\ Len(log) <= Len(Course)
  BY CourseType DEF IInv
<1>2. Course' = Append(Course, c) /\ Len(Course') = Len(Course) + 1
  <2>1. Course' = Append(Course, c) BY <1>1, AppendCourse DEF Course
  <2> HIDE DEF Command
  <2>2. Len(Append(Course, c)) = Len(Course) + 1 BY <1>1
  <2> QED BY <2>1, <2>2
<1>3. PICK q : q = Course OBVIOUS
<1>4. PICK u : u = [i \in 0 .. Len(q) + 1 |-> IF i <= Len(q) THEN t[i] ELSE After(t[Len(q)], c)]
  OBVIOUS
<1>5. u \in [0 .. Len(q) + 1 -> Point] /\ Leads(u, Append(q, c))
  <2>1. q \in Seq(Command) /\ t \in [0 .. Len(q) -> Point] /\ Leads(t, q) /\ Numbered(t[Len(q)], c)
    BY <1>1, <1>3 DEF Explains
  <2> QED BY <1>4, <2>1, LeadsOn
<1>6. \A i \in 0 .. Len(q) : u[i] = t[i] BY <1>1, <1>3, <1>4
<1>7. u[0] = t[0] /\ \A n \in durable .. Len(log) : u[n] = t[n]
  <2>1. durable \in Nat BY DEF IInv, TypeOK
  <2> QED BY <1>1, <1>3, <1>6, <2>1
<1>14. \A n \in durable .. Len(log) : Tells(u[n], told[n + 1])'
  BY <1>7 DEF Explains, Tells, Clean
<1>8. u[Len(Course')] = After(s, c) BY <1>1, <1>2, <1>3, <1>4
<1>9. Leads(u, Course)' BY <1>2, <1>3, <1>5 DEF Leads
<1>10. u \in [0 .. Len(Course') -> Point] BY <1>2, <1>3, <1>5
<1>11. Matches(u[Len(Course)])'
  BY <1>8
<1>12. (t[0].map = Saved.vectors /\ Domain(Saved.nodes) = 1 .. t[0].last)'
  BY DEF Explains, Saved, Domain
<1>13. Explains(u)'
  BY <1>7, <1>9, <1>11, <1>12, <1>14 DEF Explains
<1> QED BY <1>10, <1>13

LEMMA InsertTInv ==
    ASSUME IInv, TInv, IInv', NEW batch \in Batch, Insert(batch)
    PROVE  TInv'
<1>1. PICK c : c = [op |-> "insert", batch |-> batch,
                    ids |-> [k \in DOMAIN batch |-> nextID + k - 1]]
  OBVIOUS
<1>2. /\ phase = "serving" /\ phase' = phase /\ snap' = snap /\ log' = log
      /\ durable' = durable /\ told' = told /\ causes' = causes
      /\ unlogged' = Append(unlogged, c) /\ ApplyInsert(batch)
  BY <1>1 DEF Insert, files, history
<1>3. batch \in Seq(Vector) /\ batch # <<>> /\ Len(batch) \in Nat \ {0}
  BY BatchAssumption
<1>4. c \in Command
  <2>1. unlogged' \in Seq(Command) /\ unlogged \in Seq(Command)
    BY CourseType, TypeOfMemory DEF IInv, TypeOK, Command
  <2>2. Len(unlogged) + 1 \in DOMAIN unlogged' /\ unlogged'[Len(unlogged) + 1] = c
    BY <1>2, <2>1
  <2> QED BY <2>1, <2>2
<1>5. PICK n \in 0 .. MaxId : /\ Domain(nodes) = 1 .. n /\ nextID <= n + 1
                              /\ snap = NoSnapshot => nextID = n + 1
  BY DEF TInv, Dense
<1>6. n \in Nat /\ nextID = n + 1
  BY <1>2, <1>3, <1>5, InsertDense, MaxIdAssumption DEF TInv
<1>7. Dense' BY <1>2, <1>3, InsertKeepsDense DEF TInv
<1>8. ASSUME Ordered' PROVE \E u \in [0 .. Len(Course') -> Point] : Explains(u)'
  <2>1. PICK t \in [0 .. Len(Course) -> Point] : Explains(t)
    BY <1>2, <1>8 DEF TInv, Ordered
  <2>2. Matches(t[Len(Course)]) BY <1>2, <2>1 DEF Explains
  <2>3. t[Len(Course)] \in Point
    <3>1. Len(Course) \in Nat BY CourseType DEF IInv
    <3> QED BY <2>1, <3>1
  <2>4. t[Len(Course)].last = n
    <3>1. t[Len(Course)].last \in Nat BY <2>3 DEF Point
    <3> QED BY <1>5, <1>6, <2>2, <3>1, SameTop DEF Matches
  <2>5. Numbered(t[Len(Course)], c)
    <3>1. \A k \in DOMAIN batch : nextID + k - 1 = n + k BY <1>3, <1>6
    <3> QED BY <1>1, <1>3, <2>4, <3>1 DEF Numbered
  <2>6. PICK s \in Point : s = t[Len(Course)] BY <2>3
  <2>7. Matches(After(s, c))'
    <3>1. c.op = "insert" /\ c.batch = batch BY <1>1
    <3>2. Matches(s) /\ Numbered(s, c) /\ (Clean' => Clean) BY <1>2, <2>2, <2>5, <2>6 DEF Clean
    <3> QED BY <1>2, <1>4, <3>1, <3>2, InsertPoint DEF TInv
  <2>8. Numbered(s, c) BY <2>5, <2>6
  <2> QED BY <1>2, <1>4, <2>1, <2>6, <2>7, <2>8, GrowTInv
<1> QED BY <1>2, <1>7, <1>8 DEF TInv

\* Neither the snapshot nor the commands change: the same trace explains.
LEMMA SameTrace ==
    ASSUME IInv, NEW t \in [0 .. Len(Course) -> Point], Explains(t),
           snap' = snap, log' = log, unlogged' = unlogged, told' = told,
           durable' \in durable .. Len(log), Clean' => Clean,
           phase' = "serving" => Matches(t[Len(Course)])',
           phase' = "replaying" => pos' <= Len(log) + 1 /\ Matches(t[pos - 1])'
    PROVE  \E u \in [0 .. Len(Course') -> Point] : Explains(u)'
<1>1. Course' = Course BY DEF Course
<1>2. (t[0].map = Saved.vectors /\ Domain(Saved.nodes) = 1 .. t[0].last)'
  BY DEF Explains, Saved, Domain
<1>3. Leads(t, Course)' BY <1>1 DEF Explains, Leads
<1>4. \A n \in durable' .. Len(log') : Tells(t[n], told[n + 1])'
  <2>1. durable \in Nat /\ Len(log) \in Nat BY LastTold DEF IInv, TypeOK
  <2>2. \A n \in durable' .. Len(log') : n \in durable .. Len(log) BY <2>1
  <2>3. \A n \in durable .. Len(log) : Tells(t[n], told[n + 1]) BY DEF Explains
  <2> QED BY <2>2, <2>3 DEF Tells
<1>5. Explains(t)' BY <1>2, <1>3, <1>4 DEF Explains
<1> QED BY <1>1, <1>5

LEMMA SameDense ==
    ASSUME Dense, Domain(nodes') = Domain(nodes), nextID' = nextID, snap' = snap PROVE Dense'
<1>1. Domain(nodes)' = Domain(nodes) BY DEF Domain
<1>2. Domain(Saved.nodes)' = Domain(Saved.nodes) BY DEF Saved, Domain
<1> QED BY <1>1, <1>2 DEF Dense

LEMMA DeleteTInv ==
    ASSUME IInv, TInv, NEW ids \in Deletion, Delete(ids)
    PROVE  TInv'
<1>1. PICK c : c = [op |-> "delete", ids |-> ids] OBVIOUS
<1>2. /\ phase = "serving" /\ phase' = phase /\ snap' = snap /\ log' = log
      /\ durable' = durable /\ told' = told /\ causes' = causes
      /\ unlogged' = Append(unlogged, c) /\ ApplyDelete(ids)
      /\ nodes' = nodes /\ nextID' = nextID
  BY <1>1 DEF Delete, ApplyDelete, files, history
<1>3. c \in Command BY <1>1, DeletionAssumption DEF Command, DeleteCmd
<1>4. Dense' BY <1>2, SameDense DEF TInv
<1>5. ASSUME Ordered' PROVE \E u \in [0 .. Len(Course') -> Point] : Explains(u)'
  <2>1. PICK t \in [0 .. Len(Course) -> Point] : Explains(t)
    BY <1>2, <1>5 DEF TInv, Ordered
  <2>2. Len(Course) \in Nat BY CourseType DEF IInv
  <2>3. PICK s \in Point : s = t[Len(Course)] BY <2>1, <2>2
  <2>4. Matches(s) /\ (Clean' => Clean) BY <1>2, <2>1, <2>3 DEF Explains, Clean
  <2>5. Matches(After(s, c))'
    <3>1. c.op = "delete" /\ c.ids = ids BY <1>1
    <3> QED BY <1>2, <1>3, <2>4, <3>1, DeletePoint
  <2>6. Numbered(s, c) BY <1>1 DEF Numbered
  <2> QED BY <1>2, <1>3, <2>1, <2>3, <2>5, <2>6, GrowTInv
<1> QED BY <1>2, <1>4, <1>5 DEF TInv

LEMMA InsertFailsTInv ==
    ASSUME IInv, TInv, NEW batch \in Batch, InsertFails(batch)
    PROVE  TInv'
<1>1. /\ phase = "serving" /\ phase' = phase /\ pos' = pos /\ snap' = snap /\ log' = log
      /\ durable' = durable /\ told' = told /\ unlogged' = unlogged
      /\ causes' = causes \cup {"conflict"} /\ ApplyInsertFails(batch)
      /\ durable' \in durable .. Len(log)
  BY LastTold DEF InsertFails, ApplyInsertFails, files, IInv, TypeOK
<1>2. batch \in Seq(Vector) BY BatchAssumption
<1>3. Dense' /\ Domain(nodes') = Domain(nodes) BY <1>1, <1>2, FailsDense DEF TInv
<1>4. ASSUME Ordered' PROVE \E u \in [0 .. Len(Course') -> Point] : Explains(u)'
  <2>1. PICK t \in [0 .. Len(Course) -> Point] : Explains(t)
    BY <1>1, <1>4 DEF TInv, Ordered
  <2>2. PICK s : s = t[Len(Course)] OBVIOUS
  <2>3. Matches(s)'
    <3>1. Domain(nodes)' = Domain(nodes) BY <1>3 DEF Domain
    <3> QED BY <1>1, <2>1, <2>2, <3>1 DEF Explains, Matches, Clean
  <2>4. Matches(t[Len(Course)])'
    <3>1. Course' = Course BY <1>1 DEF Course
    <3> QED BY <2>2, <2>3, <3>1
  <2>5. ~Clean' BY <1>1 DEF Clean
  <2> QED BY <1>1, <2>1, <2>4, <2>5, SameTrace
<1> QED BY <1>1, <1>3, <1>4 DEF TInv

\* Taking the element at k out of a sequence.
LEMMA RemoveAtIs ==
    ASSUME NEW S, NEW s \in Seq(S), NEW k \in DOMAIN s
    PROVE  /\ RemoveAt(s, k) \in Seq(S) /\ Len(RemoveAt(s, k)) = Len(s) - 1
           /\ \A j \in 1 .. k - 1 : RemoveAt(s, k)[j] = s[j]
           /\ \A j \in k .. Len(s) - 1 : RemoveAt(s, k)[j] = s[j + 1]
<1> DEFINE p == SubSeq(s, 1, k - 1)
           q == SubSeq(s, k + 1, Len(s))
<1>1. p \in Seq(S) /\ Len(p) = k - 1 /\ \A j \in 1 .. Len(p) : p[j] = s[j]
  OBVIOUS
<1>2. q \in Seq(S) /\ Len(q) = Len(s) - k /\ \A j \in 1 .. Len(q) : q[j] = s[k + j]
  OBVIOUS
<1>3. RemoveAt(s, k) = p \o q
  BY DEF RemoveAt
<1> HIDE DEF p, q
<1>4. /\ p \o q \in Seq(S) /\ Len(p \o q) = Len(p) + Len(q)
      /\ \A j \in 1 .. (Len(p) + Len(q)) :
            (p \o q)[j] = IF j <= Len(p) THEN p[j] ELSE q[j - Len(p)]
  BY <1>1, <1>2, ConcatProperties
<1>5. Len(s) \in Nat /\ k \in 1 .. Len(s) OBVIOUS
<1>6. ASSUME NEW j \in 1 .. k - 1 PROVE (p \o q)[j] = s[j]
  BY <1>1, <1>2, <1>4, <1>5, SMTT(60)
<1>7. ASSUME NEW j \in k .. Len(s) - 1 PROVE (p \o q)[j] = s[j + 1]
  <2>1. /\ j \in 1 .. (Len(p) + Len(q)) /\ ~(j <= Len(p)) /\ j - Len(p) \in 1 .. Len(q)
        /\ k + (j - Len(p)) = j + 1
    BY <1>1, <1>2, <1>5
  <2> QED BY <1>2, <1>4, <2>1
<1>8. Len(p \o q) = Len(s) - 1 BY <1>1, <1>2, <1>4, <1>5
<1> QED BY <1>3, <1>4, <1>6, <1>7, <1>8

LEMMA LogMoves ==
    ASSUME NEW a \in Seq(Command), NEW b \in Seq(Command), NEW k \in DOMAIN b
    PROVE  /\ Moves(a \o b, Append(a, b[k]) \o RemoveAt(b, k), Len(a), Len(a) + k)
           /\ a \o b \in Seq(Command) /\ Append(a, b[k]) \o RemoveAt(b, k) \in Seq(Command)
           /\ (a \o b)[Len(a) + k] = b[k]
           /\ \A i \in Len(a) + 1 .. Len(a) + k - 1 :
                 i - Len(a) \in 1 .. k - 1 /\ (a \o b)[i] = b[i - Len(a)]
<1> DEFINE c == b[k]
           r == RemoveAt(b, k)
           s == a \o b
           ac == Append(a, c)
           s2 == ac \o r
<1>1. /\ Len(a) \in Nat /\ Len(b) \in Nat /\ k \in 1 .. Len(b) /\ c \in Command
      /\ r \in Seq(Command) /\ Len(r) = Len(b) - 1
      /\ \A j \in 1 .. k - 1 : r[j] = b[j]
      /\ \A j \in k .. Len(b) - 1 : r[j] = b[j + 1]
  BY RemoveAtIs
<1> HIDE DEF Command
<1>2. /\ ac \in Seq(Command) /\ Len(ac) = Len(a) + 1 /\ ac[Len(a) + 1] = c
      /\ \A i \in 1 .. Len(a) : ac[i] = a[i]
  BY <1>1
<1>3. /\ s \in Seq(Command) /\ Len(s) = Len(a) + Len(b)
      /\ \A i \in 1 .. Len(a) : s[i] = a[i]
      /\ \A i \in 1 .. Len(b) : s[Len(a) + i] = b[i]
      /\ \A i \in Len(a) + 1 .. Len(a) + Len(b) : s[i] = b[i - Len(a)]
  BY CourseOK
<1> HIDE DEF c, r, ac
<1>4. /\ s2 \in Seq(Command) /\ Len(s2) = Len(ac) + Len(r)
      /\ \A i \in 1 .. Len(ac) : s2[i] = ac[i]
      /\ \A i \in Len(ac) + 1 .. Len(ac) + Len(r) : s2[i] = r[i - Len(ac)]
  BY <1>1, <1>2, CourseOK
<1> HIDE DEF s, s2
<1>5. Len(s2) = Len(s) BY <1>1, <1>2, <1>3, <1>4
<1>6. s[Len(a) + k] = c BY <1>1, <1>3 DEF c
<1>7. s2[Len(a) + 1] = c BY <1>1, <1>2, <1>4
<1>8. ASSUME NEW i \in Len(a) + 2 .. Len(a) + k PROVE s2[i] = s[i - 1]
  <2>1. i - (Len(a) + 1) \in 1 .. k - 1 /\ i - 1 \in Len(a) + 1 .. Len(a) + Len(b)
        /\ (i - 1) - Len(a) = i - (Len(a) + 1)
        /\ i \in Len(ac) + 1 .. Len(ac) + Len(r)
    BY <1>1, <1>2
  <2> QED BY <1>1, <1>2, <1>3, <1>4, <2>1, SMTT(60)
<1>9. ASSUME NEW i \in 1 .. Len(s), i <= Len(a) \/ i > Len(a) + k PROVE s2[i] = s[i]
  <2>1. CASE i <= Len(a)
    <3>1. i \in 1 .. Len(a) /\ i \in 1 .. Len(ac) BY <1>1, <1>2, <2>1
    <3> QED BY <1>2, <1>3, <1>4, <3>1
  <2>2. CASE i > Len(a) + k
    <3>1. i - (Len(a) + 1) \in k .. Len(b) - 1 /\ (i - (Len(a) + 1)) + 1 = i - Len(a)
          /\ i \in Len(a) + 1 .. Len(a) + Len(b)
          /\ i \in Len(ac) + 1 .. Len(ac) + Len(r)
      BY <1>1, <1>2, <1>3, <2>2
    <3>2. i - Len(ac) = i - (Len(a) + 1) BY <1>2
    <3>3. s2[i] = r[i - (Len(a) + 1)] BY <1>4, <3>1, <3>2
    <3>4. r[i - (Len(a) + 1)] = b[i - Len(a)] BY <1>1, <3>1
    <3> QED BY <1>3, <3>1, <3>3, <3>4
  <2> QED BY <1>9, <2>1, <2>2
<1>10. ASSUME NEW i \in Len(a) + 1 .. Len(a) + k - 1
       PROVE  i - Len(a) \in 1 .. k - 1 /\ s[i] = b[i - Len(a)]
  BY <1>1, <1>3
<1>11. Len(a) + k \in Len(a) + 1 .. Len(s) BY <1>1, <1>3
<1>12. Moves(s, s2, Len(a), Len(a) + k)
  BY <1>1, <1>5, <1>6, <1>7, <1>8, <1>9, <1>11 DEF Moves
<1> QED BY <1>3, <1>4, <1>6, <1>10, <1>12 DEF s, s2, ac, r, c

\* An answer tells what the command makes of what clients knew.
LEMMA TellsPoint ==
    ASSUME NEW s \in Point, NEW a \in Answers, NEW c \in Command, Numbered(s, c), Tells(s, a)
    PROVE  Tells(After(s, c), Learned(a, c))
<1>1. s.last \in Nat BY DEF Point
<1>2. CASE c.op = "insert"
  <2>1. Learned(a, c) = [live |-> [i \in Id |-> IF i \in ToSet(c.ids)
                                                THEN c.batch[i - c.ids[1] + 1] ELSE a.live[i]],
                         ids |-> a.ids \cup ToSet(c.ids)]
    BY <1>2 DEF Learned
  <2>2. /\ Len(c.batch) \in Nat \ {0} /\ c.ids[1] = s.last + 1
        /\ ToSet(c.ids) = (s.last + 1) .. (s.last + Len(c.batch))
        /\ After(s, c).last = s.last + Len(c.batch)
    BY <1>2, InsertAfter
  <2>3. s.map = a.live => After(s, c).map = Learned(a, c).live BY <1>2, <2>1 DEF After
  <2>4. ToSet(c.ids) \subseteq 1 .. After(s, c).last BY <1>1, <2>2
  <2>5. 1 .. s.last \subseteq 1 .. After(s, c).last BY <1>1, <2>2
  <2>6. Learned(a, c).ids = a.ids \cup ToSet(c.ids) BY <2>1
  <2> QED BY <2>3, <2>4, <2>5, <2>6 DEF Tells
<1>3. CASE c.op = "delete"
  <2>1. Learned(a, c) = [live |-> [i \in Id |-> IF i \in c.ids THEN Absent ELSE a.live[i]],
                         ids |-> a.ids]
    BY <1>3 DEF Learned
  <2>2. After(s, c).last = s.last
        /\ After(s, c).map = [i \in Id |-> IF i \in c.ids THEN Absent ELSE s.map[i]]
    BY <1>3, DeleteAfter
  <2> QED BY <2>1, <2>2 DEF Tells
<1> QED BY <1>2, <1>3, CommandKinds

LEMMA LogTInv ==
    ASSUME IInv, TInv, NEW k \in DOMAIN unlogged, Log(k)
    PROVE  TInv'
<1>1. PICK c : c = unlogged[k] OBVIOUS
<1>2. /\ phase = "serving" /\ phase' = phase /\ snap' = snap
      /\ log' = Append(log, c) /\ unlogged' = RemoveAt(unlogged, k)
      /\ durable' = durable /\ told' = Append(told, Learned(Last(told), c))
      /\ UNCHANGED memory
      /\ causes' = causes \cup (IF \A j \in 1 .. (k - 1) : Commute(c, unlogged[j])
                                THEN {} ELSE {"order"})
  BY <1>1 DEF Log
<1>3. UNCHANGED <<vectors, deletedIDs, nodes, nextID>> BY <1>2 DEF memory
<1>4. Dense' BY <1>2, <1>3, SameDense DEF TInv
<1>5. ASSUME Ordered' PROVE \E u \in [0 .. Len(Course') -> Point] : Explains(u)'
  <2>1. PICK t \in [0 .. Len(Course) -> Point] : Explains(t)
    BY <1>2, <1>5 DEF TInv, Ordered
  <2>2. \A j \in 1 .. (k - 1) : Commute(c, unlogged[j]) BY <1>2, <1>5 DEF Ordered
  <2>3. /\ log \in Seq(Command) /\ unlogged \in Seq(Command) /\ Len(log) \in Nat
        /\ Len(Course) = Len(log) + Len(unlogged)
    BY CourseType DEF IInv
  <2>4. PICK s, s2, l, p : /\ s = Course /\ s2 = Append(log, c) \o RemoveAt(unlogged, k)
                           /\ l = Len(log) /\ p = Len(log) + k
    OBVIOUS
  <2>5. Course' = s2 BY <1>2, <2>4 DEF Course
  <2>6. /\ Moves(s, s2, l, p) /\ s \in Seq(Command) /\ s2 \in Seq(Command) /\ s[p] = c
        /\ \A i \in l + 1 .. p - 1 : i - l \in 1 .. k - 1 /\ s[i] = unlogged[i - l]
    <3>1. Course = log \o unlogged BY DEF Course
    <3> HIDE DEF Command
    <3>2. /\ Moves(log \o unlogged, Append(log, unlogged[k]) \o RemoveAt(unlogged, k),
                   Len(log), Len(log) + k)
          /\ log \o unlogged \in Seq(Command)
          /\ Append(log, unlogged[k]) \o RemoveAt(unlogged, k) \in Seq(Command)
          /\ (log \o unlogged)[Len(log) + k] = unlogged[k]
          /\ \A i \in Len(log) + 1 .. Len(log) + k - 1 :
                i - Len(log) \in 1 .. k - 1 /\ (log \o unlogged)[i] = unlogged[i - Len(log)]
      BY <2>3, LogMoves
    <3> QED BY <1>1, <2>4, <3>1, <3>2, SMTT(60)
  <2>7. Passes(s, l, p) BY <2>2, <2>6 DEF Passes
  <2>8. PICK u : u = Moved(t, s, l, p) OBVIOUS
  <2>9. /\ u \in [0 .. Len(s) -> Point] /\ Leads(u, s2)
        /\ \A i \in 0 .. Len(s) : i <= l \/ i >= p => u[i] = t[i]
        /\ u[l + 1] = After(t[l], c) /\ Numbered(t[l], c)
    <3>1. t \in [0 .. Len(s) -> Point] /\ Leads(t, s) BY <2>1, <2>4 DEF Explains
    <3>2. /\ u \in [0 .. Len(s) -> Point] /\ Leads(u, s2)
          /\ \A i \in 0 .. Len(s) : i <= l \/ i >= p => u[i] = t[i]
          /\ u[l + 1] = After(t[l], s[p]) /\ Numbered(t[l], s[p])
      <4>1. s \in Seq(Command) /\ s2 \in Seq(Command) /\ Moves(s, s2, l, p) BY <2>6
      <4>2. PICK x \in [0 .. Len(s) -> Point] : x = t BY <3>1
      <4> QED BY <2>7, <2>8, <3>1, <4>1, <4>2, MovedTrace, SMTT(60)
    <3> QED BY <2>6, <3>2
  <2>10. /\ Len(s2) = Len(s) /\ l \in Nat /\ p \in l + 1 .. Len(s) /\ Len(s) \in Nat
    BY <2>4, <2>6 DEF Moves
  <2>11. u[0] = t[0] /\ u[Len(s)] = t[Len(s)]
    <3>1. 0 \in 0 .. Len(s) /\ 0 <= l /\ Len(s) \in 0 .. Len(s) /\ Len(s) >= p BY <2>10
    <3> QED BY <2>9, <3>1
  <2>12. Len(log') = l + 1 BY <1>2, <2>3, <2>4
  <2>13. t[l] \in Point BY <2>1, <2>4, <2>10
  <2>14. /\ Last(told) = told[l + 1] /\ Last(told) \in Answers
         /\ durable \in 0 .. l /\ told \in Seq(Answers) /\ Len(told) = l + 1
    BY <2>4, LastTold DEF IInv, TypeOK
  <2>24. \A n \in durable .. l : Tells(t[n], told[n + 1])
    BY <2>1, <2>4 DEF Explains
  <2>25. c \in Command BY <2>6, <2>10
  <2>15. Tells(u[l + 1], Learned(Last(told), c))
    <3>1. PICK r \in Point : r = t[l] BY <2>13
    <3>2. l \in durable .. l BY <2>10, <2>14
    <3>3. Tells(r, Last(told)) BY <2>14, <2>24, <3>1, <3>2
    <3> QED BY <2>9, <2>14, <2>25, <3>1, <3>3, TellsPoint
  <2>26. ASSUME NEW n \in durable .. (l + 1) PROVE Tells(u[n], told'[n + 1])
    <3>1. n \in Nat BY <2>14
    <3>2. CASE n = l + 1
      <4>1. told'[l + 2] = Learned(Last(told), c)
        <5>1. l + 2 = Len(told) + 1 BY <2>10, <2>14
        <5> QED BY <1>2, <2>14, <5>1
      <4>2. n + 1 = l + 2 BY <2>10, <3>2
      <4> QED BY <2>15, <3>2, <4>1, <4>2
    <3>3. CASE n # l + 1
      <4>1. n \in durable .. l /\ n \in 0 .. Len(s) /\ n <= l /\ n + 1 \in 1 .. Len(told)
        BY <2>10, <2>14, <3>1, <3>3
      <4>2. told'[n + 1] = told[n + 1] BY <1>2, <2>14, <4>1
      <4> QED BY <2>9, <2>24, <4>1, <4>2
    <3> QED BY <3>2, <3>3
  <2>16. Clean' = Clean BY <1>2 DEF Clean
  <2>17. Leads(u, Course)' BY <2>5, <2>9 DEF Leads
  <2>18. (u[0].map = Saved.vectors /\ Domain(Saved.nodes) = 1 .. u[0].last)'
    BY <1>2, <2>1, <2>11 DEF Explains, Saved, Domain
  <2>19. Matches(u[Len(Course)])'
    <3>1. u[Len(Course')] = t[Len(Course)] BY <2>4, <2>5, <2>10, <2>11
    <3>2. PICK r : r = t[Len(Course)] OBVIOUS
    <3>3. Matches(r) BY <1>2, <2>1, <3>2 DEF Explains
    <3>4. Matches(r)'
      BY <1>3, <2>16, <3>3 DEF Matches, Domain, Current, Live
    <3> QED BY <3>1, <3>2, <3>4
  <2>20. \A n \in durable' .. Len(log') : Tells(u[n], told[n + 1])'
    BY <1>2, <2>12, <2>16, <2>26 DEF Tells
  <2>22. Explains(u)' BY <1>2, <2>17, <2>18, <2>19, <2>20 DEF Explains
  <2>23. u \in [0 .. Len(Course') -> Point] BY <2>5, <2>9, <2>10
  <2> QED BY <2>22, <2>23
<1> QED BY <1>2, <1>4, <1>5 DEF TInv

\* What could not be logged is not claimed to be in the log.
LEMMA LogFailsTInv ==
    ASSUME IInv, TInv, NEW k \in DOMAIN unlogged, LogFails(k)
    PROVE  TInv'
<1>1. /\ phase = "serving" /\ phase' = phase /\ snap' = snap /\ UNCHANGED memory
      /\ "unlogged" \in causes'
  BY DEF LogFails
<1>2. Dense' BY <1>1, SameDense DEF TInv, memory
<1>3. ~Ordered' BY <1>1 DEF Ordered
<1> QED BY <1>1, <1>2, <1>3 DEF TInv

LEMMA SyncTInv ==
    ASSUME IInv, TInv, Sync
    PROVE  TInv'
<1>1. /\ phase' = phase /\ pos' = pos /\ snap' = snap /\ log' = log /\ unlogged' = unlogged
      /\ told' = told /\ causes' = causes /\ UNCHANGED memory
      /\ durable' \in durable .. Len(log)
  BY LastTold DEF Sync, history, IInv, TypeOK
<1>2. UNCHANGED <<vectors, deletedIDs, nodes, nextID>> BY <1>1 DEF memory
<1>3. Dense' BY <1>1, <1>2, SameDense DEF TInv
<1>4. ASSUME Ordered' PROVE \E u \in [0 .. Len(Course') -> Point] : Explains(u)'
  <2>1. PICK t \in [0 .. Len(Course) -> Point] : Explains(t)
    BY <1>1, <1>4 DEF TInv, Ordered
  <2>2. Course' = Course /\ Clean' = Clean BY <1>1 DEF Course, Clean
  <2>3. ASSUME NEW s, Matches(s) PROVE Matches(s)'
    BY <1>2, <2>2, <2>3 DEF Matches, Domain, Current, Live
  <2>4. phase' = "serving" => Matches(t[Len(Course)])'
    <3>1. PICK s : s = t[Len(Course)] OBVIOUS
    <3> QED BY <1>1, <2>1, <2>2, <2>3, <3>1 DEF Explains
  <2>5. phase' = "replaying" => pos' <= Len(log) + 1 /\ Matches(t[pos - 1])'
    <3>1. PICK s : s = t[pos - 1] OBVIOUS
    <3> QED BY <1>1, <2>1, <2>3, <3>1 DEF Explains
  <2> QED BY <1>1, <2>1, <2>2, <2>4, <2>5, SameTrace
<1> QED BY <1>1, <1>3, <1>4 DEF TInv

\* A trace of no command.
LEMMA EmptyTrace ==
    ASSUME NEW s \in Point, NEW u, u = [i \in 0 .. 0 |-> s]
    PROVE  u \in [0 .. Len(<<>>) -> Point] /\ Leads(u, <<>>)
<1>1. Len(<<>>) = 0 OBVIOUS
<1>2. u \in [0 .. 0 -> Point] OBVIOUS
<1>3. \A i \in 1 .. 0 : FALSE OBVIOUS
<1> QED BY <1>1, <1>2, <1>3 DEF Leads

\* With every command logged clients know what is at the end of the log.
LEMMA TellsAll ==
    ASSUME IInv, NEW t, Explains(t)
    PROVE  Tells(t[Len(log)], Last(told))
<1>1. /\ Last(told) = told[Len(log) + 1] /\ Len(log) \in Nat /\ durable \in 0 .. Len(log)
  BY LastTold DEF IInv, TypeOK
<1>2. Len(log) \in durable .. Len(log) BY <1>1
<1> QED BY <1>1, <1>2 DEF Explains

LEMMA SaveTInv ==
    ASSUME IInv, TInv, Save
    PROVE  TInv'
<1>1. /\ phase = "serving" /\ phase' = phase /\ snap' = Copy /\ log' = <<>>
      /\ unlogged = <<>> /\ unlogged' = <<>> /\ durable' = 0 /\ told' = <<Last(told)>>
      /\ UNCHANGED memory
      /\ causes' \subseteq causes \cup {"tombstone"} /\ causes \subseteq causes'
  BY DEF Save
<1>2. UNCHANGED <<vectors, deletedIDs, nodes, nextID>> BY <1>1 DEF memory
<1>3. Copy \in Snapshot /\ MemoryType
  <2>1. MemoryType /\ Agreement /\ Counted BY TypeOfMemory DEF IInv
  <2> QED BY <2>1 DEF Copy, Snapshot, MemoryType, Map, Live, Domain
<1>4. Saved' = Copy BY <1>1, <1>3, NoSnapshotAssumption DEF Saved
<1>5. Saved.nodes' = nodes /\ Saved.vectors' = Current
  BY <1>4 DEF Copy, Current
<1>6. PICK n \in 0 .. MaxId : /\ Domain(nodes) = 1 .. n /\ nextID <= n + 1
                              /\ snap = NoSnapshot => nextID = n + 1
  BY DEF TInv, Dense
<1>7. n \in Nat BY MaxIdAssumption
<1>8. Domain(Saved.nodes)' = 1 .. n /\ Domain(nodes)' = 1 .. n
  BY <1>2, <1>5, <1>6 DEF Domain
<1>9. Dense' BY <1>1, <1>2, <1>3, <1>6, <1>8, NoSnapshotAssumption DEF Dense
<1>10. Course = log /\ Course' = <<>>
  <2>1. log \in Seq(Command) BY CourseType DEF IInv
  <2> HIDE DEF Command
  <2>2. log \o <<>> = log BY <2>1
  <2>3. <<>> \o <<>> = <<>> OBVIOUS
  <2> QED BY <1>1, <2>2, <2>3 DEF Course
<1>11. ASSUME Ordered' PROVE \E u \in [0 .. Len(Course') -> Point] : Explains(u)'
  <2>1. PICK t \in [0 .. Len(Course) -> Point] : Explains(t)
    BY <1>1, <1>11 DEF TInv, Ordered
  <2>2. PICK s : s = t[Len(Course)] OBVIOUS
  <2>3. s \in Point
    <3>1. Len(Course) \in Nat BY CourseType DEF IInv
    <3> QED BY <2>1, <2>2, <3>1
  <2>4. Matches(s) /\ Tells(s, Last(told))
    BY <1>1, <1>10, <2>1, <2>2, TellsAll DEF Explains
  <2>5. s.last = n
    <3>1. s.last \in Nat BY <2>3 DEF Point
    <3> QED BY <1>6, <1>7, <2>4, <3>1, SameTop DEF Matches
  <2>6. PICK r : r = [map |-> Current, last |-> n] OBVIOUS
  <2>7. r \in Point /\ r.map = Current /\ r.last = n
    <3>1. Current \in Map BY <1>3, LiveType
    <3> QED BY <1>7, <2>6, <3>1 DEF Point
  <2>8. PICK u : u = [i \in 0 .. 0 |-> r] OBVIOUS
  <2>9. u \in [0 .. Len(<<>>) -> Point] /\ Leads(u, <<>>) BY <2>7, <2>8, EmptyTrace
  <2>10. u[0] = r /\ Len(<<>>) = 0 BY <2>8
  <2>11. Leads(u, Course)' BY <1>10, <2>9 DEF Leads
  <2>12. Clean' = Clean BY <1>1 DEF Clean
  <2>13. Tells(r, Last(told))'
    <3>1. Tells(r, Last(told)) BY <2>4, <2>5, <2>7 DEF Matches, Tells
    <3>2. Last(told)' = Last(told)
      <4>1. Last(<<Last(told)>>) = Last(told) BY DEF Last
      <4> QED BY <1>1, <4>1 DEF Last
    <3> QED BY <2>12, <3>1, <3>2 DEF Tells
  <2>14. u[Len(Course')] = r /\ u[Len(log')] = r BY <1>1, <1>10, <2>10
  <2>15. (u[0].map = Saved.vectors /\ Domain(Saved.nodes) = 1 .. u[0].last)'
    BY <1>5, <1>8, <2>7, <2>10
  <2>16. \A k \in durable' .. Len(log') : Tells(u[k], told[k + 1])'
    <3>1. durable' = 0 /\ Len(log') = 0 BY <1>1
    <3>2. told'[0 + 1] = Last(told') BY <1>1 DEF Last
    <3> QED BY <2>10, <2>13, <3>1, <3>2 DEF Tells
  <2>17. Matches(u[Len(Course)])'
    <3>1. Matches(r)' BY <1>2, <1>8, <2>7 DEF Matches, Current, Live, Domain
    <3> QED BY <2>14, <3>1
  <2>18. Explains(u)' BY <1>1, <2>11, <2>15, <2>16, <2>17 DEF Explains
  <2>19. u \in [0 .. Len(Course') -> Point] BY <1>10, <2>9
  <2> QED BY <2>18, <2>19
<1> QED BY <1>1, <1>9, <1>11 DEF TInv

\* A trace of one command.
LEMMA SingleTrace ==
    ASSUME NEW s \in Point, NEW c \in Command, Numbered(s, c), NEW u,
           u = [i \in 0 .. 1 |-> IF i = 0 THEN s ELSE After(s, c)]
    PROVE  u \in [0 .. Len(<<c>>) -> Point] /\ Leads(u, <<c>>)
<1>1. Len(<<c>>) = 1 /\ <<c>>[1] = c OBVIOUS
<1>2. After(s, c) \in Point BY AfterOK
<1>3. u \in [0 .. 1 -> Point]
  <2> SUFFICES ASSUME NEW i \in 0 .. 1 PROVE u[i] \in Point OBVIOUS
  <2> QED BY <1>2
<1>4. ASSUME NEW i \in 1 .. 1
      PROVE  u[i] = After(u[i - 1], <<c>>[i]) /\ Numbered(u[i - 1], <<c>>[i])
  <2>1. i = 1 /\ i - 1 = 0 OBVIOUS
  <2>2. u[0] = s /\ u[1] = After(s, c) OBVIOUS
  <2> QED BY <1>1, <2>1, <2>2
<1> QED BY <1>1, <1>3, <1>4 DEF Leads

\* The compacted log.
LEMMA RewriteTInv ==
    ASSUME IInv, TInv, IInv', Rewrite
    PROVE  TInv'
<1>1. PICK ids \in SetToSeqs(Live) :
        /\ log' = IF ids = <<>> THEN <<>>
                  ELSE <<[op |-> "insert", ids |-> ids,
                          batch |-> [k \in DOMAIN ids |-> vectors[ids[k]]]]>>
        /\ causes' = causes \cup (IF ids = [k \in 1 .. (nextID - 1) |-> k]
                                  THEN {} ELSE {"rewrite"})
  BY DEF Rewrite
<1>2. /\ phase = "serving" /\ phase' = phase /\ snap' = snap /\ snap = NoSnapshot
      /\ unlogged = <<>> /\ unlogged' = <<>>
      /\ durable' = Len(log') /\ told' = [i \in 1 .. (Len(log') + 1) |-> Last(told)]
      /\ UNCHANGED memory
  BY DEF Rewrite
<1>3. UNCHANGED <<vectors, deletedIDs, nodes, nextID>> BY <1>2 DEF memory
<1>4. Dense' BY <1>2, <1>3, SameDense DEF TInv
<1>5. PICK n \in 0 .. MaxId : Domain(nodes) = 1 .. n /\ nextID = n + 1
  BY <1>2 DEF TInv, Dense
<1>6. n \in Nat /\ nextID - 1 = n BY <1>5, MaxIdAssumption
<1>7. Course = log /\ Course' = log'
  <2>1. log \in Seq(Command) /\ log' \in Seq(Command)
    BY TypeOfMemory DEF IInv, TypeOK, Command
  <2> HIDE DEF Command
  <2>2. log \o <<>> = log /\ log' \o <<>> = log' BY <2>1
  <2> QED BY <1>2, <2>2 DEF Course
<1>8. Saved.vectors = Nothing /\ Saved.nodes = Nothing /\ Saved' = Saved
  BY <1>2 DEF Saved
<1>9. ASSUME Ordered' PROVE \E u \in [0 .. Len(Course') -> Point] : Explains(u)'
  <2>1. PICK t \in [0 .. Len(Course) -> Point] : Explains(t)
    BY <1>1, <1>9 DEF TInv, Ordered
  <2>2. PICK s : s = t[Len(Course)] OBVIOUS
  <2>3. s \in Point
    <3>1. Len(Course) \in Nat BY CourseType DEF IInv
    <3> QED BY <2>1, <2>2, <3>1
  <2>4. Matches(s) /\ Tells(s, Last(told))
    BY <1>2, <1>7, <2>1, <2>2, TellsAll DEF Explains
  <2>5. s.last = n
    <3>1. s.last \in Nat BY <2>3 DEF Point
    <3> QED BY <1>5, <1>6, <2>4, <3>1, SameTop DEF Matches
  <2>6. ids = [k \in 1 .. n |-> k]
    BY <1>1, <1>6, <1>9 DEF Ordered
  <2>7. DOMAIN ids = 1 .. n /\ \A k \in 1 .. n : ids[k] = k BY <2>6
  <2>8. Live = 1 .. n
    <3>1. \A k \in DOMAIN ids : ids[k] \in Live BY DEF SetToSeqs
    <3>2. Live \subseteq Domain(nodes) BY DEF IInv, Agreement, Live
    <3> QED BY <1>5, <2>7, <3>1, <3>2
  <2>9. PICK m : m = [map |-> Nothing, last |-> 0] OBVIOUS
  <2>10. m \in Point /\ m.map = Nothing /\ m.last = 0
    <3>1. Nothing \in Map BY DEF Nothing, Map
    <3> QED BY <2>9, <3>1 DEF Point
  <2>11. (m.map = Saved.vectors /\ Domain(Saved.nodes) = 1 .. m.last)'
    <3>1. Domain(Nothing) = {} /\ 1 .. 0 = {} BY DEF Domain, Nothing
    <3>2. Domain(Nothing)' = Domain(Nothing) BY DEF Domain, Nothing
    <3> QED BY <1>8, <2>10, <3>1, <3>2
  <2>12. Clean' = Clean BY <1>1 DEF Clean
  <2>13. Current' = Current BY <1>3 DEF Current, Live, Domain
  <2>14. Domain(nodes)' = 1 .. n BY <1>3, <1>5 DEF Domain
  <2>15. ASSUME NEW r, r.last = n, Clean => r.map = Current
         PROVE  Matches(r)' /\ Tells(r, told[Len(log) + 1])'
    <3>1. Matches(r)' BY <2>12, <2>13, <2>14, <2>15 DEF Matches
    <3>2. Tells(r, Last(told)) BY <2>4, <2>5, <2>15 DEF Matches, Tells
    <3>3. told'[Len(log') + 1] = Last(told)
      <4>1. Len(log') \in Nat
        <5>1. log' \in Seq(Command) BY TypeOfMemory DEF IInv, TypeOK, Command
        <5> HIDE DEF Command
        <5> QED BY <5>1
      <4> QED BY <1>2, <4>1
    <3> QED BY <2>12, <3>1, <3>2, <3>3 DEF Tells
  <2>16. CASE n = 0
    <3>1. log' = <<>> /\ Len(log') = 0
      <4>1. ids = <<>> BY <2>6, <2>16
      <4> QED BY <1>1, <4>1
    <3>2. PICK u : u = [i \in 0 .. 0 |-> m] OBVIOUS
    <3>3. u \in [0 .. Len(<<>>) -> Point] /\ Leads(u, <<>>) BY <2>10, <3>2, EmptyTrace
    <3>4. m.map = Current
      <4>1. Live = {} BY <2>8, <2>16
      <4> QED BY <2>10, <4>1 DEF Current, Nothing
    <3>5. Matches(m)' /\ Tells(m, told[Len(log) + 1])'
      BY <2>10, <2>15, <2>16, <3>4
    <3>6. u[0] = m /\ u[Len(log')] = m BY <3>1, <3>2
    <3>7. Leads(u, Course)' BY <1>7, <3>1, <3>3 DEF Leads
    <3>8. Matches(u[Len(Course)])' BY <1>7, <3>5, <3>6
    <3>9. (u[0].map = Saved.vectors /\ Domain(Saved.nodes) = 1 .. u[0].last)'
      BY <2>11, <3>6
    <3>11. \A k \in durable' .. Len(log') : Tells(u[k], told[k + 1])'
      BY <1>2, <3>1, <3>5, <3>6
    <3>10. Explains(u)' BY <1>2, <3>7, <3>8, <3>9, <3>11 DEF Explains
    <3> QED BY <1>7, <3>1, <3>3, <3>10
  <2>17. CASE n # 0
    <3>1. PICK c : c = [op |-> "insert", ids |-> ids,
                        batch |-> [k \in DOMAIN ids |-> vectors[ids[k]]]]
      OBVIOUS
    <3>2. ids # <<>> /\ log' = <<c>>
      <4>1. 1 \in DOMAIN ids BY <1>6, <2>7, <2>17
      <4> QED BY <1>1, <3>1, <4>1
    <3>3. c \in Command
      <4>1. log' \in Seq(Command) BY TypeOfMemory DEF IInv, TypeOK, Command
      <4>2. 1 \in DOMAIN log' /\ log'[1] = c BY <3>2
      <4> QED BY <4>1, <4>2
    <3>4. /\ c.op = "insert" /\ c.ids = ids /\ DOMAIN c.batch = 1 .. n
          /\ \A k \in 1 .. n : c.batch[k] = vectors[k]
      BY <2>7, <3>1
    <3>5. Numbered(m, c)
      <4>1. c.batch # <<>>
        <5>1. 1 \in DOMAIN c.batch BY <1>6, <2>17, <3>4
        <5> QED BY <5>1
      <4>2. c.ids = [k \in DOMAIN c.batch |-> m.last + k]
        <5>1. \A k \in 1 .. n : m.last + k = k BY <2>10
        <5> QED BY <2>6, <3>4, <5>1
      <4> QED BY <4>1, <4>2 DEF Numbered
    <3>6. /\ c.batch \in Seq(Vector) /\ ToSet(c.ids) = (m.last + 1) .. (m.last + Len(c.batch))
          /\ After(m, c).last = m.last + Len(c.batch)
          /\ After(m, c).map = [i \in Id |-> IF i \in ToSet(c.ids)
                                             THEN c.batch[i - m.last] ELSE m.map[i]]
      BY <2>10, <3>3, <3>4, <3>5, InsertAfter
    <3>7. Len(c.batch) = n
      <4>1. DOMAIN c.batch = 1 .. Len(c.batch) /\ Len(c.batch) \in Nat BY <3>6
      <4> QED BY <1>6, <3>4, <4>1, SameTop
    <3>8. After(m, c).last = n /\ ToSet(c.ids) = 1 .. n BY <1>6, <2>10, <3>6, <3>7
    <3>9. After(m, c).map = Current
      <4>1. ASSUME NEW i \in Id
            PROVE  (IF i \in ToSet(c.ids) THEN c.batch[i - m.last] ELSE m.map[i])
                   = (IF i \in Live THEN vectors[i] ELSE Absent)
        <5>1. i - m.last = i BY <2>10 DEF Id
        <5> QED BY <2>8, <2>10, <3>4, <3>8, <5>1 DEF Nothing
      <4> QED BY <3>6, <4>1 DEF Current
    <3>10. PICK r : r = After(m, c) OBVIOUS
    <3>11. Matches(r)' /\ Tells(r, told[Len(log) + 1])'
      BY <2>15, <3>8, <3>9, <3>10
    <3>12. PICK u : u = [i \in 0 .. 1 |-> IF i = 0 THEN m ELSE After(m, c)] OBVIOUS
    <3>13. u \in [0 .. Len(<<c>>) -> Point] /\ Leads(u, <<c>>)
      BY <2>10, <3>3, <3>5, <3>12, SingleTrace
    <3>14. u[0] = m /\ u[1] = r /\ Len(log') = 1 BY <3>2, <3>10, <3>12
    <3>15. Leads(u, Course)' BY <1>7, <3>2, <3>13 DEF Leads
    <3>16. Matches(u[Len(Course)])' BY <1>7, <3>11, <3>14
    <3>17. (u[0].map = Saved.vectors /\ Domain(Saved.nodes) = 1 .. u[0].last)'
      BY <2>11, <3>14
    <3>19. \A k \in durable' .. Len(log') : Tells(u[k], told[k + 1])'
      BY <1>2, <3>11, <3>14
    <3>18. Explains(u)' BY <1>2, <3>15, <3>16, <3>17, <3>19 DEF Explains
    <3> QED BY <1>7, <3>2, <3>13, <3>18
  <2> QED BY <2>16, <2>17
<1> QED BY <1>2, <1>4, <1>9 DEF TInv

\* A process that ends forgets the commands that are not in the log, and a crash the
\* last ones of the log: the trace ends where the log does.
LEMMA ForgetTrace ==
    ASSUME IInv, NEW t \in [0 .. Len(Course) -> Point], Explains(t), Stop,
           NEW u, u = [i \in 0 .. Len(log') |-> t[i]]
    PROVE  /\ Course' = log' /\ Len(log') \in Nat
           /\ u \in [0 .. Len(log') -> Point] /\ Leads(u, log')
           /\ u[0] = t[0]
           /\ Clean' = Clean => \A n \in durable' .. Len(log') : Tells(u[n], told[n + 1])'
<1>1. /\ log \in Seq(Command) /\ unlogged \in Seq(Command)
      /\ Len(log) \in Nat /\ Len(Course) \in Nat /\ Len(log) <= Len(Course)
  BY CourseType DEF IInv
<1>2. \A i \in 1 .. Len(log) : Course[i] = log[i] BY <1>1, CourseOK DEF Course
<1>3. PICK m \in durable .. Len(log) :
        /\ log' \in Seq(Command) /\ Len(log') = m
        /\ \A i \in 1 .. m : log'[i] = log[i]
        /\ \A i \in 1 .. (m + 1) : told'[i] = told[i]
        /\ durable' = durable
  BY StopOK DEF IInv
<1>4. durable \in 0 .. Len(log) /\ m \in Nat /\ m <= Len(log)
  BY <1>1 DEF IInv, TypeOK
<1>5. Course' = log'
  <2>1. unlogged' = <<>> BY DEF Stop
  <2> HIDE DEF Command
  <2>2. log' \o <<>> = log' BY <1>3
  <2> QED BY <2>1, <2>2 DEF Course
<1>6. u \in [0 .. m -> Point] BY <1>1, <1>3, <1>4
<1>7. ASSUME NEW i \in 1 .. m
      PROVE  u[i] = After(u[i - 1], log'[i]) /\ Numbered(u[i - 1], log'[i])
  <2>1. /\ i \in 1 .. Len(Course) /\ i \in 1 .. Len(log) /\ i \in 0 .. m /\ i - 1 \in 0 .. m
    BY <1>1, <1>4
  <2>2. t[i] = After(t[i - 1], Course[i]) /\ Numbered(t[i - 1], Course[i])
    BY <2>1 DEF Explains, Leads
  <2> QED BY <1>2, <1>3, <2>1, <2>2
<1>8. 0 \in 0 .. m BY <1>4
<1>9. ASSUME Clean' = Clean, NEW n \in durable' .. m PROVE Tells(u[n], told[n + 1])'
  <2>1. n \in durable .. Len(log) /\ n \in 0 .. m /\ n + 1 \in 1 .. (m + 1)
    BY <1>1, <1>3, <1>4
  <2>2. Tells(t[n], told[n + 1]) BY <2>1 DEF Explains
  <2>3. u[n] = t[n] /\ told'[n + 1] = told[n + 1] BY <1>3, <2>1
  <2> QED BY <1>9, <2>2, <2>3 DEF Tells
<1> QED BY <1>3, <1>4, <1>5, <1>6, <1>7, <1>8, <1>9 DEF Leads

LEMMA RestartTInv ==
    ASSUME IInv, TInv, Restart
    PROVE  TInv'
<1>1. /\ vectors' = Saved.vectors /\ nodes' = Saved.nodes /\ deletedIDs' = {}
      /\ nextID' \in NextIdAfter(Saved.vectors)
      /\ phase' = "replaying" /\ pos' = 1 /\ unlogged' = <<>>
      /\ snap' = snap /\ causes' = causes /\ Stop
  BY DEF Restart, Restore, Stop
<1>2. /\ Saved.vectors \in Map /\ Domain(Saved.vectors) \subseteq Domain(Saved.nodes)
      /\ snap = NoSnapshot => Domain(Saved.vectors) = {} /\ Domain(Saved.nodes) = {}
  <2>1. CASE snap = NoSnapshot
    <3>1. Saved.vectors = Nothing /\ Saved.nodes = Nothing BY <2>1 DEF Saved
    <3>2. Nothing \in Map /\ Domain(Nothing) = {} BY DEF Nothing, Map, Domain
    <3> QED BY <2>1, <3>1, <3>2
  <2>2. CASE snap # NoSnapshot BY <2>2 DEF Saved, IInv, SnapshotOK, TypeOK, Snapshot
  <2> QED BY <2>1, <2>2
<1>3. Saved' = Saved BY <1>1 DEF Saved
<1>4. Dense'
  <2>1. PICK n \in 0 .. MaxId : Domain(Saved.nodes) = 1 .. n BY DEF TInv, Dense
  <2>2. /\ nextID' \in 1 .. (MaxId + 1)
        /\ nextID' = 1 \/ nextID' - 1 \in Domain(Saved.vectors)
    BY <1>1 DEF NextIdAfter
  <2>3. n \in Nat /\ nextID' \in Int BY <2>2, MaxIdAssumption
  <2>4. nextID' <= n + 1
    <3>1. CASE nextID' = 1 BY <2>3, <3>1
    <3>2. CASE nextID' - 1 \in Domain(Saved.vectors)
      <4>1. PICK x \in Int : x = nextID' BY <2>3
      <4>2. x - 1 \in 1 .. n BY <1>2, <2>1, <3>2, <4>1
      <4>3. x <= n + 1 BY <2>3, <4>2
      <4> QED BY <4>1, <4>3
    <3> QED BY <2>2, <3>1, <3>2
  <2>5. snap' = NoSnapshot => nextID' = n + 1
    <3> SUFFICES ASSUME snap = NoSnapshot PROVE nextID' = n + 1 BY <1>1
    <3>1. 1 .. n = 1 .. 0 BY <1>2, <2>1
    <3>2. n = 0 BY <2>3, <3>1, SameTop
    <3>3. nextID' = 1 BY <1>2, <2>2
    <3> QED BY <3>2, <3>3
  <2>6. Domain(nodes)' = 1 .. n /\ Domain(Saved.nodes)' = 1 .. n
    BY <1>1, <1>3, <2>1 DEF Domain
  <2> QED BY <2>4, <2>5, <2>6 DEF Dense
<1>6. Current' = Saved.vectors
  <2>1. Live' = Domain(Saved.vectors) BY <1>1 DEF Live, Domain
  <2>2. Current' = [i \in Id |-> IF i \in Domain(Saved.vectors) THEN Saved.vectors[i] ELSE Absent]
    BY <1>1, <2>1 DEF Current
  <2> QED BY <1>2, <2>2 DEF Map, Domain
<1>7. ASSUME Ordered' PROVE \E u \in [0 .. Len(Course') -> Point] : Explains(u)'
  <2>1. PICK t \in [0 .. Len(Course) -> Point] : Explains(t)
    BY <1>1, <1>7 DEF TInv, Ordered
  <2>2. PICK u : u = [i \in 0 .. Len(log') |-> t[i]] OBVIOUS
  <2>3. /\ Course' = log' /\ Len(log') \in Nat
        /\ u \in [0 .. Len(log') -> Point] /\ Leads(u, log') /\ u[0] = t[0]
        /\ \A n \in durable' .. Len(log') : Tells(u[n], told[n + 1])'
    BY <1>1, <2>1, <2>2, ForgetTrace DEF Clean
  <2>4. Leads(u, Course)' BY <2>3 DEF Leads
  <2>5. (u[0].map = Saved.vectors /\ Domain(Saved.nodes) = 1 .. u[0].last)'
    BY <1>3, <2>1, <2>3 DEF Explains, Domain
  <2>7. Matches(u[pos - 1])'
    <3>1. pos' - 1 = 0 BY <1>1
    <3>2. u[0].map = Saved.vectors /\ Domain(Saved.nodes) = 1 .. u[0].last
      BY <2>1, <2>3 DEF Explains
    <3>3. Domain(nodes)' = 1 .. u[0].last BY <1>1, <3>2 DEF Domain
    <3>4. Matches(u[0])' BY <1>6, <3>2, <3>3 DEF Matches
    <3> QED BY <3>1, <3>4
  <2>8. pos' <= Len(log') + 1 BY <1>1, <2>3
  <2>9. Explains(u)' BY <1>1, <2>3, <2>4, <2>5, <2>7, <2>8 DEF Explains
  <2> QED BY <2>3, <2>9
<1> QED BY <1>1, <1>4, <1>7 DEF TInv

LEMMA RestartRefusedTInv ==
    ASSUME IInv, TInv, RestartRefused
    PROVE  TInv'
<1>1. /\ phase' = "refused" /\ unlogged' = <<>> /\ UNCHANGED memory
      /\ snap' = snap /\ causes' = causes /\ Stop
  BY DEF RestartRefused, Stop
<1>2. Dense' BY <1>1, SameDense DEF TInv, memory
<1>4. ASSUME Ordered' PROVE \E u \in [0 .. Len(Course') -> Point] : Explains(u)'
  <2>1. PICK t \in [0 .. Len(Course) -> Point] : Explains(t)
    BY <1>1, <1>4 DEF TInv, Ordered
  <2>2. PICK u : u = [i \in 0 .. Len(log') |-> t[i]] OBVIOUS
  <2>3. /\ Course' = log' /\ Len(log') \in Nat
        /\ u \in [0 .. Len(log') -> Point] /\ Leads(u, log') /\ u[0] = t[0]
        /\ \A n \in durable' .. Len(log') : Tells(u[n], told[n + 1])'
    BY <1>1, <2>1, <2>2, ForgetTrace DEF Clean
  <2>4. Leads(u, Course)' BY <2>3 DEF Leads
  <2>5. (u[0].map = Saved.vectors /\ Domain(Saved.nodes) = 1 .. u[0].last)'
    BY <1>1, <2>1, <2>3 DEF Explains, Domain, Saved
  <2>7. Explains(u)' BY <1>1, <2>3, <2>4, <2>5 DEF Explains
  <2> QED BY <2>3, <2>7
<1> QED BY <1>1, <1>2, <1>4 DEF TInv

LEMMA ReplayTInv ==
    ASSUME IInv, TInv, Replay
    PROVE  TInv'
<1>1. /\ phase = "replaying" /\ phase' = phase /\ pos <= Len(log) /\ pos' = pos + 1
      /\ snap' = snap /\ log' = log /\ unlogged' = unlogged /\ unlogged = <<>>
      /\ causes' = causes /\ told' = told /\ durable' = durable
      /\ durable' \in durable .. Len(log)
  BY LastTold DEF Replay, files, history, TInv, IInv, TypeOK
<1>2. PICK c : c = log[pos] OBVIOUS
<1>3. /\ log \in Seq(Command) /\ Len(log) \in Nat /\ pos \in Nat \ {0}
      /\ c \in Command /\ pos \in 1 .. Len(log) /\ Len(Course) \in Nat
      /\ Len(log) <= Len(Course)
  <2>1. log \in Seq(Command) /\ Len(log) \in Nat /\ pos \in Nat \ {0}
        /\ Len(Course) \in Nat /\ Len(log) <= Len(Course)
    BY CourseType DEF IInv
  <2> HIDE DEF Command
  <2>2. pos \in 1 .. Len(log) BY <1>1, <2>1
  <2> QED BY <1>2, <2>1, <2>2
<1>4. \/ c.op = "insert" /\ ApplyInsert(c.batch)
      \/ c.op = "delete" /\ ApplyDelete(c.ids)
  BY <1>2 DEF Replay
<1>5. Dense'
  <2>1. CASE c.op = "insert" /\ ApplyInsert(c.batch)
    <3>1. c \in InsertCmd BY <1>3, <2>1 DEF Command, DeleteCmd
    <3>2. c.batch \in Seq(Vector) BY <3>1 DEF InsertCmd
    <3> QED BY <1>1, <2>1, <3>2, InsertKeepsDense DEF TInv
  <2>2. CASE c.op = "delete" /\ ApplyDelete(c.ids)
    <3>1. nodes' = nodes /\ nextID' = nextID BY <2>2 DEF ApplyDelete
    <3> QED BY <1>1, <3>1, SameDense DEF TInv
  <2> QED BY <1>4, <2>1, <2>2
<1>6. ASSUME Ordered' PROVE \E u \in [0 .. Len(Course') -> Point] : Explains(u)'
  <2>1. PICK t \in [0 .. Len(Course) -> Point] : Explains(t)
    BY <1>1, <1>6 DEF TInv, Ordered
  <2>2. PICK s : s = t[pos - 1] OBVIOUS
  <2>3. s \in Point /\ Matches(s)
    <3>1. pos - 1 \in 0 .. Len(Course) BY <1>3
    <3> QED BY <1>1, <2>1, <2>2, <3>1 DEF Explains
  <2>4. Course[pos] = c
    <3>1. log \in Seq(Command) /\ unlogged \in Seq(Command) BY CourseType DEF IInv
    <3> QED BY <1>2, <1>3, <3>1, CourseOK DEF Course
  <2>5. t[pos] = After(s, c) /\ Numbered(s, c)
    <3>1. pos \in 1 .. Len(Course) BY <1>3
    <3> QED BY <2>1, <2>2, <2>4, <3>1 DEF Explains, Leads
  <2>6. Clean' = Clean BY <1>1 DEF Clean
  <2>7. Matches(After(s, c))'
    <3>1. CASE c.op = "insert" /\ ApplyInsert(c.batch)
      BY <1>3, <2>3, <2>5, <2>6, <3>1, InsertPoint DEF TInv
    <3>2. CASE c.op = "delete" /\ ApplyDelete(c.ids)
      BY <1>3, <2>3, <2>6, <3>2, DeletePoint
    <3> QED BY <1>4, <3>1, <3>2
  <2>8. t[pos'-1] = After(s, c)
    <3>1. pos' - 1 = pos BY <1>1, <1>3
    <3> QED BY <2>5, <3>1
  <2>9. pos' <= Len(log) + 1 BY <1>1, <1>3
  <2>10. Matches(t[pos - 1])' BY <2>7, <2>8
  <2> QED BY <1>1, <2>1, <2>6, <2>9, <2>10, SameTrace
<1> QED BY <1>1, <1>5, <1>6 DEF TInv

LEMMA ReplayFailsTInv ==
    ASSUME IInv, TInv, ReplayFails
    PROVE  TInv'
<1>1. /\ phase = "replaying" /\ phase' = "refused" /\ pos <= Len(log) /\ log[pos].op = "insert"
      /\ snap' = snap /\ log' = log /\ unlogged' = unlogged /\ unlogged = <<>>
      /\ causes \subseteq causes' /\ told' = told /\ durable' \in durable .. Len(log)
  BY LastTold DEF ReplayFails, ApplyInsertFails, files, TInv, IInv, TypeOK
<1>2. log[pos].batch \in Seq(Vector)
  <2>1. log \in Seq(Command) /\ Len(log) \in Nat /\ pos \in Nat \ {0}
    BY CourseType DEF IInv
  <2>2. log[pos] \in Command
    <3> HIDE DEF Command
    <3>1. pos \in 1 .. Len(log) BY <1>1, <2>1
    <3> QED BY <2>1, <3>1
  <2>3. log[pos] \in InsertCmd BY <1>1, <2>2 DEF Command, DeleteCmd
  <2> QED BY <2>3 DEF InsertCmd
<1>3. Dense'
  <2>1. CASE UNCHANGED <<memory, causes>> BY <1>1, <2>1, SameDense DEF TInv, memory
  <2>2. CASE ApplyInsertFails(log[pos].batch) BY <1>1, <1>2, <2>2, FailsDense DEF TInv
  <2> QED BY <2>1, <2>2 DEF ReplayFails
<1>4. ASSUME Ordered' PROVE \E u \in [0 .. Len(Course') -> Point] : Explains(u)'
  <2>1. PICK t \in [0 .. Len(Course) -> Point] : Explains(t)
    BY <1>1, <1>4 DEF TInv, Ordered
  <2>2. Clean' => Clean BY <1>1 DEF Clean
  <2> QED BY <1>1, <2>1, <2>2, SameTrace
<1> QED BY <1>1, <1>3, <1>4 DEF TInv

LEMMA ReplayDoneTInv ==
    ASSUME IInv, TInv, ReplayDone
    PROVE  TInv'
<1>1. /\ phase = "replaying" /\ phase' = "serving" /\ pos > Len(log) /\ UNCHANGED memory
      /\ snap' = snap /\ log' = log /\ unlogged' = unlogged /\ unlogged = <<>>
      /\ causes' = causes /\ told' = told /\ durable' \in durable .. Len(log)
  BY LastTold DEF ReplayDone, files, history, TInv, IInv, TypeOK
<1>2. UNCHANGED <<vectors, deletedIDs, nodes, nextID>> BY <1>1 DEF memory
<1>3. Dense' BY <1>1, <1>2, SameDense DEF TInv
<1>4. ASSUME Ordered' PROVE \E u \in [0 .. Len(Course') -> Point] : Explains(u)'
  <2>1. PICK t \in [0 .. Len(Course) -> Point] : Explains(t)
    BY <1>1, <1>4 DEF TInv, Ordered
  <2>2. pos - 1 = Len(Course)
    <3>1. /\ pos \in Nat /\ Len(log) \in Nat /\ Len(Course) = Len(log) + Len(unlogged)
      BY CourseType DEF IInv
    <3>2. pos <= Len(log) + 1 BY <1>1, <2>1 DEF Explains
    <3>3. Len(Course) = Len(log) BY <1>1, <3>1
    <3> QED BY <1>1, <3>1, <3>2, <3>3
  <2>3. PICK s : s = t[Len(Course)] OBVIOUS
  <2>4. Matches(s) BY <1>1, <2>1, <2>2, <2>3 DEF Explains
  <2>5. Clean' = Clean BY <1>1 DEF Clean
  <2>6. Matches(s)' BY <1>2, <2>4, <2>5 DEF Matches, Domain, Current, Live
  <2>7. Matches(t[Len(Course)])'
    <3>1. Course' = Course BY <1>1 DEF Course
    <3> QED BY <2>3, <2>6, <3>1
  <2> QED BY <1>1, <2>1, <2>5, <2>7, SameTrace
<1> QED BY <1>1, <1>3, <1>4 DEF TInv

LEMMA SameTInv == TInv /\ UNCHANGED vars => TInv'
<1> SUFFICES ASSUME TInv, UNCHANGED vars PROVE TInv' OBVIOUS
<1>1. /\ UNCHANGED <<vectors, deletedIDs, nodes, nextID, phase, pos, snap, log, durable, unlogged,
                     told, causes>>
  BY DEF vars, memory, files, history
<1>2. Dense' BY <1>1, SameDense DEF TInv
<1>3. Course' = Course /\ Saved' = Saved /\ Current' = Current
  BY <1>1 DEF Course, Saved, Current, Live, Domain
<1>4. ASSUME Ordered' PROVE \E u \in [0 .. Len(Course') -> Point] : Explains(u)'
  <2>1. PICK t \in [0 .. Len(Course) -> Point] : Explains(t)
    BY <1>1, <1>4 DEF TInv, Ordered
  <2>2. Explains(t)'
    BY <1>1, <1>3, <2>1 DEF Explains, Tells, Leads, Matches, Domain, Clean
  <2> QED BY <1>3, <2>1, <2>2
<1> QED BY <1>1, <1>2, <1>4 DEF TInv

-----------------------------------------------------------------------------

LEMMA InitTInv == Init => TInv
<1> SUFFICES ASSUME Init PROVE TInv OBVIOUS
<1>1. Nothing \in Map /\ Domain(Nothing) = {} /\ 1 .. 0 = {} /\ 0 \in 0 .. MaxId
  BY MaxIdAssumption DEF Nothing, Map, Domain
<1>2. Saved.vectors = Nothing /\ Saved.nodes = Nothing BY DEF Init, Saved
<1>3. Dense
  <2>1. Domain(nodes) = 1 .. 0 /\ nextID = 0 + 1 /\ nextID <= 0 + 1 /\ Domain(Saved.nodes) = 1 .. 0
    BY <1>1, <1>2 DEF Init
  <2> QED BY <1>1, <2>1 DEF Dense
<1>4. Course = <<>> /\ Len(log) = 0
  <2>1. <<>> \o <<>> = <<>> OBVIOUS
  <2> QED BY <2>1 DEF Init, Course
<1>5. PICK m : m = [map |-> Nothing, last |-> 0] OBVIOUS
<1>6. m \in Point BY <1>1, <1>5 DEF Point
<1>7. PICK u : u = [i \in 0 .. 0 |-> m] OBVIOUS
<1>8. u \in [0 .. Len(<<>>) -> Point] /\ Leads(u, <<>>) BY <1>6, <1>7, EmptyTrace
<1>9. u[0] = m /\ Len(<<>>) = 0 BY <1>7
<1>10. Current = Nothing
  <2>1. Live = {} BY <1>1 DEF Init, Live
  <2> QED BY <2>1 DEF Current, Nothing
<1>11. Matches(m) BY <1>1, <1>5, <1>10 DEF Init, Matches
<1>13. \A n \in durable .. Len(log) : Tells(u[n], told[n + 1])
  <2>1. durable = 0 /\ told[0 + 1] = [live |-> Nothing, ids |-> {}] BY DEF Init
  <2> QED BY <1>4, <1>5, <1>9, <2>1 DEF Tells
<1>12. Explains(u)
  <2>1. Leads(u, Course) BY <1>4, <1>8
  <2>2. u[0].map = Saved.vectors /\ Domain(Saved.nodes) = 1 .. u[0].last BY <1>1, <1>2, <1>5, <1>9
  <2>3. phase = "serving" BY DEF Init
  <2> QED BY <1>4, <1>9, <1>11, <1>13, <2>1, <2>2, <2>3 DEF Explains
<1> QED BY <1>3, <1>4, <1>8, <1>12 DEF Init, TInv

LEMMA NextTInv == IInv /\ TInv /\ IInv' /\ [Next]_vars => TInv'
<1> SUFFICES ASSUME IInv, TInv, IInv', [Next]_vars PROVE TInv' OBVIOUS
<1>1. CASE \E batch \in Batch : Insert(batch) BY <1>1, InsertTInv
<1>2. CASE \E batch \in Batch : InsertFails(batch) BY <1>2, InsertFailsTInv
<1>3. CASE \E ids \in Deletion : Delete(ids) BY <1>3, DeleteTInv
<1>4. CASE \E k \in DOMAIN unlogged : Log(k) BY <1>4, LogTInv
<1>13. CASE \E k \in DOMAIN unlogged : LogFails(k) BY <1>13, LogFailsTInv
<1>14. CASE Sync BY <1>14, SyncTInv
<1>5. CASE Save BY <1>5, SaveTInv
<1>6. CASE Rewrite BY <1>6, RewriteTInv
<1>7. CASE Restart BY <1>7, RestartTInv
<1>8. CASE RestartRefused BY <1>8, RestartRefusedTInv
<1>9. CASE Replay BY <1>9, ReplayTInv
<1>10. CASE ReplayFails BY <1>10, ReplayFailsTInv
<1>11. CASE ReplayDone BY <1>11, ReplayDoneTInv
<1>12. CASE UNCHANGED vars BY <1>12, SameTInv
<1> QED
  BY <1>1, <1>2, <1>3, <1>4, <1>5, <1>6, <1>7, <1>8, <1>9, <1>10, <1>11, <1>12, <1>13, <1>14
  DEF Next

\* The nodes of the index are numbered without a gap.  As long as every command that
\* was executed has reached the log, in an order equal to that of execution, and no
\* rewrite has renumbered it, the log's commands lead from the snapshot to the memory
\* and pass, at every length that a crash may cut the log to, what clients had been
\* told by then.
THEOREM TraceInvariance == Spec => []TInv
<1>1. IInv /\ TInv /\ IInv' /\ [Next]_vars => TInv' BY NextTInv
<1> QED BY InitTInv, <1>1, Invariance, PTL DEF Spec

\* A recovery that ends brings back what clients had been told by the commands that
\* survived the crashes so far, with the same identifiers, unless the index refused an
\* insertion, a command could not be logged, the log was rewritten in another order of
\* identifiers or commands were logged in another order than they were executed.
THEOREM RestartIsExact == Spec => []RestartExact
<1>1. IInv /\ TInv => RestartExact
  <2> SUFFICES ASSUME IInv, TInv, Recovered, causes \subseteq {"tombstone"}
               PROVE  Last(told).live = Current
    BY DEF RestartExact
  <2>1. Ordered /\ Clean BY DEF Ordered, Clean
  <2>2. PICK t \in [0 .. Len(Course) -> Point] : Explains(t) BY <2>1 DEF TInv
  <2>3. /\ pos <= Len(log) + 1 /\ pos > Len(log) /\ Matches(t[pos - 1])
        /\ t[Len(log)].map = Last(told).live
    BY <2>1, <2>2, TellsAll DEF Explains, Recovered, Tells
  <2>4. pos - 1 = Len(log)
    <3>1. pos \in Nat /\ Len(log) \in Nat BY CourseType DEF IInv
    <3> QED BY <2>3, <3>1
  <2> QED BY <2>1, <2>3, <2>4 DEF Matches
<1> QED BY <1>1, Invariance, TraceInvariance, PTL

\* The largest number given does not decrease along a trace.
LEMMA LastGrows ==
    ASSUME NEW s \in Seq(Command), NEW t \in [0 .. Len(s) -> Point], Leads(t, s),
           NEW l \in 0 .. Len(s), NEW r \in l .. Len(s)
    PROVE  t[l].last <= t[r].last
<1> DEFINE T == {j \in Nat : j <= r - l => t[l].last <= t[l + j].last}
<1>1. Len(s) \in Nat /\ l \in Nat /\ r \in Nat /\ r - l \in Nat OBVIOUS
<1>2. 0 \in T
  <2>1. t[l].last \in Nat BY DEF Point
  <2>2. l + 0 = l BY <1>1
  <2> QED BY <2>1, <2>2
<1>3. ASSUME NEW j \in 0 .. (r - l) - 1, j \in T PROVE j + 1 \in T
  <2>1. /\ l + j \in 0 .. Len(s) /\ l + j + 1 \in 1 .. Len(s) /\ (l + j + 1) - 1 = l + j
        /\ l + (j + 1) = l + j + 1 /\ j <= r - l
    BY <1>1
  <2>2. PICK i \in 1 .. Len(s) : i = l + j + 1 BY <2>1
  <2>3. t[i] = After(t[i - 1], s[i]) /\ Numbered(t[i - 1], s[i])
    BY DEF Leads
  <2>4. i - 1 = l + j /\ t[i - 1] \in Point /\ s[i] \in Command BY <1>1, <2>1, <2>2
  <2>5. t[i - 1].last <= t[i].last BY <2>3, <2>4, AfterOK
  <2>6. t[l].last <= t[i - 1].last BY <1>3, <2>1, <2>4
  <2>7. t[l].last \in Nat /\ t[i - 1].last \in Nat /\ t[i].last \in Nat
    BY <1>1, <2>4 DEF Point
  <2>8. t[l].last <= t[l + (j + 1)].last BY <2>1, <2>2, <2>5, <2>6, <2>7
  <2> QED BY <2>8
<1>4. \A j \in 0 .. r - l : j \in T
  <2> HIDE DEF T
  <2> QED BY <1>1, <1>2, <1>3, UpTo
<1>5. r - l \in 0 .. r - l /\ l + (r - l) = r BY <1>1
<1> QED BY <1>4, <1>5

\* An identifier that was answered to a client, by an answer whose record survives the
\* crashes, is not answered to another, across deletions, saves and restarts and
\* whether the index refuses insertions or not, unless commands were logged in another
\* order than they were executed, the log was rewritten or a command could not be
\* logged.
THEOREM IdsAreNeverReused == Spec => IdsNeverReused
<1>1. ASSUME IInv, TInv, NEW k \in DOMAIN unlogged, Log(k), unlogged[k].op = "insert",
             causes \cap {"order", "rewrite", "unlogged"} = {}
      PROVE  Last(told).ids \cap ToSet(unlogged[k].ids) = {}
  <2>1. PICK t \in [0 .. Len(Course) -> Point] : Explains(t) BY <1>1 DEF TInv, Ordered
  <2>2. /\ log \in Seq(Command) /\ unlogged \in Seq(Command) /\ Course \in Seq(Command)
        /\ Len(log) \in Nat /\ Len(Course) = Len(log) + Len(unlogged)
    BY <1>1, CourseType DEF IInv
  <2>3. PICK c \in Command : c = unlogged[k] BY <2>2
  <2>4. PICK i : i = Len(log) + k OBVIOUS
  <2>5. /\ k \in 1 .. Len(unlogged) /\ Len(unlogged) \in Nat
    <3> HIDE DEF Command
    <3> QED BY <2>2
  <2>6. i \in 1 .. Len(Course) /\ Len(log) \in 0 .. Len(Course) /\ i - 1 \in Len(log) .. Len(Course)
        /\ i - 1 \in 0 .. Len(Course)
    BY <2>2, <2>4, <2>5
  <2>7. Course[i] = c BY <2>2, <2>3, <2>4, <2>5, CourseOK DEF Course
  <2>8. Numbered(t[i - 1], c) BY <2>1, <2>6, <2>7 DEF Explains, Leads
  <2>9. t[Len(log)].last <= t[i - 1].last
    <3>1. Leads(t, Course) BY <2>1 DEF Explains
    <3> QED BY <2>1, <2>2, <2>6, <3>1, LastGrows
  <2>10. t[i - 1] \in Point /\ t[Len(log)] \in Point BY <2>1, <2>6
  <2>11. ToSet(c.ids) = (t[i - 1].last + 1) .. (t[i - 1].last + Len(c.batch))
         /\ Len(c.batch) \in Nat
    BY <1>1, <2>3, <2>8, <2>10, InsertAfter
  <2>12. Last(told).ids \subseteq 1 .. t[Len(log)].last BY <1>1, <2>1, TellsAll DEF Tells
  <2>13. t[i - 1].last \in Nat /\ t[Len(log)].last \in Nat BY <2>10 DEF Point
  <2> QED BY <2>3, <2>9, <2>11, <2>12, <2>13
<1>2. IInv /\ TInv =>
        [\A k \in DOMAIN unlogged :
            /\ Log(k) /\ unlogged[k].op = "insert"
            /\ causes \cap {"order", "rewrite", "unlogged"} = {}
            => Last(told).ids \cap ToSet(unlogged[k].ids) = {}]_vars
  BY <1>1
<1> QED BY <1>2, Invariance, TraceInvariance, PTL DEF IdsNeverReused
=============================================================================
