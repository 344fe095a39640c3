------------------------------ MODULE Collection ------------------------------
(***************************************************************************)
(* One collection: its vectors with their identifiers, tombstones and      *)
(* counters, the set of nodes of its HNSW index, and what becomes of them  *)
(* when a process restarts from a snapshot and a log.  Links and layers of *)
(* the index are left out: here it is the nodes it holds and which of them *)
(* it has marked as deleted.                                               *)
(*                                                                         *)
(* Insert and Delete hold c.mu, so that each is one step; the handler logs *)
(* after it has released the lock, in a step of its own, which succeeds    *)
(* (Log) or fails (LogFails).  A crash takes with it the commands of the   *)
(* log that no flush and fsync has covered.  A save is one step, taken     *)
(* while no handler is between the two: what goes wrong in that gap,       *)
(* whatever the commands say, is the subject of Persistence.               *)
(* The configuration and the creation of the collection are left out.      *)
(***************************************************************************)
EXTENDS Integers, Sequences, FiniteSets, SequencesExt

CONSTANTS
    Vector,       \* contents of vectors
    Dim,          \* Dim[v] is the number of elements of v
    Batch,        \* the batches that clients insert
    Deletion,     \* the sets of identifiers that clients delete
    Absent,       \* the value of a map where it has no entry
    NoSnapshot,   \* the RDB file before the first save
    MaxId,        \* bound: identifiers go up to MaxId
    MaxLog,       \* bound: commands in the log and on their way to it
    MaxUnlogged,  \* bound: commands on their way to the log
    MaxRestarts   \* bound: restarts of the process

ASSUME DimAssumption == Dim \in [Vector -> Nat]
ASSUME BatchAssumption == Batch \subseteq Seq(Vector) \ {<<>>}
ASSUME AbsentAssumption == Absent \notin Vector
ASSUME MaxIdAssumption == MaxId \in Nat

Id == 1 .. MaxId
ASSUME DeletionAssumption == Deletion \subseteq SUBSET Id
Map == [Id -> Vector \cup {Absent}]
Domain(m) == {i \in Id : m[i] # Absent}

InsertCmd == [op : {"insert"}, ids : Seq(Id), batch : Seq(Vector)]
DeleteCmd == [op : {"delete"}, ids : SUBSET Id]
Snapshot == [vectors : Map, nodes : Map, dead : SUBSET Id, size : Int]

\* What clients know by the answers they have got: the live vectors, and the
\* identifiers that insertions were answered.
Answers == [live : Map, ids : SUBSET Id]
ASSUME NoSnapshotAssumption == NoSnapshot \notin Snapshot

VARIABLES
    vectors,      \* Collection.vectors, deleted ones included
    deletedIDs,   \* Collection.deletedIDs
    nextID,       \* Collection.nextID
    vectorCount,  \* Collection.vectorCount, deleted ones included
    deletedCount, \* Collection.deletedCount
    nodes,        \* HNSW.nodes, the vector of each
    dead,         \* the nodes whose Deleted flag is set
    size,         \* HNSW.size
    phase,        \* "replaying" the log, "serving", or recovery "refused"
    pos,          \* the command of the log that is replayed next
    snap,         \* the collection in the RDB file
    log,          \* the commands of the AOF that concern the collection
    durable,      \* the number of them that a crash cannot take away
    unlogged,     \* the commands executed and not yet logged, in that order
    restarts,     \* the number of restarts
    told,         \* history: the answers when the log had 0, 1, ... commands
    causes        \* history: why a restart may not bring back what was told

memory == <<vectors, deletedIDs, nextID, vectorCount, deletedCount, nodes, dead, size>>
files == <<snap, log, durable>>
history == <<told, causes>>
vars == <<memory, phase, pos, files, unlogged, restarts, history>>

\* What Get returns, and what Search can return.
Live == Domain(vectors) \ deletedIDs
Searchable == Domain(nodes) \ dead

Nothing == [i \in Id |-> Absent]

Init ==
    /\ vectors = Nothing /\ nodes = Nothing
    /\ deletedIDs = {} /\ dead = {}
    /\ nextID = 1 /\ vectorCount = 0 /\ deletedCount = 0 /\ size = 0
    /\ phase = "serving" /\ pos = 1
    /\ snap = NoSnapshot /\ log = <<>> /\ durable = 0 /\ unlogged = <<>> /\ restarts = 0
    /\ told = <<[live |-> Nothing, ids |-> {}]>> /\ causes = {}

-----------------------------------------------------------------------------
(* Insert and Delete, called by a handler or by the replay.               *)

SameDim(batch, d) == \A k \in DOMAIN batch : Dim[batch[k]] = d

\* Mutant: the dimension is free again when every vector is deleted.
FitsLive(batch) ==
    \/ Live # {} /\ \E i \in Domain(vectors) : SameDim(batch, Dim[vectors[i]])
    \/ Live = {} /\ SameDim(batch, Dim[batch[1]])

\* A collection that counts vectors compares with any one of them, the others
\* only within the batch.  (A count above zero with no vector does not occur.)
DimensionsFit(batch) ==
    \/ vectorCount > 0 /\ \E i \in Domain(vectors) : SameDim(batch, Dim[vectors[i]])
    \/ vectorCount <= 0 /\ SameDim(batch, Dim[batch[1]])

DimensionsMayClash(batch) ==
    \/ vectorCount > 0 /\ \E i \in Domain(vectors) : ~SameDim(batch, Dim[vectors[i]])
    \/ vectorCount <= 0 /\ ~SameDim(batch, Dim[batch[1]])

\* The identifiers of the first k vectors of a batch.
NewIds(k) == nextID .. (nextID + k - 1)

\* The positions of the batch whose identifier the index already has.
Taken(batch) == {k \in DOMAIN batch : nodes[nextID + k - 1] # Absent}

With(m, batch, k) ==
    [i \in Id |-> IF i \in NewIds(k) THEN batch[i - nextID + 1] ELSE m[i]]

\* The first k vectors of the batch enter the map, the first n the index.
Store(batch, k, n) ==
    /\ vectors' = With(vectors, batch, k)
    /\ nodes' = With(nodes, batch, n)
    /\ nextID' = nextID + k
    /\ size' = size + n
    /\ UNCHANGED <<deletedIDs, deletedCount, dead>>

\* The bound on identifiers.
Room(n) == nextID + n - 1 <= MaxId

ApplyInsert(batch) ==
    /\ Room(Len(batch))
    /\ DimensionsFit(batch)
    /\ Taken(batch) = {}
    /\ Store(batch, Len(batch), Len(batch))
    /\ vectorCount' = vectorCount + Len(batch)

\* The index refuses an identifier: what was stored stays, and is not counted.
ApplyInsertFails(batch) ==
    /\ Room(Len(batch))
    /\ DimensionsFit(batch)
    /\ \E k \in Taken(batch) :
        /\ \A j \in Taken(batch) : k <= j
        /\ Store(batch, k, k - 1)
    /\ UNCHANGED vectorCount
    /\ causes' = causes \cup {"conflict"}

\* Mutant: the tombstones are not looked at.
DeleteAgain(ids) ==
    LET new == ids \cap Domain(vectors) IN
    /\ deletedIDs' = deletedIDs \cup new
    /\ deletedCount' = deletedCount + Cardinality(new)
    /\ dead' = dead \cup new
    /\ size' = size - Cardinality(new)
    /\ UNCHANGED <<vectors, nodes, nextID, vectorCount>>

\* Mutant: the index is not told.
DeleteUnindexed(ids) ==
    LET new == ids \cap Live IN
    /\ deletedIDs' = deletedIDs \cup new
    /\ deletedCount' = deletedCount + Cardinality(new)
    /\ UNCHANGED <<vectors, nodes, dead, size, nextID, vectorCount>>

\* IndexCovers is why the index never answers that it does not know the vector.
ApplyDelete(ids) ==
    LET new == ids \cap Live IN
    /\ deletedIDs' = deletedIDs \cup new
    /\ deletedCount' = deletedCount + Cardinality(new)
    /\ dead' = dead \cup new
    /\ size' = size - Cardinality(new \ dead)
    /\ UNCHANGED <<vectors, nodes, nextID, vectorCount>>

-----------------------------------------------------------------------------
(* Requests.                                                               *)

LogRoom == Len(log) + Len(unlogged) < MaxLog /\ Len(unlogged) < MaxUnlogged

Insert(batch) ==
    /\ phase = "serving" /\ LogRoom
    /\ ApplyInsert(batch)
    /\ unlogged' = Append(unlogged, [op |-> "insert", batch |-> batch,
                                     ids |-> [k \in DOMAIN batch |-> nextID + k - 1]])
    /\ UNCHANGED <<phase, pos, files, restarts, history>>

InsertFails(batch) ==
    /\ phase = "serving"
    /\ ApplyInsertFails(batch)
    /\ UNCHANGED <<phase, pos, files, unlogged, restarts, told>>

Delete(ids) ==
    /\ phase = "serving" /\ LogRoom
    /\ ApplyDelete(ids)
    /\ unlogged' = Append(unlogged, [op |-> "delete", ids |-> ids])
    /\ UNCHANGED <<phase, pos, files, restarts, history>>

\* Whether two commands have the same effect in either order.
Commute(c, d) ==
    CASE c.op = "insert" /\ d.op = "insert" -> FALSE
      [] c.op = "insert" /\ d.op = "delete" -> ToSet(c.ids) \cap d.ids = {}
      [] c.op = "delete" /\ d.op = "insert" -> ToSet(d.ids) \cap c.ids = {}
      [] OTHER -> TRUE

\* What clients know once the command has been answered with success.
Learned(a, c) ==
    IF c.op = "insert"
    THEN [live |-> [i \in Id |-> IF i \in ToSet(c.ids)
                                 THEN c.batch[i - c.ids[1] + 1] ELSE a.live[i]],
          ids |-> a.ids \cup ToSet(c.ids)]
    ELSE [live |-> [i \in Id |-> IF i \in c.ids THEN Absent ELSE a.live[i]],
          ids |-> a.ids]

\* The handlers' second half, in any order: c.mu is not held any more.
Log(k) ==
    LET c == unlogged[k] IN
    /\ phase = "serving"
    /\ log' = Append(log, c)
    /\ unlogged' = RemoveAt(unlogged, k)
    /\ told' = Append(told, Learned(Last(told), c))
    /\ causes' = causes \cup (IF \A j \in 1 .. (k - 1) : Commute(c, unlogged[j])
                              THEN {} ELSE {"order"})
    /\ UNCHANGED <<memory, phase, pos, snap, durable, restarts>>

\* The AOF reports an error, its record written (the fsync failed) or not.  The
\* effect stays.  Clients get an error; EmbedAndInsert answers as if all was well.
LogFails(k) ==
    LET c == unlogged[k] IN
    /\ phase = "serving"
    /\ unlogged' = RemoveAt(unlogged, k)
    /\ \E a \in {Last(told)} \cup (IF c.op = "insert" THEN {Learned(Last(told), c)} ELSE {}) :
        \/ log' = log /\ told' = [told EXCEPT ![Len(told)] = a]
        \/ log' = Append(log, c) /\ told' = Append(told, a)
    /\ causes' = causes \cup {"unlogged"}
    /\ UNCHANGED <<memory, phase, pos, snap, durable, restarts>>

-----------------------------------------------------------------------------
(* Files and restarts.                                                     *)

\* A flush and an fsync, by the ticker or by a command under `always`.
Sync ==
    /\ durable < Len(log)
    /\ durable' = Len(log)
    /\ UNCHANGED <<memory, phase, pos, snap, log, unlogged, restarts, history>>

\* Mutants: the snapshot has the deleted vectors too, or only live nodes.
CopyAll == [vectors |-> vectors, nodes |-> nodes, dead |-> dead, size |-> size]
CopyPruned ==
    [vectors |-> [i \in Id |-> IF i \in Live THEN vectors[i] ELSE Absent],
     nodes |-> [i \in Id |-> IF i \in Searchable THEN nodes[i] ELSE Absent],
     dead |-> {}, size |-> size]

\* GetDatabaseState: the live vectors, and all nodes of the graph.
Copy == [vectors |-> [i \in Id |-> IF i \in Live THEN vectors[i] ELSE Absent],
         nodes |-> nodes, dead |-> dead, size |-> size]

Save ==
    /\ phase = "serving" /\ unlogged = <<>>
    /\ snap' = Copy
    /\ log' = <<>> /\ durable' = 0 /\ told' = <<Last(told)>>
    /\ causes' = causes \cup (IF \E i \in Domain(nodes) : \A j \in Live : j < i
                              THEN {"tombstone"} ELSE {})
    /\ UNCHANGED <<memory, phase, pos, unlogged, restarts>>

\* The compacted log inserts the live vectors anew, in the order of a Go map; it is
\* synced before it takes the place of the other.
\* (The code cuts it in batches of 100.)  A log rewritten beside an RDB file
\* creates the collection a second time: that case is Persistence's.
Rewrite ==
    /\ phase = "serving" /\ unlogged = <<>> /\ snap = NoSnapshot
    /\ \E ids \in SetToSeqs(Live) :
        /\ log' = IF ids = <<>> THEN <<>>
                  ELSE <<[op |-> "insert", ids |-> ids,
                          batch |-> [k \in DOMAIN ids |-> vectors[ids[k]]]]>>
        /\ causes' = causes \cup (IF ids = [k \in 1 .. (nextID - 1) |-> k]
                                  THEN {} ELSE {"rewrite"})
    /\ durable' = Len(log') /\ told' = [n \in 1 .. (Len(log') + 1) |-> Last(told)]
    /\ UNCHANGED <<memory, phase, pos, snap, unlogged, restarts>>

Saved == IF snap = NoSnapshot
         THEN [vectors |-> Nothing, nodes |-> Nothing, dead |-> {}, size |-> 0]
         ELSE snap

\* Mutant: the next identifier is the number of vectors plus one.
NextIdByCount(m) == {Cardinality(Domain(m)) + 1}

\* What updateNextID makes the next identifier: one above the largest.
NextIdAfter(m) ==
    {n \in 1 .. (MaxId + 1) : /\ n = 1 \/ n - 1 \in Domain(m)
                              /\ \A i \in Domain(m) : i < n}

OneDim(m) == \A i, j \in Domain(m) : Dim[m[i]] = Dim[m[j]]

\* Mutants: the count includes the tombstones of the graph, or the graph is
\* not imported.
RestoreCountingNodes ==
    /\ vectors' = Saved.vectors
    /\ deletedIDs' = {} /\ deletedCount' = 0
    /\ vectorCount' = Cardinality(Domain(Saved.nodes))
    /\ nextID' \in NextIdAfter(Saved.vectors)
    /\ nodes' = Saved.nodes /\ dead' = Saved.dead /\ size' = Saved.size
RestoreWithoutGraph ==
    /\ vectors' = Saved.vectors
    /\ deletedIDs' = {} /\ deletedCount' = 0
    /\ vectorCount' = Cardinality(Domain(Saved.vectors))
    /\ nextID' \in NextIdAfter(Saved.vectors)
    /\ nodes' = Nothing /\ dead' = {} /\ size' = 0

\* RestoreFromSnapshot, in a new engine.
Restore ==
    /\ vectors' = Saved.vectors
    /\ deletedIDs' = {} /\ deletedCount' = 0
    /\ vectorCount' = Cardinality(Domain(Saved.vectors))
    /\ nextID' \in NextIdAfter(Saved.vectors)
    /\ nodes' = Saved.nodes /\ dead' = Saved.dead /\ size' = Saved.size

\* A crash leaves the log a prefix with all that was synced; a stop leaves it whole.
Stop ==
    /\ restarts < MaxRestarts /\ restarts' = restarts + 1
    /\ unlogged' = <<>>
    /\ \E n \in durable .. Len(log) :
        log' = SubSeq(log, 1, n) /\ told' = SubSeq(told, 1, n + 1)
    /\ UNCHANGED <<snap, durable, causes>>

\* A new process restores the snapshot.
Restart ==
    /\ Stop
    /\ OneDim(Saved.vectors)
    /\ Restore
    /\ phase' = "replaying" /\ pos' = 1

\* validateSnapshot refuses vectors of different dimensions.
RestartRefused ==
    /\ Stop
    /\ ~OneDim(Saved.vectors)
    /\ phase' = "refused"
    /\ UNCHANGED <<memory, pos>>

Replay ==
    /\ phase = "replaying" /\ pos <= Len(log)
    /\ \/ log[pos].op = "insert" /\ ApplyInsert(log[pos].batch)
       \/ log[pos].op = "delete" /\ ApplyDelete(log[pos].ids)
    /\ pos' = pos + 1
    /\ UNCHANGED <<phase, files, unlogged, restarts, history>>

\* Recovery ends at the first command that fails, and main with it.
ReplayFails ==
    /\ phase = "replaying" /\ pos <= Len(log)
    /\ log[pos].op = "insert"
    /\ \/ DimensionsMayClash(log[pos].batch) /\ UNCHANGED <<memory, causes>>
       \/ ApplyInsertFails(log[pos].batch)
    /\ phase' = "refused"
    /\ UNCHANGED <<pos, files, unlogged, restarts, told>>

ReplayDone ==
    /\ phase = "replaying" /\ pos > Len(log)
    /\ phase' = "serving" /\ pos' = 1
    /\ UNCHANGED <<memory, files, unlogged, restarts, history>>

Next ==
    \/ \E batch \in Batch : Insert(batch) \/ InsertFails(batch)
    \/ \E ids \in Deletion : Delete(ids)
    \/ \E k \in DOMAIN unlogged : Log(k) \/ LogFails(k)
    \/ Sync \/ Save \/ Rewrite
    \/ Restart \/ RestartRefused
    \/ Replay \/ ReplayFails \/ ReplayDone

Spec == Init /\ [][Next]_vars

-----------------------------------------------------------------------------
(* Properties.                                                             *)

Clean == "conflict" \notin causes

\* The type of the state; no counter is negative.
TypeOK ==
    /\ vectors \in Map /\ nodes \in Map
    /\ deletedIDs \subseteq Id /\ dead \subseteq Id
    /\ nextID \in 1 .. (MaxId + 1)
    /\ vectorCount \in Nat /\ deletedCount \in Nat /\ size \in Nat
    /\ phase \in {"serving", "replaying", "refused"}
    /\ pos \in Nat \ {0}
    /\ snap \in Snapshot \cup {NoSnapshot}
    /\ log \in Seq(InsertCmd \cup DeleteCmd)
    /\ unlogged \in Seq(InsertCmd \cup DeleteCmd)
    /\ restarts \in Nat
    /\ durable \in 0 .. Len(log)
    /\ told \in Seq(Answers) /\ Len(told) = Len(log) + 1
    /\ causes \subseteq {"conflict", "tombstone", "order", "rewrite", "unlogged"}

\* The index and the collection agree on the other's data: every vector of the
\* collection has a node, and what a search can return is a live vector with
\* the same content, even after an insertion that the index refused.
IndexCovers ==
    /\ Domain(vectors) \subseteq Domain(nodes)
    /\ Searchable \subseteq Live
    /\ \A i \in Searchable : nodes[i] = vectors[i]

\* Every live vector can be found, unless the index refused one: the flags of
\* the index and the tombstones of the collection, kept under two locks, agree.
AllSearchable == Clean => Live \subseteq Searchable

\* Count and Info, which subtract two counters, and the size of the index
\* are the numbers of vectors they stand for.
CountsExact ==
    /\ size = Cardinality(Searchable)
    /\ Clean => vectorCount - deletedCount = Cardinality(Live)

\* All vectors have one dimension, though only one of them is compared.
OneDimension == Clean => OneDim(vectors)

\* No insertion ever takes the place of a vector, whatever was deleted, saved
\* and restored before: the next identifier is above all of them.
NothingOverwritten ==
    [][restarts' = restarts => \A i \in Domain(vectors) : vectors'[i] = vectors[i]]_vars

\* An identifier that was answered to a client, by an answer whose record survives,
\* is not answered to another, across deletions, saves and restarts, unless commands
\* were logged in another order than they were executed, the log was rewritten or
\* a command could not be logged.
IdsNeverReused ==
    [][\A k \in DOMAIN unlogged :
        /\ Log(k) /\ unlogged[k].op = "insert"
        /\ causes \cap {"order", "rewrite", "unlogged"} = {}
        => Last(told).ids \cap ToSet(unlogged[k].ids) = {}]_vars

Current == [i \in Id |-> IF i \in Live THEN vectors[i] ELSE Absent]
Recovered == phase = "replaying" /\ pos > Len(log)

\* A recovery that ends brings back what clients had been told by the commands that
\* survived, all that were logged unless a crash took the last ones away, with the
\* same identifiers; except when the index refused an insertion, a command could not
\* be logged, the log was rewritten or commands were logged in another order than
\* they were executed.  A tombstone saved above all live vectors, and any number of
\* crashes that cut the log, make a recovery fail or do no harm.
RestartExact ==
    Recovered /\ causes \subseteq {"tombstone"} => Last(told).live = Current

\* Recovery fails only after a tombstone was saved above all live vectors.
RefusedOnlyByTombstone == phase = "refused" => "tombstone" \in causes

\* docs/en/1_quick-start.md says that data persist after a restart.
DataPersists == phase # "refused"

=============================================================================
