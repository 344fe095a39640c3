------------------------------- MODULE Catalog -------------------------------
(***************************************************************************)
(* The catalogue of databases and collections, and the request handlers    *)
(* that change it.  A handler looks its database up, then its collection,  *)
(* and keeps both as pointers; it changes what they point to and logs the  *)
(* command, each step under its own lock or none.  In between, others may  *)
(* drop what it points to: a dropped collection is closed but still there  *)
(* for who holds it, and a dropped database keeps its map of collections.  *)
(*                                                                         *)
(* An object is named by the request that created it, or Restored when a   *)
(* recovery did; what a collection holds is the set of the requests whose  *)
(* vectors are in it.  Identifiers and dimensions are in Collection, the   *)
(* saving of a copy beside other requests in Persistence.                  *)
(***************************************************************************)
EXTENDS Integers, Sequences, FiniteSets, SequencesExt

CONSTANTS
    DbName, CollName,   \* names of databases and collections
    Request,            \* writing requests, each sent once
    Restored,           \* the creator of what a recovery restores
    None,               \* no object, no collection, no command
    Refused,            \* the outcome of a replay that meets an error
    Bases,              \* what the RDB file may hold at the start
    MaxFaults,          \* bound: commands that cannot be logged
    MaxRestarts         \* bound: crashes and panics

ASSUME RequestAssumption == {Restored, None, Refused} \cap Request = {} /\ Restored # None
ASSUME BoundsAssumption == MaxFaults \in Nat /\ MaxRestarts \in Nat

Creator == Request \cup {Restored}
Inserts == {"insert", "embed"}   \* InsertVectors, EmbedAndInsert
Command ==
    [op : {"createDb", "dropDb"}, db : DbName] \cup
    [op : {"createColl", "dropColl", "delete"} \cup Inserts, db : DbName, coll : CollName]

VARIABLES
    databases,    \* Engine.databases: the object that has each name
    collections,  \* Database.collections of each database object
    vectors,      \* Collection.vectors of each collection object
    counted,      \* the collection objects whose vectorCount is not 0
    closed,       \* the collection objects that were closed
    cmd,          \* what each request asks for
    pc,           \* its handler's progress
    dbOf, collOf, \* the objects its handler has found, or dropped
    phase,        \* "serving", "down", or "refused": the recovery has failed
    base,         \* the content of the RDB file
    log,          \* the AOF: the requests whose commands are in it
    faults, restarts,
    lin,          \* history: the commands in the order in which they count as
                  \* executed, one on a dropped object before the drop
    causes        \* history: why the log may not replay to what memory holds

objects == <<databases, collections, vectors, counted, closed>>
handlers == <<cmd, pc, dbOf, collOf>>
vars == <<objects, handlers, phase, base, log, faults, restarts, lin, causes>>

Db(r) == <<cmd[r].db, dbOf[r]>>
Coll(r) == <<cmd[r].db, cmd[r].coll, collOf[r]>>
NoCollections == [c \in CollName |-> None]

-----------------------------------------------------------------------------
(* What a catalogue holds, and what a command does to it when it comes     *)
(* alone: ApplyCommand, which stops the replay at the first error.         *)

Catalogue == [DbName -> [CollName -> (SUBSET Request) \cup {None}] \cup {None}]
ASSUME BasesAssumption == Bases \subseteq Catalogue

\* No object is no set of vectors and no map, and a refusal is no catalogue.
ASSUME ValuesAssumption ==
    /\ \A set \in SUBSET Request : set # None
    /\ \A map \in [CollName -> (SUBSET Request) \cup {None}] : map # None
    /\ \A cat \in Catalogue : cat # Refused

\* What is in memory under each name.
View ==
    [d \in DbName |->
        IF databases[d] = None THEN None
        ELSE [c \in CollName |->
            LET k == collections[<<d, databases[d]>>][c] IN
            IF k = None THEN None ELSE vectors[<<d, c, k>>]]]

HasDb(cat, d) == cat[d] # None
HasColl(cat, d, c) == HasDb(cat, d) /\ cat[d][c] # None

Fits(cat, m) ==
    \/ m.op = "createDb" /\ ~HasDb(cat, m.db)
    \/ m.op = "dropDb" /\ HasDb(cat, m.db)
    \/ m.op = "createColl" /\ HasDb(cat, m.db) /\ ~HasColl(cat, m.db, m.coll)
    \/ m.op \in {"dropColl", "delete"} \cup Inserts /\ HasColl(cat, m.db, m.coll)

\* What the command m of request r leaves.
Effect(cat, m, r) ==
    CASE m.op = "createDb" -> [cat EXCEPT ![m.db] = NoCollections]
      [] m.op = "dropDb" -> [cat EXCEPT ![m.db] = None]
      [] m.op = "dropColl" -> [cat EXCEPT ![m.db][m.coll] = None]
      [] m.op \in {"createColl", "delete"} -> [cat EXCEPT ![m.db][m.coll] = {}]
      [] m.op \in Inserts -> [cat EXCEPT ![m.db][m.coll] = @ \cup {r}]

ApplyCommand(cat, r) ==
    IF cat # Refused /\ Fits(cat, cmd[r]) THEN Effect(cat, cmd[r], r) ELSE Refused

\* The commands of s that are in R, one after the other.
ReplayPart(cat, s, R) ==
    LET after[n \in 0 .. Len(s)] ==
            IF n = 0 THEN cat
            ELSE IF s[n] \in R THEN ApplyCommand(after[n - 1], s[n])
            ELSE after[n - 1]
    IN  after[Len(s)]

Replay(cat, s) == ReplayPart(cat, s, Request)

-----------------------------------------------------------------------------
(* Memory built from a catalogue: RestoreFromSnapshot and the replay.      *)

DatabasesIn(cat) == [d \in DbName |-> IF cat[d] = None THEN None ELSE Restored]
CollectionsIn(cat) ==
    [o \in DbName \X Creator |->
        [c \in CollName |->
            IF o[2] = Restored /\ HasColl(cat, o[1], c) THEN Restored ELSE None]]
VectorsIn(cat) ==
    [k \in DbName \X CollName \X Creator |->
        IF k[3] = Restored /\ HasColl(cat, k[1], k[2]) THEN cat[k[1]][k[2]] ELSE {}]

Load(cat) ==
    /\ databases' = DatabasesIn(cat)
    /\ collections' = CollectionsIn(cat)
    /\ vectors' = VectorsIn(cat)
    /\ counted' = {k \in DbName \X CollName \X Creator : VectorsIn(cat)[k] # {}}
    /\ closed' = {}

Init ==
    /\ base \in Bases
    /\ databases = DatabasesIn(base)
    /\ collections = CollectionsIn(base)
    /\ vectors = VectorsIn(base)
    /\ counted = {k \in DbName \X CollName \X Creator : VectorsIn(base)[k] # {}}
    /\ closed = {}
    /\ cmd = [r \in Request |-> None]
    /\ pc = [r \in Request |-> "idle"]
    /\ dbOf = [r \in Request |-> None] /\ collOf = [r \in Request |-> None]
    /\ phase = "serving"
    /\ log = <<>> /\ lin = <<>>
    /\ faults = 0 /\ restarts = 0 /\ causes = {}

-----------------------------------------------------------------------------
(* The handlers.                                                           *)

Step(r, from, to) ==
    phase = "serving" /\ pc[r] = from /\ pc' = [pc EXCEPT ![r] = to]

Begin(r) ==
    /\ Step(r, "idle", "begun")
    /\ \E m \in Command : cmd' = [cmd EXCEPT ![r] = m]
    /\ UNCHANGED <<objects, dbOf, collOf, phase, base, log, faults, restarts, lin, causes>>

Quietly == UNCHANGED <<objects, cmd, phase, base, log, faults, restarts, lin, causes>>

\* Engine.GetDatabase.
FindDatabase(r) ==
    /\ pc[r] = "begun" /\ cmd[r].op \notin {"createDb", "dropDb"}
    /\ LET found == databases[cmd[r].db] IN
        /\ Step(r, "begun", IF found = None THEN "refused" ELSE "database")
        /\ dbOf' = [dbOf EXCEPT ![r] = found]
    /\ UNCHANGED collOf
    /\ Quietly

\* Database.GetCollection, on the database found, dropped or not.
FindCollection(r) ==
    /\ pc[r] = "database" /\ cmd[r].op \in {"delete"} \cup Inserts
    /\ LET found == collections[Db(r)][cmd[r].coll] IN
        /\ Step(r, "database", IF found = None THEN "refused" ELSE "collection")
        /\ collOf' = [collOf EXCEPT ![r] = found]
    /\ UNCHANGED dbOf
    /\ Quietly

\* The commands that dropped what r's handler holds.
DroppersOf(r) ==
    {q \in ToSet(lin) :
        \/ cmd[q].op = "dropDb" /\ dbOf[r] # None /\ Db(q) = Db(r)
        \/ cmd[q].op = "dropColl" /\ collOf[r] # None /\ Coll(q) = Coll(r)}

\* History: r counts as executed now, or just before what it holds was dropped.
Execute(r) ==
    LET before == {i \in DOMAIN lin : lin[i] \in DroppersOf(r)} IN
    IF before = {}
    THEN lin' = Append(lin, r) /\ UNCHANGED causes
    ELSE /\ lin' = InsertAt(lin, CHOOSE i \in before : \A j \in before : i <= j, r)
         /\ causes' = causes \cup {"stale"}

Unchanged == UNCHANGED <<cmd, phase, base, log, faults, restarts>>

\* A command that the engine answers with an error: nothing is logged.
Answer(r, from) ==
    /\ Step(r, from, "refused")
    /\ UNCHANGED <<objects, dbOf, collOf, lin, causes>>
    /\ Unchanged

CreateDatabase(r) ==
    /\ pc[r] = "begun" /\ cmd[r].op = "createDb"
    /\ \/ databases[cmd[r].db] # None /\ Answer(r, "begun")
       \/ /\ databases[cmd[r].db] = None
          /\ Step(r, "begun", "executed")
          /\ databases' = [databases EXCEPT ![cmd[r].db] = r]
          /\ collections' = [collections EXCEPT ![<<cmd[r].db, r>>] = NoCollections]
          /\ Execute(r)
          /\ UNCHANGED <<vectors, counted, closed, dbOf, collOf>>
          /\ Unchanged

\* Collection.Close: the vectors and the index are gone, the counter stays.
Close(ks) ==
    /\ closed' = closed \cup ks
    /\ vectors' = [k \in DOMAIN vectors |-> IF k \in ks THEN {} ELSE vectors[k]]
    /\ UNCHANGED counted

\* The collections of a database object.
CollectionsOf(o) ==
    {k \in DbName \X CollName \X Creator : k[1] = o[1] /\ collections[o][k[2]] = k[3]}

DropDatabase(r) ==
    /\ pc[r] = "begun" /\ cmd[r].op = "dropDb"
    /\ LET found == databases[cmd[r].db] IN
       \/ found = None /\ Answer(r, "begun")
       \/ /\ found # None
          /\ Step(r, "begun", "executed")
          /\ Close(CollectionsOf(<<cmd[r].db, found>>))
          /\ databases' = [databases EXCEPT ![cmd[r].db] = None]
          /\ dbOf' = [dbOf EXCEPT ![r] = found]
          /\ Execute(r)
          /\ UNCHANGED <<collections, collOf>>
          /\ Unchanged

\* Mutant: the name is not looked up again under the lock.
CreateCollectionUnchecked(r) ==
    /\ pc[r] = "database" /\ cmd[r].op = "createColl"
    /\ Step(r, "database", "executed")
    /\ collections' = [collections EXCEPT ![Db(r)][cmd[r].coll] = r]
    /\ Execute(r)
    /\ UNCHANGED <<databases, vectors, counted, closed, dbOf, collOf>>
    /\ Unchanged

CreateCollection(r) ==
    /\ pc[r] = "database" /\ cmd[r].op = "createColl"
    /\ LET c == cmd[r].coll IN
       \/ collections[Db(r)][c] # None /\ Answer(r, "database")
       \/ /\ collections[Db(r)][c] = None
          /\ Step(r, "database", "executed")
          /\ collections' = [collections EXCEPT ![Db(r)][c] = r]
          /\ Execute(r)
          /\ UNCHANGED <<databases, vectors, counted, closed, dbOf, collOf>>
          /\ Unchanged

\* Mutant: the closed collection keeps its name.
DropCollectionKeeps(r) ==
    /\ pc[r] = "database" /\ cmd[r].op = "dropColl"
    /\ collections[Db(r)][cmd[r].coll] # None
    /\ Step(r, "database", "executed")
    /\ Close({<<cmd[r].db, cmd[r].coll, collections[Db(r)][cmd[r].coll]>>})
    /\ collOf' = [collOf EXCEPT ![r] = collections[Db(r)][cmd[r].coll]]
    /\ Execute(r)
    /\ UNCHANGED <<databases, collections, dbOf>>
    /\ Unchanged

DropCollection(r) ==
    /\ pc[r] = "database" /\ cmd[r].op = "dropColl"
    /\ LET c == cmd[r].coll
           k == collections[Db(r)][c] IN
       \/ k = None /\ Answer(r, "database")
       \/ /\ k # None
          /\ Step(r, "database", "executed")
          /\ Close({<<cmd[r].db, c, k>>})
          /\ collections' = [collections EXCEPT ![Db(r)][c] = None]
          /\ collOf' = [collOf EXCEPT ![r] = k]
          /\ Execute(r)
          /\ UNCHANGED <<databases, dbOf>>
          /\ Unchanged

Insert(r) ==
    /\ pc[r] = "collection" /\ cmd[r].op \in Inserts
    /\ Coll(r) \notin closed
    /\ Step(r, "collection", "executed")
    /\ vectors' = [vectors EXCEPT ![Coll(r)] = @ \cup {r}]
    /\ counted' = counted \cup {Coll(r)}
    /\ Execute(r)
    /\ UNCHANGED <<databases, collections, closed, dbOf, collOf>>
    /\ Unchanged

\* A closed collection that had vectors compares the dimension with
\* EfConstruction, and refuses the vectors if it differs.
InsertRefused(r) ==
    /\ pc[r] = "collection" /\ cmd[r].op \in Inserts
    /\ Coll(r) \in closed \cap counted
    /\ Answer(r, "collection")

\* The process is gone, with every handler that has not answered: at a crash, or at
\* a panic that nothing recovers from.
Die ==
    /\ restarts < MaxRestarts
    /\ phase' = "down"
    /\ pc' = [r \in Request |->
                IF pc[r] \in {"idle", "done", "refused", "failed"} THEN pc[r] ELSE "gone"]
    /\ UNCHANGED <<objects, cmd, dbOf, collOf, base, log, faults, restarts, lin, causes>>

\* Otherwise it writes to a nil map.  Nothing recovers from the panic of a gRPC
\* call; gin.Recovery makes it an error of a HTTP request, which changes nothing.
InsertPanics(r) ==
    /\ phase = "serving"
    /\ pc[r] = "collection" /\ cmd[r].op \in Inserts
    /\ Coll(r) \in closed
    /\ Die \/ Answer(r, "collection")

\* DeleteVectors, with the identifiers of all vectors.
Delete(r) ==
    /\ pc[r] = "collection" /\ cmd[r].op = "delete"
    /\ Step(r, "collection", "executed")
    /\ vectors' = [vectors EXCEPT ![Coll(r)] = {}]
    /\ Execute(r)
    /\ UNCHANGED <<databases, collections, counted, closed, dbOf, collOf>>
    /\ Unchanged

\* Two commands whose order makes a difference.
Clash(m, n) ==
    /\ m.db = n.db
    /\ \/ {m.op, n.op} \cap {"createDb", "dropDb"} # {}
       \/ m.coll = n.coll /\ ~({m.op, n.op} \subseteq Inserts) /\ m.op # n.op

\* The commands that count as executed before r and are not in the log yet.
Ahead(r) ==
    {q \in ToSet(lin) : pc[q] = "executed" /\ Clash(cmd[q], cmd[r])
        /\ \E i, j \in DOMAIN lin : i < j /\ lin[i] = q /\ lin[j] = r}

Log(r) ==
    /\ Step(r, "executed", "done")
    /\ log' = Append(log, r)
    /\ causes' = causes \cup IF Ahead(r) = {} THEN {} ELSE {"reordered"}
    /\ UNCHANGED <<objects, cmd, dbOf, collOf, phase, base, faults, restarts, lin>>

\* EmbedAndInsert answers with success even so.
LogFails(r) ==
    /\ faults < MaxFaults
    /\ Step(r, "executed", IF cmd[r].op = "embed" THEN "done" ELSE "failed")
    /\ faults' = faults + 1
    /\ causes' = causes \cup {"unlogged"}
    /\ UNCHANGED <<objects, cmd, dbOf, collOf, phase, base, log, restarts, lin>>

\* No handler is at work.
Quiet ==
    /\ phase = "serving"
    /\ \A r \in Request : pc[r] \in {"idle", "done", "refused", "failed", "gone"}

\* Mutant: the AOF is not truncated.
SaveKeepingLog ==
    /\ Quiet /\ log # <<>>
    /\ base' = View /\ lin' = <<>> /\ causes' = {}
    /\ UNCHANGED <<objects, handlers, phase, log, faults, restarts>>

\* A snapshot of all databases; Persistence has those beside handlers at work.
Save ==
    /\ Quiet /\ log # <<>>
    /\ base' = View /\ log' = <<>> /\ lin' = <<>> /\ causes' = {}
    /\ UNCHANGED <<objects, handlers, phase, faults, restarts>>

Crash == phase = "serving" /\ Die

\* A new process loads the snapshot and replays the log on it, or stops.
Recover(cat) ==
    /\ phase = "down" /\ restarts' = restarts + 1
    /\ \/ cat # Refused /\ phase' = "serving" /\ causes' = {} /\ Load(cat)
       \/ cat = Refused /\ phase' = "refused" /\ UNCHANGED <<objects, causes>>
    /\ lin' = log
    /\ dbOf' = [r \in Request |-> None] /\ collOf' = [r \in Request |-> None]
    /\ UNCHANGED <<cmd, pc, base, log, faults>>

\* Mutant: the snapshot is not applied.
RestartWithoutBase == Recover(Replay([d \in DbName |-> None], log))

Restart == Recover(Replay(base, log))

Handle(r) ==
    \/ Begin(r) \/ FindDatabase(r) \/ FindCollection(r)
    \/ CreateDatabase(r) \/ DropDatabase(r) \/ CreateCollection(r) \/ DropCollection(r)
    \/ Insert(r) \/ InsertRefused(r) \/ InsertPanics(r) \/ Delete(r)
    \/ Log(r) \/ LogFails(r)

Next == (\E r \in Request : Handle(r)) \/ Save \/ Crash \/ Restart

Spec == Init /\ [][Next]_vars

-----------------------------------------------------------------------------
(* Properties.                                                             *)

\* What the catalogue leads to was not dropped: a name never stands for a closed
\* collection, however drops, creations and handlers with old pointers meet.
NamesAreOpen ==
    phase = "serving" =>
        \A d \in DbName : databases[d] # None =>
            CollectionsOf(<<d, databases[d]>>) \cap closed = {}

\* What memory holds is what the commands give one after the other, each between
\* its request and its answer: one that changed a dropped object, as if it had
\* come before the drop.
Linearizable == phase = "serving" => Replay(base, lin) = View

\* The log replays to what memory holds, together with the commands that are not
\* logged yet, unless a command was executed on a dropped object, was logged
\* before one that it should follow, or could not be logged.
ReplayExact ==
    phase = "serving" /\ causes = {} =>
        ReplayPart(Replay(base, log), lin, {r \in Request : pc[r] = "executed"}) = View

\* Then a recovery never fails either.
RefusedOnlyByCause == phase = "refused" => causes # {}
=============================================================================
