------------------------------ MODULE Snapshots ------------------------------
(***************************************************************************)
(* What a vector, its node in the index, its metadata and the times of its *)
(* collection go through between memory and the files: the copy and the    *)
(* FlatBuffers and JSON forms of the RDB file, its backups, the records of *)
(* the AOF, and all of it back.  One database, one collection, a server    *)
(* that handles one request at a time and may crash between two.           *)
(*                                                                         *)
(* A vector stands for its identifier and its elements, which both formats *)
(* carry unchanged; which identifiers a replay hands out is in Collection, *)
(* the links of the index in HNSW, saving beside requests in Persistence.  *)
(***************************************************************************)
EXTENDS Integers, Sequences, FiniteSets

CONSTANTS
    Vec,             \* vectors, each inserted once
    Labelled,        \* those that clients send with metadata
    Config,          \* collection configurations: metric and HNSW parameters
    None,            \* no database, no collection, no file
    Refused,         \* the outcome of a recovery that meets an error
    PerSecond,       \* steps of the clock in a second
    MaxTime,         \* bound: the clock's last value
    MaxBackups       \* bound: backups

ASSUME LabelledAssumption == Labelled \subseteq Vec
ASSUME ClockAssumption == PerSecond \in Nat \ {0} /\ MaxTime \in Nat /\ MaxBackups \in Nat

Time == 0 .. MaxTime
Second(t) == t \div PerSecond

\* A metadata map: absent, empty, or with the client's entries; and in JSON.
Meta == {"nil", "empty", "entries"}
Json == {"null", "{}", "{...}"}
Sent(v) == IF v \in Labelled THEN "entries" ELSE "empty"

\* A collection and a database in memory, in a snapshot and in an RDB file.
Metadata == UNION {[vs -> Meta] : vs \in SUBSET Vec}
Graph == UNION {[vs -> [metadata : Meta, deleted : BOOLEAN]] : vs \in SUBSET Vec}
Count == {Cardinality(vs) : vs \in SUBSET Vec}
Collection == [config : Config, created : Time, updated : Time,
               vectors : Metadata, deletedIDs : SUBSET Vec, nodes : Graph]
Database == [created : Time, coll : Collection \cup {None}]
SnapshotCollection == [config : Config, createdAt : Time, updatedAt : Time,
                       vectors : Metadata, vectorCount : Count, graph : Graph]
SnapshotDatabase == [createdAt : Time, collection : SnapshotCollection \cup {None}]
FileCollection == [config : Config, createdAt : Time, updatedAt : Time, vectorCount : Count,
                   vectors : SUBSET [id : Vec, metadata : Json],
                   graph : SUBSET [id : Vec, metadata : Json, deleted : BOOLEAN]]
FileDatabase == [createdAt : Time, collection : FileCollection \cup {None}]
File == [version : {"1.0"}, timestamp : Time, database : FileDatabase \cup {None}]

ASSUME NoneAssumption ==
    /\ None # Refused /\ None \notin Database /\ Refused \notin Database
    /\ None \notin Collection /\ None \notin SnapshotCollection
    /\ None \notin SnapshotDatabase /\ None \notin FileCollection
    /\ None \notin FileDatabase /\ None \notin File

VARIABLES
    db,        \* the database in memory, or None
    log,       \* the records of the AOF
    rdb,       \* the RDB file, or None
    backups,   \* the backup files, named by the second of their making
    phase,     \* "serving", "down", or "refused": the recovery has failed
    now,       \* the clock
    used       \* the vectors that were inserted

vars == <<db, log, rdb, backups, phase, now, used>>

-----------------------------------------------------------------------------
(* Memory.                                                                 *)

\* What a fresh map that takes over the entries of another one holds.
Copied(m) == IF m = "nil" THEN "empty" ELSE m

\* The same map with the vector and with its node.
NewCollection(config, t) ==
    [config |-> config, created |-> t, updated |-> t,
     vectors |-> << >>, deletedIDs |-> {}, nodes |-> << >>]

LiveIn(c) == DOMAIN c.vectors \ c.deletedIDs

\* The entries of f, and those of g under other keys.
Joined(f, g) == [v \in DOMAIN f \cup DOMAIN g |-> IF v \in DOMAIN f THEN f[v] ELSE g[v]]

\* Collection.Insert of the vectors in vs, a function to their metadata.
Inserted(c, vs, t) ==
    [c EXCEPT !.vectors = Joined([v \in DOMAIN vs |-> Copied(vs[v])], @),
              !.nodes = Joined([v \in DOMAIN vs |->
                                   [metadata |-> Copied(vs[v]), deleted |-> FALSE]], @),
              !.updated = t]

Deleted(c, ids, t) ==
    LET gone == ids \cap LiveIn(c) IN
    [c EXCEPT !.deletedIDs = @ \cup gone,
              !.nodes = [v \in DOMAIN c.nodes |->
                            [metadata |-> c.nodes[v].metadata,
                             deleted |-> c.nodes[v].deleted \/ v \in gone]],
              !.updated = IF gone = {} THEN @ ELSE t]

-----------------------------------------------------------------------------
(* A database to an RDB file: the copy, the snapshot, the encoding.        *)

\* Mutant: the count of the collection, tombstones included, is saved.
StateCountingAll(c) ==
    [config |-> c.config, createdAt |-> c.created, updatedAt |-> c.updated,
     vectors |-> [v \in LiveIn(c) |-> Copied(c.vectors[v])],
     vectorCount |-> Cardinality(DOMAIN c.vectors), graph |-> c.nodes]

\* GetDatabaseState: the live vectors, and the whole graph.
CollectionState(c) ==
    [config |-> c.config, createdAt |-> c.created, updatedAt |-> c.updated,
     vectors |-> [v \in LiveIn(c) |-> Copied(c.vectors[v])],
     vectorCount |-> Cardinality(LiveIn(c)), graph |-> c.nodes]

CreateSnapshot(d) ==
    [version |-> "1.0",
     database |-> IF d = None THEN None ELSE
        [createdAt |-> d.created,
         collection |-> IF d.coll = None THEN None ELSE CollectionState(d.coll)]]

\* json.Marshal and json.Unmarshal of a map.
Marshal(m) == CASE m = "nil" -> "null" [] m = "empty" -> "{}" [] m = "entries" -> "{...}"
Unmarshal(s) == CASE s = "null" -> "nil" [] s = "{}" -> "empty" [] s = "{...}" -> "entries"

\* Times are written, and come back, in whole seconds.
Unix(t) == PerSecond * Second(t)

EncodeVectors(vs) == {[id |-> v, metadata |-> Marshal(vs[v])] : v \in DOMAIN vs}

EncodeGraph(g) ==
    {[id |-> v, metadata |-> Marshal(g[v].metadata), deleted |-> g[v].deleted] : v \in DOMAIN g}

EncodeCollection(s) ==
    [config |-> s.config, vectors |-> EncodeVectors(s.vectors), graph |-> EncodeGraph(s.graph),
     vectorCount |-> s.vectorCount,
     createdAt |-> Unix(s.createdAt), updatedAt |-> Unix(s.updatedAt)]

EncodeDatabase(s) ==
    [createdAt |-> Unix(s.createdAt),
     collection |-> IF s.collection = None THEN None ELSE EncodeCollection(s.collection)]

Encode(s, t) ==
    [version |-> s.version, timestamp |-> Unix(t),
     database |-> IF s.database = None THEN None ELSE EncodeDatabase(s.database)]

-----------------------------------------------------------------------------
(* An RDB file to a database: the parsing, the validation, the restoring.  *)

ByIds(records) == {r.id : r \in records}
WithId(records, v) == CHOOSE r \in records : r.id = v

ParseVectors(file) ==
    [v \in ByIds(file) |-> Unmarshal(WithId(file, v).metadata)]

ParseGraph(file) ==
    [v \in ByIds(file) |->
        [metadata |-> Unmarshal(WithId(file, v).metadata), deleted |-> WithId(file, v).deleted]]

ParseCollection(file) ==
    [config |-> file.config, vectors |-> ParseVectors(file.vectors),
     graph |-> ParseGraph(file.graph), vectorCount |-> file.vectorCount,
     createdAt |-> file.createdAt, updatedAt |-> file.updatedAt]

ParseDatabase(file) ==
    [createdAt |-> file.createdAt,
     collection |-> IF file.collection = None THEN None ELSE ParseCollection(file.collection)]

Parse(file) ==
    [version |-> file.version,
     database |-> IF file.database = None THEN None ELSE ParseDatabase(file.database)]

\* validateSnapshot; names and dimensions are left out.
Valid(s) ==
    /\ s.version = "1.0"
    /\ s.database # None /\ s.database.collection # None =>
          LET c == s.database.collection IN Cardinality(DOMAIN c.vectors) = c.vectorCount

\* Mutant: the metadata of a node is not parsed.
RestoreGraphBare(g) == [v \in DOMAIN g |-> [g[v] EXCEPT !.metadata = "empty"]]

\* ConvertHNSWGraphSnapshot and ImportGraphState copy the metadata of every node.
RestoreGraph(g) == [v \in DOMAIN g |-> [g[v] EXCEPT !.metadata = Copied(@)]]

\* Mutant: the creation time is the one that NewCollection has set.
RestoreCollectionAnew(s) ==
    [config |-> s.config, created |-> now, updated |-> s.updatedAt,
     vectors |-> [v \in DOMAIN s.vectors |-> Copied(s.vectors[v])],
     deletedIDs |-> {}, nodes |-> RestoreGraph(s.graph)]

RestoreCollection(s) ==
    [config |-> s.config, created |-> s.createdAt, updated |-> s.updatedAt,
     vectors |-> [v \in DOMAIN s.vectors |-> Copied(s.vectors[v])],
     deletedIDs |-> {}, nodes |-> RestoreGraph(s.graph)]

\* RestoreFromSnapshot.
Restored(s) ==
    IF s.database = None THEN None
    ELSE [created |-> s.database.createdAt,
          coll |-> IF s.database.collection = None THEN None
                   ELSE RestoreCollection(s.database.collection)]

\* Load, then RestoreFromSnapshot.
Loaded(file) ==
    IF file = None THEN None
    ELSE IF Valid(Parse(file)) THEN Restored(Parse(file)) ELSE Refused

-----------------------------------------------------------------------------
(* The commands of the AOF.                                                *)

\* The builder keeps the vectors with their metadata ...
CreateDatabaseCommand == [command |-> "CREATE_DATABASE"]
CreateCollectionCommand(config) == [command |-> "CREATE_COLLECTION", config |-> config]
InsertCommand(vs) == [command |-> "INSERT_VECTORS", vectors |-> vs]
DeleteCommand(ids) == [command |-> "DELETE_VECTORS", ids |-> ids]

\* ... createVector writes an empty object for each, whatever it has ...
EncodeArgs(vs) == {[id |-> v, metadata |-> "{}"] : v \in DOMAIN vs}

ToRecord(m) ==
    IF m.command = "INSERT_VECTORS" THEN [m EXCEPT !.vectors = EncodeArgs(@)] ELSE m

\* ... and parseCommandArgs does not read it.
ParseArgs(file) == [v \in ByIds(file) |-> "nil"]

FromRecord(m) ==
    IF m.command = "INSERT_VECTORS" THEN [m EXCEPT !.vectors = ParseArgs(@)] ELSE m

\* ApplyCommand at time t; the replay stops at the first error.
ApplyCommand(d, m, t) ==
    IF d = Refused THEN Refused ELSE
    CASE m.command = "CREATE_DATABASE" ->
            IF d = None THEN [created |-> t, coll |-> None] ELSE Refused
      [] m.command = "CREATE_COLLECTION" ->
            IF d # None /\ d.coll = None THEN [d EXCEPT !.coll = NewCollection(m.config, t)] ELSE Refused
      [] m.command = "INSERT_VECTORS" ->
            IF d # None /\ d.coll # None THEN [d EXCEPT !.coll = Inserted(@, m.vectors, t)] ELSE Refused
      [] m.command = "DELETE_VECTORS" ->
            IF d # None /\ d.coll # None THEN [d EXCEPT !.coll = Deleted(@, m.ids, t)] ELSE Refused

Replay(d, records, t) ==
    LET after[n \in 0 .. Len(records)] ==
            IF n = 0 THEN d ELSE ApplyCommand(after[n - 1], FromRecord(records[n]), t)
    IN  after[Len(records)]

\* What a new process makes of the files.
Recovered(t) == Replay(Loaded(rdb), log, t)

\* Mutant: deleted vectors are rewritten too.
OptimizedWithDeleted(d) ==
    IF d = None THEN <<>>
    ELSE <<CreateDatabaseCommand>> \o
         IF d.coll = None THEN <<>>
         ELSE <<CreateCollectionCommand(d.coll.config)>> \o
              IF DOMAIN d.coll.vectors = {} THEN <<>>
              ELSE <<InsertCommand([v \in DOMAIN d.coll.vectors |-> Copied(d.coll.vectors[v])])>>

\* GetOptimizedCommands: what is there, as commands.
OptimizedCommands(d) ==
    IF d = None THEN <<>>
    ELSE <<CreateDatabaseCommand>> \o
         IF d.coll = None THEN <<>>
         ELSE <<CreateCollectionCommand(d.coll.config)>> \o
              IF LiveIn(d.coll) = {} THEN <<>>
              ELSE <<InsertCommand([v \in LiveIn(d.coll) |-> Copied(d.coll.vectors[v])])>>

-----------------------------------------------------------------------------
(* Requests, saves, restarts, backups.                                     *)

Init ==
    /\ db = None /\ log = <<>> /\ rdb = None
    /\ backups = [s \in 0 .. Second(MaxTime) |-> None]
    /\ phase = "serving" /\ now = 0 /\ used = {}

Tick == now < MaxTime /\ now' = now + 1 /\ UNCHANGED <<db, log, rdb, backups, phase, used>>

\* A handler: the engine changes, then the command is logged.
Request(m) ==
    /\ phase = "serving"
    /\ ApplyCommand(db, m, now) # Refused
    /\ db' = ApplyCommand(db, m, now)
    /\ log' = Append(log, ToRecord(m))
    /\ UNCHANGED <<rdb, backups, phase, now>>

CreateDatabase == Request(CreateDatabaseCommand) /\ UNCHANGED used
CreateCollection(config) == Request(CreateCollectionCommand(config)) /\ UNCHANGED used

InsertVectors(vs) ==
    /\ vs # {} /\ vs \cap used = {}
    /\ Request(InsertCommand([v \in vs |-> Sent(v)]))
    /\ used' = used \cup vs

\* Bound: a deletion of what is not live changes nothing, and is left out.
DeleteVectors(ids) ==
    /\ db # None /\ db.coll # None /\ ids # {} /\ ids \subseteq LiveIn(db.coll)
    /\ Request(DeleteCommand(ids))
    /\ UNCHANGED used

\* SaveSnapshot: the file is replaced and the AOF emptied.
Save ==
    /\ phase = "serving"
    /\ rdb' = Encode(CreateSnapshot(db), now)
    /\ log' = <<>>
    /\ UNCHANGED <<db, backups, phase, now, used>>

\* RewriteAOF: the RDB file, if there is one, stays.
Rewrite ==
    /\ phase = "serving"
    /\ log' = [k \in DOMAIN OptimizedCommands(db) |-> ToRecord(OptimizedCommands(db)[k])]
    /\ UNCHANGED <<db, rdb, backups, phase, now, used>>

Crash ==
    /\ phase = "serving"
    /\ phase' = "down" /\ db' = None
    /\ UNCHANGED <<log, rdb, backups, now, used>>

Recover ==
    /\ phase = "down"
    /\ \/ Recovered(now) = Refused /\ phase' = "refused" /\ UNCHANGED db
       \/ Recovered(now) # Refused /\ phase' = "serving" /\ db' = Recovered(now)
    /\ UNCHANGED <<log, rdb, backups, now, used>>

\* CreateBackup loads the RDB file and saves it under the name of the second.
CreateBackup ==
    /\ rdb # None /\ Valid(Parse(rdb))
    /\ Cardinality({s \in DOMAIN backups : backups[s] # None} \cup {Second(now)}) <= MaxBackups
    /\ backups' = [backups EXCEPT ![Second(now)] = Encode(Parse(rdb), now)]
    /\ UNCHANGED <<db, log, rdb, phase, now, used>>

\* RestoreFromBackup loads a backup and saves it as the RDB file.  The AOF stays;
\* the operator empties it first, or the replay would run over other content.
RestoreFromBackup(s) ==
    /\ phase = "down" /\ log = <<>>
    /\ backups[s] # None /\ Valid(Parse(backups[s]))
    /\ rdb' = Encode(Parse(backups[s]), now)
    /\ UNCHANGED <<db, log, backups, phase, now, used>>

Next ==
    \/ Tick \/ CreateDatabase \/ Save \/ Rewrite \/ Crash \/ Recover \/ CreateBackup
    \/ \E config \in Config : CreateCollection(config)
    \/ \E vs \in SUBSET Vec : InsertVectors(vs) \/ DeleteVectors(vs)
    \/ \E s \in DOMAIN backups : RestoreFromBackup(s)

Spec == Init /\ [][Next]_vars

-----------------------------------------------------------------------------
(* Properties.                                                             *)

\* Every variable has its type; of the files, what memory they make.
TypeOK ==
    /\ db \in Database \cup {None}
    /\ Recovered(now) \in Database \cup {None, Refused}
    /\ phase \in {"serving", "down", "refused"}
    /\ now \in Time /\ used \subseteq Vec

\* Every RDB file and every backup, whatever was deleted before it was written and
\* however often it was restored and saved again, passes validateSnapshot, and
\* saving what is loaded from it gives the same file.
FilesStable ==
    \A f \in {rdb} \cup {backups[s] : s \in DOMAIN backups} : f # None =>
        /\ Valid(Parse(f))
        /\ Encode(Parse(f), f.timestamp) = f
        /\ Encode(CreateSnapshot(Restored(Parse(f))), f.timestamp) = f

\* The two copies of a vector's metadata, Get's in the collection and Search's in
\* the index, never differ, whatever files they came through; a live vector has
\* a live node, and one without metadata never gets any.
MetadataAgrees ==
    db # None /\ db.coll # None =>
        LET c == db.coll IN
        \A v \in LiveIn(c) :
            /\ v \in DOMAIN c.nodes /\ ~c.nodes[v].deleted
            /\ c.vectors[v] = c.nodes[v].metadata
            /\ c.vectors[v] \in {Sent(v), "empty"}

Logged(command) == \E k \in DOMAIN log : log[k].command = command
InLog == UNION {DOMAIN FromRecord(log[k]).vectors :
                    k \in {j \in DOMAIN log : log[j].command = "INSERT_VECTORS"}}
\* The AOF creates again what the RDB file has: after a rewrite beside one.
Overlap ==
    /\ rdb # None /\ rdb.database # None
    /\ \/ Logged("CREATE_DATABASE")
       \/ rdb.database.collection # None /\ Logged("CREATE_COLLECTION")

\* What a restart makes of a collection, and what it keeps.
SameCollection(r, c) ==
    /\ r.config = c.config /\ LiveIn(r) = LiveIn(c)
    /\ \A v \in LiveIn(c) : r.vectors[v] = IF v \in InLog THEN "empty" ELSE c.vectors[v]
    /\ r.created = IF Logged("CREATE_COLLECTION") THEN now ELSE Unix(c.created)
    /\ r.updated = IF \E k \in DOMAIN log : log[k].command # "CREATE_DATABASE"
                   THEN now ELSE Unix(c.updated)

\* A restart brings back what is in memory, through whichever of the two files it
\* goes: live vectors, configuration, and, for what is in the RDB file, metadata
\* and the times to the second.  Only the metadata and the times of what is in
\* the AOF are lost; and it is refused exactly when the AOF creates again what the
\* RDB file has.
RestartKeeps ==
    phase = "serving" =>
        LET r == Recovered(now) IN
        /\ r = Refused <=> Overlap
        /\ r # Refused =>
              /\ r = None <=> db = None
              /\ db # None =>
                    /\ r.created = IF Logged("CREATE_DATABASE") THEN now ELSE Unix(db.created)
                    /\ r.coll = None <=> db.coll = None
                    /\ db.coll # None => SameCollection(r.coll, db.coll)

\* The state has its type, and times stay in order through every truncation to the
\* second and every replay: a database is created before its collection, that
\* before its last change.
TimesOrdered ==
    /\ TypeOK
    /\ db # None =>
        /\ db.created <= now
        /\ db.coll # None =>
              /\ db.created <= db.coll.created /\ db.coll.created <= db.coll.updated
              /\ db.coll.updated <= now
=============================================================================
