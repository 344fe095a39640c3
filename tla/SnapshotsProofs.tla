--------------------------- MODULE SnapshotsProofs ---------------------------
(***************************************************************************)
(* Proofs about Snapshots, for any vectors, configurations and bounds: the *)
(* files are stable, the two copies of the metadata agree, times stay in   *)
(* order and a restart brings back what RestartKeeps says.                 *)
(*                                                                         *)
(* A recovery runs at some time, and what it logs anew gets that time.     *)
(* The invariant describes the recovery at every time by the one at time   *)
(* 0, Base, and a summary of the log.                                      *)
(***************************************************************************)
EXTENDS Snapshots, DataLemmas

-----------------------------------------------------------------------------
(* The inductive invariant.                                                *)

\* What is true of every collection in memory, with the vectors of u used.
SoundCollection(c, u) ==
    /\ DOMAIN c.vectors \subseteq u /\ c.deletedIDs \subseteq u
    /\ \A v \in LiveIn(c) :
          /\ v \in DOMAIN c.nodes /\ ~c.nodes[v].deleted
          /\ c.vectors[v] = c.nodes[v].metadata
          /\ c.vectors[v] \in {Sent(v), "empty"}
    /\ \A v \in DOMAIN c.nodes : c.nodes[v].metadata # "nil"

\* What is true of every database in memory at time t.
Good(d, t, u) ==
    d # None =>
        /\ d \in Database /\ d.created <= t
        /\ d.coll # None =>
              /\ SoundCollection(d.coll, u)
              /\ d.created <= d.coll.created /\ d.coll.created <= d.coll.updated
              /\ d.coll.updated <= t

\* What a file's content is: a database that was good when it was saved.
GoodFile(f, t, u) ==
    f # None =>
        /\ f.timestamp \in Time
        /\ Good(Restored(Parse(f)), t, u)
        /\ f = Encode(CreateSnapshot(Restored(Parse(f))), f.timestamp)

\* What a log tells of itself: its commands, and what it inserts.
ContentOf(records) ==
    [commands |-> {records[k].command : k \in DOMAIN records},
     vectors |-> UNION {DOMAIN FromRecord(records[k]).vectors :
                           k \in {j \in DOMAIN records : records[j].command = "INSERT_VECTORS"}}]

Content == ContentOf(log)

Creates(l) == "CREATE_DATABASE" \in l.commands
CreatesCollection(l) == "CREATE_COLLECTION" \in l.commands
Changes(l) == \E c \in l.commands : c # "CREATE_DATABASE"

\* The recovery d with what the log sets anew set to t.
RetimedCollection(c, t, l) ==
    [config |-> c.config,
     created |-> IF CreatesCollection(l) THEN t ELSE c.created,
     updated |-> IF Changes(l) THEN t ELSE c.updated,
     vectors |-> c.vectors, deletedIDs |-> c.deletedIDs, nodes |-> c.nodes]

Retimed(d, t, l) ==
    IF d \in {None, Refused} THEN d
    ELSE [created |-> IF Creates(l) THEN t ELSE d.created,
          coll |-> IF d.coll = None THEN None ELSE RetimedCollection(d.coll, t, l)]

\* The recovery r keeps the collection and the database c.
KeepsCollection(r, c, l) ==
    /\ r.config = c.config /\ LiveIn(r) = LiveIn(c)
    /\ \A v \in LiveIn(c) : r.vectors[v] = IF v \in l.vectors THEN "empty" ELSE c.vectors[v]
    /\ ~CreatesCollection(l) => r.created = Unix(c.created)
    /\ ~Changes(l) => r.updated = Unix(c.updated)

Keeps(r, c, l) ==
    /\ r = None <=> c = None
    /\ c # None =>
          /\ ~Creates(l) => r.created = Unix(c.created)
          /\ r.coll = None <=> c.coll = None
          /\ c.coll # None => KeepsCollection(r.coll, c.coll, l)

HasDatabase == rdb # None /\ rdb.database # None
HasCollection == HasDatabase /\ rdb.database.collection # None

Record ==
    {CreateDatabaseCommand} \cup {CreateCollectionCommand(c) : c \in Config}
    \cup {ToRecord(InsertCommand([v \in vs |-> "empty"])) : vs \in SUBSET Vec}
    \cup {DeleteCommand(ids) : ids \in SUBSET Vec}

Base == Recovered(0)

Typed ==
    /\ phase \in {"serving", "down", "refused"} /\ now \in Time /\ used \subseteq Vec
    /\ log \in Seq(Record)
    /\ DOMAIN backups = 0 .. Second(MaxTime)

MemoryGood ==
    /\ Good(db, now, used)
    /\ phase # "serving" => db = None
    /\ phase = "serving" /\ HasDatabase => db # None

FilesGood ==
    /\ GoodFile(rdb, now, used)
    /\ \A s \in DOMAIN backups : GoodFile(backups[s], now, used)

\* The recovery b, at time 0 and with log l, and the database d that is served at time n.
Told(b, d, l, u, n) ==
    /\ b \in Database \cup {None}
    /\ b # None /\ b.coll # None => SoundCollection(b.coll, u)
    /\ Keeps(b, b, l) /\ Keeps(b, d, l)
    /\ Good(d, n, u)
    /\ \A t \in n .. MaxTime : Good(Retimed(b, t, l), t, u)

RecoveryKnown ==
    /\ \A t \in Time : Recovered(t) = Retimed(Base, t, Content)
    /\ Base = Refused <=> Overlap
    /\ Base # Refused =>
          /\ Told(Base, Retimed(Base, now, Content), Content, used, now)
          /\ phase = "serving" => Told(Base, db, Content, used, now)
          /\ HasDatabase => Base # None
          /\ HasCollection => Base.coll # None

\* All of it.
SInv == Typed /\ MemoryGood /\ FilesGood /\ RecoveryKnown

-----------------------------------------------------------------------------
(* Seconds and metadata.                                                   *)

\* A time cut to the second is not later, and is cut only once.
LEMMA UnixFacts ==
    ASSUME NEW t \in Time
    PROVE  Unix(t) \in Time /\ Unix(t) <= t /\ Unix(Unix(t)) = Unix(t)
  <1> DEFINE P == PerSecond
             q == t \div P
  <1>1. P \in Nat \ {0} /\ MaxTime \in Nat /\ t \in Nat /\ t <= MaxTime
    BY ClockAssumption DEF Time
  <1>2. q \in Nat /\ P * q <= t /\ P * q \in Nat
    BY <1>1
  <1>3. (P * q) \div P = q
    BY <1>1, <1>2
  <1> QED BY <1>1, <1>2, <1>3 DEF Unix, Second, Time

\* Cutting keeps the order.
LEMMA UnixOrder ==
    ASSUME NEW s \in Time, NEW t \in Time, s <= t
    PROVE  Unix(s) <= Unix(t)
  <1> DEFINE P == PerSecond
             p == s \div P
             q == t \div P
  <1>1. P \in Nat \ {0} /\ s \in Nat /\ t \in Nat
    BY ClockAssumption DEF Time
  <1>2. p \in Nat /\ q \in Nat /\ P * p <= s /\ t < P * (q + 1)
    BY <1>1
  <1>3. p <= q
    BY <1>1, <1>2
  <1>4. P * p <= P * q
    <2> HIDE DEF p, q
    <2> QED BY <1>1, <1>2, <1>3
  <1> QED BY <1>4 DEF Unix, Second

\* JSON gives back what it was given; a copy is never absent, and is not changed again.
LEMMA MetaFacts ==
    ASSUME NEW m \in Meta
    PROVE  /\ Marshal(m) \in Json /\ Unmarshal(Marshal(m)) = m
           /\ Copied(m) \in Meta \ {"nil"} /\ (m # "nil" => Copied(m) = m)
  BY DEF Meta, Json, Marshal, Unmarshal, Copied

\* A function on a part of Vec.
LEMMA InGraph ==
    ASSUME NEW g
    PROVE  g \in Graph <=> /\ DOMAIN g \subseteq Vec
                           /\ g \in [DOMAIN g -> [metadata : Meta, deleted : BOOLEAN]]
  BY DEF Graph

LEMMA InMetadata ==
    ASSUME NEW m
    PROVE  m \in Metadata <=> DOMAIN m \subseteq Vec /\ m \in [DOMAIN m -> Meta]
  BY DEF Metadata

\* Records are told apart from None and Refused.
LEMMA Distinct ==
    /\ None # Refused /\ None \notin Database /\ Refused \notin Database
    /\ None \notin Collection /\ None \notin SnapshotCollection
    /\ None \notin SnapshotDatabase /\ None \notin FileCollection
    /\ None \notin FileDatabase /\ None \notin File
  BY NoneAssumption

-----------------------------------------------------------------------------
(* Commands and records.                                                   *)

\* What each command does to a database.
LEMMA Applied ==
    ASSUME NEW d, NEW t
    PROVE  /\ ApplyCommand(d, CreateDatabaseCommand, t)
                 = IF d = None THEN [created |-> t, coll |-> None] ELSE Refused
           /\ \A c : ApplyCommand(d, CreateCollectionCommand(c), t)
                 = IF d \notin {None, Refused} /\ d.coll = None
                   THEN [d EXCEPT !.coll = NewCollection(c, t)] ELSE Refused
           /\ \A vs : ApplyCommand(d, InsertCommand(vs), t)
                 = IF d \notin {None, Refused} /\ d.coll # None
                   THEN [d EXCEPT !.coll = Inserted(@, vs, t)] ELSE Refused
           /\ \A ids : ApplyCommand(d, DeleteCommand(ids), t)
                 = IF d \notin {None, Refused} /\ d.coll # None
                   THEN [d EXCEPT !.coll = Deleted(@, ids, t)] ELSE Refused
  <1>1. ApplyCommand(d, CreateDatabaseCommand, t)
           = IF d = None THEN [created |-> t, coll |-> None] ELSE Refused
    BY Distinct DEF ApplyCommand, CreateDatabaseCommand
  <1>2. ASSUME NEW c
        PROVE  ApplyCommand(d, CreateCollectionCommand(c), t)
                  = IF d \notin {None, Refused} /\ d.coll = None
                    THEN [d EXCEPT !.coll = NewCollection(c, t)] ELSE Refused
    <2> DEFINE m == CreateCollectionCommand(c)
    <2>1. m.command = "CREATE_COLLECTION" /\ m.config = c
      BY DEF CreateCollectionCommand
    <2> HIDE DEF m
    <2>2. ApplyCommand(d, m, t)
             = IF d \notin {None, Refused} /\ d.coll = None
               THEN [d EXCEPT !.coll = NewCollection(c, t)] ELSE Refused
      BY <2>1, Distinct DEF ApplyCommand
    <2> QED BY <2>2 DEF m
  <1>3. ASSUME NEW vs
        PROVE  ApplyCommand(d, InsertCommand(vs), t)
                  = IF d \notin {None, Refused} /\ d.coll # None
                    THEN [d EXCEPT !.coll = Inserted(@, vs, t)] ELSE Refused
    <2> DEFINE m == InsertCommand(vs)
    <2>1. m.command = "INSERT_VECTORS" /\ m.vectors = vs
      BY DEF InsertCommand
    <2> HIDE DEF m
    <2>2. ApplyCommand(d, m, t)
             = IF d \notin {None, Refused} /\ d.coll # None
               THEN [d EXCEPT !.coll = Inserted(@, vs, t)] ELSE Refused
      BY <2>1, Distinct DEF ApplyCommand
    <2> QED BY <2>2 DEF m
  <1>4. ASSUME NEW ids
        PROVE  ApplyCommand(d, DeleteCommand(ids), t)
                  = IF d \notin {None, Refused} /\ d.coll # None
                    THEN [d EXCEPT !.coll = Deleted(@, ids, t)] ELSE Refused
    <2> DEFINE m == DeleteCommand(ids)
    <2>1. m.command = "DELETE_VECTORS" /\ m.ids = ids
      BY DEF DeleteCommand
    <2> HIDE DEF m
    <2>2. ApplyCommand(d, m, t)
             = IF d \notin {None, Refused} /\ d.coll # None
               THEN [d EXCEPT !.coll = Deleted(@, ids, t)] ELSE Refused
      BY <2>1, Distinct DEF ApplyCommand
    <2> QED BY <2>2 DEF m
  <1> QED BY <1>1, <1>2, <1>3, <1>4

\* The AOF carries every command as it is, but an insertion loses its metadata.
LEMMA Carried ==
    /\ ToRecord(CreateDatabaseCommand) = CreateDatabaseCommand
    /\ FromRecord(CreateDatabaseCommand) = CreateDatabaseCommand
    /\ \A c : /\ ToRecord(CreateCollectionCommand(c)) = CreateCollectionCommand(c)
              /\ FromRecord(CreateCollectionCommand(c)) = CreateCollectionCommand(c)
    /\ \A ids : /\ ToRecord(DeleteCommand(ids)) = DeleteCommand(ids)
                /\ FromRecord(DeleteCommand(ids)) = DeleteCommand(ids)
  BY DEF ToRecord, FromRecord, CreateDatabaseCommand, CreateCollectionCommand, DeleteCommand

LEMMA CarriedInsert ==
    ASSUME NEW vs
    PROVE  /\ ToRecord(InsertCommand(vs)) = ToRecord(InsertCommand([v \in DOMAIN vs |-> "empty"]))
           /\ ToRecord(InsertCommand(vs)).command = "INSERT_VECTORS"
           /\ FromRecord(ToRecord(InsertCommand(vs)))
                 = InsertCommand([v \in DOMAIN vs |-> "nil"])
  <1> DEFINE es == EncodeArgs(vs)
  <1>1. ToRecord(InsertCommand(vs)) = [command |-> "INSERT_VECTORS", vectors |-> es]
    BY DEF ToRecord, InsertCommand
  <1>2. EncodeArgs([v \in DOMAIN vs |-> "empty"]) = es
    BY DEF EncodeArgs
  <1>3. ToRecord(InsertCommand([v \in DOMAIN vs |-> "empty"]))
           = [command |-> "INSERT_VECTORS", vectors |-> es]
    <2> HIDE DEF es
    <2> QED BY <1>2 DEF ToRecord, InsertCommand
  <1>4. ByIds(es) = DOMAIN vs
    <2>1. ASSUME NEW v \in ByIds(es)
          PROVE  v \in DOMAIN vs
      <3>1. PICK r \in es : v = r.id
        <4> HIDE DEF es
        <4> QED BY DEF ByIds
      <3>2. PICK w \in DOMAIN vs : r = [id |-> w, metadata |-> "{}"]
        BY <3>1 DEF EncodeArgs
      <3> QED BY <3>1, <3>2
    <2>2. ASSUME NEW v \in DOMAIN vs
          PROVE  v \in ByIds(es)
      <3>1. [id |-> v, metadata |-> "{}"] \in es
        BY DEF EncodeArgs
      <3> HIDE DEF es
      <3>2. [id |-> v, metadata |-> "{}"].id \in ByIds(es)
        BY <3>1 DEF ByIds
      <3> QED BY <3>2
    <2> QED BY <2>1, <2>2
  <1>5. ParseArgs(es) = [v \in DOMAIN vs |-> "nil"]
    <2> HIDE DEF es
    <2> QED BY <1>4 DEF ParseArgs
  <1> HIDE DEF es
  <1>6. FromRecord([command |-> "INSERT_VECTORS", vectors |-> es])
           = [command |-> "INSERT_VECTORS", vectors |-> ParseArgs(es)]
    BY DEF FromRecord
  <1> QED BY <1>1, <1>3, <1>5, <1>6 DEF InsertCommand

-----------------------------------------------------------------------------
(* What a command keeps of a good database.                                *)

\* Metadata that a client, or a replay, inserts.
Given(vs) == /\ vs \in Metadata
             /\ \A v \in DOMAIN vs : vs[v] \in {Sent(v), "empty", "nil"}

\* A good database stays good when time passes and more is used.
LEMMA GoodLater ==
    ASSUME NEW d, NEW s \in Time, NEW t \in Time, NEW u, NEW w, Good(d, s, u), s <= t, u \subseteq w
    PROVE  Good(d, t, w)
  <1> SUFFICES ASSUME d # None PROVE Good(d, t, w)
    BY DEF Good
  <1>1. d \in Database /\ d.created \in Time /\ d.created <= s
    BY DEF Good, Database
  <1>2. d.created <= t
    BY <1>1, ClockAssumption DEF Time
  <1>3. ASSUME d.coll # None
        PROVE  SoundCollection(d.coll, w) /\ d.coll.updated <= t
    <2>1. d.coll \in Collection /\ SoundCollection(d.coll, u) /\ d.coll.updated <= s
      BY <1>3, <1>1 DEF Good, Database
    <2>2. d.coll.updated \in Time
      BY <2>1 DEF Collection
    <2> QED BY <2>1, <2>2, ClockAssumption DEF Time, SoundCollection
  <1> QED BY <1>1, <1>2, <1>3 DEF Good

\* A new collection has nothing in it.
LEMMA GoodNew ==
    ASSUME NEW c \in Config, NEW t \in Time, NEW u
    PROVE  NewCollection(c, t) \in Collection /\ SoundCollection(NewCollection(c, t), u)
  <1>1. DOMAIN << >> = {}
    OBVIOUS
  <1>2. << >> \in [{} -> Meta] /\ << >> \in [{} -> [metadata : Meta, deleted : BOOLEAN]]
    OBVIOUS
  <1>3. << >> \in Metadata /\ << >> \in Graph
    BY <1>1, <1>2, InMetadata, InGraph
  <1> QED BY <1>1, <1>3 DEF NewCollection, Collection, SoundCollection, LiveIn

\* What an insertion leaves.
InsertedShape(c, vs, t, e) ==
    /\ e \in Collection
    /\ e.config = c.config /\ e.created = c.created /\ e.updated = t
    /\ e.deletedIDs = c.deletedIDs
    /\ e.vectors = [v \in DOMAIN vs \cup DOMAIN c.vectors |->
                       IF v \in DOMAIN vs THEN Copied(vs[v]) ELSE c.vectors[v]]
    /\ e.nodes = [v \in DOMAIN vs \cup DOMAIN c.nodes |->
                     IF v \in DOMAIN vs THEN [metadata |-> Copied(vs[v]), deleted |-> FALSE]
                     ELSE c.nodes[v]]

LEMMA InsertedFacts ==
    ASSUME NEW c \in Collection, NEW vs \in Metadata, NEW t \in Time
    PROVE  InsertedShape(c, vs, t, Inserted(c, vs, t))
  <1> DEFINE e == Inserted(c, vs, t)
             m == [v \in DOMAIN vs \cup DOMAIN c.vectors |->
                      IF v \in DOMAIN vs THEN Copied(vs[v]) ELSE c.vectors[v]]
             g == [v \in DOMAIN vs \cup DOMAIN c.nodes |->
                      IF v \in DOMAIN vs THEN [metadata |-> Copied(vs[v]), deleted |-> FALSE]
                      ELSE c.nodes[v]]
  <1>1. /\ c.vectors \in Metadata /\ c.nodes \in Graph /\ c.config \in Config
        /\ c.created \in Time /\ c.deletedIDs \in SUBSET Vec
        /\ c = [config |-> c.config, created |-> c.created, updated |-> c.updated,
                vectors |-> c.vectors, deletedIDs |-> c.deletedIDs, nodes |-> c.nodes]
    BY DEF Collection
  <1>2. Joined([v \in DOMAIN vs |-> Copied(vs[v])], c.vectors) = m
    BY DEF Joined
  <1>3. Joined([v \in DOMAIN vs |-> [metadata |-> Copied(vs[v]), deleted |-> FALSE]], c.nodes) = g
    BY DEF Joined
  <1>4. m \in Metadata
    <2>1. \A v \in DOMAIN vs : vs[v] \in Meta
      BY InMetadata
    <2>2. \A v \in DOMAIN c.vectors : c.vectors[v] \in Meta
      BY <1>1, InMetadata
    <2>3. DOMAIN m \subseteq Vec
      BY <1>1, InMetadata
    <2>4. m \in [DOMAIN m -> Meta]
      BY <2>1, <2>2, MetaFacts
    <2> QED
      <3> HIDE DEF m
      <3> QED BY <2>3, <2>4, InMetadata
  <1>5. g \in Graph
    <2>1. \A v \in DOMAIN vs : vs[v] \in Meta
      BY InMetadata
    <2>2. \A v \in DOMAIN c.nodes : c.nodes[v] \in [metadata : Meta, deleted : BOOLEAN]
      BY <1>1, InGraph
    <2>3. DOMAIN g \subseteq Vec
      BY <1>1, InMetadata, InGraph
    <2>4. g \in [DOMAIN g -> [metadata : Meta, deleted : BOOLEAN]]
      BY <2>1, <2>2, MetaFacts
    <2> QED
      <3> HIDE DEF g
      <3> QED BY <2>3, <2>4, InGraph
  <1> HIDE DEF m, g, e
  <1>6. e = [config |-> c.config, created |-> c.created, updated |-> t,
             vectors |-> m, deletedIDs |-> c.deletedIDs, nodes |-> g]
    <2>1. e = [c EXCEPT !.vectors = m, !.nodes = g, !.updated = t]
      BY <1>2, <1>3 DEF Inserted, e
    <2> QED BY <1>1, <2>1
  <1>7. InsertedShape(c, vs, t, e)
    BY <1>1, <1>4, <1>5, <1>6 DEF m, g, Collection, InsertedShape
  <1> QED BY <1>7 DEF e

\* What a deletion leaves.
DeletedShape(c, ids, t, e) ==
    /\ e \in Collection
    /\ e.config = c.config /\ e.created = c.created /\ e.vectors = c.vectors
    /\ e.updated = IF ids \cap LiveIn(c) = {} THEN c.updated ELSE t
    /\ e.deletedIDs = c.deletedIDs \cup (ids \cap LiveIn(c))
    /\ LiveIn(e) = LiveIn(c) \ ids
    /\ DOMAIN e.nodes = DOMAIN c.nodes
    /\ \A v \in DOMAIN c.nodes :
          /\ e.nodes[v].metadata = c.nodes[v].metadata
          /\ e.nodes[v].deleted <=> c.nodes[v].deleted \/ v \in ids \cap LiveIn(c)

LEMMA DeletedFacts ==
    ASSUME NEW c \in Collection, NEW ids \in SUBSET Vec, NEW t \in Time
    PROVE  DeletedShape(c, ids, t, Deleted(c, ids, t))
  <1> DEFINE e == Deleted(c, ids, t)
             gone == ids \cap LiveIn(c)
             g == [v \in DOMAIN c.nodes |->
                      [metadata |-> c.nodes[v].metadata,
                       deleted |-> c.nodes[v].deleted \/ v \in gone]]
             u == IF gone = {} THEN c.updated ELSE t
  <1>1. /\ c.vectors \in Metadata /\ c.nodes \in Graph /\ c.config \in Config
        /\ c.created \in Time /\ c.updated \in Time /\ c.deletedIDs \in SUBSET Vec
        /\ c = [config |-> c.config, created |-> c.created, updated |-> c.updated,
                vectors |-> c.vectors, deletedIDs |-> c.deletedIDs, nodes |-> c.nodes]
    BY DEF Collection
  <1>2. ASSUME NEW v \in DOMAIN c.nodes
        PROVE  /\ c.nodes[v] \in [metadata : Meta, deleted : BOOLEAN]
               /\ g[v] \in [metadata : Meta, deleted : BOOLEAN]
               /\ g[v].metadata = c.nodes[v].metadata
               /\ g[v].deleted <=> c.nodes[v].deleted \/ v \in gone
    <2>1. c.nodes[v] \in [metadata : Meta, deleted : BOOLEAN]
      BY <1>1, InGraph
    <2> HIDE DEF gone
    <2> QED BY <2>1
  <1>3. g \in Graph
    <2>1. DOMAIN g \subseteq Vec
      BY <1>1, InGraph
    <2>2. g \in [DOMAIN g -> [metadata : Meta, deleted : BOOLEAN]]
      BY <1>2
    <2> HIDE DEF g
    <2> QED BY <2>1, <2>2, InGraph
  <1>4. e = [c EXCEPT !.deletedIDs = c.deletedIDs \cup gone, !.nodes = g, !.updated = u]
    BY DEF Deleted
  <1>5. DOMAIN g = DOMAIN c.nodes
    OBVIOUS
  <1> HIDE DEF g, u, gone, e
  <1>6. e = [config |-> c.config, created |-> c.created, updated |-> u,
             vectors |-> c.vectors, deletedIDs |-> c.deletedIDs \cup gone, nodes |-> g]
    BY <1>1, <1>4
  <1>7. u \in Time /\ gone \subseteq Vec
    BY <1>1 DEF u, gone
  <1>8. e \in Collection
    BY <1>1, <1>3, <1>6, <1>7 DEF Collection
  <1>9. LiveIn(e) = LiveIn(c) \ ids
    BY <1>6 DEF LiveIn, gone
  <1>10. /\ e.config = c.config /\ e.created = c.created /\ e.vectors = c.vectors
         /\ e.updated = u /\ e.deletedIDs = c.deletedIDs \cup gone /\ e.nodes = g
    BY <1>6
  <1>11. DeletedShape(c, ids, t, e)
    BY <1>2, <1>5, <1>8, <1>9, <1>10 DEF u, gone, DeletedShape
  <1> QED BY <1>11 DEF e

\* Both copies of what is inserted are the same; the vectors are new, so that none
\* of them is a tombstone.
LEMMA SoundInserted ==
    ASSUME NEW c \in Collection, NEW vs, NEW t \in Time, NEW u, NEW e, e = Inserted(c, vs, t),
           SoundCollection(c, u), Given(vs), DOMAIN vs \cap u = {}
    PROVE  /\ SoundCollection(e, u \cup DOMAIN vs)
           /\ LiveIn(e) = LiveIn(c) \cup DOMAIN vs
  <1>1. vs \in Metadata /\ \A v \in DOMAIN vs : vs[v] \in Meta /\ vs[v] \in {Sent(v), "empty", "nil"}
    BY InMetadata DEF Given
  <1>2. /\ e.deletedIDs = c.deletedIDs
        /\ e.vectors = [v \in DOMAIN vs \cup DOMAIN c.vectors |->
                           IF v \in DOMAIN vs THEN Copied(vs[v]) ELSE c.vectors[v]]
        /\ e.nodes = [v \in DOMAIN vs \cup DOMAIN c.nodes |->
                         IF v \in DOMAIN vs THEN [metadata |-> Copied(vs[v]), deleted |-> FALSE]
                         ELSE c.nodes[v]]
    <2>1. InsertedShape(c, vs, t, e)
      BY <1>1, InsertedFacts
    <2> QED BY <2>1 DEF InsertedShape
  <1>3. DOMAIN c.vectors \subseteq u /\ c.deletedIDs \subseteq u
    BY DEF SoundCollection
  <1>4. LiveIn(e) = LiveIn(c) \cup DOMAIN vs
    BY <1>2, <1>3 DEF LiveIn
  <1>5. DOMAIN e.vectors \subseteq u \cup DOMAIN vs /\ e.deletedIDs \subseteq u \cup DOMAIN vs
    BY <1>2, <1>3
  <1>6. ASSUME NEW v \in DOMAIN vs
        PROVE  /\ v \in DOMAIN e.nodes /\ ~e.nodes[v].deleted
               /\ e.vectors[v] = e.nodes[v].metadata
               /\ e.vectors[v] \in {Sent(v), "empty"} /\ e.nodes[v].metadata # "nil"
    <2>1. e.vectors[v] = Copied(vs[v]) /\ e.nodes[v] = [metadata |-> Copied(vs[v]), deleted |-> FALSE]
      BY <1>2
    <2>2. Copied(vs[v]) \in {Sent(v), "empty"} /\ Copied(vs[v]) # "nil"
      BY <1>1 DEF Copied, Sent
    <2> QED BY <1>2, <2>1, <2>2
  <1>7. ASSUME NEW v \in LiveIn(c)
        PROVE  /\ v \in DOMAIN e.nodes /\ ~e.nodes[v].deleted
               /\ e.vectors[v] = e.nodes[v].metadata
               /\ e.vectors[v] \in {Sent(v), "empty"}
    <2>1. v \in DOMAIN c.vectors /\ v \notin DOMAIN vs
      BY <1>3 DEF LiveIn
    <2>2. /\ v \in DOMAIN c.nodes /\ ~c.nodes[v].deleted
          /\ c.vectors[v] = c.nodes[v].metadata
          /\ c.vectors[v] \in {Sent(v), "empty"}
      BY DEF SoundCollection
    <2>3. e.vectors[v] = c.vectors[v] /\ e.nodes[v] = c.nodes[v] /\ v \in DOMAIN e.nodes
      BY <1>2, <2>1, <2>2
    <2> QED BY <2>2, <2>3
  <1>8. ASSUME NEW v \in DOMAIN e.nodes
        PROVE  e.nodes[v].metadata # "nil"
    <2>1. CASE v \in DOMAIN vs
      BY <1>6, <2>1
    <2>2. CASE v \notin DOMAIN vs
      <3>1. v \in DOMAIN c.nodes /\ e.nodes[v] = c.nodes[v]
        BY <1>2, <2>2
      <3> QED BY <3>1 DEF SoundCollection
    <2> QED BY <2>1, <2>2
  <1> QED BY <1>4, <1>5, <1>6, <1>7, <1>8 DEF SoundCollection

\* A deletion marks the vector and its node together.
LEMMA SoundDeleted ==
    ASSUME NEW c \in Collection, NEW ids \in SUBSET Vec, NEW t \in Time, NEW u, NEW e,
           e = Deleted(c, ids, t), SoundCollection(c, u)
    PROVE  SoundCollection(e, u)
  <1>1. /\ e.vectors = c.vectors
        /\ e.deletedIDs = c.deletedIDs \cup (ids \cap LiveIn(c))
        /\ LiveIn(e) = LiveIn(c) \ ids
        /\ DOMAIN e.nodes = DOMAIN c.nodes
        /\ \A v \in DOMAIN c.nodes :
              /\ e.nodes[v].metadata = c.nodes[v].metadata
              /\ e.nodes[v].deleted <=> c.nodes[v].deleted \/ v \in ids \cap LiveIn(c)
    <2>1. DeletedShape(c, ids, t, e)
      BY DeletedFacts
    <2> QED BY <2>1 DEF DeletedShape
  <1>2. DOMAIN c.vectors \subseteq u /\ c.deletedIDs \subseteq u
    BY DEF SoundCollection
  <1>3. DOMAIN e.vectors \subseteq u /\ e.deletedIDs \subseteq u
    BY <1>1, <1>2 DEF LiveIn
  <1>4. ASSUME NEW v \in LiveIn(e)
        PROVE  /\ v \in DOMAIN e.nodes /\ ~e.nodes[v].deleted
               /\ e.vectors[v] = e.nodes[v].metadata
               /\ e.vectors[v] \in {Sent(v), "empty"}
    <2>1. v \in LiveIn(c) /\ v \notin ids
      BY <1>1
    <2>2. /\ v \in DOMAIN c.nodes /\ ~c.nodes[v].deleted
          /\ c.vectors[v] = c.nodes[v].metadata
          /\ c.vectors[v] \in {Sent(v), "empty"}
      BY <2>1 DEF SoundCollection
    <2> QED BY <1>1, <2>1, <2>2
  <1>5. ASSUME NEW v \in DOMAIN e.nodes
        PROVE  e.nodes[v].metadata # "nil"
    <2>1. v \in DOMAIN c.nodes /\ e.nodes[v].metadata = c.nodes[v].metadata
      BY <1>1
    <2> QED BY <2>1 DEF SoundCollection
  <1> QED BY <1>3, <1>4, <1>5 DEF SoundCollection

\* A database with another collection.
LEMMA GoodWith ==
    ASSUME NEW d, NEW t \in Time, NEW u, NEW w, Good(d, t, u), d # None,
           NEW e \in Collection, SoundCollection(e, w),
           d.created <= e.created, e.created <= e.updated, e.updated <= t
    PROVE  [d EXCEPT !.coll = e] # None /\ Good([d EXCEPT !.coll = e], t, w)
  <1> DEFINE r == [d EXCEPT !.coll = e]
  <1>1. d \in Database /\ d.created \in Time /\ d.created <= t
    BY DEF Good, Database
  <1>2. r \in Database /\ r.created = d.created /\ r.coll = e
    BY <1>1 DEF Database
  <1> HIDE DEF r
  <1>3. r # None
    BY <1>2, Distinct
  <1>4. Good(r, t, w)
    BY <1>1, <1>2 DEF Good
  <1> QED BY <1>3, <1>4 DEF r

\* Every command that is not refused leaves a good database.
LEMMA GoodApplied ==
    ASSUME NEW d, NEW t \in Time, NEW u, Good(d, t, u), d # Refused
    PROVE  /\ d = None => Good([created |-> t, coll |-> None], t, u)
           /\ d # None => \A c \in Config : Good([d EXCEPT !.coll = NewCollection(c, t)], t, u)
           /\ d # None /\ d.coll # None =>
                 /\ \A vs : Given(vs) /\ DOMAIN vs \cap u = {} =>
                       Good([d EXCEPT !.coll = Inserted(@, vs, t)], t, u \cup DOMAIN vs)
                 /\ \A ids \in SUBSET Vec : Good([d EXCEPT !.coll = Deleted(@, ids, t)], t, u)
  <1>1. Good([created |-> t, coll |-> None], t, u)
    BY ClockAssumption DEF Good, Database, Time
  <1>2. ASSUME d # None
        PROVE  d \in Database /\ d.created \in Time /\ d.created <= t
    BY <1>2 DEF Good, Database
  <1>3. ASSUME d # None, NEW c \in Config
        PROVE  Good([d EXCEPT !.coll = NewCollection(c, t)], t, u)
    <2> DEFINE e == NewCollection(c, t)
    <2>1. e \in Collection /\ SoundCollection(e, u) /\ e.created = t /\ e.updated = t
      BY GoodNew DEF NewCollection
    <2>2. t <= t
      BY ClockAssumption DEF Time
    <2> HIDE DEF e
    <2>3. Good([d EXCEPT !.coll = e], t, u)
      BY <1>2, <1>3, <2>1, <2>2, GoodWith
    <2> QED BY <2>3 DEF e
  <1>4. ASSUME d # None, d.coll # None
        PROVE  /\ d.coll \in Collection /\ SoundCollection(d.coll, u)
               /\ d.created \in Time /\ d.coll.created \in Time /\ d.coll.updated \in Time
               /\ d.created <= d.coll.created /\ d.coll.created <= d.coll.updated
               /\ d.coll.updated <= t /\ d.coll.created <= t /\ t <= t
    <2>1. d.coll \in Collection
      BY <1>2, <1>4 DEF Database
    <2>2. d.coll.created \in Time /\ d.coll.updated \in Time
      BY <2>1 DEF Collection
    <2>3. /\ d.created <= d.coll.created /\ d.coll.created <= d.coll.updated
          /\ d.coll.updated <= t /\ SoundCollection(d.coll, u)
      BY <1>4 DEF Good
    <2>4. d.coll.created <= t /\ t <= t
      BY <2>2, <2>3, ClockAssumption DEF Time
    <2> QED BY <1>2, <1>4, <2>1, <2>2, <2>3, <2>4
  <1>5. ASSUME d # None, d.coll # None, NEW vs, Given(vs), DOMAIN vs \cap u = {}
        PROVE  Good([d EXCEPT !.coll = Inserted(@, vs, t)], t, u \cup DOMAIN vs)
    <2>1. PICK e : e = Inserted(d.coll, vs, t)
      OBVIOUS
    <2>2. e \in Collection /\ e.created = d.coll.created /\ e.updated = t
      <3>1. d.coll \in Collection /\ vs \in Metadata
        BY <1>4, <1>5 DEF Given
      <3>2. InsertedShape(d.coll, vs, t, e)
        BY <2>1, <3>1, InsertedFacts
      <3> QED BY <3>2 DEF InsertedShape
    <2>3. SoundCollection(e, u \cup DOMAIN vs)
      BY <1>4, <1>5, <2>1, SoundInserted
    <2>4. Good([d EXCEPT !.coll = e], t, u \cup DOMAIN vs)
      BY <1>4, <1>5, <2>2, <2>3, GoodWith
    <2> QED BY <2>1, <2>4
  <1>6. ASSUME d # None, d.coll # None, NEW ids \in SUBSET Vec
        PROVE  Good([d EXCEPT !.coll = Deleted(@, ids, t)], t, u)
    <2>1. PICK e : e = Deleted(d.coll, ids, t)
      OBVIOUS
    <2>2. e \in Collection /\ e.created = d.coll.created /\ e.updated \in {d.coll.updated, t}
      <3>1. d.coll \in Collection
        BY <1>4, <1>6
      <3>2. DeletedShape(d.coll, ids, t, e)
        BY <2>1, <3>1, DeletedFacts
      <3> QED BY <3>2 DEF DeletedShape
    <2>3. SoundCollection(e, u)
      BY <1>4, <1>6, <2>1, SoundDeleted
    <2>4. Good([d EXCEPT !.coll = e], t, u)
      BY <1>4, <1>6, <2>2, <2>3, GoodWith
    <2> QED BY <2>1, <2>4
  <1> QED BY <1>1, <1>3, <1>5, <1>6

-----------------------------------------------------------------------------
(* What a file keeps of a database.                                        *)

\* The collection and the database that come back: the live vectors, every node,
\* and times in whole seconds.
KeptCollection(c) ==
    [config |-> c.config, created |-> Unix(c.created), updated |-> Unix(c.updated),
     vectors |-> [v \in LiveIn(c) |-> c.vectors[v]], deletedIDs |-> {}, nodes |-> c.nodes]

Kept(d) ==
    IF d = None THEN None
    ELSE [created |-> Unix(d.created),
          coll |-> IF d.coll = None THEN None ELSE KeptCollection(d.coll)]

\* Reading the vectors, and the graph, that were written gives them back.
LEMMA VectorsBack ==
    ASSUME NEW vs \in Metadata
    PROVE  ParseVectors(EncodeVectors(vs)) = vs
  <1> DEFINE records == EncodeVectors(vs)
             made(v) == [id |-> v, metadata |-> Marshal(vs[v])]
  <1>1. \A v \in DOMAIN vs : vs[v] \in Meta
    BY InMetadata
  <1>2. \A v \in DOMAIN vs : made(v) \in records /\ made(v).id = v
    BY DEF EncodeVectors
  <1>3. \A r \in records : r.id \in DOMAIN vs /\ r = made(r.id)
    BY DEF EncodeVectors
  <1> HIDE DEF records
  <1>4. ByIds(records) = DOMAIN vs
    <2>1. ASSUME NEW v \in ByIds(records) PROVE v \in DOMAIN vs
      <3>1. PICK r \in records : v = r.id
        BY DEF ByIds
      <3> QED BY <3>1, <1>3
    <2>2. ASSUME NEW v \in DOMAIN vs PROVE v \in ByIds(records)
      <3>1. made(v) \in records /\ made(v).id = v
        BY <1>2
      <3> HIDE DEF made
      <3> QED BY <3>1 DEF ByIds
    <2> QED BY <2>1, <2>2
  <1>5. ASSUME NEW v \in DOMAIN vs
        PROVE  Unmarshal(WithId(records, v).metadata) = vs[v]
    <2>1. \E r \in records : r.id = v
      BY <1>2
    <2>2. WithId(records, v) \in records /\ WithId(records, v).id = v
      BY <2>1 DEF WithId
    <2>3. WithId(records, v) = made(v)
      BY <1>3, <2>2
    <2>4. WithId(records, v).metadata = Marshal(vs[v])
      BY <2>3
    <2> QED BY <1>1, <2>4, MetaFacts
  <1>6. ParseVectors(records) = [v \in DOMAIN vs |-> vs[v]]
    BY <1>4, <1>5 DEF ParseVectors
  <1>7. vs = [v \in DOMAIN vs |-> vs[v]]
    BY InMetadata
  <1> QED BY <1>6, <1>7 DEF records

LEMMA GraphBack ==
    ASSUME NEW g \in Graph
    PROVE  ParseGraph(EncodeGraph(g)) = g
  <1> DEFINE records == EncodeGraph(g)
             made(v) == [id |-> v, metadata |-> Marshal(g[v].metadata), deleted |-> g[v].deleted]
  <1>1. \A v \in DOMAIN g : g[v] \in [metadata : Meta, deleted : BOOLEAN]
    BY InGraph
  <1>2. \A v \in DOMAIN g : made(v) \in records /\ made(v).id = v
    BY DEF EncodeGraph
  <1>3. \A r \in records : r.id \in DOMAIN g /\ r = made(r.id)
    BY DEF EncodeGraph
  <1> HIDE DEF records
  <1>4. ByIds(records) = DOMAIN g
    <2>1. ASSUME NEW v \in ByIds(records) PROVE v \in DOMAIN g
      <3>1. PICK r \in records : v = r.id
        BY DEF ByIds
      <3> QED BY <3>1, <1>3
    <2>2. ASSUME NEW v \in DOMAIN g PROVE v \in ByIds(records)
      <3>1. made(v) \in records /\ made(v).id = v
        BY <1>2
      <3> HIDE DEF made
      <3> QED BY <3>1 DEF ByIds
    <2> QED BY <2>1, <2>2
  <1>5. ASSUME NEW v \in DOMAIN g
        PROVE  [metadata |-> Unmarshal(WithId(records, v).metadata),
                deleted |-> WithId(records, v).deleted] = g[v]
    <2>1. \E r \in records : r.id = v
      BY <1>2
    <2>2. WithId(records, v) \in records /\ WithId(records, v).id = v
      BY <2>1 DEF WithId
    <2>3. WithId(records, v) = made(v)
      BY <1>3, <2>2
    <2>4. /\ WithId(records, v).metadata = Marshal(g[v].metadata)
          /\ WithId(records, v).deleted = g[v].deleted
      BY <2>3
    <2>5. g[v].metadata \in Meta /\ g[v] = [metadata |-> g[v].metadata, deleted |-> g[v].deleted]
      BY <1>1
    <2> QED BY <2>4, <2>5, MetaFacts
  <1>6. ParseGraph(records) = [v \in DOMAIN g |-> g[v]]
    BY <1>4, <1>5 DEF ParseGraph
  <1>7. g = [v \in DOMAIN g |-> g[v]]
    BY InGraph
  <1> QED BY <1>6, <1>7 DEF records

\* Copying the metadata of nodes that have it changes nothing.
LEMMA GraphRestored ==
    ASSUME NEW g \in Graph, \A v \in DOMAIN g : g[v].metadata # "nil"
    PROVE  RestoreGraph(g) = g
  <1>1. ASSUME NEW v \in DOMAIN g
        PROVE  [g[v] EXCEPT !.metadata = Copied(g[v].metadata)] = g[v]
    <2>1. g[v] \in [metadata : Meta, deleted : BOOLEAN]
      BY InGraph
    <2>2. Copied(g[v].metadata) = g[v].metadata
      BY DEF Copied
    <2> QED BY <2>1, <2>2
  <1>2. g = [v \in DOMAIN g |-> g[v]]
    BY InGraph
  <1> QED BY <1>1, <1>2 DEF RestoreGraph

\* What is kept of a sound collection is sound and has the same live vectors.
LEMMA KeptSound ==
    ASSUME NEW c \in Collection, NEW u, SoundCollection(c, u)
    PROVE  /\ KeptCollection(c) \in Collection /\ SoundCollection(KeptCollection(c), u)
           /\ LiveIn(KeptCollection(c)) = LiveIn(c)
  <1> DEFINE k == KeptCollection(c)
             m == [v \in LiveIn(c) |-> c.vectors[v]]
  <1>1. /\ c.vectors \in Metadata /\ c.nodes \in Graph /\ c.config \in Config
        /\ c.created \in Time /\ c.updated \in Time
    BY DEF Collection
  <1>2. m \in Metadata
    <2>1. DOMAIN c.vectors \subseteq Vec /\ \A v \in DOMAIN c.vectors : c.vectors[v] \in Meta
      BY <1>1, InMetadata
    <2>2. DOMAIN m \subseteq Vec /\ m \in [DOMAIN m -> Meta]
      BY <2>1 DEF LiveIn
    <2> HIDE DEF m
    <2> QED BY <2>2, InMetadata
  <1>3. DOMAIN m = LiveIn(c) /\ \A v \in LiveIn(c) : m[v] = c.vectors[v]
    OBVIOUS
  <1> HIDE DEF m
  <1>4. k = [config |-> c.config, created |-> Unix(c.created), updated |-> Unix(c.updated),
             vectors |-> m, deletedIDs |-> {}, nodes |-> c.nodes]
    BY DEF m, KeptCollection
  <1> HIDE DEF k
  <1>5. /\ k.vectors = m /\ k.deletedIDs = {} /\ k.nodes = c.nodes /\ LiveIn(k) = LiveIn(c)
    BY <1>3, <1>4 DEF LiveIn
  <1>6. k \in Collection
    BY <1>1, <1>2, <1>4, UnixFacts DEF Collection
  <1>7. SoundCollection(k, u)
    <2>1. LiveIn(c) \subseteq u
      BY DEF SoundCollection, LiveIn
    <2>2. DOMAIN k.vectors \subseteq u /\ k.deletedIDs \subseteq u
      BY <1>3, <1>5, <2>1
    <2>3. ASSUME NEW v \in LiveIn(k)
          PROVE  /\ v \in DOMAIN k.nodes /\ ~k.nodes[v].deleted
                 /\ k.vectors[v] = k.nodes[v].metadata
                 /\ k.vectors[v] \in {Sent(v), "empty"}
      BY <1>3, <1>5 DEF SoundCollection
    <2>4. \A v \in DOMAIN k.nodes : k.nodes[v].metadata # "nil"
      BY <1>5 DEF SoundCollection
    <2> QED BY <2>2, <2>3, <2>4 DEF SoundCollection
  <1> QED BY <1>5, <1>6, <1>7 DEF k

\* The snapshot of a sound collection.
LEMMA StateOf ==
    ASSUME NEW c \in Collection, NEW u, SoundCollection(c, u)
    PROVE  /\ CollectionState(c)
                 = [config |-> c.config, createdAt |-> c.created, updatedAt |-> c.updated,
                    vectors |-> [v \in LiveIn(c) |-> c.vectors[v]],
                    vectorCount |-> Cardinality(LiveIn(c)), graph |-> c.nodes]
           /\ CollectionState(c) \in SnapshotCollection
  <1> DEFINE m == [v \in LiveIn(c) |-> c.vectors[v]]
  <1>1. /\ c.vectors \in Metadata /\ c.nodes \in Graph /\ c.config \in Config
        /\ c.created \in Time /\ c.updated \in Time
    BY DEF Collection
  <1>2. DOMAIN c.vectors \subseteq Vec /\ \A v \in DOMAIN c.vectors : c.vectors[v] \in Meta
    BY <1>1, InMetadata
  <1>3. LiveIn(c) \subseteq DOMAIN c.vectors
    BY DEF LiveIn
  <1>4. m \in Metadata
    <2>1. DOMAIN m \subseteq Vec /\ m \in [DOMAIN m -> Meta]
      BY <1>2, <1>3
    <2> HIDE DEF m
    <2> QED BY <2>1, InMetadata
  <1>5. [v \in LiveIn(c) |-> Copied(c.vectors[v])] = m
    <2>1. ASSUME NEW v \in LiveIn(c)
          PROVE  Copied(c.vectors[v]) = c.vectors[v]
      <3>1. c.vectors[v] # "nil"
        BY DEF SoundCollection, Sent
      <3> QED BY <3>1 DEF Copied
    <2> QED BY <2>1
  <1>6. Cardinality(LiveIn(c)) \in Count
    BY <1>2, <1>3 DEF Count
  <1> HIDE DEF m
  <1>7. CollectionState(c)
           = [config |-> c.config, createdAt |-> c.created, updatedAt |-> c.updated,
              vectors |-> m, vectorCount |-> Cardinality(LiveIn(c)), graph |-> c.nodes]
    BY <1>5 DEF CollectionState
  <1>8. CollectionState(c) \in SnapshotCollection
    BY <1>1, <1>4, <1>6, <1>7 DEF SnapshotCollection
  <1> QED BY <1>7, <1>8 DEF m

\* Writing and reading a collection: the snapshot that is read is that of what is kept,
\* restoring it gives what is kept, and writing that again the same file.
LEMMA CollectionBack ==
    ASSUME NEW c \in Collection, NEW u, SoundCollection(c, u)
    PROVE  /\ EncodeCollection(CollectionState(c)) \in FileCollection
           /\ ParseCollection(EncodeCollection(CollectionState(c)))
                 = CollectionState(KeptCollection(c))
           /\ RestoreCollection(CollectionState(KeptCollection(c))) = KeptCollection(c)
           /\ EncodeCollection(CollectionState(KeptCollection(c)))
                 = EncodeCollection(CollectionState(c))
           /\ Cardinality(DOMAIN CollectionState(KeptCollection(c)).vectors)
                 = CollectionState(KeptCollection(c)).vectorCount
  <1> DEFINE k == KeptCollection(c)
             m == [v \in LiveIn(c) |-> c.vectors[v]]
             n == Cardinality(LiveIn(c))
             s == CollectionState(c)
             a == Unix(c.created)
             b == Unix(c.updated)
             z == CollectionState(k)
  <1>1. /\ c.nodes \in Graph /\ c.config \in Config
        /\ c.created \in Time /\ c.updated \in Time
        /\ a \in Time /\ b \in Time /\ Unix(a) = a /\ Unix(b) = b
    BY UnixFacts DEF Collection
  <1>2. k \in Collection /\ SoundCollection(k, u) /\ LiveIn(k) = LiveIn(c)
    BY KeptSound
  <1>3. /\ s = [config |-> c.config, createdAt |-> c.created, updatedAt |-> c.updated,
                vectors |-> m, vectorCount |-> n, graph |-> c.nodes]
        /\ s \in SnapshotCollection
    BY StateOf
  <1>4. /\ k.config = c.config /\ k.created = a /\ k.updated = b
        /\ k.vectors = m /\ k.nodes = c.nodes
    BY DEF KeptCollection
  <1>5. m = [v \in LiveIn(k) |-> k.vectors[v]]
    BY <1>2, <1>4
  <1>6. z = [config |-> c.config, createdAt |-> a, updatedAt |-> b,
             vectors |-> m, vectorCount |-> n, graph |-> c.nodes]
    <2>1. z = [config |-> k.config, createdAt |-> k.created, updatedAt |-> k.updated,
               vectors |-> [v \in LiveIn(k) |-> k.vectors[v]],
               vectorCount |-> Cardinality(LiveIn(k)), graph |-> k.nodes]
      BY <1>2, StateOf
    <2> HIDE DEF k, m, z
    <2> QED BY <1>2, <1>4, <1>5, <2>1
  <1>7. m \in Metadata /\ n \in Count
    BY <1>3 DEF SnapshotCollection
  <1>8. \A v \in DOMAIN m : m[v] \in Meta /\ m[v] # "nil" /\ v \in Vec
    <2>1. \A v \in DOMAIN m : m[v] \in Meta /\ v \in Vec
      <3> HIDE DEF m
      <3> QED BY <1>7, InMetadata
    <2>2. \A v \in LiveIn(c) : c.vectors[v] # "nil"
      BY DEF SoundCollection, Sent
    <2> QED BY <2>1, <2>2
  <1>9. \A v \in DOMAIN c.nodes :
           v \in Vec /\ c.nodes[v] \in [metadata : Meta, deleted : BOOLEAN]
           /\ c.nodes[v].metadata # "nil"
    BY <1>1, InGraph DEF SoundCollection
  <1>d. DOMAIN m = LiveIn(c)
    OBVIOUS
  <1>k. k = [config |-> c.config, created |-> a, updated |-> b,
             vectors |-> m, deletedIDs |-> {}, nodes |-> c.nodes]
    BY DEF KeptCollection
  <1> HIDE DEF k, m, n, s, z, a, b
  <1>10. EncodeCollection(s)
            = [config |-> c.config, vectors |-> EncodeVectors(m), graph |-> EncodeGraph(c.nodes),
               vectorCount |-> n, createdAt |-> a, updatedAt |-> b]
    BY <1>3 DEF EncodeCollection, a, b
  <1>11. EncodeCollection(z) = EncodeCollection(s)
    <2>1. EncodeCollection(z)
            = [config |-> c.config, vectors |-> EncodeVectors(m), graph |-> EncodeGraph(c.nodes),
               vectorCount |-> n, createdAt |-> Unix(a), updatedAt |-> Unix(b)]
      BY <1>6 DEF EncodeCollection
    <2> QED BY <1>1, <1>10, <2>1
  <1>12. EncodeVectors(m) \in SUBSET [id : Vec, metadata : Json]
    BY <1>8, MetaFacts DEF EncodeVectors
  <1>13. EncodeGraph(c.nodes) \in SUBSET [id : Vec, metadata : Json, deleted : BOOLEAN]
    BY <1>9, MetaFacts DEF EncodeGraph
  <1>14. EncodeCollection(s) \in FileCollection
    BY <1>1, <1>7, <1>10, <1>12, <1>13 DEF FileCollection
  <1>15. ParseCollection(EncodeCollection(s)) = z
    <2>1. ParseVectors(EncodeVectors(m)) = m /\ ParseGraph(EncodeGraph(c.nodes)) = c.nodes
      BY <1>1, <1>7, VectorsBack, GraphBack
    <2> QED BY <1>6, <1>10, <2>1 DEF ParseCollection
  <1>16. RestoreCollection(z) = k
    <2>1. RestoreGraph(c.nodes) = c.nodes
      BY <1>1, <1>9, GraphRestored
    <2>2. [v \in DOMAIN m |-> Copied(m[v])] = m
      <3>1. [v \in DOMAIN m |-> Copied(m[v])] = [v \in DOMAIN m |-> m[v]]
        BY <1>8, MetaFacts
      <3>2. m = [v \in DOMAIN m |-> m[v]]
        BY <1>7, InMetadata
      <3> QED BY <3>1, <3>2
    <2>3. RestoreCollection(z)
            = [config |-> c.config, created |-> a, updated |-> b,
               vectors |-> m, deletedIDs |-> {}, nodes |-> c.nodes]
      BY <1>6, <2>1, <2>2 DEF RestoreCollection
    <2> QED BY <1>k, <2>3
  <1>17. Cardinality(DOMAIN z.vectors) = z.vectorCount
    BY <1>6, <1>d DEF n
  <1> QED BY <1>11, <1>14, <1>15, <1>16, <1>17 DEF s, k, z

\* The same of a database: what is read from a file is the snapshot of what is kept.
LEMMA FileBack ==
    ASSUME NEW d, NEW s \in Time, NEW u, Good(d, s, u), NEW t \in Time
    PROVE  /\ Encode(CreateSnapshot(d), t) \in File
           /\ Encode(CreateSnapshot(d), t) # None
           /\ Encode(CreateSnapshot(d), t).timestamp = Unix(t)
           /\ Encode(CreateSnapshot(d), t).database # None <=> d # None
           /\ d # None =>
                 (Encode(CreateSnapshot(d), t).database.collection # None <=> d.coll # None)
           /\ Parse(Encode(CreateSnapshot(d), t)) = CreateSnapshot(Kept(d))
           /\ Restored(CreateSnapshot(Kept(d))) = Kept(d)
           /\ Valid(CreateSnapshot(Kept(d)))
           /\ Encode(CreateSnapshot(Kept(d)), t) = Encode(CreateSnapshot(d), t)
           /\ Good(Kept(d), s, u)
  <1> DEFINE f == Encode(CreateSnapshot(d), t)
             k == Kept(d)
  <1>0. Unix(t) \in Time
    BY UnixFacts
  <1>1. CASE d = None
    <2>1. k = None
      BY <1>1 DEF Kept
    <2>2. CreateSnapshot(None) = [version |-> "1.0", database |-> None]
      BY DEF CreateSnapshot
    <2>3. f = [version |-> "1.0", timestamp |-> Unix(t), database |-> None]
      BY <1>1, <2>2 DEF Encode
    <2> HIDE DEF f, k
    <2>4. f \in File /\ f # None
      <3>2. f \in File
        BY <1>0, <2>3 DEF File
      <3> QED BY <3>2, Distinct
    <2>5. Parse(f) = [version |-> "1.0", database |-> None]
      BY <2>3 DEF Parse
    <2>6. Restored([version |-> "1.0", database |-> None]) = None
      BY DEF Restored
    <2>7. Valid([version |-> "1.0", database |-> None])
      BY DEF Valid
    <2>8. Good(None, s, u)
      BY DEF Good
    <2>9. f.timestamp = Unix(t) /\ f.database = None
      BY <2>3
    <2>10. CreateSnapshot(k) = [version |-> "1.0", database |-> None]
      BY <2>1, <2>2
    <2> QED BY <1>1, <2>1, <2>4, <2>5, <2>6, <2>7, <2>8, <2>9, <2>10 DEF f, k
  <1>2. CASE d # None
    <2>1. /\ d \in Database /\ d.created \in Time /\ d.created <= s /\ d.coll \in Collection \cup {None}
          /\ Unix(d.created) \in Time /\ Unix(Unix(d.created)) = Unix(d.created)
          /\ Unix(d.created) <= d.created
      BY <1>2, UnixFacts DEF Good, Database
    <2> DEFINE dc == IF d.coll = None THEN None ELSE CollectionState(d.coll)
               fc == IF d.coll = None THEN None ELSE EncodeCollection(CollectionState(d.coll))
               kc == IF d.coll = None THEN None ELSE KeptCollection(d.coll)
               zc == IF d.coll = None THEN None ELSE CollectionState(KeptCollection(d.coll))
               a == Unix(d.created)
    <2>2. d.coll # None => d.coll \in Collection /\ SoundCollection(d.coll, u)
      BY <1>2, <2>1 DEF Good
    <2>3. d.coll # None =>
             /\ dc \in SnapshotCollection /\ fc \in FileCollection
             /\ kc \in Collection /\ SoundCollection(kc, u) /\ zc \in SnapshotCollection
             /\ ParseCollection(fc) = zc /\ RestoreCollection(zc) = kc
             /\ EncodeCollection(zc) = fc /\ EncodeCollection(dc) = fc
             /\ Cardinality(DOMAIN zc.vectors) = zc.vectorCount
             /\ zc = CollectionState(kc)
      <3> SUFFICES ASSUME d.coll # None
                   PROVE  /\ dc \in SnapshotCollection /\ fc \in FileCollection
                          /\ kc \in Collection /\ SoundCollection(kc, u) /\ zc \in SnapshotCollection
                          /\ ParseCollection(fc) = zc /\ RestoreCollection(zc) = kc
                          /\ EncodeCollection(zc) = fc /\ EncodeCollection(dc) = fc
                          /\ Cardinality(DOMAIN zc.vectors) = zc.vectorCount
                          /\ zc = CollectionState(kc)
        OBVIOUS
      <3>1. CollectionState(d.coll) \in SnapshotCollection
        BY <2>2, StateOf
      <3>2. KeptCollection(d.coll) \in Collection /\ SoundCollection(KeptCollection(d.coll), u)
        BY <2>2, KeptSound
      <3>3. CollectionState(KeptCollection(d.coll)) \in SnapshotCollection
        BY <3>2, StateOf
      <3>4. /\ EncodeCollection(CollectionState(d.coll)) \in FileCollection
            /\ ParseCollection(EncodeCollection(CollectionState(d.coll)))
                 = CollectionState(KeptCollection(d.coll))
            /\ RestoreCollection(CollectionState(KeptCollection(d.coll))) = KeptCollection(d.coll)
            /\ EncodeCollection(CollectionState(KeptCollection(d.coll)))
                 = EncodeCollection(CollectionState(d.coll))
            /\ Cardinality(DOMAIN CollectionState(KeptCollection(d.coll)).vectors)
                 = CollectionState(KeptCollection(d.coll)).vectorCount
        BY <2>2, CollectionBack
      <3> QED BY <3>1, <3>2, <3>3, <3>4
    <2>4. d.coll = None => dc = None /\ fc = None /\ kc = None /\ zc = None
      OBVIOUS
    <2>5. CreateSnapshot(d)
             = [version |-> "1.0", database |-> [createdAt |-> d.created, collection |-> dc]]
      BY <1>2 DEF CreateSnapshot
    <2>6. k = [created |-> a, coll |-> kc]
      BY <1>2 DEF Kept
    <2>t. d.coll # None => kc.created = Unix(d.coll.created) /\ kc.updated = Unix(d.coll.updated)
      BY DEF KeptCollection
    <2> HIDE DEF dc, fc, kc, zc, a, f, k
    <2>7. k \in Database /\ k # None /\ k.created = a /\ k.coll = kc
      BY <2>1, <2>3, <2>4, <2>6, Distinct DEF Database, a
    <2>n. /\ dc = None <=> d.coll = None
          /\ fc = None <=> d.coll = None
          /\ kc = None <=> d.coll = None
          /\ zc = None <=> d.coll = None
      BY <2>3, <2>4, Distinct
    <2>8. CreateSnapshot(k) = [version |-> "1.0", database |-> [createdAt |-> a, collection |-> zc]]
      BY <2>3, <2>4, <2>7, <2>n DEF CreateSnapshot
    <2>9. ASSUME NEW x \in Time, NEW y \in SnapshotCollection \cup {None},
                 y = None <=> d.coll = None, d.coll # None => EncodeCollection(y) = fc
          PROVE  Encode([version |-> "1.0", database |-> [createdAt |-> x, collection |-> y]], t)
                    = [version |-> "1.0", timestamp |-> Unix(t),
                       database |-> [createdAt |-> Unix(x), collection |-> fc]]
      <3> DEFINE e == [createdAt |-> x, collection |-> y]
      <3>1. e \in SnapshotDatabase /\ e.createdAt = x /\ e.collection = y
        BY <2>9 DEF SnapshotDatabase
      <3>2. e # None
        BY <3>1, Distinct
      <3> HIDE DEF e
      <3>3. EncodeDatabase(e) = [createdAt |-> Unix(x), collection |-> fc]
        BY <2>9, <2>4, <3>1 DEF EncodeDatabase
      <3>4. Encode([version |-> "1.0", database |-> e], t)
                    = [version |-> "1.0", timestamp |-> Unix(t), database |-> EncodeDatabase(e)]
        BY <3>2 DEF Encode
      <3> QED BY <3>3, <3>4 DEF e
    <2>10. f = [version |-> "1.0", timestamp |-> Unix(t),
                database |-> [createdAt |-> a, collection |-> fc]]
      <3>1. /\ dc \in SnapshotCollection \cup {None} /\ (dc = None <=> d.coll = None)
            /\ (d.coll # None => EncodeCollection(dc) = fc)
        BY <2>3, <2>4, <2>n
      <3>2. Encode([version |-> "1.0", database |-> [createdAt |-> d.created, collection |-> dc]], t)
                    = [version |-> "1.0", timestamp |-> Unix(t),
                       database |-> [createdAt |-> Unix(d.created), collection |-> fc]]
        BY <2>1, <2>9, <3>1
      <3> QED BY <2>5, <3>2 DEF f, a
    <2>11. Encode(CreateSnapshot(k), t) = f
      <3>1. /\ zc \in SnapshotCollection \cup {None} /\ (zc = None <=> d.coll = None)
            /\ (d.coll # None => EncodeCollection(zc) = fc)
        BY <2>3, <2>4, <2>n
      <3>2. Encode([version |-> "1.0", database |-> [createdAt |-> a, collection |-> zc]], t)
                    = [version |-> "1.0", timestamp |-> Unix(t),
                       database |-> [createdAt |-> Unix(a), collection |-> fc]]
        BY <2>1, <2>9, <3>1 DEF a
      <3> QED BY <2>1, <2>8, <2>10, <3>2 DEF a
    <2>12. [createdAt |-> a, collection |-> fc] \in FileDatabase
      BY <2>1, <2>3, <2>4 DEF FileDatabase, a
    <2>13. f \in File /\ f # None /\ f.timestamp = Unix(t)
           /\ f.database = [createdAt |-> a, collection |-> fc]
           /\ f.database # None /\ f.database.collection = fc
      <3>2. f \in File
        BY <1>0, <2>10, <2>12 DEF File
      <3>3. f.timestamp = Unix(t) /\ f.database = [createdAt |-> a, collection |-> fc]
        BY <2>10
      <3>4. f.database # None /\ f.database.collection = fc
        BY <2>12, <3>3, Distinct
      <3> QED BY <3>2, <3>3, <3>4, Distinct
    <2>14. Parse(f) = CreateSnapshot(k)
      <3>1. ParseDatabase([createdAt |-> a, collection |-> fc]) = [createdAt |-> a, collection |-> zc]
        BY <2>3, <2>4, <2>n DEF ParseDatabase
      <3>2. Parse(f) = [version |-> f.version, database |-> ParseDatabase(f.database)]
        BY <2>13 DEF Parse
      <3>3. f.version = "1.0"
        BY <2>10
      <3> QED BY <2>8, <2>13, <3>1, <3>2, <3>3
    <2>15. [createdAt |-> a, collection |-> zc] # None
      <3>1. [createdAt |-> a, collection |-> zc] \in SnapshotDatabase
        BY <2>1, <2>3, <2>4 DEF SnapshotDatabase, a
      <3> QED BY <3>1, Distinct
    <2>s. PICK z : z = CreateSnapshot(k)
      OBVIOUS
    <2>16. /\ z.version = "1.0" /\ z.database # None
           /\ z.database.createdAt = a /\ z.database.collection = zc
      BY <2>8, <2>15, <2>s
    <2>17. Restored(z) = k
      BY <2>3, <2>4, <2>6, <2>n, <2>16 DEF Restored
    <2>18. Valid(z)
      BY <2>3, <2>n, <2>16 DEF Valid
    <2>19. Good(k, s, u)
      <3>1. a <= s
        BY <2>1, ClockAssumption DEF a, Time
      <3>2. ASSUME kc # None
            PROVE  /\ SoundCollection(kc, u)
                   /\ a <= kc.created /\ kc.created <= kc.updated /\ kc.updated <= s
        <4>1. d.coll # None
          BY <2>n, <3>2
        <4>2. /\ d.coll.created \in Time /\ d.coll.updated \in Time
              /\ d.created <= d.coll.created /\ d.coll.created <= d.coll.updated
              /\ d.coll.updated <= s
          BY <1>2, <2>2, <4>1 DEF Good, Collection
        <4>3. /\ a <= Unix(d.coll.created) /\ Unix(d.coll.created) <= Unix(d.coll.updated)
              /\ Unix(d.coll.updated) <= d.coll.updated /\ Unix(d.coll.updated) \in Time
          BY <2>1, <4>2, UnixOrder, UnixFacts DEF a
        <4>4. Unix(d.coll.updated) <= s
          BY <4>2, <4>3, ClockAssumption DEF Time
        <4> QED BY <2>3, <2>t, <4>1, <4>3, <4>4
      <3> QED BY <2>7, <3>1, <3>2 DEF Good
    <2> QED BY <1>2, <2>11, <2>13, <2>14, <2>17, <2>18, <2>19, <2>n, <2>s DEF f, k
  <1> QED BY <1>1, <1>2

-----------------------------------------------------------------------------
(* Replays.                                                                *)

\* g has what the first n records make of d, one after the other.
Makes(d, s, t, n, g) ==
    g = [i \in 0 .. n |-> IF i = 0 THEN d ELSE ApplyCommand(g[i - 1], FromRecord(s[i]), t)]

Steps(d, s, t, n, g) ==
    /\ g = [i \in 0 .. n |-> g[i]]
    /\ g[0] = d
    /\ \A i \in 1 .. n : g[i] = ApplyCommand(g[i - 1], FromRecord(s[i]), t)

LEMMA MakesSteps ==
    ASSUME NEW d, NEW s, NEW t, NEW n \in Nat, NEW g
    PROVE  Makes(d, s, t, n, g) <=> Steps(d, s, t, n, g)
  <1>1. ASSUME Makes(d, s, t, n, g)
        PROVE  /\ g = [i \in 0 .. n |-> g[i]] /\ g[0] = d
               /\ \A i \in 1 .. n : g[i] = ApplyCommand(g[i - 1], FromRecord(s[i]), t)
    <2> DEFINE F == [i \in 0 .. n |-> IF i = 0 THEN d
                                      ELSE ApplyCommand(g[i - 1], FromRecord(s[i]), t)]
    <2>1. g = F
      BY <1>1 DEF Makes
    <2>2. F[0] = d /\ \A i \in 1 .. n : F[i] = ApplyCommand(g[i - 1], FromRecord(s[i]), t)
      OBVIOUS
    <2>3. F = [i \in 0 .. n |-> F[i]]
      OBVIOUS
    <2> HIDE DEF F
    <2> QED BY <2>1, <2>2, <2>3
  <1>2. ASSUME g = [i \in 0 .. n |-> g[i]], g[0] = d,
               \A i \in 1 .. n : g[i] = ApplyCommand(g[i - 1], FromRecord(s[i]), t)
        PROVE  Makes(d, s, t, n, g)
    <2>1. \A i \in 0 .. n : g[i] = IF i = 0 THEN d ELSE ApplyCommand(g[i - 1], FromRecord(s[i]), t)
      BY <1>2
    <2> QED BY <1>2, <2>1 DEF Makes
  <1> QED BY <1>1, <1>2 DEF Steps

LEMMA MakesExists ==
    ASSUME NEW d, NEW s, NEW t, NEW n \in Nat
    PROVE  \E g : Makes(d, s, t, n, g)
  <1> DEFINE S == {m \in 0 .. n : \E g : Makes(d, s, t, m, g)}
  <1>1. 0 \in S
    <2>1. Makes(d, s, t, 0, [i \in 0 .. 0 |-> d])
      <3>1. Steps(d, s, t, 0, [i \in 0 .. 0 |-> d])
        BY DEF Steps
      <3> QED BY <3>1, MakesSteps
    <2> QED BY <2>1
  <1>2. \A m \in 0 .. n - 1 : m \in S => m + 1 \in S
    <2> SUFFICES ASSUME NEW m \in 0 .. n - 1, m \in S
                 PROVE  \E g : Makes(d, s, t, m + 1, g)
      OBVIOUS
    <2>1. PICK g : Makes(d, s, t, m, g)
      OBVIOUS
    <2> DEFINE h == [i \in 0 .. m + 1 |->
                        IF i = m + 1 THEN ApplyCommand(g[m], FromRecord(s[m + 1]), t) ELSE g[i]]
    <2>2. g[0] = d /\ \A i \in 1 .. m : g[i] = ApplyCommand(g[i - 1], FromRecord(s[i]), t)
      <3>1. Steps(d, s, t, m, g)
        BY <2>1, MakesSteps
      <3> QED BY <3>1 DEF Steps
    <2>3. h[0] = d /\ h = [i \in 0 .. m + 1 |-> h[i]]
      BY <2>2
    <2>4. ASSUME NEW i \in 1 .. m + 1
          PROVE  h[i] = ApplyCommand(h[i - 1], FromRecord(s[i]), t)
      <3>1. CASE i = m + 1
        <4>1. h[i - 1] = g[m] /\ h[i] = ApplyCommand(g[m], FromRecord(s[m + 1]), t)
          BY <3>1
        <4> QED BY <3>1, <4>1
      <3>2. CASE i # m + 1
        <4>1. h[i - 1] = g[i - 1] /\ h[i] = g[i] /\ i \in 1 .. m
          BY <3>2
        <4> QED BY <2>2, <4>1
      <3> QED BY <3>1, <3>2
    <2>5. m + 1 \in Nat
      OBVIOUS
    <2> HIDE DEF h
    <2>6. Makes(d, s, t, m + 1, h)
      <3>1. Steps(d, s, t, m + 1, h)
        BY <2>3, <2>4 DEF Steps
      <3> QED BY <2>5, <3>1, MakesSteps
    <2> QED BY <2>6
  <1>3. \A m \in 0 .. n : m \in S
    <2> HIDE DEF S
    <2> QED BY <1>1, <1>2, UpTo
  <1> QED BY <1>3

LEMMA ReplayMakes ==
    ASSUME NEW d, NEW s, NEW t, Len(s) \in Nat, NEW g, Makes(d, s, t, Len(s), g)
    PROVE  Replay(d, s, t) = g[Len(s)]
  <1> DEFINE n == Len(s)
             F(x) == [i \in 0 .. n |-> IF i = 0 THEN d
                                       ELSE ApplyCommand(x[i - 1], FromRecord(s[i]), t)]
             f == CHOOSE x : x = F(x)
  <1>1. g = F(g)
    BY DEF Makes
  <1>2. f = F(f)
    <2> HIDE DEF F
    <2> QED BY <1>1
  <1>3. Replay(d, s, t) = f[n]
    BY DEF Replay
  <1> HIDE DEF f
  <1>4. Makes(d, s, t, n, f)
    BY <1>2 DEF Makes
  <1> HIDE DEF n, F
  <1>5. n \in Nat /\ Makes(d, s, t, n, g)
    BY DEF n
  <1>6. /\ f[0] = d /\ \A i \in 1 .. n : f[i] = ApplyCommand(f[i - 1], FromRecord(s[i]), t)
        /\ g[0] = d /\ \A i \in 1 .. n : g[i] = ApplyCommand(g[i - 1], FromRecord(s[i]), t)
    <2>1. Steps(d, s, t, n, f) /\ Steps(d, s, t, n, g)
      BY <1>4, <1>5, MakesSteps
    <2> QED BY <2>1 DEF Steps
  <1> DEFINE S == {i \in 0 .. n : f[i] = g[i]}
  <1>7. 0 \in S
    BY <1>5, <1>6
  <1>8. \A i \in 0 .. n - 1 : i \in S => i + 1 \in S
    <2> SUFFICES ASSUME NEW i \in 0 .. n - 1, f[i] = g[i] PROVE f[i + 1] = g[i + 1]
      BY <1>5
    <2>1. i + 1 \in 1 .. n /\ (i + 1) - 1 = i
      BY <1>5
    <2> QED BY <1>6, <2>1
  <1>9. \A i \in 0 .. n : i \in S
    <2> HIDE DEF S
    <2> QED BY <1>5, <1>7, <1>8, UpTo
  <1>10. n \in S
    <2> HIDE DEF S
    <2> QED BY <1>5, <1>9
  <1> QED BY <1>3, <1>10 DEF n

\* An empty replay changes nothing, and one more record is one more command.
LEMMA ReplayEmpty ==
    ASSUME NEW d, NEW t
    PROVE  Replay(d, << >>, t) = d
  <1>1. Len(<< >>) = 0
    OBVIOUS
  <1>2. PICK g : Makes(d, << >>, t, 0, g)
    BY MakesExists
  <1>3. g[0] = d
    <2>1. Steps(d, << >>, t, 0, g)
      BY <1>2, MakesSteps
    <2> QED BY <2>1 DEF Steps
  <1>4. Makes(d, << >>, t, Len(<< >>), g) /\ Len(<< >>) \in Nat
    BY <1>1, <1>2
  <1>5. Replay(d, << >>, t) = g[Len(<< >>)]
    BY <1>4, ReplayMakes
  <1> QED BY <1>1, <1>3, <1>5

LEMMA ReplayAppend ==
    ASSUME NEW d, NEW t, NEW S, NEW s \in Seq(S), NEW r \in S
    PROVE  Replay(d, Append(s, r), t) = ApplyCommand(Replay(d, s, t), FromRecord(r), t)
  <1> DEFINE n == Len(s)
             z == Append(s, r)
  <1>1. n \in Nat /\ Len(z) = n + 1 /\ z[n + 1] = r /\ \A i \in 1 .. n : z[i] = s[i]
    OBVIOUS
  <1> HIDE DEF z
  <1>2. PICK g : Makes(d, z, t, n + 1, g)
    <2>1. n + 1 \in Nat
      BY <1>1
    <2>2. PICK m \in Nat : m = n + 1
      BY <2>1
    <2>3. \E g : Makes(d, z, t, m, g)
      BY MakesExists
    <2> QED BY <2>2, <2>3
  <1>3. /\ g[0] = d
        /\ \A i \in 1 .. n + 1 : g[i] = ApplyCommand(g[i - 1], FromRecord(z[i]), t)
    <2>1. Steps(d, z, t, n + 1, g)
      BY <1>1, <1>2, MakesSteps
    <2> QED BY <2>1 DEF Steps
  <1>4. Len(z) \in Nat /\ Makes(d, z, t, Len(z), g)
    BY <1>1, <1>2
  <1>5. Replay(d, z, t) = g[Len(z)]
    BY <1>4, ReplayMakes
  <1> DEFINE h == [i \in 0 .. n |-> g[i]]
  <1>6. h = [i \in 0 .. n |-> h[i]] /\ h[0] = d /\ h[n] = g[n]
    BY <1>1, <1>3
  <1>7. ASSUME NEW i \in 1 .. n
        PROVE  h[i] = ApplyCommand(h[i - 1], FromRecord(s[i]), t)
    <2>1. h[i] = g[i] /\ h[i - 1] = g[i - 1] /\ z[i] = s[i] /\ i \in 1 .. n + 1
      BY <1>1
    <2> QED BY <1>3, <2>1
  <1> HIDE DEF h
  <1>8. Makes(d, s, t, n, h)
    <2>1. Steps(d, s, t, n, h)
      BY <1>6, <1>7 DEF Steps
    <2> QED BY <1>1, <2>1, MakesSteps
  <1>9. Replay(d, s, t) = h[n]
    BY <1>1, <1>8, ReplayMakes
  <1>10. g[n + 1] = ApplyCommand(g[n], FromRecord(r), t)
    <2>1. n + 1 \in 1 .. n + 1 /\ (n + 1) - 1 = n
      BY <1>1
    <2> QED BY <1>1, <1>3, <2>1
  <1> QED BY <1>1, <1>5, <1>6, <1>9, <1>10 DEF z

-----------------------------------------------------------------------------
(* What the log tells, and the recovery at another time.                   *)

LEMMA ContentEmpty ==
    ContentOf(<< >>) = [commands |-> {}, vectors |-> {}]
  <1>1. DOMAIN << >> = {}
    OBVIOUS
  <1> QED BY <1>1 DEF ContentOf

\* One more record adds its command and its vectors.
LEMMA ContentAppend ==
    ASSUME NEW S, NEW s \in Seq(S), NEW r \in S
    PROVE  /\ ContentOf(Append(s, r)).commands = ContentOf(s).commands \cup {r.command}
           /\ ContentOf(Append(s, r)).vectors = ContentOf(s).vectors \cup
                 IF r.command = "INSERT_VECTORS" THEN DOMAIN FromRecord(r).vectors ELSE {}
  <1> DEFINE z == Append(s, r)
             n == Len(s)
             C(x) == {x[k].command : k \in DOMAIN x}
             I(x) == {j \in DOMAIN x : x[j].command = "INSERT_VECTORS"}
             V(x) == UNION {DOMAIN FromRecord(x[k]).vectors : k \in I(x)}
  <1>1. /\ n \in Nat /\ DOMAIN s = 1 .. n /\ DOMAIN z = 1 .. n + 1 /\ z[n + 1] = r
        /\ \A i \in 1 .. n : z[i] = s[i] /\ i \in 1 .. n + 1 /\ i # n + 1
        /\ \A i \in 1 .. n + 1 : i \in 1 .. n \/ i = n + 1
    OBVIOUS
  <1> HIDE DEF z, n
  <1>2. C(z) = C(s) \cup {r.command}
    <2>1. ASSUME NEW c \in C(z) PROVE c \in C(s) \cup {r.command}
      <3>1. PICK k \in DOMAIN z : c = z[k].command
        OBVIOUS
      <3> QED BY <1>1, <3>1
    <2>2. ASSUME NEW c \in C(s) PROVE c \in C(z)
      <3>1. PICK k \in DOMAIN s : c = s[k].command
        OBVIOUS
      <3>2. k \in DOMAIN z /\ c = z[k].command
        BY <1>1, <3>1
      <3> QED BY <3>2
    <2>3. r.command \in C(z)
      BY <1>1
    <2> QED BY <2>1, <2>2, <2>3
  <1>3. V(z) = V(s) \cup IF r.command = "INSERT_VECTORS" THEN DOMAIN FromRecord(r).vectors ELSE {}
    <2> DEFINE more == IF r.command = "INSERT_VECTORS" THEN DOMAIN FromRecord(r).vectors ELSE {}
    <2>1. ASSUME NEW v \in V(z) PROVE v \in V(s) \cup more
      <3>1. PICK k \in I(z) : v \in DOMAIN FromRecord(z[k]).vectors
        OBVIOUS
      <3>2. CASE k \in 1 .. n
        <4>1. k \in I(s) /\ v \in DOMAIN FromRecord(s[k]).vectors
          BY <1>1, <3>1, <3>2
        <4> QED BY <4>1
      <3>3. CASE k = n + 1
        BY <1>1, <3>1, <3>3
      <3> QED BY <1>1, <3>1, <3>2, <3>3
    <2>2. ASSUME NEW v \in V(s) PROVE v \in V(z)
      <3>1. PICK k \in I(s) : v \in DOMAIN FromRecord(s[k]).vectors
        OBVIOUS
      <3>2. k \in I(z) /\ v \in DOMAIN FromRecord(z[k]).vectors
        BY <1>1, <3>1
      <3> QED BY <3>2
    <2>3. ASSUME NEW v \in more PROVE v \in V(z)
      <3>1. r.command = "INSERT_VECTORS" /\ v \in DOMAIN FromRecord(r).vectors
        OBVIOUS
      <3>2. n + 1 \in I(z) /\ v \in DOMAIN FromRecord(z[n + 1]).vectors
        BY <1>1, <3>1
      <3> QED BY <3>2
    <2> HIDE DEF more, V
    <2>4. V(z) = V(s) \cup more
      BY <2>1, <2>2, <2>3
    <2> QED BY <2>4 DEF more
  <1>4. /\ ContentOf(z).commands = C(z) /\ ContentOf(s).commands = C(s)
        /\ ContentOf(z).vectors = V(z) /\ ContentOf(s).vectors = V(s)
    BY DEF ContentOf
  <1> HIDE DEF C, V
  <1> QED BY <1>2, <1>3, <1>4 DEF z

\* The summary of the state's log says what Snapshots asks of it.
LEMMA ContentLogged ==
    /\ Logged("CREATE_DATABASE") <=> Creates(Content)
    /\ Logged("CREATE_COLLECTION") <=> CreatesCollection(Content)
    /\ (\E k \in DOMAIN log : log[k].command # "CREATE_DATABASE") <=> Changes(Content)
    /\ InLog = Content.vectors
  BY DEF Logged, InLog, Content, ContentOf, Creates, CreatesCollection, Changes

\* Retiming: types, and what it leaves alone.
LEMMA RetimedFacts ==
    ASSUME NEW d \in Database, NEW t \in Time, NEW l
    PROVE  /\ Retimed(d, t, l) \in Database
           /\ Retimed(d, t, l) # None /\ Retimed(d, t, l) # Refused
           /\ Retimed(d, t, l).created = IF Creates(l) THEN t ELSE d.created
           /\ d.coll = None => Retimed(d, t, l).coll = None
           /\ d.coll # None => /\ Retimed(d, t, l).coll = RetimedCollection(d.coll, t, l)
                               /\ RetimedCollection(d.coll, t, l) \in Collection
  <1>1. d \notin {None, Refused}
    BY Distinct
  <1>2. d.created \in Time /\ d.coll \in Collection \cup {None}
    BY DEF Database
  <1>3. d.coll # None => RetimedCollection(d.coll, t, l) \in Collection
    BY <1>2 DEF RetimedCollection, Collection
  <1> DEFINE a == IF Creates(l) THEN t ELSE d.created
             c == IF d.coll = None THEN None ELSE RetimedCollection(d.coll, t, l)
  <1>4. Retimed(d, t, l) = [created |-> a, coll |-> c]
    BY <1>1 DEF Retimed
  <1>5. a \in Time /\ c \in Collection \cup {None}
    BY <1>2, <1>3
  <1>6. [created |-> a, coll |-> c] \in Database
    <2> HIDE DEF a, c
    <2> QED BY <1>5 DEF Database
  <1> QED BY <1>3, <1>4, <1>6, Distinct

\* Retiming and then a command at that time is the command at any time, then retiming
\* with the longer log.
SameCreates(l, k) ==
    /\ Creates(k) <=> Creates(l)
    /\ CreatesCollection(k) <=> CreatesCollection(l)
    /\ Changes(k)

LEMMA RetimedNew ==
    ASSUME NEW g, NEW t, NEW z, NEW k, CreatesCollection(k), Changes(k)
    PROVE  NewCollection(g, t) = RetimedCollection(NewCollection(g, z), t, k)
  BY DEF NewCollection, RetimedCollection

LEMMA RetimedInserted ==
    ASSUME NEW c \in Collection, NEW vs \in Metadata, NEW t \in Time, NEW z \in Time,
           NEW l, NEW k, SameCreates(l, k)
    PROVE  Inserted(RetimedCollection(c, t, l), vs, t) = RetimedCollection(Inserted(c, vs, z), t, k)
  <1> DEFINE r == RetimedCollection(c, t, l)
             e == Inserted(c, vs, z)
             f == Inserted(r, vs, t)
  <1>1. r \in Collection
    BY DEF RetimedCollection, Collection
  <1>2. /\ r.config = c.config /\ r.created = IF CreatesCollection(l) THEN t ELSE c.created
        /\ r.vectors = c.vectors /\ r.deletedIDs = c.deletedIDs /\ r.nodes = c.nodes
    BY DEF RetimedCollection
  <1> HIDE DEF r, e, f
  <1>3. InsertedShape(c, vs, z, e) /\ InsertedShape(r, vs, t, f)
    BY <1>1, InsertedFacts DEF e, f
  <1>4. /\ f \in Collection /\ f.config = e.config /\ f.updated = t
        /\ f.created = r.created /\ e.created = c.created
        /\ f.vectors = e.vectors /\ f.deletedIDs = e.deletedIDs /\ f.nodes = e.nodes
    BY <1>2, <1>3 DEF InsertedShape
  <1>5. f = [config |-> f.config, created |-> f.created, updated |-> f.updated,
             vectors |-> f.vectors, deletedIDs |-> f.deletedIDs, nodes |-> f.nodes]
    BY <1>4 DEF Collection
  <1>6. f = RetimedCollection(e, t, k)
    BY <1>2, <1>4, <1>5 DEF RetimedCollection, SameCreates
  <1> QED BY <1>6 DEF f, e, r

LEMMA RetimedDeleted ==
    ASSUME NEW c \in Collection, NEW ids \in SUBSET Vec, NEW t \in Time, NEW z \in Time,
           NEW l, NEW k, SameCreates(l, k), ids \cap LiveIn(c) # {}
    PROVE  Deleted(RetimedCollection(c, t, l), ids, t) = RetimedCollection(Deleted(c, ids, z), t, k)
  <1> DEFINE r == RetimedCollection(c, t, l)
             e == Deleted(c, ids, z)
             f == Deleted(r, ids, t)
  <1>1. r \in Collection
    BY DEF RetimedCollection, Collection
  <1>2. /\ r.config = c.config /\ r.created = IF CreatesCollection(l) THEN t ELSE c.created
        /\ r.vectors = c.vectors /\ r.deletedIDs = c.deletedIDs /\ r.nodes = c.nodes
    BY DEF RetimedCollection
  <1>n. LiveIn(r) = LiveIn(c)
    BY <1>2 DEF LiveIn
  <1>m. /\ f.nodes = [v \in DOMAIN c.nodes |->
                         [metadata |-> c.nodes[v].metadata,
                          deleted |-> c.nodes[v].deleted \/ v \in ids \cap LiveIn(c)]]
        /\ e.nodes = [v \in DOMAIN c.nodes |->
                         [metadata |-> c.nodes[v].metadata,
                          deleted |-> c.nodes[v].deleted \/ v \in ids \cap LiveIn(c)]]
    <2> DEFINE g(x) == [v \in DOMAIN x.nodes |->
                         [metadata |-> x.nodes[v].metadata,
                          deleted |-> x.nodes[v].deleted \/ v \in ids \cap LiveIn(x)]]
    <2>1. ASSUME NEW x \in Collection, NEW y
          PROVE  Deleted(x, ids, y).nodes = g(x)
      <3>1. x = [config |-> x.config, created |-> x.created, updated |-> x.updated,
                 vectors |-> x.vectors, deletedIDs |-> x.deletedIDs, nodes |-> x.nodes]
        BY DEF Collection
      <3> DEFINE h == g(x)
                 a == x.deletedIDs \cup (ids \cap LiveIn(x))
                 b == IF ids \cap LiveIn(x) = {} THEN x.updated ELSE y
      <3>2. Deleted(x, ids, y) = [x EXCEPT !.deletedIDs = a, !.nodes = h, !.updated = b]
        BY DEF Deleted
      <3> HIDE DEF h, a, b
      <3>3. Deleted(x, ids, y).nodes = h
        BY <3>1, <3>2
      <3> QED BY <3>3 DEF h
    <2>2. f.nodes = g(r) /\ e.nodes = g(c)
      BY <1>1, <2>1 DEF e, f
    <2>3. g(r) = g(c)
      <3> HIDE DEF r
      <3> QED BY <1>2, <1>n
    <2> HIDE DEF e, f, r
    <2> QED BY <2>2, <2>3
  <1> HIDE DEF r, e, f
  <1>3. DeletedShape(c, ids, z, e) /\ DeletedShape(r, ids, t, f)
    BY <1>1, DeletedFacts DEF e, f
  <1>4. /\ f \in Collection /\ f.config = e.config /\ f.updated = t
        /\ f.created = r.created /\ e.created = c.created
        /\ f.vectors = e.vectors /\ f.deletedIDs = e.deletedIDs
    BY <1>2, <1>3, <1>n DEF DeletedShape
  <1>5. f = [config |-> f.config, created |-> f.created, updated |-> f.updated,
             vectors |-> f.vectors, deletedIDs |-> f.deletedIDs, nodes |-> f.nodes]
    BY <1>4 DEF Collection
  <1>6. f = RetimedCollection(e, t, k)
    BY <1>2, <1>4, <1>5, <1>m DEF RetimedCollection, SameCreates
  <1> QED BY <1>6 DEF f, e, r

\* The same of the database around the collection.
LEMMA RetimedWith ==
    ASSUME NEW d \in Database, NEW t \in Time, NEW l, NEW k, Creates(k) <=> Creates(l),
           NEW e \in Collection
    PROVE  /\ [d EXCEPT !.coll = e] \in Database
           /\ [Retimed(d, t, l) EXCEPT !.coll = RetimedCollection(e, t, k)]
                 = Retimed([d EXCEPT !.coll = e], t, k)
  <1> DEFINE r == Retimed(d, t, l)
             x == [d EXCEPT !.coll = e]
             y == [r EXCEPT !.coll = RetimedCollection(e, t, k)]
  <1>1. d.created \in Time /\ d = [created |-> d.created, coll |-> d.coll]
    BY DEF Database
  <1>2. x = [created |-> d.created, coll |-> e]
    BY <1>1
  <1>3. x \in Database /\ x.created = d.created /\ x.coll = e
    BY <1>1, <1>2 DEF Database
  <1>4. e # None
    BY Distinct
  <1>5. r \in Database /\ r.created = IF Creates(l) THEN t ELSE d.created
    BY RetimedFacts
  <1>6. r = [created |-> r.created, coll |-> r.coll]
    BY <1>5 DEF Database
  <1>7. y = [created |-> r.created, coll |-> RetimedCollection(e, t, k)]
    <2> HIDE DEF r
    <2> QED BY <1>6
  <1> HIDE DEF r, x, y
  <1>8. Retimed(x, t, k) = [created |-> IF Creates(k) THEN t ELSE d.created,
                            coll |-> RetimedCollection(e, t, k)]
    BY <1>3, <1>4, Distinct DEF Retimed
  <1>9. Retimed(x, t, k) = y
    BY <1>5, <1>7, <1>8
  <1> QED BY <1>3, <1>9 DEF r, x, y

-----------------------------------------------------------------------------
(* What a command keeps of the agreement between memory and the recovery.  *)

LEMMA KeepsNew ==
    ASSUME NEW g, NEW s, NEW t, NEW k, CreatesCollection(k), Changes(k)
    PROVE  KeepsCollection(NewCollection(g, s), NewCollection(g, t), k)
  <1>1. LiveIn(NewCollection(g, s)) = {} /\ LiveIn(NewCollection(g, t)) = {}
    <2>1. DOMAIN << >> = {}
      OBVIOUS
    <2> QED BY <2>1 DEF LiveIn, NewCollection
  <1>2. NewCollection(g, s).config = g /\ NewCollection(g, t).config = g
    BY DEF NewCollection
  <1> QED BY <1>1, <1>2 DEF KeepsCollection

\* What is inserted is in the log, and the replay gives it empty metadata.
LEMMA KeepsInserted ==
    ASSUME NEW r \in Collection, NEW c \in Collection, NEW s \in Time, NEW t \in Time,
           NEW u, SoundCollection(r, u), SoundCollection(c, u),
           NEW vs, NEW ws, Given(vs), Given(ws), DOMAIN vs = DOMAIN ws, DOMAIN vs \cap u = {},
           \A v \in DOMAIN vs : Copied(vs[v]) = "empty",
           NEW l, NEW k, SameCreates(l, k), k.vectors = l.vectors \cup DOMAIN vs,
           KeepsCollection(r, c, l)
    PROVE  KeepsCollection(Inserted(r, vs, s), Inserted(c, ws, t), k)
  <1> DEFINE e == Inserted(r, vs, s)
             f == Inserted(c, ws, t)
  <1>1. vs \in Metadata /\ ws \in Metadata
    BY DEF Given
  <1>2. InsertedShape(r, vs, s, e) /\ InsertedShape(c, ws, t, f)
    BY <1>1, InsertedFacts
  <1>a. e = Inserted(r, vs, s) /\ f = Inserted(c, ws, t) /\ DOMAIN ws \cap u = {}
    OBVIOUS
  <1> HIDE DEF e, f
  <1>3. SoundCollection(e, u \cup DOMAIN vs) /\ LiveIn(e) = LiveIn(r) \cup DOMAIN vs
    BY <1>a, SoundInserted
  <1>4. SoundCollection(f, u \cup DOMAIN ws) /\ LiveIn(f) = LiveIn(c) \cup DOMAIN ws
    BY <1>a, SoundInserted
  <1>5. /\ LiveIn(r) \subseteq DOMAIN r.vectors /\ LiveIn(c) \subseteq DOMAIN c.vectors
        /\ DOMAIN c.vectors \subseteq u /\ DOMAIN r.vectors \subseteq u
    BY DEF LiveIn, SoundCollection
  <1>6. /\ r.config = c.config /\ LiveIn(r) = LiveIn(c)
        /\ \A v \in LiveIn(c) : r.vectors[v] = IF v \in l.vectors THEN "empty" ELSE c.vectors[v]
        /\ ~CreatesCollection(l) => r.created = Unix(c.created)
    BY DEF KeepsCollection
  <1>7. ASSUME NEW v \in LiveIn(f)
        PROVE  e.vectors[v] = IF v \in k.vectors THEN "empty" ELSE f.vectors[v]
    <2>1. CASE v \in DOMAIN vs
      <3>1. e.vectors[v] = "empty"
        BY <1>2, <2>1 DEF InsertedShape
      <3> QED BY <2>1, <3>1
    <2>2. CASE v \notin DOMAIN vs
      <3>1. v \in LiveIn(c) /\ v \in DOMAIN r.vectors /\ v \in DOMAIN c.vectors
        BY <1>4, <1>5, <1>6, <2>2
      <3>2. e.vectors[v] = r.vectors[v] /\ f.vectors[v] = c.vectors[v]
        BY <1>2, <2>2, <3>1 DEF InsertedShape
      <3> QED BY <1>6, <2>2, <3>1, <3>2
    <2> QED BY <2>1, <2>2
  <1>8. e.config = f.config /\ e.created = r.created /\ f.created = c.created
    BY <1>2, <1>6 DEF InsertedShape
  <1>9. KeepsCollection(e, f, k)
    BY <1>3, <1>4, <1>6, <1>7, <1>8 DEF KeepsCollection, SameCreates
  <1> QED BY <1>9 DEF e, f

LEMMA KeepsDeleted ==
    ASSUME NEW r \in Collection, NEW c \in Collection, NEW s \in Time, NEW t \in Time,
           NEW ids \in SUBSET Vec, NEW l, NEW k, SameCreates(l, k), k.vectors = l.vectors,
           KeepsCollection(r, c, l)
    PROVE  KeepsCollection(Deleted(r, ids, s), Deleted(c, ids, t), k)
  <1> DEFINE e == Deleted(r, ids, s)
             f == Deleted(c, ids, t)
  <1>1. DeletedShape(r, ids, s, e) /\ DeletedShape(c, ids, t, f)
    BY DeletedFacts
  <1> HIDE DEF e, f
  <1>2. /\ r.config = c.config /\ LiveIn(r) = LiveIn(c)
        /\ \A v \in LiveIn(c) : r.vectors[v] = IF v \in l.vectors THEN "empty" ELSE c.vectors[v]
        /\ ~CreatesCollection(l) => r.created = Unix(c.created)
    BY DEF KeepsCollection
  <1>3. /\ e.config = f.config /\ e.created = r.created /\ f.created = c.created
        /\ LiveIn(e) = LiveIn(f) /\ LiveIn(f) \subseteq LiveIn(c)
        /\ e.vectors = r.vectors /\ f.vectors = c.vectors
    BY <1>1, <1>2 DEF DeletedShape
  <1>4. KeepsCollection(e, f, k)
    BY <1>2, <1>3 DEF KeepsCollection, SameCreates
  <1> QED BY <1>4 DEF e, f

LEMMA KeepsWith ==
    ASSUME NEW r \in Database, NEW c \in Database, NEW l, NEW k, Creates(k) <=> Creates(l),
           Keeps(r, c, l), NEW e \in Collection, NEW f \in Collection, KeepsCollection(e, f, k)
    PROVE  Keeps([r EXCEPT !.coll = e], [c EXCEPT !.coll = f], k)
  <1> DEFINE x == [r EXCEPT !.coll = e]
             y == [c EXCEPT !.coll = f]
  <1>1. /\ x \in Database /\ x.created = r.created /\ x.coll = e
        /\ y \in Database /\ y.created = c.created /\ y.coll = f
    BY DEF Database
  <1> HIDE DEF x, y
  <1>2. x # None /\ y # None /\ c # None /\ e # None /\ f # None
    BY <1>1, Distinct
  <1>3. ~Creates(l) => r.created = Unix(c.created)
    BY <1>2 DEF Keeps
  <1>4. Keeps(x, y, k)
    BY <1>1, <1>2, <1>3 DEF Keeps
  <1> QED BY <1>4 DEF x, y

LEMMA KeepsNewDatabase ==
    ASSUME NEW s \in Time, NEW t \in Time, NEW k, Creates(k)
    PROVE  Keeps([created |-> s, coll |-> None], [created |-> t, coll |-> None], k)
  <1>1. [created |-> s, coll |-> None] \in Database /\ [created |-> t, coll |-> None] \in Database
    BY DEF Database
  <1>2. [created |-> s, coll |-> None] # None /\ [created |-> t, coll |-> None] # None
    BY <1>1, Distinct
  <1> QED BY <1>2 DEF Keeps

-----------------------------------------------------------------------------
(* A command in memory, and its record in the recovery.                    *)

\* The recovery b becomes f by the record m, and so does the one at any time.
Outcome(b, f, l, k, m) ==
    /\ f \in Database /\ (b # None /\ b.coll # None => f.coll # None)
    /\ \A t \in Time : ApplyCommand(Retimed(b, t, l), m, t) = Retimed(f, t, k)

\* The log k has one more record with the command, and the vectors vs, than l.
Longer(l, k, command, vs) ==
    k.commands = l.commands \cup {command} /\ k.vectors = l.vectors \cup vs

LEMMA LongerSame ==
    ASSUME NEW l, NEW k, NEW command \in {"INSERT_VECTORS", "DELETE_VECTORS"}, NEW vs,
           Longer(l, k, command, vs)
    PROVE  SameCreates(l, k)
  BY DEF Longer, SameCreates, Creates, CreatesCollection, Changes

LEMMA TimeFacts ==
    /\ 0 \in Time
    /\ \A n \in Time : n .. MaxTime \subseteq Time /\ n \in n .. MaxTime
    /\ \A n \in Time : n + 1 .. MaxTime \subseteq n .. MaxTime
  BY ClockAssumption DEF Time

LEMMA ToldDatabase ==
    ASSUME NEW n \in Time, NEW u, NEW l, NEW k, NEW b, NEW d,
           Longer(l, k, "CREATE_DATABASE", {}), Told(b, d, l, u, n), d = None
    PROVE  /\ Told(ApplyCommand(b, CreateDatabaseCommand, 0),
                   ApplyCommand(d, CreateDatabaseCommand, n), k, u, n)
           /\ Outcome(b, ApplyCommand(b, CreateDatabaseCommand, 0), l, k, CreateDatabaseCommand)
  <1>1. b = None
    BY DEF Told, Keeps
  <1> DEFINE f == [created |-> 0, coll |-> None]
             e == [created |-> n, coll |-> None]
  <1>2. /\ ApplyCommand(b, CreateDatabaseCommand, 0) = f
        /\ ApplyCommand(d, CreateDatabaseCommand, n) = e
    BY <1>1, Applied
  <1>3. Creates(k)
    BY DEF Longer, Creates
  <1>4. /\ f \in Database /\ f.created = 0 /\ f.coll = None
        /\ e \in Database /\ e.created = n /\ e.coll = None
    BY TimeFacts DEF Database
  <1>5. Keeps(f, e, k) /\ Keeps(f, f, k)
    BY <1>3, KeepsNewDatabase, TimeFacts
  <1>6. ASSUME NEW t \in Time
        PROVE  Retimed(f, t, k) = [created |-> t, coll |-> None]
    BY <1>3, <1>4, Distinct DEF Retimed
  <1>7. ASSUME NEW t \in Time
        PROVE  Good([created |-> t, coll |-> None], t, u)
    BY ClockAssumption DEF Good, Database, Time
  <1>8. ASSUME NEW t \in Time
        PROVE  ApplyCommand(Retimed(b, t, l), CreateDatabaseCommand, t) = Retimed(f, t, k)
    <2>1. Retimed(b, t, l) = None
      BY <1>1 DEF Retimed
    <2> QED BY <1>6, <2>1, Applied
  <1> HIDE DEF f
  <1>9. \A t \in n .. MaxTime : Good(Retimed(f, t, k), t, u)
    BY <1>6, <1>7, TimeFacts
  <1>10. Told(f, e, k, u, n)
    BY <1>4, <1>5, <1>7, <1>9 DEF Told
  <1>11. Outcome(b, f, l, k, CreateDatabaseCommand)
    BY <1>1, <1>4, <1>8 DEF Outcome
  <1> QED BY <1>2, <1>10, <1>11

\* The three commands on the collection change it alone.
LEMMA ToldWith ==
    ASSUME NEW n \in Time, NEW u, NEW w, NEW l, NEW k, NEW b \in Database, NEW d \in Database,
           Told(b, d, l, u, n), Creates(k) <=> Creates(l),
           NEW fc \in Collection, NEW ec \in Collection,
           SoundCollection(fc, w), KeepsCollection(fc, ec, k), KeepsCollection(fc, fc, k),
           Good([d EXCEPT !.coll = ec], n, w),
           \A t \in n .. MaxTime : Good(Retimed([b EXCEPT !.coll = fc], t, k), t, w)
    PROVE  Told([b EXCEPT !.coll = fc], [d EXCEPT !.coll = ec], k, w, n)
  <1> DEFINE f == [b EXCEPT !.coll = fc]
             e == [d EXCEPT !.coll = ec]
  <1>1. Keeps(b, d, l) /\ Keeps(b, b, l)
    BY DEF Told
  <1>2. Keeps(f, e, k) /\ Keeps(f, f, k)
    BY <1>1, KeepsWith
  <1>3. f \in Database /\ f.coll = fc
    BY DEF Database
  <1> HIDE DEF f, e
  <1>4. Told(f, e, k, w, n)
    BY <1>2, <1>3 DEF Told, f, e
  <1> QED BY <1>4 DEF f, e

\* The recovery keeps what it would serve now.
LEMMA ToldRetimed ==
    ASSUME NEW n \in Time, NEW u, NEW l, NEW b, NEW d, Told(b, d, l, u, n)
    PROVE  Told(b, Retimed(b, n, l), l, u, n)
  <1> DEFINE r == Retimed(b, n, l)
  <1>1. Good(r, n, u)
    BY TimeFacts DEF Told
  <1>2. Keeps(b, b, l) /\ b \in Database \cup {None}
    BY DEF Told
  <1>3. CASE b = None
    <2>1. r = None
      BY <1>3 DEF Retimed
    <2> QED BY <1>1, <1>2, <1>3, <2>1 DEF Told
  <1>4. CASE b # None
    <2>1. b \in Database
      BY <1>2, <1>4
    <2>2. /\ r # None /\ r.created = IF Creates(l) THEN n ELSE b.created
          /\ b.coll = None => r.coll = None
          /\ b.coll # None => r.coll = RetimedCollection(b.coll, n, l) /\ r.coll # None
      BY <2>1, RetimedFacts, Distinct
    <2> HIDE DEF r
    <2>3. ASSUME b.coll # None
          PROVE  KeepsCollection(b.coll, r.coll, l)
      <3>1. KeepsCollection(b.coll, b.coll, l)
        BY <1>2, <1>4, <2>3 DEF Keeps
      <3>2. /\ r.coll.config = b.coll.config /\ LiveIn(r.coll) = LiveIn(b.coll)
            /\ r.coll.vectors = b.coll.vectors
            /\ ~CreatesCollection(l) => r.coll.created = b.coll.created
            /\ ~Changes(l) => r.coll.updated = b.coll.updated
        BY <2>2, <2>3 DEF RetimedCollection, LiveIn
      <3> QED BY <3>1, <3>2 DEF KeepsCollection
    <2>4. Keeps(b, r, l)
      BY <1>2, <1>4, <2>2, <2>3 DEF Keeps
    <2> QED BY <1>1, <2>4 DEF Told, r
  <1> QED BY <1>3, <1>4

LEMMA ToldParts ==
    ASSUME NEW n \in Time, NEW u, NEW l, NEW b, NEW d, Told(b, d, l, u, n), d # None
    PROVE  /\ b \in Database /\ d \in Database /\ b # None /\ d # Refused /\ b # Refused
           /\ b.coll = None <=> d.coll = None
           /\ d.coll # None => /\ d.coll \in Collection /\ SoundCollection(d.coll, u)
                               /\ b.coll \in Collection /\ SoundCollection(b.coll, u)
                               /\ KeepsCollection(b.coll, d.coll, l)
                               /\ KeepsCollection(b.coll, b.coll, l)
                               /\ LiveIn(b.coll) = LiveIn(d.coll)
  <1>1. d \in Database
    BY DEF Told, Good
  <1>2. b \in Database /\ b # None
    BY DEF Told, Keeps
  <1>3. b.coll = None <=> d.coll = None
    BY DEF Told, Keeps
  <1>4. ASSUME d.coll # None
        PROVE  /\ d.coll \in Collection /\ SoundCollection(d.coll, u)
               /\ b.coll \in Collection /\ SoundCollection(b.coll, u)
               /\ KeepsCollection(b.coll, d.coll, l)
               /\ KeepsCollection(b.coll, b.coll, l)
    <2>1. d.coll \in Collection /\ b.coll \in Collection
      BY <1>1, <1>2, <1>3, <1>4 DEF Database
    <2>2. SoundCollection(d.coll, u) /\ SoundCollection(b.coll, u)
      BY <1>2, <1>3, <1>4 DEF Told, Good
    <2>3. KeepsCollection(b.coll, d.coll, l) /\ KeepsCollection(b.coll, b.coll, l)
      BY <1>2, <1>3, <1>4 DEF Told, Keeps
    <2> QED BY <2>1, <2>2, <2>3
  <1>5. d.coll # None => LiveIn(b.coll) = LiveIn(d.coll)
    BY <1>4 DEF KeepsCollection
  <1> QED BY <1>1, <1>2, <1>3, <1>4, <1>5, Distinct

LEMMA ToldCollection ==
    ASSUME NEW n \in Time, NEW u, NEW l, NEW k, NEW b, NEW d, NEW g \in Config,
           Longer(l, k, "CREATE_COLLECTION", {}), Told(b, d, l, u, n), d # None, d.coll = None
    PROVE  /\ Told(ApplyCommand(b, CreateCollectionCommand(g), 0),
                   ApplyCommand(d, CreateCollectionCommand(g), n), k, u, n)
           /\ Outcome(b, ApplyCommand(b, CreateCollectionCommand(g), 0), l, k,
                      CreateCollectionCommand(g))
  <1>1. /\ b \in Database /\ d \in Database /\ b # None /\ b # Refused /\ d # Refused
        /\ b.coll = None
    BY ToldParts
  <1>2. CreatesCollection(k) /\ Changes(k) /\ (Creates(k) <=> Creates(l))
    BY DEF Longer, Creates, CreatesCollection, Changes
  <1> DEFINE fc == NewCollection(g, 0)
             ec == NewCollection(g, n)
             f == [b EXCEPT !.coll = fc]
             e == [d EXCEPT !.coll = ec]
  <1>3. /\ fc \in Collection /\ SoundCollection(fc, u) /\ ec \in Collection
        /\ KeepsCollection(fc, ec, k) /\ KeepsCollection(fc, fc, k)
    BY <1>2, GoodNew, KeepsNew, TimeFacts
  <1>4. Good(e, n, u)
    BY <1>1, GoodApplied DEF Told
  <1>5. ASSUME NEW t \in Time
        PROVE  /\ f \in Database
               /\ [Retimed(b, t, l) EXCEPT !.coll = NewCollection(g, t)] = Retimed(f, t, k)
               /\ ApplyCommand(Retimed(b, t, l), CreateCollectionCommand(g), t) = Retimed(f, t, k)
    <2>1. NewCollection(g, t) = RetimedCollection(fc, t, k)
      BY <1>2, RetimedNew
    <2>2. /\ f \in Database
          /\ [Retimed(b, t, l) EXCEPT !.coll = RetimedCollection(fc, t, k)] = Retimed(f, t, k)
      <3> HIDE DEF fc
      <3> QED BY <1>1, <1>2, <1>3, RetimedWith
    <2> HIDE DEF f, fc
    <2>3. Retimed(b, t, l) \notin {None, Refused} /\ Retimed(b, t, l).coll = None
      BY <1>1, RetimedFacts
    <2> QED BY <2>1, <2>2, <2>3, Applied
  <1>6. ASSUME NEW t \in n .. MaxTime
        PROVE  Good(Retimed(f, t, k), t, u)
    <2>1. t \in Time
      BY TimeFacts
    <2>2. Good(Retimed(b, t, l), t, u)
      BY DEF Told
    <2>3. Retimed(b, t, l) # Refused /\ Retimed(b, t, l) # None
      BY <1>1, <2>1, RetimedFacts
    <2>4. Good([Retimed(b, t, l) EXCEPT !.coll = NewCollection(g, t)], t, u)
      BY <2>1, <2>2, <2>3, GoodApplied
    <2> QED BY <1>5, <2>1, <2>4
  <1>7. /\ ApplyCommand(b, CreateCollectionCommand(g), 0) = f
        /\ ApplyCommand(d, CreateCollectionCommand(g), n) = e
    BY <1>1, Applied
  <1>8. Told(f, e, k, u, n)
    <2> HIDE DEF fc, ec
    <2> QED BY <1>1, <1>2, <1>3, <1>4, <1>6, ToldWith
  <1>9. Outcome(b, f, l, k, CreateCollectionCommand(g))
    <2>1. f \in Database
      BY <1>5, TimeFacts
    <2> HIDE DEF f
    <2> QED BY <1>1, <1>5, <2>1 DEF Outcome
  <1> QED BY <1>7, <1>8, <1>9

\* The record of an insertion has the same vectors as the command, without metadata.
LEMMA ToldInsert ==
    ASSUME NEW n \in Time, NEW u, NEW l, NEW k, NEW b, NEW d, NEW ws, NEW vs,
           Given(vs), Given(ws), DOMAIN vs = DOMAIN ws, DOMAIN vs \cap u = {},
           \A v \in DOMAIN vs : Copied(vs[v]) = "empty",
           Longer(l, k, "INSERT_VECTORS", DOMAIN vs), Told(b, d, l, u, n), d # None, d.coll # None
    PROVE  /\ Told(ApplyCommand(b, InsertCommand(vs), 0),
                   ApplyCommand(d, InsertCommand(ws), n), k, u \cup DOMAIN vs, n)
           /\ Outcome(b, ApplyCommand(b, InsertCommand(vs), 0), l, k, InsertCommand(vs))
  <1>1. /\ b \in Database /\ d \in Database /\ b # None /\ b # Refused /\ d # Refused
        /\ b.coll # None
        /\ d.coll \in Collection /\ SoundCollection(d.coll, u)
        /\ b.coll \in Collection /\ SoundCollection(b.coll, u)
        /\ KeepsCollection(b.coll, d.coll, l) /\ KeepsCollection(b.coll, b.coll, l)
    BY ToldParts
  <1>2. SameCreates(l, k) /\ (Creates(k) <=> Creates(l)) /\ k.vectors = l.vectors \cup DOMAIN vs
    BY LongerSame DEF SameCreates, Longer
  <1> DEFINE w == u \cup DOMAIN vs
             fc == Inserted(b.coll, vs, 0)
             ec == Inserted(d.coll, ws, n)
             f == [b EXCEPT !.coll = fc]
             e == [d EXCEPT !.coll = ec]
  <1>a. vs \in Metadata /\ ws \in Metadata /\ DOMAIN ws \cap u = {}
    BY DEF Given
  <1>3. fc \in Collection /\ ec \in Collection
    <2>1. InsertedShape(b.coll, vs, 0, fc) /\ InsertedShape(d.coll, ws, n, ec)
      BY <1>1, <1>a, InsertedFacts, TimeFacts
    <2> HIDE DEF fc, ec
    <2> QED BY <2>1 DEF InsertedShape
  <1>b. SoundCollection(fc, w)
    <2>1. PICK x : x = Inserted(b.coll, vs, 0)
      OBVIOUS
    <2>2. SoundCollection(x, w) /\ LiveIn(x) = LiveIn(b.coll) \cup DOMAIN vs
      BY <1>1, <2>1, SoundInserted, TimeFacts
    <2> QED BY <2>1, <2>2
  <1>c. KeepsCollection(fc, ec, k)
    BY <1>1, <1>2, KeepsInserted, TimeFacts
  <1>d. KeepsCollection(fc, fc, k)
    BY <1>1, <1>2, KeepsInserted, TimeFacts
  <1>4. Good(e, n, w)
    BY <1>1, <1>a, GoodApplied DEF Told
  <1>5. ASSUME NEW t \in Time
        PROVE  /\ f \in Database
               /\ Retimed(b, t, l).coll # None
               /\ [Retimed(b, t, l) EXCEPT !.coll = Inserted(Retimed(b, t, l).coll, vs, t)]
                     = Retimed(f, t, k)
               /\ ApplyCommand(Retimed(b, t, l), InsertCommand(vs), t) = Retimed(f, t, k)
    <2>1. Inserted(RetimedCollection(b.coll, t, l), vs, t) = RetimedCollection(fc, t, k)
      BY <1>1, <1>2, <1>a, RetimedInserted, TimeFacts
    <2>2. /\ f \in Database
          /\ [Retimed(b, t, l) EXCEPT !.coll = RetimedCollection(fc, t, k)] = Retimed(f, t, k)
      <3> HIDE DEF fc
      <3> QED BY <1>1, <1>2, <1>3, RetimedWith
    <2> HIDE DEF f, fc
    <2>3. /\ Retimed(b, t, l) \notin {None, Refused}
          /\ Retimed(b, t, l).coll = RetimedCollection(b.coll, t, l)
          /\ RetimedCollection(b.coll, t, l) \in Collection
      BY <1>1, RetimedFacts
    <2>4. Retimed(b, t, l).coll # None
      BY <2>3, Distinct
    <2>5. ApplyCommand(Retimed(b, t, l), InsertCommand(vs), t)
             = [Retimed(b, t, l) EXCEPT !.coll = Inserted(@, vs, t)]
      BY <2>3, <2>4, Applied
    <2> QED BY <2>1, <2>2, <2>3, <2>4, <2>5
  <1>6. ASSUME NEW t \in n .. MaxTime
        PROVE  Good(Retimed(f, t, k), t, w)
    <2>1. t \in Time
      BY TimeFacts
    <2>2. Good(Retimed(b, t, l), t, u)
      BY DEF Told
    <2>3. Retimed(b, t, l) # Refused /\ Retimed(b, t, l) # None /\ Retimed(b, t, l).coll # None
      BY <1>1, <1>5, <2>1, RetimedFacts
    <2>4. Good([Retimed(b, t, l) EXCEPT !.coll = Inserted(@, vs, t)], t, w)
      BY <2>1, <2>2, <2>3, GoodApplied
    <2> QED BY <1>5, <2>1, <2>4
  <1>7. /\ ApplyCommand(b, InsertCommand(vs), 0) = f
        /\ ApplyCommand(d, InsertCommand(ws), n) = e
    BY <1>1, Applied
  <1>8. Told(f, e, k, w, n)
    <2> HIDE DEF fc, ec, w
    <2> QED BY <1>1, <1>2, <1>3, <1>4, <1>6, <1>b, <1>c, <1>d, ToldWith
  <1>9. Outcome(b, f, l, k, InsertCommand(vs))
    <2>1. f \in Database /\ f.coll = fc
      BY <1>1, <1>5, TimeFacts DEF Database
    <2>2. f.coll # None
      BY <1>3, <2>1, Distinct
    <2> HIDE DEF f
    <2> QED BY <1>1, <1>5, <2>1, <2>2 DEF Outcome
  <1> QED BY <1>7, <1>8, <1>9

\* A deletion of something live.
LEMMA ToldDelete ==
    ASSUME NEW n \in Time, NEW u, NEW l, NEW k, NEW b, NEW d, NEW ids \in SUBSET Vec,
           Longer(l, k, "DELETE_VECTORS", {}), Told(b, d, l, u, n), d # None, d.coll # None,
           ids \cap LiveIn(d.coll) # {}
    PROVE  /\ Told(ApplyCommand(b, DeleteCommand(ids), 0),
                   ApplyCommand(d, DeleteCommand(ids), n), k, u, n)
           /\ Outcome(b, ApplyCommand(b, DeleteCommand(ids), 0), l, k, DeleteCommand(ids))
  <1>1. /\ b \in Database /\ d \in Database /\ b # None /\ b # Refused /\ d # Refused
        /\ b.coll # None
        /\ d.coll \in Collection /\ SoundCollection(d.coll, u)
        /\ b.coll \in Collection /\ SoundCollection(b.coll, u)
        /\ KeepsCollection(b.coll, d.coll, l) /\ KeepsCollection(b.coll, b.coll, l)
        /\ LiveIn(b.coll) = LiveIn(d.coll)
    BY ToldParts
  <1>2. SameCreates(l, k) /\ (Creates(k) <=> Creates(l)) /\ k.vectors = l.vectors
    BY LongerSame DEF SameCreates, Longer
  <1> DEFINE fc == Deleted(b.coll, ids, 0)
             ec == Deleted(d.coll, ids, n)
             f == [b EXCEPT !.coll = fc]
             e == [d EXCEPT !.coll = ec]
  <1>3. fc \in Collection /\ ec \in Collection
    <2>1. DeletedShape(b.coll, ids, 0, fc) /\ DeletedShape(d.coll, ids, n, ec)
      BY <1>1, DeletedFacts, TimeFacts
    <2> HIDE DEF fc, ec
    <2> QED BY <2>1 DEF DeletedShape
  <1>b. SoundCollection(fc, u)
    BY <1>1, SoundDeleted, TimeFacts
  <1>c. KeepsCollection(fc, ec, k)
    BY <1>1, <1>2, KeepsDeleted, TimeFacts
  <1>d. KeepsCollection(fc, fc, k)
    BY <1>1, <1>2, KeepsDeleted, TimeFacts
  <1>4. Good(e, n, u)
    BY <1>1, GoodApplied DEF Told
  <1>5. ASSUME NEW t \in Time
        PROVE  /\ f \in Database
               /\ Retimed(b, t, l).coll # None
               /\ [Retimed(b, t, l) EXCEPT !.coll = Deleted(Retimed(b, t, l).coll, ids, t)]
                     = Retimed(f, t, k)
               /\ ApplyCommand(Retimed(b, t, l), DeleteCommand(ids), t) = Retimed(f, t, k)
    <2>1. Deleted(RetimedCollection(b.coll, t, l), ids, t) = RetimedCollection(fc, t, k)
      BY <1>1, <1>2, RetimedDeleted, TimeFacts
    <2>2. /\ f \in Database
          /\ [Retimed(b, t, l) EXCEPT !.coll = RetimedCollection(fc, t, k)] = Retimed(f, t, k)
      <3> HIDE DEF fc
      <3> QED BY <1>1, <1>2, <1>3, RetimedWith
    <2> HIDE DEF f, fc
    <2>3. /\ Retimed(b, t, l) \notin {None, Refused}
          /\ Retimed(b, t, l).coll = RetimedCollection(b.coll, t, l)
          /\ RetimedCollection(b.coll, t, l) \in Collection
      BY <1>1, RetimedFacts
    <2>4. Retimed(b, t, l).coll # None
      BY <2>3, Distinct
    <2>5. ApplyCommand(Retimed(b, t, l), DeleteCommand(ids), t)
             = [Retimed(b, t, l) EXCEPT !.coll = Deleted(@, ids, t)]
      BY <2>3, <2>4, Applied
    <2> QED BY <2>1, <2>2, <2>3, <2>4, <2>5
  <1>6. ASSUME NEW t \in n .. MaxTime
        PROVE  Good(Retimed(f, t, k), t, u)
    <2>1. t \in Time
      BY TimeFacts
    <2>2. Good(Retimed(b, t, l), t, u)
      BY DEF Told
    <2>3. Retimed(b, t, l) # Refused /\ Retimed(b, t, l) # None /\ Retimed(b, t, l).coll # None
      BY <1>1, <1>5, <2>1, RetimedFacts
    <2>4. Good([Retimed(b, t, l) EXCEPT !.coll = Deleted(@, ids, t)], t, u)
      BY <2>1, <2>2, <2>3, GoodApplied
    <2> QED BY <1>5, <2>1, <2>4
  <1>7. /\ ApplyCommand(b, DeleteCommand(ids), 0) = f
        /\ ApplyCommand(d, DeleteCommand(ids), n) = e
    BY <1>1, Applied
  <1>8. Told(f, e, k, u, n)
    <2> HIDE DEF fc, ec
    <2> QED BY <1>1, <1>2, <1>3, <1>4, <1>6, <1>b, <1>c, <1>d, ToldWith
  <1>9. Outcome(b, f, l, k, DeleteCommand(ids))
    <2>1. f \in Database /\ f.coll = fc
      BY <1>1, <1>5, TimeFacts DEF Database
    <2>2. f.coll # None
      BY <1>3, <2>1, Distinct
    <2> HIDE DEF f
    <2> QED BY <1>1, <1>5, <2>1, <2>2 DEF Outcome
  <1> QED BY <1>7, <1>8, <1>9

-----------------------------------------------------------------------------
(* Files.                                                                  *)

\* What is saved of a good database is a good file, and what is loaded is what is kept.
LEMMA SavedFile ==
    ASSUME NEW d, NEW n \in Time, NEW u, Good(d, n, u), NEW f, f = Encode(CreateSnapshot(d), n)
    PROVE  /\ GoodFile(f, n, u) /\ f # None /\ Loaded(f) = Kept(d)
           /\ f.database # None <=> d # None
           /\ d # None => (f.database.collection # None <=> d.coll # None)
  <1>1. /\ f \in File /\ f # None /\ f.timestamp = Unix(n)
        /\ f.database # None <=> d # None
        /\ d # None => (f.database.collection # None <=> d.coll # None)
        /\ Parse(f) = CreateSnapshot(Kept(d))
        /\ Restored(CreateSnapshot(Kept(d))) = Kept(d)
        /\ Valid(CreateSnapshot(Kept(d)))
        /\ Encode(CreateSnapshot(Kept(d)), n) = f
        /\ Good(Kept(d), n, u)
    BY FileBack
  <1>2. Unix(n) \in Time /\ Unix(Unix(n)) = Unix(n)
    BY UnixFacts
  <1>3. Encode(CreateSnapshot(Kept(d)), Unix(n)) = Encode(CreateSnapshot(Kept(d)), n)
    BY <1>2 DEF Encode
  <1>4. GoodFile(f, n, u)
    BY <1>1, <1>2, <1>3 DEF GoodFile
  <1>5. Loaded(f) = Kept(d)
    BY <1>1 DEF Loaded
  <1> QED BY <1>1, <1>4, <1>5

\* A good file is the one of a database that a file keeps whole.
LEMMA FileOf ==
    ASSUME NEW f, NEW n \in Time, NEW u, GoodFile(f, n, u), f # None
    PROVE  /\ Good(Restored(Parse(f)), n, u)
           /\ Kept(Restored(Parse(f))) = Restored(Parse(f))
           /\ Parse(f) = CreateSnapshot(Restored(Parse(f)))
           /\ Valid(Parse(f))
           /\ Encode(Parse(f), f.timestamp) = f
           /\ Encode(CreateSnapshot(Restored(Parse(f))), f.timestamp) = f
           /\ Loaded(f) = Restored(Parse(f))
           /\ f.database # None <=> Restored(Parse(f)) # None
           /\ Restored(Parse(f)) # None =>
                 (f.database.collection # None <=> Restored(Parse(f)).coll # None)
  <1>1. PICK d : d = Restored(Parse(f))
    OBVIOUS
  <1>2. PICK t : t = f.timestamp
    OBVIOUS
  <1>3. t \in Time /\ Good(d, n, u) /\ f = Encode(CreateSnapshot(d), t)
    BY <1>1, <1>2 DEF GoodFile
  <1>4. /\ f.database # None <=> d # None
        /\ d # None => (f.database.collection # None <=> d.coll # None)
        /\ Parse(f) = CreateSnapshot(Kept(d))
        /\ Restored(CreateSnapshot(Kept(d))) = Kept(d)
        /\ Valid(CreateSnapshot(Kept(d)))
    BY <1>3, FileBack
  <1>5. Kept(d) = d
    BY <1>1, <1>4
  <1>6. Loaded(f) = d
    BY <1>1, <1>4, <1>5 DEF Loaded
  <1> QED BY <1>1, <1>2, <1>3, <1>4, <1>5, <1>6

LEMMA GoodFileLater ==
    ASSUME NEW f, NEW s \in Time, NEW t \in Time, NEW u, NEW w, GoodFile(f, s, u), s <= t,
           u \subseteq w
    PROVE  GoodFile(f, t, w)
  BY GoodLater DEF GoodFile

\* With an empty log the recovery is what the file keeps.
LEMMA ToldSaved ==
    ASSUME NEW d, NEW n \in Time, NEW u, Good(d, n, u)
    PROVE  /\ Told(Kept(d), d, ContentOf(<< >>), u, n)
           /\ Told(Kept(d), Kept(d), ContentOf(<< >>), u, n)
           /\ \A t \in Time : Retimed(Kept(d), t, ContentOf(<< >>)) = Kept(d)
  <1> DEFINE k == Kept(d)
             l == ContentOf(<< >>)
  <1>1. ~Creates(l) /\ ~CreatesCollection(l) /\ ~Changes(l) /\ l.vectors = {}
    BY ContentEmpty DEF Creates, CreatesCollection, Changes
  <1> HIDE DEF l
  <1>2. ASSUME NEW s \in Time, n <= s
        PROVE  Good(k, s, u)
    <2>1. Good(k, n, u)
      BY FileBack
    <2> HIDE DEF k
    <2> QED BY <1>2, <2>1, GoodLater
  <1>3. CASE d = None
    <2>1. k = None
      BY <1>3 DEF Kept
    <2>2. \A t : Retimed(None, t, l) = None
      BY DEF Retimed
    <2>3. Keeps(None, None, l) /\ \A t : Good(None, t, u)
      BY DEF Keeps, Good
    <2>4. Told(None, None, l, u, n)
      BY <2>2, <2>3 DEF Told
    <2> QED BY <1>3, <2>1, <2>2, <2>4 DEF l
  <1>4. CASE d # None
    <2> DEFINE c == d.coll
               kc == KeptCollection(d.coll)
    <2>1. /\ d \in Database /\ d.created \in Time /\ c \in Collection \cup {None}
          /\ Unix(d.created) \in Time /\ Unix(Unix(d.created)) = Unix(d.created)
      BY <1>4, UnixFacts DEF Good, Database
    <2>2. k = [created |-> Unix(d.created), coll |-> IF c = None THEN None ELSE kc]
      BY <1>4 DEF Kept
    <2>3. ASSUME c # None
          PROVE  /\ kc \in Collection /\ SoundCollection(kc, u) /\ kc # None
                 /\ KeepsCollection(kc, c, l) /\ KeepsCollection(kc, kc, l)
                 /\ \A t : RetimedCollection(kc, t, l) = kc
      <3>1. c \in Collection /\ SoundCollection(c, u)
        BY <1>4, <2>1, <2>3 DEF Good
      <3>2. kc \in Collection /\ SoundCollection(kc, u) /\ LiveIn(kc) = LiveIn(c)
        BY <3>1, KeptSound
      <3>3. /\ c.created \in Time /\ c.updated \in Time
            /\ Unix(Unix(c.created)) = Unix(c.created) /\ Unix(Unix(c.updated)) = Unix(c.updated)
        BY <3>1, UnixFacts DEF Collection
      <3>4. /\ kc.config = c.config /\ kc.created = Unix(c.created)
            /\ kc.updated = Unix(c.updated)
            /\ \A v \in LiveIn(c) : kc.vectors[v] = c.vectors[v]
        BY DEF KeptCollection
      <3> HIDE DEF kc
      <3>5. KeepsCollection(kc, c, l)
        BY <1>1, <3>2, <3>4 DEF KeepsCollection
      <3>6. KeepsCollection(kc, kc, l)
        BY <1>1, <3>2, <3>3, <3>4 DEF KeepsCollection
      <3>7. \A t : RetimedCollection(kc, t, l) = kc
        BY <1>1, <3>2 DEF RetimedCollection, Collection
      <3> QED BY <3>2, <3>5, <3>6, <3>7, Distinct
    <2> HIDE DEF kc
    <2>4. /\ k \in Database /\ k.created = Unix(d.created)
          /\ k.coll = IF c = None THEN None ELSE kc
      BY <2>1, <2>2, <2>3 DEF Database
    <2> HIDE DEF k
    <2>5. k # None /\ k # Refused
      BY <2>4, Distinct
    <2>6. Keeps(k, d, l) /\ Keeps(k, k, l)
      BY <1>4, <2>1, <2>3, <2>4, <2>5 DEF Keeps
    <2>7. \A t : Retimed(k, t, l) = k
      <3>1. k = [created |-> k.created, coll |-> k.coll]
        BY <2>4 DEF Database
      <3> QED BY <1>1, <2>3, <2>4, <2>5, <3>1 DEF Retimed
    <2>8. \A t \in n .. MaxTime : Good(k, t, u)
      BY <1>2, TimeFacts, ClockAssumption DEF Time
    <2>9. Good(k, n, u)
      BY <1>2, ClockAssumption DEF Time
    <2>10. k # None /\ k.coll # None => SoundCollection(k.coll, u)
      BY <2>3, <2>4
    <2>11. Told(k, d, l, u, n) /\ Told(k, k, l, u, n)
      BY <2>4, <2>6, <2>7, <2>8, <2>9, <2>10 DEF Told
    <2> QED BY <2>7, <2>11 DEF k, l
  <1> QED BY <1>3, <1>4

-----------------------------------------------------------------------------
(* The steps.                                                              *)

\* The log creates again what the RDB file has, by their summaries.
OverlapOf(l) ==
    \/ HasDatabase /\ Creates(l)
    \/ HasCollection /\ CreatesCollection(l)

Overlapping == OverlapOf(Content)

LEMMA OverlapFacts ==
    Overlap <=> Overlapping
  BY ContentLogged DEF Overlap, Overlapping, OverlapOf, HasDatabase, HasCollection

\* Every command makes a record, with the command and the vectors that it names.
LEMMA RecordFacts ==
    /\ CreateDatabaseCommand \in Record
    /\ \A g \in Config : CreateCollectionCommand(g) \in Record
    /\ \A ids \in SUBSET Vec : DeleteCommand(ids) \in Record
    /\ \A ws : DOMAIN ws \subseteq Vec => ToRecord(InsertCommand(ws)) \in Record
  <1>1. ASSUME NEW ws, DOMAIN ws \subseteq Vec
        PROVE  ToRecord(InsertCommand(ws)) \in Record
    <2>1. ToRecord(InsertCommand(ws)) = ToRecord(InsertCommand([v \in DOMAIN ws |-> "empty"]))
      BY CarriedInsert
    <2> QED BY <1>1, <2>1 DEF Record
  <1> QED BY <1>1 DEF Record

\* A request leaves the invariant, if its record tells the recovery of it.
LEMMA RequestStep ==
    ASSUME SInv, NEW r \in Record, NEW q, q = FromRecord(r),
           phase = "serving", log' = Append(log, r),
           UNCHANGED <<rdb, backups, phase, now>>,
           used \subseteq used', used' \subseteq Vec,
           Good(db', now, used'), db' # None,
           r.command = "CREATE_DATABASE" => db = None,
           r.command = "CREATE_COLLECTION" => db # None /\ db.coll = None,
           Base # Refused =>
               /\ Told(ApplyCommand(Base, q, 0), db', Content', used', now)
               /\ Outcome(Base, ApplyCommand(Base, q, 0), Content, Content', q)
    PROVE  SInv'
  <1> DEFINE f == ApplyCommand(Base, q, 0)
  <1>1. /\ Typed /\ MemoryGood /\ FilesGood /\ RecoveryKnown
        /\ log \in Seq(Record) /\ now \in Time /\ 0 \in Time
    BY TimeFacts DEF SInv, Typed
  <1>2. ASSUME NEW t
        PROVE  Recovered(t)' = ApplyCommand(Recovered(t), q, t)
    <2>1. Recovered(t) = Replay(Loaded(rdb), log, t)
      BY DEF Recovered
    <2>2. Recovered(t)' = Replay(Loaded(rdb'), log', t)
      BY DEF Recovered, Loaded, Valid, Parse, ParseDatabase, ParseCollection, ParseVectors, ParseGraph, Restored, RestoreCollection
    <2>3. Recovered(t)' = Replay(Loaded(rdb), Append(log, r), t)
      BY <2>2
    <2> QED BY <1>1, <2>1, <2>3, ReplayAppend
  <1>3. Base' = f
    BY <1>2 DEF Base
  <1>4. PICK l : l = Content
    OBVIOUS
  <1>5. PICK k : k = Content'
    OBVIOUS
  <1>6. k.commands = l.commands \cup {r.command}
    <2>1. k = ContentOf(Append(log, r)) /\ l = ContentOf(log)
      BY <1>4, <1>5 DEF Content
    <2> QED BY <1>1, <2>1, ContentAppend
  <1>7. HasDatabase' = HasDatabase /\ HasCollection' = HasCollection
    BY DEF HasDatabase, HasCollection
  <1>8. Typed'
    <2>1. log' \in Seq(Record)
      BY <1>1
    <2> QED BY <1>1, <2>1 DEF Typed
  <1>9. MemoryGood'
    BY DEF MemoryGood
  <1>10. FilesGood'
    <2>1. now <= now
      BY <1>1, ClockAssumption DEF Time
    <2>2. GoodFile(rdb, now, used') /\ \A s \in DOMAIN backups : GoodFile(backups[s], now, used')
      BY <1>1, <2>1, GoodFileLater DEF FilesGood
    <2> QED BY <2>2 DEF FilesGood
  <1>11. RecoveryKnown'
    <2>1. /\ \A t \in Time : Recovered(t) = Retimed(Base, t, l)
          /\ Base = Refused <=> Overlap
          /\ Base # Refused =>
                /\ Told(Base, db, l, used, now)
                /\ HasDatabase => Base # None
                /\ HasCollection => Base.coll # None
      BY <1>1, <1>4 DEF RecoveryKnown
    <2>2. Overlap <=> OverlapOf(l)
      BY <1>4, OverlapFacts DEF Overlapping
    <2>3. Overlap' <=> OverlapOf(k)
      <3>1. Overlap' <=> Overlapping'
        BY OverlapFacts, PTL
      <3> QED BY <1>5, <1>7, <3>1 DEF Overlapping, OverlapOf
    <2>4. CASE Base = Refused
      <3>1. f = Refused /\ Overlap'
        BY <1>6, <2>1, <2>2, <2>3, <2>4 DEF ApplyCommand, OverlapOf, Creates, CreatesCollection
      <3>2. ASSUME NEW t \in Time
            PROVE  Recovered(t)' = Retimed(f, t, k)
        <4>1. Recovered(t) = Refused
          BY <2>1, <2>4 DEF Retimed
        <4> QED BY <1>2, <3>1, <4>1 DEF ApplyCommand, Retimed
      <3> HIDE DEF f
      <3> QED BY <1>3, <1>5, <3>1, <3>2 DEF RecoveryKnown
    <2>5. CASE Base # Refused
      <3>1. Told(f, db', k, used', now) /\ Outcome(Base, f, l, k, q)
        BY <1>4, <1>5, <2>5
      <3>a. Told(f, Retimed(f, now, k), k, used', now)
        BY <1>1, <3>1, ToldRetimed
      <3>2. ASSUME NEW t \in Time
            PROVE  Recovered(t)' = Retimed(f, t, k)
        BY <1>2, <2>1, <3>1 DEF Outcome
      <3>3. f \in Database /\ f # Refused /\ f # None
        BY <3>1, Distinct DEF Outcome
      <3>4. HasCollection => Base.coll # None /\ Base # None
        BY <2>1, <2>5 DEF HasCollection
      <3>5. HasCollection => f.coll # None
        BY <3>1, <3>4 DEF Outcome
      <3>6. ~Overlap'
        <4>1. Base = None <=> db = None
          BY <2>1, <2>5 DEF Told, Keeps
        <4>2. db # None => (Base.coll = None <=> db.coll = None)
          BY <2>1, <2>5 DEF Told, Keeps
        <4>3. ~OverlapOf(l)
          BY <2>1, <2>2, <2>5
        <4>4. ~(HasDatabase /\ Creates(k))
          BY <1>6, <2>1, <2>5, <4>1, <4>3 DEF OverlapOf, Creates
        <4>5. ~(HasCollection /\ CreatesCollection(k))
          BY <1>6, <2>1, <2>5, <4>1, <4>2, <4>3 DEF OverlapOf, CreatesCollection
        <4> QED BY <2>3, <4>4, <4>5 DEF OverlapOf
      <3> HIDE DEF f
      <3>7. /\ \A t \in Time : Recovered(t)' = Retimed(Base', t, Content')
            /\ Base' # Refused /\ ~Overlap'
            /\ Told(Base', Retimed(Base', now', Content'), Content', used', now')
            /\ Told(Base', db', Content', used', now')
            /\ Base' # None /\ (HasCollection' => Base'.coll # None)
        BY <1>3, <1>5, <1>7, <3>1, <3>2, <3>3, <3>5, <3>6, <3>a
      <3> QED BY <3>7 DEF RecoveryKnown
    <2> QED BY <2>4, <2>5
  <1> QED BY <1>8, <1>9, <1>10, <1>11 DEF SInv

\* What a request finds.
LEMMA RequestStart ==
    ASSUME SInv, NEW m, NEW r \in Record, r = ToRecord(m), Request(m)
    PROVE  /\ phase = "serving" /\ log' = Append(log, r) /\ db' = ApplyCommand(db, m, now)
           /\ db' # Refused /\ db # Refused
           /\ UNCHANGED <<rdb, backups, phase, now>>
           /\ now \in Time /\ used \subseteq Vec /\ Good(db, now, used)
           /\ Base # Refused => Told(Base, db, Content, used, now)
           /\ Content'.commands = Content.commands \cup {r.command}
           /\ Content'.vectors = Content.vectors \cup
                 IF r.command = "INSERT_VECTORS" THEN DOMAIN FromRecord(r).vectors ELSE {}
  <1>1. /\ phase = "serving" /\ log' = Append(log, r) /\ db' = ApplyCommand(db, m, now)
        /\ db' # Refused /\ UNCHANGED <<rdb, backups, phase, now>>
    BY DEF Request
  <1>2. /\ now \in Time /\ used \subseteq Vec /\ Good(db, now, used) /\ log \in Seq(Record)
        /\ Base # Refused => Told(Base, db, Content, used, now)
    BY <1>1 DEF SInv, Typed, MemoryGood, RecoveryKnown
  <1>3. db # Refused
    BY <1>2, Distinct DEF Good
  <1>4. PICK k : k = Content'
    OBVIOUS
  <1>5. PICK l : l = Content
    OBVIOUS
  <1>6. k = ContentOf(Append(log, r)) /\ l = ContentOf(log)
    BY <1>1, <1>4, <1>5 DEF Content
  <1>7. /\ k.commands = l.commands \cup {r.command}
        /\ k.vectors = l.vectors \cup
              IF r.command = "INSERT_VECTORS" THEN DOMAIN FromRecord(r).vectors ELSE {}
    BY <1>2, <1>6, ContentAppend
  <1> QED BY <1>1, <1>2, <1>3, <1>4, <1>5, <1>7

LEMMA CreateDatabaseStep ==
    ASSUME SInv, CreateDatabase
    PROVE  SInv'
  <1> DEFINE q == CreateDatabaseCommand
             f == ApplyCommand(Base, q, 0)
  <1>1. PICK r \in Record : r = CreateDatabaseCommand
    BY RecordFacts
  <1>2. r = ToRecord(q) /\ q = FromRecord(r) /\ r.command = "CREATE_DATABASE"
    BY <1>1, Carried DEF CreateDatabaseCommand
  <1>3. Request(q) /\ used' = used
    BY DEF CreateDatabase
  <1>4. PICK k : k = Content'
    OBVIOUS
  <1>5. PICK l : l = Content
    OBVIOUS
  <1>6. /\ phase = "serving" /\ log' = Append(log, r) /\ db' = ApplyCommand(db, q, now)
        /\ db' # Refused /\ db # Refused
        /\ UNCHANGED <<rdb, backups, phase, now>>
        /\ now \in Time /\ used \subseteq Vec /\ Good(db, now, used)
        /\ Base # Refused => Told(Base, db, l, used, now)
        /\ k.commands = l.commands \cup {r.command}
        /\ k.vectors = l.vectors \cup
              IF r.command = "INSERT_VECTORS" THEN DOMAIN FromRecord(r).vectors ELSE {}
    <2> HIDE DEF q
    <2> QED BY <1>2, <1>3, <1>4, <1>5, RequestStart
  <1>7. db = None /\ db' = [created |-> now, coll |-> None]
    BY <1>6, Applied
  <1>8. Good(db', now, used) /\ db' # None
    <2>1. [created |-> now, coll |-> None] \in Database
      BY <1>6 DEF Database
    <2> QED BY <1>6, <1>7, <2>1, GoodApplied, Distinct
  <1>9. Longer(l, k, "CREATE_DATABASE", {})
    BY <1>2, <1>6 DEF Longer
  <1>10. ASSUME Base # Refused
         PROVE  /\ Told(f, db', k, used, now)
                /\ Outcome(Base, f, l, k, q)
    <2>1. Told(f, db', k, used, now) /\ Outcome(Base, f, l, k, q)
      BY <1>6, <1>7, <1>9, <1>10, ToldDatabase
    <2> QED BY <2>1
  <1> HIDE DEF f
  <1> QED BY <1>2, <1>3, <1>4, <1>5, <1>6, <1>7, <1>8, <1>10, RequestStep DEF f

LEMMA CreateCollectionStep ==
    ASSUME SInv, NEW g \in Config, CreateCollection(g)
    PROVE  SInv'
  <1> DEFINE q == CreateCollectionCommand(g)
             f == ApplyCommand(Base, q, 0)
  <1>1. PICK r \in Record : r = CreateCollectionCommand(g)
    BY RecordFacts
  <1>2. r = ToRecord(q) /\ q = FromRecord(r) /\ r.command = "CREATE_COLLECTION"
    BY <1>1, Carried DEF CreateCollectionCommand
  <1>3. Request(q) /\ used' = used
    BY DEF CreateCollection
  <1>4. PICK k : k = Content'
    OBVIOUS
  <1>5. PICK l : l = Content
    OBVIOUS
  <1>6. /\ phase = "serving" /\ log' = Append(log, r) /\ db' = ApplyCommand(db, q, now)
        /\ db' # Refused /\ db # Refused
        /\ UNCHANGED <<rdb, backups, phase, now>>
        /\ now \in Time /\ used \subseteq Vec /\ Good(db, now, used)
        /\ Base # Refused => Told(Base, db, l, used, now)
        /\ k.commands = l.commands \cup {r.command}
        /\ k.vectors = l.vectors \cup
              IF r.command = "INSERT_VECTORS" THEN DOMAIN FromRecord(r).vectors ELSE {}
    <2> HIDE DEF q
    <2> QED BY <1>2, <1>3, <1>4, <1>5, RequestStart
  <1>7. db # None /\ db.coll = None /\ db' = [db EXCEPT !.coll = NewCollection(g, now)]
    <2>1. ApplyCommand(db, q, now)
             = IF db \notin {None, Refused} /\ db.coll = None
               THEN [db EXCEPT !.coll = NewCollection(g, now)] ELSE Refused
      BY Applied
    <2> HIDE DEF q
    <2> QED BY <1>6, <2>1
  <1>8. Good(db', now, used) /\ db' # None
    <2>1. Good([db EXCEPT !.coll = NewCollection(g, now)], now, used)
      BY <1>6, <1>7, GoodApplied
    <2>2. NewCollection(g, now) \in Collection /\ db \in Database
      BY <1>6, <1>7, GoodNew DEF Good
    <2>3. db' \in Database
      <3> DEFINE c == NewCollection(g, now)
      <3> HIDE DEF c
      <3>1. c \in Collection /\ db' = [db EXCEPT !.coll = c]
        BY <1>7, <2>2 DEF c
      <3> QED BY <2>2, <3>1 DEF Database
    <2> QED BY <1>7, <2>1, <2>3, Distinct
  <1>9. Longer(l, k, "CREATE_COLLECTION", {})
    BY <1>2, <1>6 DEF Longer
  <1>10. ASSUME Base # Refused
         PROVE  /\ Told(f, db', k, used, now)
                /\ Outcome(Base, f, l, k, q)
    <2>1. Told(f, db', k, used, now) /\ Outcome(Base, f, l, k, q)
      <3>1. Told(f, ApplyCommand(db, q, now), k, used, now) /\ Outcome(Base, f, l, k, q)
        BY <1>6, <1>7, <1>9, <1>10, ToldCollection
      <3> HIDE DEF f, q
      <3> QED BY <1>6, <3>1
    <2> QED BY <2>1
  <1> HIDE DEF f
  <1> QED BY <1>2, <1>3, <1>4, <1>5, <1>6, <1>7, <1>8, <1>10, RequestStep DEF f

LEMMA InsertVectorsStep ==
    ASSUME SInv, NEW xs \in SUBSET Vec, InsertVectors(xs)
    PROVE  SInv'
  <1> DEFINE ws == [v \in xs |-> Sent(v)]
             vs == [v \in xs |-> "nil"]
             q == InsertCommand(vs)
             f == ApplyCommand(Base, q, 0)
  <1>0. DOMAIN ws = xs /\ DOMAIN vs = xs /\ xs \cap used = {}
    BY DEF InsertVectors
  <1>g. Given(ws) /\ Given(vs)
    <2>1. ws \in Metadata /\ vs \in Metadata
      BY DEF Metadata, Meta, Sent
    <2> QED BY <1>0, <2>1 DEF Given
  <1>c. \A v \in DOMAIN vs : Copied(vs[v]) = "empty"
    BY DEF Copied
  <1>3. Request(InsertCommand(ws)) /\ used' = used \cup xs
    BY DEF InsertVectors
  <1> HIDE DEF ws
  <1>1. PICK r \in Record : r = ToRecord(InsertCommand(ws))
    BY <1>0, RecordFacts
  <1>2. q = FromRecord(r) /\ r.command = "INSERT_VECTORS" /\ q.vectors = vs
    <2>1. r.command = "INSERT_VECTORS" /\ FromRecord(r) = InsertCommand([v \in DOMAIN ws |-> "nil"])
      BY <1>1, CarriedInsert
    <2>2. [v \in DOMAIN ws |-> "nil"] = vs
      BY <1>0
    <2> HIDE DEF vs
    <2> QED BY <2>1, <2>2 DEF InsertCommand
  <1> HIDE DEF vs, q
  <1>4. PICK k : k = Content'
    OBVIOUS
  <1>5. PICK l : l = Content
    OBVIOUS
  <1>6. /\ phase = "serving" /\ log' = Append(log, r) /\ db' = ApplyCommand(db, InsertCommand(ws), now)
        /\ db' # Refused /\ db # Refused
        /\ UNCHANGED <<rdb, backups, phase, now>>
        /\ now \in Time /\ used \subseteq Vec /\ Good(db, now, used)
        /\ Base # Refused => Told(Base, db, l, used, now)
        /\ k.commands = l.commands \cup {r.command}
        /\ k.vectors = l.vectors \cup
              IF r.command = "INSERT_VECTORS" THEN DOMAIN FromRecord(r).vectors ELSE {}
    BY <1>1, <1>3, <1>4, <1>5, RequestStart
  <1>7. /\ db # None /\ db.coll # None
        /\ db' = [db EXCEPT !.coll = Inserted(@, ws, now)]
    <2>1. ApplyCommand(db, InsertCommand(ws), now)
             = IF db \notin {None, Refused} /\ db.coll # None
               THEN [db EXCEPT !.coll = Inserted(@, ws, now)] ELSE Refused
      BY Applied
    <2> QED BY <1>6, <2>1
  <1>8. Good(db', now, used \cup xs) /\ db' # None
    <2>1. Good([db EXCEPT !.coll = Inserted(@, ws, now)], now, used \cup DOMAIN ws)
      BY <1>0, <1>6, <1>7, <1>g, GoodApplied
    <2>2. db \in Database /\ db.coll \in Collection
      BY <1>6, <1>7 DEF Good, Database
    <2>3. Inserted(db.coll, ws, now) \in Collection
      <3>1. InsertedShape(db.coll, ws, now, Inserted(db.coll, ws, now))
        BY <1>6, <1>g, <2>2, InsertedFacts DEF Given
      <3> QED BY <3>1 DEF InsertedShape
    <2>4. db' \in Database
      <3> DEFINE c == Inserted(db.coll, ws, now)
      <3> HIDE DEF c
      <3>1. c \in Collection /\ db' = [db EXCEPT !.coll = c]
        BY <1>7, <2>3 DEF c
      <3> QED BY <2>2, <3>1 DEF Database
    <2> QED BY <1>0, <1>7, <2>1, <2>4, Distinct
  <1>9. Longer(l, k, "INSERT_VECTORS", xs)
    BY <1>0, <1>2, <1>6 DEF Longer
  <1>10. ASSUME Base # Refused
         PROVE  /\ Told(f, db', k, used \cup xs, now)
                /\ Outcome(Base, f, l, k, q)
    <2>1. Told(f, db', k, used \cup xs, now) /\ Outcome(Base, f, l, k, q)
      <3>1. /\ Told(f, ApplyCommand(db, InsertCommand(ws), now), k, used \cup DOMAIN vs, now)
            /\ Outcome(Base, f, l, k, q)
        BY <1>0, <1>6, <1>7, <1>9, <1>10, <1>c, <1>g, ToldInsert DEF q
      <3> QED BY <1>0, <1>6, <3>1
    <2> QED BY <2>1
  <1> HIDE DEF f
  <1> QED BY <1>2, <1>3, <1>4, <1>5, <1>6, <1>7, <1>8, <1>10, RequestStep DEF f

LEMMA DeleteVectorsStep ==
    ASSUME SInv, NEW ids \in SUBSET Vec, DeleteVectors(ids)
    PROVE  SInv'
  <1> DEFINE q == DeleteCommand(ids)
             f == ApplyCommand(Base, q, 0)
  <1>1. PICK r \in Record : r = DeleteCommand(ids)
    BY RecordFacts
  <1>2. r = ToRecord(q) /\ q = FromRecord(r) /\ r.command = "DELETE_VECTORS"
    BY <1>1, Carried DEF DeleteCommand
  <1>3. Request(q) /\ used' = used
    BY DEF DeleteVectors
  <1>4. PICK k : k = Content'
    OBVIOUS
  <1>5. PICK l : l = Content
    OBVIOUS
  <1>6. /\ phase = "serving" /\ log' = Append(log, r) /\ db' = ApplyCommand(db, q, now)
        /\ db' # Refused /\ db # Refused
        /\ UNCHANGED <<rdb, backups, phase, now>>
        /\ now \in Time /\ used \subseteq Vec /\ Good(db, now, used)
        /\ Base # Refused => Told(Base, db, l, used, now)
        /\ k.commands = l.commands \cup {r.command}
        /\ k.vectors = l.vectors \cup
              IF r.command = "INSERT_VECTORS" THEN DOMAIN FromRecord(r).vectors ELSE {}
    <2> HIDE DEF q
    <2> QED BY <1>2, <1>3, <1>4, <1>5, RequestStart
  <1>7. /\ db # None /\ db.coll # None /\ ids \cap LiveIn(db.coll) # {}
        /\ db' = [db EXCEPT !.coll = Deleted(@, ids, now)]
    BY <1>6, Applied DEF DeleteVectors
  <1>8. Good(db', now, used) /\ db' # None
    <2>1. Good([db EXCEPT !.coll = Deleted(@, ids, now)], now, used)
      BY <1>6, <1>7, GoodApplied
    <2>2. db \in Database /\ db.coll \in Collection
      BY <1>6, <1>7 DEF Good, Database
    <2>3. Deleted(db.coll, ids, now) \in Collection
      <3>1. DeletedShape(db.coll, ids, now, Deleted(db.coll, ids, now))
        BY <1>6, <2>2, DeletedFacts
      <3> QED BY <3>1 DEF DeletedShape
    <2>4. db' \in Database
      <3> DEFINE c == Deleted(db.coll, ids, now)
      <3> HIDE DEF c
      <3>1. c \in Collection /\ db' = [db EXCEPT !.coll = c]
        BY <1>7, <2>3 DEF c
      <3> QED BY <2>2, <3>1 DEF Database
    <2> QED BY <1>7, <2>1, <2>4, Distinct
  <1>9. Longer(l, k, "DELETE_VECTORS", {})
    BY <1>2, <1>6 DEF Longer
  <1>10. ASSUME Base # Refused
         PROVE  /\ Told(f, db', k, used, now)
                /\ Outcome(Base, f, l, k, q)
    <2>1. Told(f, db', k, used, now) /\ Outcome(Base, f, l, k, q)
      <3>1. Told(f, ApplyCommand(db, q, now), k, used, now) /\ Outcome(Base, f, l, k, q)
        BY <1>6, <1>7, <1>9, <1>10, ToldDelete
      <3> HIDE DEF f, q
      <3> QED BY <1>6, <3>1
    <2> QED BY <2>1
  <1> HIDE DEF f
  <1> QED BY <1>2, <1>3, <1>4, <1>5, <1>6, <1>7, <1>8, <1>10, RequestStep DEF f

\* A step that leaves the files alone leaves the recovery alone.
LEMMA SameRecovery ==
    ASSUME UNCHANGED <<log, rdb>>
    PROVE  /\ \A t : Recovered(t)' = Recovered(t)
           /\ Base' = Base /\ Content' = Content /\ (Overlap' <=> Overlap)
           /\ (HasDatabase' <=> HasDatabase) /\ (HasCollection' <=> HasCollection)
  <1>1. ASSUME NEW t PROVE Recovered(t)' = Recovered(t)
    BY DEF Recovered, Loaded, Valid, Parse, ParseDatabase, ParseCollection, ParseVectors,
           ParseGraph, Restored, RestoreCollection
  <1>2. Base' = Base
    BY <1>1 DEF Base
  <1>3. Content' = Content
    BY DEF Content
  <1>4. (HasDatabase' <=> HasDatabase) /\ (HasCollection' <=> HasCollection)
    BY DEF HasDatabase, HasCollection
  <1>5. Overlap' <=> Overlap
    <2>1. (Overlap <=> Overlapping) /\ (Overlap' <=> Overlapping')
      BY OverlapFacts, PTL
    <2>2. Overlapping' <=> Overlapping
      BY <1>3, <1>4 DEF Overlapping, OverlapOf
    <2> QED BY <2>1, <2>2
  <1> QED BY <1>1, <1>2, <1>3, <1>4, <1>5

LEMMA ToldLater ==
    ASSUME NEW s \in Time, NEW t \in Time, s <= t, NEW u, NEW l, NEW b, NEW d, Told(b, d, l, u, s)
    PROVE  Told(b, d, l, u, t)
  <1>1. t .. MaxTime \subseteq s .. MaxTime
    BY ClockAssumption DEF Time
  <1>2. Good(d, t, u)
    BY GoodLater DEF Told
  <1> QED BY <1>1, <1>2 DEF Told

LEMMA TickStep ==
    ASSUME SInv, Tick
    PROVE  SInv'
  <1>1. /\ now \in Time /\ now' = now + 1 /\ now' \in Time /\ now <= now'
        /\ UNCHANGED <<db, log, rdb, backups, phase, used>>
    BY ClockAssumption DEF Tick, SInv, Typed, Time
  <1>2. /\ \A t : Recovered(t)' = Recovered(t)
        /\ Base' = Base /\ Content' = Content /\ (Overlap' <=> Overlap)
        /\ (HasDatabase' <=> HasDatabase) /\ (HasCollection' <=> HasCollection)
    BY <1>1, SameRecovery
  <1>3. Typed'
    BY <1>1 DEF SInv, Typed
  <1>4. MemoryGood'
    <2>1. Good(db, now', used)
      BY <1>1, GoodLater DEF SInv, MemoryGood
    <2> QED BY <1>1, <1>2, <2>1 DEF SInv, MemoryGood
  <1>5. FilesGood'
    <2>1. GoodFile(rdb, now', used) /\ \A s \in DOMAIN backups : GoodFile(backups[s], now', used)
      BY <1>1, GoodFileLater DEF SInv, FilesGood
    <2> QED BY <1>1, <2>1 DEF FilesGood
  <1>6. RecoveryKnown'
    <2>1. PICK l : l = Content
      OBVIOUS
    <2>2. PICK b : b = Base
      OBVIOUS
    <2>3. /\ \A t \in Time : Recovered(t) = Retimed(b, t, l)
          /\ b = Refused <=> Overlap
          /\ b # Refused => /\ Told(b, Retimed(b, now, l), l, used, now)
                            /\ phase = "serving" => Told(b, db, l, used, now)
                            /\ HasDatabase => b # None
                            /\ HasCollection => b.coll # None
      BY <2>1, <2>2 DEF SInv, RecoveryKnown
    <2>4. b # Refused => /\ Told(b, Retimed(b, now', l), l, used, now')
                         /\ phase = "serving" => Told(b, db, l, used, now')
      <3>1. b # Refused => Told(b, Retimed(b, now, l), l, used, now')
        BY <1>1, <2>3, ToldLater
      <3> QED BY <1>1, <2>3, <3>1, ToldLater, ToldRetimed
    <2> QED BY <1>1, <1>2, <2>1, <2>2, <2>3, <2>4 DEF RecoveryKnown
  <1> QED BY <1>3, <1>4, <1>5, <1>6 DEF SInv

LEMMA CrashStep ==
    ASSUME SInv, Crash
    PROVE  SInv'
  <1>1. /\ phase' = "down" /\ db' = None /\ UNCHANGED <<log, rdb, backups, now, used>>
    BY DEF Crash
  <1>2. /\ \A t : Recovered(t)' = Recovered(t)
        /\ Base' = Base /\ Content' = Content /\ (Overlap' <=> Overlap)
        /\ (HasDatabase' <=> HasDatabase) /\ (HasCollection' <=> HasCollection)
    BY <1>1, SameRecovery
  <1>3. Typed'
    BY <1>1 DEF SInv, Typed
  <1>4. MemoryGood'
    BY <1>1 DEF MemoryGood, Good
  <1>5. FilesGood'
    BY <1>1 DEF SInv, FilesGood
  <1>6. RecoveryKnown'
    BY <1>1, <1>2 DEF SInv, RecoveryKnown
  <1> QED BY <1>3, <1>4, <1>5, <1>6 DEF SInv

LEMMA RecoverStep ==
    ASSUME SInv, Recover
    PROVE  SInv'
  <1>1. UNCHANGED <<log, rdb, backups, now, used>> /\ phase = "down" /\ db = None
    BY DEF Recover, SInv, MemoryGood
  <1>2. /\ \A t : Recovered(t)' = Recovered(t)
        /\ Base' = Base /\ Content' = Content /\ (Overlap' <=> Overlap)
        /\ (HasDatabase' <=> HasDatabase) /\ (HasCollection' <=> HasCollection)
    BY <1>1, SameRecovery
  <1>3. Typed'
    BY <1>1 DEF SInv, Typed, Recover
  <1>4. FilesGood'
    BY <1>1 DEF SInv, FilesGood
  <1>5. PICK r : r = Retimed(Base, now, Content)
    OBVIOUS
  <1>6. Recovered(now) = r
    BY <1>5 DEF SInv, Typed, RecoveryKnown
  <1>7. CASE Recovered(now) = Refused
    <2>1. phase' = "refused" /\ db' = None
      BY <1>1, <1>7 DEF Recover
    <2>2. MemoryGood'
      BY <2>1 DEF MemoryGood, Good
    <2>3. RecoveryKnown'
      BY <1>1, <1>2, <2>1 DEF SInv, RecoveryKnown
    <2> QED BY <1>3, <1>4, <2>2, <2>3 DEF SInv
  <1>8. CASE Recovered(now) # Refused
    <2>1. phase' = "serving" /\ db' = r
      BY <1>6, <1>8 DEF Recover
    <2>2. Base # Refused
      BY <1>5, <1>6, <1>8 DEF Retimed
    <2>3. Told(Base, r, Content, used, now)
      BY <1>5, <2>2 DEF SInv, RecoveryKnown
    <2>4. Good(r, now, used)
      BY <2>3 DEF Told
    <2>5. HasDatabase => r # None
      BY <2>2, <2>3 DEF Told, Keeps, SInv, RecoveryKnown
    <2>6. MemoryGood'
      BY <1>1, <1>2, <2>1, <2>4, <2>5 DEF MemoryGood
    <2>7. RecoveryKnown'
      BY <1>1, <1>2, <2>1, <2>3 DEF SInv, RecoveryKnown
    <2> QED BY <1>3, <1>4, <2>6, <2>7 DEF SInv
  <1> QED BY <1>7, <1>8

LEMMA CreateBackupStep ==
    ASSUME SInv, CreateBackup
    PROVE  SInv'
  <1>1. /\ UNCHANGED <<db, log, rdb, phase, now, used>> /\ rdb # None
        /\ backups' = [backups EXCEPT ![Second(now)] = Encode(Parse(rdb), now)]
    BY DEF CreateBackup
  <1>2. /\ \A t : Recovered(t)' = Recovered(t)
        /\ Base' = Base /\ Content' = Content /\ (Overlap' <=> Overlap)
        /\ (HasDatabase' <=> HasDatabase) /\ (HasCollection' <=> HasCollection)
    BY <1>1, SameRecovery
  <1>3. Typed'
    BY <1>1 DEF SInv, Typed
  <1>4. MemoryGood'
    BY <1>1, <1>2 DEF SInv, MemoryGood
  <1>5. RecoveryKnown'
    BY <1>1, <1>2 DEF SInv, RecoveryKnown
  <1>6. FilesGood'
    <2>1. now \in Time /\ GoodFile(rdb, now, used)
      BY DEF SInv, Typed, FilesGood
    <2>2. PICK d : d = Restored(Parse(rdb))
      OBVIOUS
    <2>3. PICK f : f = Encode(Parse(rdb), now)
      OBVIOUS
    <2>4. Good(d, now, used) /\ f = Encode(CreateSnapshot(d), now)
      <3>1. Good(d, now, used) /\ Parse(rdb) = CreateSnapshot(d)
        BY <1>1, <2>1, <2>2, FileOf
      <3> QED BY <2>3, <3>1
    <2>5. GoodFile(f, now, used)
      BY <2>1, <2>4, SavedFile
    <2>6. PICK b : b = backups'
      OBVIOUS
    <2>7. PICK x : x = Second(now)
      OBVIOUS
    <2>8. b = [backups EXCEPT ![x] = f]
      BY <1>1, <2>3, <2>6, <2>7
    <2>9. ASSUME NEW s \in DOMAIN b
          PROVE  GoodFile(b[s], now, used)
      <3>1. s \in DOMAIN backups /\ (b[s] = f \/ b[s] = backups[s])
        BY <2>8, <2>9
      <3> QED BY <2>5, <3>1 DEF SInv, FilesGood
    <2> QED BY <1>1, <2>1, <2>6, <2>9 DEF FilesGood
  <1> QED BY <1>3, <1>4, <1>5, <1>6 DEF SInv

\* A step that replaces the RDB file by a save and leaves an empty log.
LEMMA SavedStep ==
    ASSUME NEW n \in Time, NEW u, NEW d, Good(d, n, u), now' = n, used' = u,
           rdb' = Encode(CreateSnapshot(d), n), log' = << >>,
           phase' = "serving" => db' = d
    PROVE  /\ RecoveryKnown' /\ GoodFile(rdb', n, u)
           /\ HasDatabase' <=> d # None
  <1> DEFINE k == Kept(d)
             l == ContentOf(<< >>)
  <1>1. PICK f : f = rdb'
    OBVIOUS
  <1>2. /\ GoodFile(f, n, u) /\ f # None /\ Loaded(f) = k
        /\ f.database # None <=> d # None
        /\ d # None => (f.database.collection # None <=> d.coll # None)
    BY <1>1, SavedFile
  <1>3. /\ HasDatabase' <=> d # None
        /\ d # None => (HasCollection' <=> d.coll # None)
    BY <1>1, <1>2 DEF HasDatabase, HasCollection
  <1>4. ASSUME NEW t PROVE Recovered(t)' = k
    <2>1. Recovered(t)' = Replay(Loaded(f), << >>, t)
      BY <1>1 DEF Recovered, Loaded, Valid, Parse, ParseDatabase, ParseCollection, ParseVectors,
                  ParseGraph, Restored, RestoreCollection
    <2> HIDE DEF k
    <2> QED BY <1>2, <2>1, ReplayEmpty
  <1>5. Base' = k
    BY <1>4 DEF Base
  <1>6. Content' = l
    BY DEF Content
  <1>7. /\ Told(k, d, l, u, n) /\ Told(k, k, l, u, n)
        /\ \A t \in Time : Retimed(k, t, l) = k
    BY ToldSaved
  <1>8. ~Overlap'
    <2>1. Overlap' <=> Overlapping'
      BY OverlapFacts, PTL
    <2>2. Overlapping' <=> OverlapOf(l)'
      BY <1>6 DEF Overlapping, OverlapOf
    <2>3. ~Creates(l) /\ ~CreatesCollection(l)
      BY ContentEmpty DEF Creates, CreatesCollection
    <2> QED BY <2>1, <2>2, <2>3 DEF OverlapOf
  <1> HIDE DEF k, l
  <1>9. k # Refused /\ (d = None <=> k = None) /\ (d # None => (k.coll = None <=> d.coll = None))
    BY <1>7, Distinct DEF Told, Keeps
  <1>10. HasCollection' => HasDatabase'
    BY DEF HasCollection, HasDatabase
  <1>11. RecoveryKnown'
    BY <1>3, <1>4, <1>5, <1>6, <1>7, <1>8, <1>9, <1>10 DEF RecoveryKnown
  <1> QED BY <1>1, <1>2, <1>3, <1>11

LEMMA SaveStep ==
    ASSUME SInv, Save
    PROVE  SInv'
  <1>1. /\ phase = "serving" /\ rdb' = Encode(CreateSnapshot(db), now) /\ log' = << >>
        /\ UNCHANGED <<db, backups, phase, now, used>>
    BY DEF Save
  <1>2. now \in Time /\ Good(db, now, used)
    BY DEF SInv, Typed, MemoryGood
  <1>3. /\ RecoveryKnown' /\ GoodFile(rdb', now, used)
        /\ HasDatabase' <=> db # None
    BY <1>1, <1>2, SavedStep
  <1>4. Typed' /\ MemoryGood' /\ FilesGood'
    BY <1>1, <1>2, <1>3 DEF SInv, Typed, MemoryGood, FilesGood
  <1> QED BY <1>3, <1>4 DEF SInv

LEMMA RestoreFromBackupStep ==
    ASSUME SInv, NEW s \in DOMAIN backups, RestoreFromBackup(s)
    PROVE  SInv'
  <1>1. /\ phase = "down" /\ log = << >> /\ backups[s] # None
        /\ rdb' = Encode(Parse(backups[s]), now)
        /\ UNCHANGED <<db, log, backups, phase, now, used>>
    BY DEF RestoreFromBackup
  <1>2. now \in Time /\ GoodFile(backups[s], now, used)
    BY DEF SInv, Typed, FilesGood
  <1>3. PICK d : d = Restored(Parse(backups[s]))
    OBVIOUS
  <1>4. Good(d, now, used) /\ Parse(backups[s]) = CreateSnapshot(d)
    BY <1>1, <1>2, <1>3, FileOf
  <1>5. RecoveryKnown' /\ GoodFile(rdb', now, used)
    BY <1>1, <1>2, <1>4, SavedStep
  <1>6. Typed' /\ MemoryGood' /\ FilesGood'
    BY <1>1, <1>2, <1>5 DEF SInv, Typed, MemoryGood, FilesGood, Good
  <1> QED BY <1>5, <1>6 DEF SInv

-----------------------------------------------------------------------------
(* The rewritten log.                                                      *)

Recorded(s) == [k \in DOMAIN s |-> ToRecord(s[k])]
Rewritten(d) == Recorded(OptimizedCommands(d))
LiveMetadata(c) == [v \in LiveIn(c) |-> Copied(c.vectors[v])]

\* Tuples, and sequences by appending and concatenation.
LEMMA TupleTypes ==
    ASSUME NEW S, NEW x \in S, NEW y \in S, NEW z \in S
    PROVE  /\ <<x>> \in Seq(S) /\ <<x, y>> \in Seq(S) /\ <<x, y, z>> \in Seq(S)
           /\ Len(<<x>>) = 1 /\ Len(<<x, y>>) = 2 /\ Len(<<x, y, z>>) = 3
  OBVIOUS

LEMMA TupleElements ==
    ASSUME NEW S, NEW x \in S, NEW y \in S, NEW z \in S, NEW s \in Seq(S)
    PROVE  /\ Len(s) = 2 /\ s[1] = x /\ s[2] = y => s = <<x, y>>
           /\ Len(s) = 3 /\ s[1] = x /\ s[2] = y /\ s[3] = z => s = <<x, y, z>>
  <1>1. ASSUME Len(s) = 2, s[1] = x, s[2] = y
        PROVE  s = <<x, y>>
    <2>1. PICK t : t = <<x, y>>
      OBVIOUS
    <2>2. t \in Seq(S) /\ Len(t) = 2 /\ t[1] = x /\ t[2] = y
      BY <2>1
    <2>3. \A i \in 1 .. Len(s) : s[i] = t[i]
      BY <1>1, <2>2
    <2>4. s = t
      BY <1>1, <2>2, <2>3, SeqEqual
    <2> QED BY <2>1, <2>4
  <1>2. ASSUME Len(s) = 3, s[1] = x, s[2] = y, s[3] = z
        PROVE  s = <<x, y, z>>
    <2>1. PICK t : t = <<x, y, z>>
      OBVIOUS
    <2>2. t \in Seq(S) /\ Len(t) = 3 /\ t[1] = x /\ t[2] = y /\ t[3] = z
      BY <2>1
    <2>3. \A i \in 1 .. Len(s) : s[i] = t[i]
      BY <1>2, <2>2
    <2>4. s = t
      BY <1>2, <2>2, <2>3, SeqEqual
    <2> QED BY <2>1, <2>4
  <1> QED BY <1>1, <1>2

LEMMA Tuples ==
    ASSUME NEW x, NEW y
    PROVE  /\ Append(<< >>, x) = <<x>> /\ Append(<<x>>, y) = <<x, y>>
           /\ <<x>> \o << >> = <<x>> /\ <<x>> \o <<y>> = <<x, y>>
  <1>1. PICK S : x \in S /\ y \in S
    <2> WITNESS {x, y}
    <2> QED OBVIOUS
  <1>2. /\ << >> \in Seq(S) /\ <<x>> \in Seq(S) /\ <<y>> \in Seq(S)
        /\ Len(<< >>) = 0 /\ Len(<<x>>) = 1 /\ Len(<<y>>) = 1
    BY <1>1, TupleTypes
  <1>3. Append(<< >>, x) = <<x>>
    <2>1. PICK s : s = Append(<< >>, x)
      OBVIOUS
    <2>2. s \in Seq(S) /\ Len(s) = 1 /\ s[1] = x
      BY <1>1, <1>2, <2>1, AppendProperties
    <2> QED BY <1>2, <2>1, <2>2, SeqEqual
  <1>4. Append(<<x>>, y) = <<x, y>>
    <2>1. PICK s : s = Append(<<x>>, y)
      OBVIOUS
    <2>2. s \in Seq(S) /\ Len(s) = 2 /\ s[1] = x /\ s[2] = y
      BY <1>1, <1>2, <2>1, AppendProperties
    <2> QED BY <1>1, <2>1, <2>2, TupleElements
  <1>5. <<x>> \o << >> = <<x>>
    BY <1>2, ConcatEmptySeq
  <1>6. <<x>> \o <<y>> = <<x, y>>
    <2>1. PICK s : s = <<x>> \o <<y>>
      OBVIOUS
    <2>2. s \in Seq(S) /\ Len(s) = 2 /\ s[1] = x /\ s[2] = y
      BY <1>1, <1>2, <2>1, ConcatProperties
    <2> QED BY <1>1, <2>1, <2>2, TupleElements
  <1> QED BY <1>3, <1>4, <1>5, <1>6

LEMMA Triples ==
    ASSUME NEW x, NEW y, NEW z
    PROVE  Append(<<x, y>>, z) = <<x, y, z>> /\ <<x>> \o <<y, z>> = <<x, y, z>>
  <1>1. PICK S : x \in S /\ y \in S /\ z \in S
    <2> WITNESS {x, y, z}
    <2> QED OBVIOUS
  <1>2. /\ <<x>> \in Seq(S) /\ <<x, y>> \in Seq(S) /\ <<y, z>> \in Seq(S)
        /\ Len(<<x>>) = 1 /\ Len(<<x, y>>) = 2 /\ Len(<<y, z>>) = 2
    BY <1>1, TupleTypes
  <1>3. Append(<<x, y>>, z) = <<x, y, z>>
    <2>1. PICK s : s = Append(<<x, y>>, z)
      OBVIOUS
    <2>2. s \in Seq(S) /\ Len(s) = 3 /\ s[1] = x /\ s[2] = y /\ s[3] = z
      BY <1>1, <1>2, <2>1, AppendProperties
    <2>3. s = <<x, y, z>>
      BY <1>1, <2>2, TupleElements
    <2> QED BY <2>1, <2>3
  <1>4. <<x>> \o <<y, z>> = <<x, y, z>>
    <2>1. PICK s : s = <<x>> \o <<y, z>>
      OBVIOUS
    <2>2. s \in Seq(S) /\ Len(s) = 3 /\ s[1] = x /\ s[2] = y /\ s[3] = z
      BY <1>1, <1>2, <2>1, ConcatProperties
    <2>3. s = <<x, y, z>>
      BY <1>1, <2>2, TupleElements
    <2> QED BY <2>1, <2>3
  <1> QED BY <1>3, <1>4

LEMMA RecordedAppend ==
    ASSUME NEW a, NEW b, NEW c
    PROVE  /\ Recorded(<< >>) = << >>
           /\ Recorded(<<a>>) = Append(<< >>, ToRecord(a))
           /\ Recorded(<<a, b>>) = Append(Append(<< >>, ToRecord(a)), ToRecord(b))
           /\ Recorded(<<a, b, c>>)
                 = Append(Append(Append(<< >>, ToRecord(a)), ToRecord(b)), ToRecord(c))
  <1>1. /\ Append(<< >>, ToRecord(a)) = <<ToRecord(a)>>
        /\ Append(Append(<< >>, ToRecord(a)), ToRecord(b)) = <<ToRecord(a), ToRecord(b)>>
        /\ Append(Append(Append(<< >>, ToRecord(a)), ToRecord(b)), ToRecord(c))
              = <<ToRecord(a), ToRecord(b), ToRecord(c)>>
    <2>1. PICK x : x = ToRecord(a)
      OBVIOUS
    <2>2. PICK y : y = ToRecord(b)
      OBVIOUS
    <2>3. PICK z : z = ToRecord(c)
      OBVIOUS
    <2>4. Append(<< >>, x) = <<x>>
      BY Tuples
    <2>5. Append(Append(<< >>, x), y) = <<x, y>>
      BY <2>4, Tuples
    <2>6. Append(Append(Append(<< >>, x), y), z) = <<x, y, z>>
      BY <2>5, Triples
    <2> QED BY <2>1, <2>2, <2>3, <2>4, <2>5, <2>6
  <1>2. Recorded(<< >>) = << >>
    BY DEF Recorded
  <1>3. Recorded(<<a>>) = <<ToRecord(a)>>
    BY DEF Recorded
  <1>4. Recorded(<<a, b>>) = <<ToRecord(a), ToRecord(b)>>
    BY DEF Recorded
  <1>5. Recorded(<<a, b, c>>) = <<ToRecord(a), ToRecord(b), ToRecord(c)>>
    BY DEF Recorded
  <1> QED BY <1>1, <1>2, <1>3, <1>4, <1>5

\* The three forms of a rewritten log.
LEMMA RewrittenForms ==
    ASSUME NEW d
    PROVE  /\ d = None => Rewritten(d) = << >>
           /\ d # None /\ d.coll = None => Rewritten(d) = Append(<< >>, CreateDatabaseCommand)
           /\ d # None /\ d.coll # None /\ LiveIn(d.coll) = {} =>
                 Rewritten(d) = Append(Append(<< >>, CreateDatabaseCommand),
                                       CreateCollectionCommand(d.coll.config))
           /\ d # None /\ d.coll # None /\ LiveIn(d.coll) # {} =>
                 Rewritten(d) = Append(Append(Append(<< >>, CreateDatabaseCommand),
                                              CreateCollectionCommand(d.coll.config)),
                                       ToRecord(InsertCommand(LiveMetadata(d.coll))))
  <1> DEFINE a == CreateDatabaseCommand
             b == CreateCollectionCommand(d.coll.config)
             c == InsertCommand(LiveMetadata(d.coll))
  <1>1. /\ d = None => OptimizedCommands(d) = << >>
        /\ d # None /\ d.coll = None => OptimizedCommands(d) = <<a>> \o << >>
        /\ d # None /\ d.coll # None /\ LiveIn(d.coll) = {} =>
              OptimizedCommands(d) = <<a>> \o (<<b>> \o << >>)
        /\ d # None /\ d.coll # None /\ LiveIn(d.coll) # {} =>
              OptimizedCommands(d) = <<a>> \o (<<b>> \o <<c>>)
    BY DEF OptimizedCommands, LiveMetadata
  <1>2. ToRecord(a) = a /\ ToRecord(b) = b
    BY Carried
  <1> HIDE DEF a, b, c
  <1>3. /\ <<a>> \o << >> = <<a>> /\ <<a>> \o (<<b>> \o << >>) = <<a, b>>
        /\ <<a>> \o (<<b>> \o <<c>>) = <<a, b, c>>
    <2>1. <<a>> \o << >> = <<a>> /\ <<b>> \o << >> = <<b>>
      BY Tuples
    <2>2. <<a>> \o <<b>> = <<a, b>> /\ <<b>> \o <<c>> = <<b, c>>
      BY Tuples
    <2>3. <<a>> \o <<b, c>> = <<a, b, c>>
      BY Triples
    <2> QED BY <2>1, <2>2, <2>3
  <1>4. /\ Recorded(<< >>) = << >>
        /\ Recorded(<<a>>) = Append(<< >>, a)
        /\ Recorded(<<a, b>>) = Append(Append(<< >>, a), b)
        /\ Recorded(<<a, b, c>>) = Append(Append(Append(<< >>, a), b), ToRecord(c))
    BY <1>2, RecordedAppend
  <1>5. /\ d = None => Rewritten(d) = << >>
        /\ d # None /\ d.coll = None => Rewritten(d) = Append(<< >>, a)
        /\ d # None /\ d.coll # None /\ LiveIn(d.coll) = {} =>
              Rewritten(d) = Append(Append(<< >>, a), b)
        /\ d # None /\ d.coll # None /\ LiveIn(d.coll) # {} =>
              Rewritten(d) = Append(Append(Append(<< >>, a), b), ToRecord(c))
    BY <1>1, <1>3, <1>4 DEF Rewritten
  <1> QED BY <1>5 DEF a, b, c

\* Replaying z over nothing tells of the database e.
Stage(z, e, u, n) ==
    /\ z \in Seq(Record)
    /\ Told(Replay(None, z, 0), e, ContentOf(z), u, n)
    /\ \A t \in Time : Replay(None, z, t) = Retimed(Replay(None, z, 0), t, ContentOf(z))

LEMMA StageStart ==
    ASSUME NEW n \in Time
    PROVE  Stage(<< >>, None, {}, n)
  <1>1. \A t : Replay(None, << >>, t) = None
    BY ReplayEmpty
  <1>2. PICK l : l = ContentOf(<< >>)
    OBVIOUS
  <1>3. \A t : Retimed(None, t, l) = None /\ Good(None, t, {})
    BY DEF Retimed, Good
  <1>4. Keeps(None, None, l)
    BY DEF Keeps
  <1>5. Told(None, None, l, {}, n)
    BY <1>3, <1>4 DEF Told
  <1>6. << >> \in Seq(Record)
    OBVIOUS
  <1> QED BY <1>1, <1>2, <1>3, <1>5, <1>6 DEF Stage

LEMMA StageNext ==
    ASSUME NEW n, NEW z, NEW e, NEW u, Stage(z, e, u, n), NEW r \in Record,
           NEW q, q = FromRecord(r), NEW b, b = Replay(None, z, 0),
           NEW e2, NEW w, NEW l, l = ContentOf(z), NEW k, k = ContentOf(Append(z, r)),
           Told(ApplyCommand(b, q, 0), e2, k, w, n),
           Outcome(b, ApplyCommand(b, q, 0), l, k, q)
    PROVE  Stage(Append(z, r), e2, w, n)
  <1>1. z \in Seq(Record) /\ \A t \in Time : Replay(None, z, t) = Retimed(b, t, l)
    BY DEF Stage
  <1>2. \A t : Replay(None, Append(z, r), t) = ApplyCommand(Replay(None, z, t), q, t)
    BY <1>1, ReplayAppend
  <1>3. Replay(None, Append(z, r), 0) = ApplyCommand(b, q, 0)
    BY <1>2
  <1>4. \A t \in Time : Replay(None, Append(z, r), t) = Retimed(ApplyCommand(b, q, 0), t, k)
    BY <1>1, <1>2 DEF Outcome
  <1>5. Append(z, r) \in Seq(Record)
    BY <1>1
  <1> QED BY <1>3, <1>4, <1>5 DEF Stage

\* The log of z and one more record.
LEMMA StageContent ==
    ASSUME NEW z \in Seq(Record), NEW r \in Record
    PROVE  Longer(ContentOf(z), ContentOf(Append(z, r)), r.command,
                  IF r.command = "INSERT_VECTORS" THEN DOMAIN FromRecord(r).vectors ELSE {})
  BY ContentAppend DEF Longer

\* A rewritten log that creates the database, then its collection, then inserts.
LEMMA StageDatabase ==
    ASSUME NEW n \in Time, NEW z, z = Append(<< >>, CreateDatabaseCommand)
    PROVE  /\ Stage(z, [created |-> n, coll |-> None], {}, n)
           /\ Creates(ContentOf(z))
  <1> DEFINE r == CreateDatabaseCommand
             l == ContentOf(<< >>)
             k == ContentOf(Append(<< >>, r))
  <1>1. r \in Record /\ r.command = "CREATE_DATABASE" /\ FromRecord(r) = r
    BY RecordFacts, Carried DEF CreateDatabaseCommand
  <1>2. << >> \in Seq(Record) /\ Stage(<< >>, None, {}, n)
    BY StageStart
  <1> HIDE DEF r
  <1>3. Longer(l, k, "CREATE_DATABASE", {})
    BY <1>1, <1>2, StageContent
  <1>4. PICK b : b = Replay(None, << >>, 0)
    OBVIOUS
  <1> HIDE DEF l, k
  <1>5. Told(b, None, l, {}, n)
    BY <1>2, <1>4 DEF Stage, l
  <1>6. /\ Told(ApplyCommand(b, r, 0), ApplyCommand(None, r, n), k, {}, n)
        /\ Outcome(b, ApplyCommand(b, r, 0), l, k, r)
    BY <1>3, <1>5, ToldDatabase DEF r
  <1>7. ApplyCommand(None, r, n) = [created |-> n, coll |-> None]
    BY Applied DEF r
  <1>8. Stage(Append(<< >>, r), [created |-> n, coll |-> None], {}, n)
    BY <1>1, <1>2, <1>4, <1>6, <1>7, StageNext DEF l, k
  <1>9. Creates(k)
    BY <1>3 DEF Longer, Creates
  <1> QED BY <1>8, <1>9 DEF r, k

LEMMA StageCollection ==
    ASSUME NEW n \in Time, NEW g \in Config,
           NEW y, y = Append(<< >>, CreateDatabaseCommand),
           NEW z, z = Append(y, CreateCollectionCommand(g))
    PROVE  /\ Stage(z, [created |-> n, coll |-> NewCollection(g, n)], {}, n)
           /\ Creates(ContentOf(z)) /\ CreatesCollection(ContentOf(z)) /\ Changes(ContentOf(z))
  <1> DEFINE r == CreateCollectionCommand(g)
             e == [created |-> n, coll |-> None]
             l == ContentOf(y)
             k == ContentOf(Append(y, r))
  <1>1. r \in Record /\ r.command = "CREATE_COLLECTION" /\ FromRecord(r) = r
    BY RecordFacts, Carried DEF CreateCollectionCommand
  <1>2. y \in Seq(Record) /\ Stage(y, e, {}, n) /\ Creates(l)
    BY StageDatabase DEF Stage
  <1>3. e # None /\ e.coll = None /\ e # Refused
    <2>1. e \in Database
      BY DEF Database
    <2> QED BY <2>1, Distinct
  <1>4. ApplyCommand(e, r, n) = [created |-> n, coll |-> NewCollection(g, n)]
    <2>1. ApplyCommand(e, r, n) = [e EXCEPT !.coll = NewCollection(g, n)]
      <3> HIDE DEF e
      <3> QED BY <1>3, Applied
    <2> QED BY <2>1
  <1> HIDE DEF r, e
  <1>5. Longer(l, k, "CREATE_COLLECTION", {})
    BY <1>1, <1>2, StageContent
  <1>6. PICK b : b = Replay(None, y, 0)
    OBVIOUS
  <1> HIDE DEF l, k
  <1>7. Told(b, e, l, {}, n)
    BY <1>2, <1>6 DEF Stage, l
  <1>8. /\ Told(ApplyCommand(b, r, 0), ApplyCommand(e, r, n), k, {}, n)
        /\ Outcome(b, ApplyCommand(b, r, 0), l, k, r)
    BY <1>3, <1>5, <1>7, ToldCollection DEF r
  <1>9. Stage(Append(y, r), ApplyCommand(e, r, n), {}, n)
    BY <1>1, <1>2, <1>6, <1>8, StageNext DEF l, k
  <1>10. Creates(k) /\ CreatesCollection(k) /\ Changes(k)
    BY <1>2, <1>5 DEF Longer, Creates, CreatesCollection, Changes
  <1> QED BY <1>4, <1>9, <1>10 DEF r, k

LEMMA StageInsert ==
    ASSUME NEW n \in Time, NEW g \in Config, NEW ws, Given(ws),
           NEW x, x = Append(<< >>, CreateDatabaseCommand),
           NEW y, y = Append(x, CreateCollectionCommand(g)),
           NEW z, z = Append(y, ToRecord(InsertCommand(ws)))
    PROVE  /\ Stage(z, [created |-> n, coll |-> Inserted(NewCollection(g, n), ws, n)],
                    DOMAIN ws, n)
           /\ Creates(ContentOf(z)) /\ CreatesCollection(ContentOf(z)) /\ Changes(ContentOf(z))
           /\ DOMAIN ws \subseteq ContentOf(z).vectors
  <1> DEFINE r == ToRecord(InsertCommand(ws))
             vs == [v \in DOMAIN ws |-> "nil"]
             c == NewCollection(g, n)
             e == [created |-> n, coll |-> c]
             l == ContentOf(y)
             k == ContentOf(Append(y, r))
  <1>1. DOMAIN ws \subseteq Vec
    BY InMetadata DEF Given
  <1>2. r \in Record /\ r.command = "INSERT_VECTORS" /\ FromRecord(r) = InsertCommand(vs)
    BY <1>1, RecordFacts, CarriedInsert
  <1>3. Given(vs) /\ DOMAIN vs = DOMAIN ws /\ \A v \in DOMAIN vs : Copied(vs[v]) = "empty"
    <2>1. vs \in Metadata
      BY <1>1, InMetadata DEF Meta
    <2> QED BY <2>1 DEF Given, Copied
  <1>4. y \in Seq(Record) /\ Stage(y, e, {}, n) /\ Creates(l)
    BY StageCollection DEF Stage
  <1>5. c \in Collection
    BY GoodNew
  <1> HIDE DEF c
  <1>6. e \in Database /\ e # None /\ e.coll # None /\ e # Refused
    <2>1. e \in Database
      BY <1>5 DEF Database
    <2> QED BY <1>5, <2>1, Distinct
  <1>7. ApplyCommand(e, InsertCommand(ws), n) = [created |-> n, coll |-> Inserted(c, ws, n)]
    <2>1. ApplyCommand(e, InsertCommand(ws), n) = [e EXCEPT !.coll = Inserted(@, ws, n)]
      <3> HIDE DEF e
      <3> QED BY <1>6, Applied
    <2> QED BY <2>1
  <1>8. InsertCommand(vs).vectors = vs
    BY DEF InsertCommand
  <1> HIDE DEF r, e, vs
  <1>9. Longer(l, k, "INSERT_VECTORS", DOMAIN vs)
    <2>1. Longer(l, k, r.command,
                 IF r.command = "INSERT_VECTORS" THEN DOMAIN FromRecord(r).vectors ELSE {})
      BY <1>2, <1>4, StageContent
    <2> QED BY <1>2, <1>8, <2>1
  <1>10. PICK b : b = Replay(None, y, 0)
    OBVIOUS
  <1> HIDE DEF l, k
  <1>11. Told(b, e, l, {}, n)
    BY <1>4, <1>10 DEF Stage, l
  <1>12. DOMAIN vs \cap {} = {} /\ {} \cup DOMAIN vs = DOMAIN ws
    BY <1>3
  <1>13. /\ Told(ApplyCommand(b, InsertCommand(vs), 0), ApplyCommand(e, InsertCommand(ws), n), k,
                 {} \cup DOMAIN vs, n)
         /\ Outcome(b, ApplyCommand(b, InsertCommand(vs), 0), l, k, InsertCommand(vs))
    BY <1>3, <1>6, <1>9, <1>11, <1>12, ToldInsert
  <1>14. Stage(Append(y, r), ApplyCommand(e, InsertCommand(ws), n), DOMAIN ws, n)
    BY <1>2, <1>4, <1>10, <1>12, <1>13, StageNext DEF l, k
  <1>15. Creates(k) /\ CreatesCollection(k) /\ Changes(k) /\ DOMAIN ws \subseteq k.vectors
    <2>1. CreatesCollection(l)
      BY StageCollection DEF l
    <2> QED BY <1>3, <1>4, <1>9, <2>1 DEF Longer, Creates, CreatesCollection, Changes
  <1> QED BY <1>7, <1>14, <1>15 DEF r, k, c

\* What a database is told of by is told of any database with the same live vectors, when the
\* log creates everything.
LEMMA ToldInstead ==
    ASSUME NEW n \in Time, NEW u, NEW d, Good(d, n, u), NEW w, w \subseteq u,
           NEW e, NEW b, NEW l, Told(b, e, l, w, n),
           d = None <=> e = None,
           d # None => Creates(l) /\ (d.coll = None <=> e.coll = None),
           d # None /\ d.coll # None =>
               /\ CreatesCollection(l) /\ Changes(l)
               /\ e.coll.config = d.coll.config /\ LiveIn(e.coll) = LiveIn(d.coll)
               /\ LiveIn(d.coll) \subseteq l.vectors
    PROVE  Told(b, d, l, u, n)
  <1>1. ASSUME d # None, d.coll # None
        PROVE  KeepsCollection(b.coll, d.coll, l)
    <2>1. KeepsCollection(b.coll, e.coll, l)
      BY <1>1 DEF Told, Keeps
    <2> QED BY <1>1, <2>1 DEF KeepsCollection
  <1>2. Keeps(b, e, l)
    BY DEF Told
  <1>3. Keeps(b, d, l)
    BY <1>1, <1>2 DEF Keeps
  <1>4. ASSUME b # None, b.coll # None
        PROVE  SoundCollection(b.coll, u)
    BY <1>4 DEF Told, SoundCollection
  <1>5. ASSUME NEW t \in n .. MaxTime
        PROVE  Good(Retimed(b, t, l), t, u)
    <2>1. t \in Time /\ t <= t
      BY TimeFacts, ClockAssumption DEF Time
    <2>2. Good(Retimed(b, t, l), t, w)
      BY DEF Told
    <2> QED BY <2>1, <2>2, GoodLater
  <1> QED BY <1>3, <1>4, <1>5 DEF Told

\* A rewritten log alone brings back the database that it was written from.
LEMMA RewriteAlone ==
    ASSUME NEW n \in Time, NEW u, NEW d, Good(d, n, u),
           NEW z, z = Rewritten(d)
    PROVE  Stage(z, d, u, n)
  <1> DEFINE l == ContentOf(z)
             b == Replay(None, z, 0)
  <1>1. ASSUME NEW e, NEW w, w \subseteq u, Stage(z, e, w, n),
               d = None <=> e = None,
               d # None => Creates(l) /\ (d.coll = None <=> e.coll = None),
               d # None /\ d.coll # None =>
                   /\ CreatesCollection(l) /\ Changes(l)
                   /\ e.coll.config = d.coll.config /\ LiveIn(e.coll) = LiveIn(d.coll)
                   /\ LiveIn(d.coll) \subseteq l.vectors
        PROVE  Stage(z, d, u, n)
    <2>1. Told(b, e, l, w, n)
      BY <1>1 DEF Stage
    <2> HIDE DEF b, l
    <2>2. Told(b, d, l, u, n)
      BY <1>1, <2>1, ToldInstead
    <2> QED BY <1>1, <2>2 DEF Stage, b, l
  <1>2. CASE d = None
    <2>1. z = << >>
      BY <1>2, RewrittenForms
    <2>2. Stage(z, None, {}, n)
      BY <2>1, StageStart
    <2> HIDE DEF l
    <2> QED BY <1>1, <1>2, <2>2
  <1>3. CASE d # None /\ d.coll = None
    <2> DEFINE e == [created |-> n, coll |-> None]
    <2>1. z = Append(<< >>, CreateDatabaseCommand)
      BY <1>3, RewrittenForms
    <2>2. e # None /\ e.coll = None
      <3>1. e \in Database
        BY DEF Database
      <3> QED BY <3>1, Distinct
    <2>3. Stage(z, e, {}, n) /\ Creates(l)
      BY <2>1, StageDatabase
    <2> HIDE DEF l, e
    <2> QED BY <1>1, <1>3, <2>2, <2>3
  <1>4. CASE d # None /\ d.coll # None
    <2> DEFINE g == d.coll.config
               c == NewCollection(g, n)
               ws == LiveMetadata(d.coll)
    <2>1. d.coll \in Collection /\ g \in Config /\ SoundCollection(d.coll, u)
      BY <1>4 DEF Good, Database, Collection
    <2>2. c \in Collection /\ LiveIn(c) = {} /\ SoundCollection(c, {}) /\ c.config = g
      <3>1. c \in Collection /\ SoundCollection(c, {})
        BY <2>1, GoodNew
      <3>2. LiveIn(c) = {} /\ c.config = g
        BY DEF NewCollection, LiveIn
      <3> QED BY <3>1, <3>2
    <2>3. CASE LiveIn(d.coll) = {}
      <3> DEFINE e == [created |-> n, coll |-> c]
      <3>1. z = Append(Append(<< >>, CreateDatabaseCommand), CreateCollectionCommand(g))
        BY <1>4, <2>3, RewrittenForms
      <3>2. /\ Stage(z, e, {}, n)
            /\ Creates(l) /\ CreatesCollection(l) /\ Changes(l)
        BY <2>1, <3>1, StageCollection
      <3> HIDE DEF l, c
      <3>3. e # None /\ e.coll = c /\ c # None
        <4>1. e \in Database
          BY <2>2 DEF Database
        <4> QED BY <2>2, <4>1, Distinct
      <3> HIDE DEF e
      <3> QED BY <1>1, <1>4, <2>2, <2>3, <3>2, <3>3
    <2>4. CASE LiveIn(d.coll) # {}
      <3> DEFINE i == Inserted(c, ws, n)
                 e == [created |-> n, coll |-> i]
      <3>1. z = Append(Append(Append(<< >>, CreateDatabaseCommand), CreateCollectionCommand(g)),
                       ToRecord(InsertCommand(ws)))
        BY <1>4, <2>4, RewrittenForms
      <3>2. DOMAIN ws = LiveIn(d.coll) /\ DOMAIN ws \subseteq u /\ DOMAIN ws \subseteq Vec
        BY <2>1, InMetadata DEF LiveMetadata, SoundCollection, LiveIn, Collection
      <3>3. Given(ws)
        <4>1. ASSUME NEW v \in DOMAIN ws
              PROVE  ws[v] \in {Sent(v), "empty"} /\ ws[v] \in Meta
          BY <2>1, <3>2 DEF LiveMetadata, SoundCollection, Copied, Sent, Meta
        <4>2. ws \in [DOMAIN ws -> Meta]
          BY <4>1 DEF LiveMetadata
        <4> HIDE DEF ws
        <4>3. ws \in Metadata
          BY <3>2, <4>2, InMetadata
        <4> QED BY <4>1, <4>3 DEF Given
      <3> HIDE DEF ws
      <3>4. /\ Stage(z, e, DOMAIN ws, n)
            /\ Creates(l) /\ CreatesCollection(l) /\ Changes(l)
            /\ DOMAIN ws \subseteq l.vectors
        BY <2>1, <3>1, <3>3, StageInsert
      <3> HIDE DEF l, c
      <3>5. InsertedShape(c, ws, n, i)
        BY <2>2, <3>3, InsertedFacts DEF Given
      <3>6. LiveIn(i) = LiveIn(c) \cup DOMAIN ws
        <4>1. i = Inserted(c, ws, n) /\ DOMAIN ws \cap {} = {}
          OBVIOUS
        <4> HIDE DEF i
        <4> QED BY <2>2, <3>3, <4>1, SoundInserted
      <3> HIDE DEF i
      <3>7. i \in Collection /\ i.config = g
        BY <2>2, <3>5 DEF InsertedShape
      <3>8. e # None /\ e.coll = i /\ i # None
        <4>1. e \in Database
          BY <3>7 DEF Database
        <4> QED BY <3>7, <4>1, Distinct
      <3> HIDE DEF e
      <3> QED BY <1>1, <1>4, <2>2, <3>2, <3>4, <3>6, <3>7, <3>8
    <2> QED BY <2>3, <2>4
  <1> QED BY <1>2, <1>3, <1>4

\* Beside a file that has the database, its replay is refused.
LEMMA RewriteBeside ==
    ASSUME NEW x, x # None, NEW d, d # None, NEW n \in Time, NEW u, Good(d, n, u)
    PROVE  /\ \A t : Replay(x, Rewritten(d), t) = Refused
           /\ Creates(ContentOf(Rewritten(d)))
  <1> DEFINE a == CreateDatabaseCommand
             b == CreateCollectionCommand(d.coll.config)
             c == ToRecord(InsertCommand(LiveMetadata(d.coll)))
             p == Append(<< >>, a)
             q == Append(p, b)
             r == Append(q, c)
  <1>1. << >> \in Seq(Record)
    OBVIOUS
  <1>2. a \in Record /\ FromRecord(a) = a /\ a.command = "CREATE_DATABASE"
    BY RecordFacts, Carried DEF CreateDatabaseCommand
  <1>3. \A t : Replay(x, p, t) = ApplyCommand(x, a, t)
    <2> HIDE DEF a
    <2>1. \A t : Replay(x, Append(<< >>, a), t)
                    = ApplyCommand(Replay(x, << >>, t), FromRecord(a), t)
      BY <1>1, <1>2, ReplayAppend
    <2> QED BY <1>2, <2>1, ReplayEmpty
  <1>4. \A t : ApplyCommand(x, a, t) = Refused
    BY Applied
  <1>5. \A m, t : ApplyCommand(Refused, m, t) = Refused
    BY DEF ApplyCommand
  <1>6. p \in Seq(Record) /\ Creates(ContentOf(p))
    <2> HIDE DEF a
    <2>1. Append(<< >>, a) \in Seq(Record)
      BY <1>1, <1>2, AppendProperties
    <2>2. ContentOf(Append(<< >>, a)).commands = ContentOf(<< >>).commands \cup {a.command}
      <3>1. Longer(ContentOf(<< >>), ContentOf(Append(<< >>, a)), a.command,
                   IF a.command = "INSERT_VECTORS" THEN DOMAIN FromRecord(a).vectors ELSE {})
        BY <1>1, <1>2, StageContent
      <3> QED BY <3>1 DEF Longer
    <2> QED BY <1>2, <2>1, <2>2 DEF Creates
  <1>7. ASSUME d.coll # None
        PROVE  /\ b \in Record /\ q \in Seq(Record) /\ Creates(ContentOf(q))
               /\ \A t : Replay(x, q, t) = Refused
    <2>1. b \in Record
      BY <1>7, RecordFacts DEF Good, Database, Collection
    <2> HIDE DEF a, p, b
    <2> QED BY <1>3, <1>4, <1>5, <1>6, <2>1, ReplayAppend, ContentAppend DEF Creates
  <1>8. ASSUME d.coll # None, LiveIn(d.coll) # {}
        PROVE  Creates(ContentOf(r)) /\ \A t : Replay(x, r, t) = Refused
    <2>1. DOMAIN LiveMetadata(d.coll) \subseteq Vec
      BY <1>8, InMetadata DEF LiveMetadata, LiveIn, Good, Database, Collection
    <2>2. c \in Record
      BY <2>1, RecordFacts
    <2> HIDE DEF q, c
    <2> QED BY <1>5, <1>7, <1>8, <2>2, ReplayAppend, ContentAppend DEF Creates
  <1>9. \/ Rewritten(d) = p
        \/ d.coll # None /\ Rewritten(d) = q
        \/ d.coll # None /\ LiveIn(d.coll) # {} /\ Rewritten(d) = r
    BY RewrittenForms
  <1> HIDE DEF p, q, r, a
  <1> QED BY <1>3, <1>4, <1>6, <1>7, <1>8, <1>9

LEMMA RewriteStep ==
    ASSUME SInv, Rewrite
    PROVE  SInv'
  <1> DEFINE z == Rewritten(db)
             l == ContentOf(z)
  <1>1. /\ phase = "serving" /\ log' = z
        /\ UNCHANGED <<db, rdb, backups, phase, now, used>>
    BY DEF Rewrite, Rewritten, Recorded
  <1>2. now \in Time /\ Good(db, now, used) /\ GoodFile(rdb, now, used)
    BY DEF SInv, Typed, MemoryGood, FilesGood
  <1>3. /\ z \in Seq(Record)
        /\ Told(Replay(None, z, 0), db, l, used, now)
        /\ \A t \in Time : Replay(None, z, t) = Retimed(Replay(None, z, 0), t, l)
    BY <1>2, RewriteAlone DEF Stage
  <1> HIDE DEF z
  <1>4. Content' = l
    BY <1>1 DEF Content
  <1>5. PICK f : f = Loaded(rdb)
    OBVIOUS
  <1>6. \A t : Recovered(t)' = Replay(f, z, t)
    <2>1. ASSUME NEW t PROVE Recovered(t)' = Replay(f, z, t)
      <3>1. Recovered(t)' = Replay(Loaded(rdb), z, t)
        BY <1>1 DEF Recovered, Loaded, Valid, Parse, ParseDatabase, ParseCollection, ParseVectors,
                    ParseGraph, Restored, RestoreCollection
      <3> QED BY <1>5, <3>1
    <2> QED BY <2>1
  <1>7. Base' = Replay(f, z, 0)
    BY <1>6 DEF Base
  <1>8. (HasDatabase' <=> HasDatabase) /\ (HasCollection' <=> HasCollection)
    BY <1>1 DEF HasDatabase, HasCollection
  <1>9. Overlap' <=> (HasDatabase /\ Creates(l)) \/ (HasCollection /\ CreatesCollection(l))
    <2>1. Overlap' <=> Overlapping'
      BY OverlapFacts, PTL
    <2>2. Overlapping' <=> \/ (HasDatabase' /\ Creates(Content'))
                           \/ (HasCollection' /\ CreatesCollection(Content'))
      BY DEF Overlapping, OverlapOf, Creates, CreatesCollection, HasCollection
    <2> HIDE DEF l
    <2> QED BY <1>4, <1>8, <2>1, <2>2
  <1>10. RecoveryKnown'
    <2>1. CASE HasDatabase
      <3>1. db # None
        BY <1>1, <2>1 DEF SInv, MemoryGood
      <3>2. f # None
        BY <1>2, <1>5, <2>1, FileOf DEF HasDatabase
      <3>3. (\A t : Replay(f, z, t) = Refused) /\ Creates(l)
        BY <1>2, <3>1, <3>2, RewriteBeside DEF z
      <3>4. Overlap'
        <4> HIDE DEF l
        <4> QED BY <1>9, <2>1, <3>3
      <3>5. \A t : Retimed(Refused, t, l) = Refused
        BY DEF Retimed
      <3> HIDE DEF l
      <3> QED BY <1>4, <1>6, <1>7, <3>3, <3>4, <3>5 DEF RecoveryKnown
    <2>2. CASE ~HasDatabase
      <3>1. f = None
        BY <1>2, <1>5, <2>2, FileOf DEF HasDatabase, Loaded
      <3>2. ~Overlap'
        <4> HIDE DEF l
        <4> QED BY <1>9, <2>2 DEF HasCollection
      <3>3. ~HasCollection'
        BY <1>8, <2>2 DEF HasCollection
      <3>4. PICK b : b = Base'
        OBVIOUS
      <3> HIDE DEF l
      <3>5. /\ Told(b, db, l, used, now)
            /\ \A t \in Time : Replay(f, z, t) = Retimed(b, t, l)
        BY <1>3, <1>7, <3>1, <3>4
      <3>6. Told(b, Retimed(b, now, l), l, used, now)
        BY <1>2, <3>5, ToldRetimed
      <3>7. b # Refused
        BY <3>5, Distinct DEF Told
      <3> QED BY <1>1, <1>4, <1>6, <1>8, <2>2, <3>2, <3>3, <3>4, <3>5, <3>6, <3>7
              DEF RecoveryKnown
    <2> QED BY <2>1, <2>2
  <1>11. Typed' /\ MemoryGood' /\ FilesGood'
    BY <1>1, <1>3, <1>8 DEF SInv, Typed, MemoryGood, FilesGood
  <1> QED BY <1>10, <1>11 DEF SInv

LEMMA InitStep ==
    ASSUME Init
    PROVE  SInv
  <1>1. /\ db = None /\ log = << >> /\ rdb = None
        /\ backups = [s \in 0 .. Second(MaxTime) |-> None]
        /\ phase = "serving" /\ now = 0 /\ used = {}
    BY DEF Init
  <1> DEFINE l == ContentOf(<< >>)
  <1>2. /\ ~HasDatabase /\ ~HasCollection /\ ~Overlap
        /\ 0 \in Time
        /\ \A t : Good(None, t, {}) /\ Retimed(None, t, l) = None
    BY <1>1, TimeFacts DEF HasDatabase, HasCollection, Overlap, Good, Retimed
  <1>3. Content = l
    BY <1>1 DEF Content
  <1>4. \A t : Recovered(t) = None
    BY <1>1, ReplayEmpty DEF Recovered, Loaded
  <1>5. Base = None
    BY <1>4 DEF Base
  <1> HIDE DEF l
  <1>6. Told(None, None, l, {}, 0)
    BY <1>2 DEF Told, Keeps
  <1>7. RecoveryKnown
    BY <1>1, <1>2, <1>3, <1>4, <1>5, <1>6, Distinct DEF RecoveryKnown
  <1>8. Typed
    BY <1>1, <1>2 DEF Typed
  <1>9. MemoryGood /\ FilesGood
    BY <1>1, <1>2 DEF MemoryGood, FilesGood, GoodFile
  <1> QED BY <1>7, <1>8, <1>9 DEF SInv

LEMMA NextStep ==
    ASSUME SInv, [Next]_vars
    PROVE  SInv'
  <1>1. CASE Next
    <2>1. CASE Tick \/ CreateDatabase \/ Save \/ Rewrite \/ Crash \/ Recover \/ CreateBackup
      BY <2>1, TickStep, CreateDatabaseStep, SaveStep, RewriteStep, CrashStep, RecoverStep,
         CreateBackupStep
    <2>2. ASSUME NEW config \in Config, CreateCollection(config) PROVE SInv'
      BY <2>2, CreateCollectionStep
    <2>3. ASSUME NEW vs \in SUBSET Vec, InsertVectors(vs) PROVE SInv'
      BY <2>3, InsertVectorsStep
    <2>4. ASSUME NEW vs \in SUBSET Vec, DeleteVectors(vs) PROVE SInv'
      BY <2>4, DeleteVectorsStep
    <2>5. ASSUME NEW s \in DOMAIN backups, RestoreFromBackup(s) PROVE SInv'
      BY <2>5, RestoreFromBackupStep
    <2> QED BY <1>1, <2>1, <2>2, <2>3, <2>4, <2>5 DEF Next
  <1>2. CASE UNCHANGED vars
    <2>1. UNCHANGED <<db, log, rdb, backups, phase, now, used>>
      BY <1>2 DEF vars
    <2>2. /\ \A t : Recovered(t)' = Recovered(t)
          /\ Base' = Base /\ Content' = Content /\ (Overlap' <=> Overlap)
          /\ (HasDatabase' <=> HasDatabase) /\ (HasCollection' <=> HasCollection)
      BY <2>1, SameRecovery
    <2>3. Typed' /\ MemoryGood' /\ FilesGood'
      BY <2>1, <2>2 DEF SInv, Typed, MemoryGood, FilesGood
    <2>4. RecoveryKnown'
      BY <2>1, <2>2 DEF SInv, RecoveryKnown
    <2> QED BY <2>3, <2>4 DEF SInv
  <1> QED BY <1>1, <1>2

-----------------------------------------------------------------------------
(* The theorems.                                                           *)

\* Every state satisfies the invariant: types, good memory, good files, and a recovery
\* that is known at every time.
THEOREM SnapshotInvariance == Spec => []SInv
  <1>1. Init => SInv
    BY InitStep
  <1>2. SInv /\ [Next]_vars => SInv'
    BY NextStep
  <1> QED BY <1>1, <1>2, PTL DEF Spec

\* Every RDB file and every backup passes validateSnapshot, and loading and saving it
\* gives the same file.
THEOREM FilesAreStable == Spec => []FilesStable
  <1>1. SInv => FilesStable
    <2> SUFFICES ASSUME SInv,
                        NEW f \in {rdb} \cup {backups[s] : s \in DOMAIN backups}, f # None
                 PROVE  /\ Valid(Parse(f))
                        /\ Encode(Parse(f), f.timestamp) = f
                        /\ Encode(CreateSnapshot(Restored(Parse(f))), f.timestamp) = f
      BY DEF FilesStable
    <2>1. GoodFile(f, now, used) /\ now \in Time
      BY DEF SInv, FilesGood, Typed
    <2> QED BY <2>1, FileOf
  <1> QED BY <1>1, SnapshotInvariance, PTL

\* The metadata of a live vector in the collection and in the index never differ.
THEOREM MetadataAlwaysAgrees == Spec => []MetadataAgrees
  <1>1. SInv => MetadataAgrees
    BY DEF SInv, MemoryGood, Good, SoundCollection, MetadataAgrees
  <1> QED BY <1>1, SnapshotInvariance, PTL

\* The state has its type, and a database is created before its collection, and that
\* before its last change, through every save, replay and restore.
THEOREM TimesStayOrdered == Spec => []TimesOrdered
  <1>1. SInv => TimesOrdered
    <2> SUFFICES ASSUME SInv PROVE TimesOrdered
      OBVIOUS
    <2>1. /\ phase \in {"serving", "down", "refused"} /\ now \in Time /\ used \subseteq Vec
          /\ Good(db, now, used)
      BY DEF SInv, Typed, MemoryGood
    <2>2. Recovered(now) \in Database \cup {None, Refused}
      <3>1. Recovered(now) = Retimed(Base, now, Content)
        BY <2>1 DEF SInv, RecoveryKnown
      <3>2. CASE Base = Refused
        BY <3>1, <3>2 DEF Retimed
      <3>3. CASE Base # Refused
        <4>1. Good(Retimed(Base, now, Content), now, used)
          BY <3>3 DEF SInv, RecoveryKnown, Told
        <4> QED BY <3>1, <4>1 DEF Good
      <3> QED BY <3>2, <3>3
    <2>3. TypeOK
      BY <2>1, <2>2 DEF TypeOK, Good
    <2> QED BY <2>1, <2>3 DEF TimesOrdered, Good
  <1> QED BY <1>1, SnapshotInvariance, PTL

\* A restart brings back what is in memory, but for the metadata and the times of what is
\* in the AOF, and it is refused exactly when the AOF creates again what the file has.
THEOREM RestartsKeep == Spec => []RestartKeeps
  <1>1. SInv => RestartKeeps
    <2> SUFFICES ASSUME SInv, phase = "serving" PROVE RestartKeeps
      BY DEF RestartKeeps
    <2> DEFINE r == Recovered(now)
               l == Content
    <2>1. /\ now \in Time /\ Recovered(now) = Retimed(Base, now, Content)
          /\ Base = Refused <=> Overlap
          /\ Base # Refused => Told(Base, db, Content, used, now)
      BY DEF SInv, Typed, RecoveryKnown
    <2>2. PICK b : b = Base
      OBVIOUS
    <2>3. r = Refused <=> Overlap
      <3>1. CASE b = Refused
        BY <2>1, <2>2, <3>1 DEF Retimed
      <3>2. CASE b # Refused
        <4>1. b \in Database \cup {None}
          BY <2>1, <2>2, <3>2 DEF Told
        <4>2. Retimed(b, now, l) # Refused
          <5> HIDE DEF l
          <5> QED BY <2>1, <4>1, RetimedFacts, Distinct DEF Retimed
        <4> QED BY <2>1, <2>2, <3>2, <4>2
      <3> QED BY <3>1, <3>2
    <2>4. ASSUME r # Refused
          PROVE  /\ r = None <=> db = None
                 /\ db # None =>
                      /\ r.created = IF Creates(l) THEN now ELSE Unix(db.created)
                      /\ r.coll = None <=> db.coll = None
                      /\ db.coll # None =>
                           /\ KeepsCollection(b.coll, db.coll, l)
                           /\ r.coll = RetimedCollection(b.coll, now, l)
      <3>1. Told(b, db, l, used, now)
        BY <2>1, <2>2, <2>3, <2>4
      <3> HIDE DEF l
      <3>2. Keeps(b, db, l) /\ b \in Database \cup {None}
        BY <3>1 DEF Told
      <3>3. CASE db = None
        <4>1. b = None
          BY <3>2, <3>3 DEF Keeps
        <4>2. r = None
          BY <2>1, <2>2, <4>1 DEF Retimed, l
        <4> QED BY <3>3, <4>2
      <3>4. CASE db # None
        <4>1. b \in Database /\ b # None
          BY <3>2, <3>4 DEF Keeps
        <4>2. r = Retimed(b, now, l)
          BY <2>1, <2>2 DEF l
        <4> HIDE DEF r
        <4>3. /\ r # None /\ r.created = IF Creates(l) THEN now ELSE b.created
              /\ b.coll = None => r.coll = None
              /\ b.coll # None => /\ r.coll = RetimedCollection(b.coll, now, l)
                                  /\ RetimedCollection(b.coll, now, l) \in Collection
          BY <2>1, <4>1, <4>2, RetimedFacts
        <4> QED BY <3>2, <3>4, <4>3, Distinct DEF Keeps
      <3> QED BY <3>3, <3>4
    <2> HIDE DEF r
    <2>5. ASSUME r # Refused, db # None, db.coll # None
          PROVE  SameCollection(r.coll, db.coll)
      <3>1. /\ KeepsCollection(b.coll, db.coll, l) /\ r.coll = RetimedCollection(b.coll, now, l)
        BY <2>4, <2>5
      <3>2. PICK c : c = b.coll
        OBVIOUS
      <3>3. PICK e : e = r.coll
        OBVIOUS
      <3>4. /\ e.config = c.config /\ LiveIn(e) = LiveIn(c) /\ e.vectors = c.vectors
            /\ e.created = IF CreatesCollection(l) THEN now ELSE c.created
            /\ e.updated = IF Changes(l) THEN now ELSE c.updated
        <4> HIDE DEF l
        <4> QED BY <3>1, <3>2, <3>3 DEF RetimedCollection, LiveIn
      <3>5. /\ Logged("CREATE_COLLECTION") <=> CreatesCollection(l)
            /\ (\E k \in DOMAIN log : log[k].command # "CREATE_DATABASE") <=> Changes(l)
            /\ InLog = l.vectors
        BY ContentLogged
      <3> HIDE DEF l
      <3>6. SameCollection(e, db.coll)
        BY <3>1, <3>2, <3>4, <3>5 DEF KeepsCollection, SameCollection
      <3> QED BY <3>3, <3>6
    <2>6. Logged("CREATE_DATABASE") <=> Creates(l)
      BY ContentLogged
    <2> HIDE DEF l
    <2>7. /\ r = Refused <=> Overlap
          /\ r # Refused =>
                /\ r = None <=> db = None
                /\ db # None =>
                      /\ r.created = IF Logged("CREATE_DATABASE") THEN now ELSE Unix(db.created)
                      /\ r.coll = None <=> db.coll = None
                      /\ db.coll # None => SameCollection(r.coll, db.coll)
      BY <2>3, <2>4, <2>5, <2>6
    <2> QED BY <2>7 DEF r, RestartKeeps
  <1> QED BY <1>1, SnapshotInvariance, PTL
=============================================================================
