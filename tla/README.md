# Verification of Scintirete

TLA+ models of Scintirete, a vector database written in Go, with TLC model-checking
configurations and TLAPS proofs. Paths below are relative to the repository; `aof.go`
is `internal/persistence/aof/aof.go`, `persistence.go` is
`internal/persistence/persistence.go`, `server.go` is `internal/server/grpc/server.go`.

| module | what it is |
| --- | --- |
| `DurableLog` | what an append-only command log promises: the abstract specification |
| `AOFLogger` | the AOF logger: bufio buffer, file, sync strategies, rewrite, truncate, replay, close |
| `DataLemmas` | induction over numbers, recursions, prefixes of sequences: what the proofs have in common |
| `AOFLoggerProofs` | theorems about `AOFLogger` |
| `Persistence` | the persistence manager between engine, RDB file and AOF |
| `PersistenceProofs` | theorems about `Persistence` |
| `Collection` | one collection: identifiers, tombstones, counters, index nodes, over saves and restarts |
| `CollectionProofs` | theorems about `Collection` |
| `HNSWParams`, `HNSWGraph` | what the index keeps of its graph: the abstract specification |
| `HNSWGraphProofs` | theorems about `HNSWGraph` |
| `HNSW` | the index's algorithms on layered links: insert, delete, search, export, import |
| `HNSWProofs` | theorems about `HNSW` |
| `Catalog` | databases, collections and the request handlers that change them, step by step |
| `CatalogProofs` | theorems about `Catalog` |
| `Snapshots` | what each format carries: RDB file, graph, backups, AOF commands, and all of it back |
| `SnapshotsProofs` | theorems about `Snapshots` |
| `MCAOFLogger`, `MCPersistence`, `MCCollection`, `MCHNSW`, `MCCatalog`, `MCSnapshots` | instances for TLC |

## 1. The system

Scintirete keeps databases of collections of vectors in memory, finds nearest neighbours
with an HNSW graph, and persists with an append-only file of commands (AOF) and snapshots
(RDB), in the manner of Redis.

| component | state | operations | correct when |
| --- | --- | --- | --- |
| gRPC server (`internal/server/grpc`) | engine, manager, request counter | one handler per request: change the engine, log the change, audit, answer; `Save`, `BgSave`; `Start`, `Stop` | what is answered with success is in memory and in the log; a stop ends and leaves loadable files |
| Engine, Database (`internal/core/database/database.go`) | maps of databases and collections under RWMutexes | create, drop, get; `GetDatabaseState`, `GetOptimizedCommands`, `RestoreFromSnapshot`, `ApplyCommand`, `Close` | a copy and its restoration agree; a replay reaches the state that was logged |
| Collection (`collection.go`) | vectors, tombstones, counters, `nextID`, index | `Insert`, `Delete`, `Search`, `Get`, `Compact`, `updateNextID`, `Close` | no vector takes another's place or identifier; counters and index agree with the vectors |
| HNSW (`internal/core/algorithm/hnsw.go`) | nodes with layered links, entry point, top layer | `Insert`, `Delete`, `Search`, `Build`, `ExportGraphState`, `ImportGraphState` | links lead to nodes, the entry point is live, live vectors are found |
| Persistence manager (`persistence.go`) | lock, `isDirty`, command counter, two tasks | `WriteAOF`, `SaveSnapshot`, `RewriteAOF`, `Recover`, `StartBackgroundTasks`, `Stop` | no durable command is lost or applied twice |
| AOF logger (`aof.go`) | file, bufio.Writer, strategy, ticker | `WriteCommand`, `Replay`, `Rewrite`, `Truncate`, `Close`, background sync | the file is whole records in order; acknowledged commands become durable |
| RDB manager (`internal/persistence/rdb/rdb.go`) | RDB file, backups | `Save`, `Load`, `BackupManager` | a save replaces the file as a whole |
| Audit logger (`internal/observability/audit/audit.go`) | output, file | `writeEvent`, `rotateFile`, `Close` | an event is written once; rotation loses none within `MaxFiles` |
| Embedding client (`internal/embedding/client.go`) | rate counters | `canProceed`, `GetEmbeddings` | (the rate check is commented out) |
| HTTP gateway, CLI, configuration, metrics, monitoring | no shared state, or counters | translation, parsing, sampling | - |

How they interact. A handler calls the engine (under the engine's, the database's and the
collection's locks in turn), then the manager, which counts the command under its own lock
and passes it, the lock released, to the AOF logger, which holds `a.mu`. No lock spans the
two. The snapshot task, `Save` and `BgSave` copy the engine with `GetDatabaseState` and
then call `SaveSnapshot`, which under the manager's lock replaces the RDB file and
truncates the AOF. The rewrite task copies with `GetOptimizedCommands` and replaces the
AOF's content. `Start` starts the tasks and then recovers: RDB first, AOF commands on top.
`main` cancels the context and calls `Stop` on a signal, but never stops the gRPC and HTTP
servers: requests keep arriving until the process ends.

What is hard: the gap between a copy of memory and the truncation or rewrite that relies
on it; requests between their effect and their log record; two savers at once; a crash
between the two files' changes; failing system calls in the middle of a rewrite or a
truncation; records cut by the buffer, by a failing write or by a crash; the order of
closing log and engine while requests and saves are under way; identifiers, tombstones and
counters over a delete, a save and a restart. `PROJECT.json` lists these hazards at
their lines.

## 2. The AOF logger

### 2.1 The model

`AOFLogger` models `aof.go` and what it uses of `bufio` and `os`. A command's record is
`Size[c]` units; the first stands for the four-byte length prefix and the others for the
FlatBuffers data, which `WriteCommand` writes with two calls. `buf` is the bufio.Writer's
content, `werr` its sticky error, `file` what the kernel has and `disk` what was synced.

* `a.mu` is `op`: an operation that needs it starts with `Acquire` and ends with `Release`.
  Between them its system calls are steps of their own (`step`), so that crashes, failures
  and the lock-free part of `Close` come between any two of them.
* `WriteCommand` is `WritePrefix`, `WriteData` and, when its strategy says so, `Flush` and
  `Fsync`, with a failing variant of each. `Spilled` is bufio's rule for what goes to the
  file at once; `BufWriteFails` and `FlushFails` let any part of it through.
* `syncToFile` is `Flush` then `Fsync`, shared by writers, tickers, `Replay`, `Rewrite` and
  `Close`, who differ in what they do with an error (`AfterSyncError`).
* `startBackgroundSync` and `startSmartSync` are `Tick`. Time is not modelled: a tick may
  come at any moment at which the goroutine runs. A tick that finds nothing buffered
  changes nothing and is a stuttering step.
* `Rewrite` writes its temporary file, syncs the current one and swaps (`RewriteTemp`,
  `Flush`, `Fsync`, `RewriteSwap`). The swap can fail with the old file closed, or
  after the rename when the file cannot be reopened. `Truncate` closes without flushing
  and recreates.
* `Open`, `ReplayStart`, `Replay` are `NewAOFLogger` and `Replay`, which refuses a torn
  record; then main ends (`Halt`). `CloseStop` and `CloseSync` are the two halves of `Close`.
* `Crash` loses the buffer; `MachineCrash` also any part of what was not synced, cut
  anywhere, but in order. A rename and `O_TRUNC` are taken to be durable when they return:
  the code syncs no directory, and the model does not show what that costs.

`acked` is a history variable: the commands the current file answers for, those acknowledged
since its content was last replaced. A record at the end of a file that grew back
after a machine crash is no longer answered for unless it is whole (`Open`).

`DurableLog` is the abstract log: append, sync of a prefix, replacement, crash, replay.
`ImplementsDurableLog` is the refinement, with the whole records of file and buffer as the
abstract log and those of `disk` as its durable prefix.

### 2.2 The runs

`aof_safety`: three requests whose records fit a buffer of three units, spill from it, and
are longer than it; one compacted snapshot; the three strategies; one crash and
one failing call. Each class of record against each fill of the buffer is
enough to reach every branch of `Spilled`; one crash leads to a second life of the logger on
the file of the first, and a torn tail stops every later life.

* `StreamIntact`: file and buffer are consecutive records, of which only the last
  may be cut; what is synced is a prefix of the file.
* `AckedInLog`, `AlwaysDurable`: acknowledged commands are in the log while
  the process lives, and survive every crash under `always`.
* `NoTearWhileHealthy`, `RefusedOnlyAfterFailure`: torn records come only from crashes and
  failed calls.
* `FailStop`: with a failed Writer nothing is acknowledged.
* `CloseLosesNothing`: after a successful `Close` everything acknowledged is durable.
  A `WriteCommand` that comes after `Close` is acknowledged under `everysec`
  and `no` and lost; the property is about the step of `Close` itself.

`aof_live`: `AckedBecomesDurable` when records are no longer than the buffer can keep a
part of, under `everysec` and `no`. `aof_everysec` shows that it fails for a record that
fills the buffer and leaves more than another buffer (above 8192 bytes with its prefix, when
it meets an empty buffer): bufio writes that rest directly, the buffer is empty at every tick
and `fsync` is not called until something is buffered again (`aof.go:785`). `Threshold` is above `BufCap`, as
in the code, where the size threshold of the smart sync (6KB, `aof.go:84`) is compared with
the content of a 4KB buffer: under `no` only the ticker syncs.

Fairness (`LiveSpec`): `a.mu` is a `sync.Mutex`, whose starvation mode hands it to a waiting
ticker (strong fairness of `Tick`); an operation that has the lock finishes (weak fairness
of its successful steps, as no call fails in these runs); a process that starts replays.
Nothing makes a handler send a command, a crash come or `Close` be called.

### 2.3 The proofs

`AOFLoggerProofs` proves, for all requests, record sizes of at least two, buffer
capacities, thresholds, snapshots of whole records, and bounds: `TypeCorrect`,
`StreamStaysIntact`, `AckedStaysInLog`, `AlwaysIsDurable`, `NoTear`, `FailStops`,
`CloseKeepsAll`, `RefusalNeedsFailure` and the refinement `Implements`. The inductive
invariant `IInv` is the type invariant, the safety properties `StreamIntact`, `AckedInLog`, `AlwaysDurable`, `NoTearWhileHealthy` and
`LockOK`, which says what the holder of `a.mu` has done at each step: between its two
writes the stream `file \o buf` ends in the first unit of `cur`; after them `cur` is
complete in the stream; at the fsync the buffer is empty and the Writer has no error.
Without `LockOK` the second write could continue another record and the acknowledgement
would say nothing of the log. `DataLemmas` has the facts about prefixes and
concatenations of sequences.

`RefusedOnlyAfterFailure` is not inductive, and neither is "the file ends in a whole record":
bufio spills half records into it all the time. `Careful` says what holds while nothing
has failed or crashed: the file is whole whenever nobody serves or the handle is closed, only
`Close` closes the handle, and `Close` does not fail. That a handler may still write
into the buffer of a closed logger does not matter, because without a handle nothing
leaves the buffer (`UnopenedWrite`).

`Implements` follows what each step does to the commands in the stream. `CommandsPrefix`: the
commands of a prefix of a stream are a prefix of its commands, and units that end no record
add none; `PartOfRecord`: a record delivers its command with its last unit, never with less. So a
write that succeeds appends one command, one that fails appends none however much of it
bufio let through, flushes are stuttering steps, an fsync moves the durable prefix forward,
and a crash, which keeps a prefix of the file, keeps a prefix of the log with all that is durable.

Liveness is model-checked only.

## 3. The persistence manager

### 3.1 The model

`Persistence` models `persistence.go` with the handlers, `Save`, `BgSave`, `Start`, `Stop`
and the engine as the manager uses it. Memory, RDB file and rewritten AOF are bags of the
requests whose effects they hold; the AOF's tail is a sequence, with the actions
of `DurableLog` (so what `AOFLogger` guarantees is what `Persistence` assumes). A
request either creates a collection, where a second application is an error that makes
recovery fail, or inserts, where it duplicates vectors. Torn tails belong to `AOFLogger`.

* `Apply`, `Count`, `Log`: the engine change, `WriteAOF`'s bookkeeping, `WriteCommand`.
* `Copy`, `Copied`: `GetDatabaseState` or `GetOptimizedCommands`, collection by collection,
  while requests go on: the copy holds at least what was there at the start and any part
  of what came meanwhile.
* `Rename`, `Truncate`, `ResetCounters`: `SaveSnapshot`'s two halves under `m.mu` and the
  task's reset; `RenameFails`, `TruncateFails`. `Save` and `BgSave` are savers that look at
  no counters and reset none; each member of `SaveCalls` is one call, and ends with its save
  (`Over`).
* `Rewrite`, `RewriteFails`: `RewriteAOF`. It may fail at any time once `main` has cancelled
  the context, which comes before `Stop`.
* `Stop`, `EndTask`, `Close`, `CloseEngine`, `Exit`: the shutdown. A closed engine still has
  its collections, without vectors and without graphs (`shut`); a copy of it is what
  `bare` and `rdbBare` record.
* `Halt`, `Crash`, `Recover`: `Recover` refuses a collection created twice and a collection
  without its graph.

Under `everysec` the sync goroutine is `Sync`. The strategy `no` differs only in when
`Sync` comes and is left to `AOFLogger`. Drops and deletes are not in this module: two
effects on the same vectors would need the order of effects, which a bag does not have.
Deletes are in `Collection`.

History variables: `unseen` (for each worker, what its copy may lack), `settled` (durable
and acknowledged requests), `overtaken` (what a published copy may lack), `straddled`
(copied before it was logged), `half` (RDB replaced, AOF not yet truncated), `mixed`
(rewritten beside an RDB file).

### 3.2 The runs

Two requests, a creation and an insertion, show each kind of duplicate against the other;
one crash gives a recovery, after which a second one can meet what the first left.
`manager_saves` has both background tasks, the rewrite among them, and a `BgSave`, under
`always`, with one end of the process and one failing call. `RewriteAfter` is two commands in
place of 200, so that a rewrite comes after the second of the two requests. The saves of one
life are thereby three at a time, each pair of which may overlap.

* `SettledRecoverable`: a durable command is lost only when a copy published later could not
  have it.
* `OverlapOnlyInWindows`: an effect is in both files only in the windows that `half`,
  `mixed` and `straddled` name.
* `QuietSaveExact`: a save during which nothing is applied leaves files that recover exactly
  memory.

`manager_live` runs one insertion under `everysec`, with the snapshot task, a `BgSave` and one
failing call, through the shutdown: `CleanStopKeeps` (an undisturbed `Stop` leaves everything
durable, but for what a copy had overtaken), `StopEnds` and `RequestsAnswered`. One request
is enough for each: they say of a request, or of the shutdown, what becomes of it among
the workers. `RewriteAfter` is above the number of requests: a rewrite holds `m.mu` within
one step, and adds nothing to the waiting for it.

The exceptions are the defects, shown by the runs that expect a violation:
`manager_current` (a durable command is lost between the copy and the truncation) and
`manager_conflict` (a recovery meets a collection in both files and fails, for good).
They check what `persistence.go:345` and `persistence.go:346` say. A third one is part of the
model and of no property: a `BgSave` that copies an engine which `Stop` has closed saves
collections without vectors and without graphs (`shut`, `bare`, `rdbBare`), and recovery
refuses that file (`Recover`).

Deadlock is not checked in these runs: a refused or a finished process stops.

Fairness: goroutines are scheduled and `m.mu`, an RWMutex, does not starve a writer. Go's
`select` chooses at random among ready cases, so a task between two rounds does not choose
its ticker over the closed channel for ever: strong fairness of `EndTask`.

### 3.3 The proofs

`PersistenceProofs` proves `ManagerTypeCorrect`, `SettledStaysRecoverable`,
`OverlapsStayInWindows` and `QuietSavesAreExact`, for all requests, savers and bounds. The
inductive invariant `IInv` adds to the properties that nothing outlives a process but its
files (`QuietWhenDown`), that the log of a closed process takes nothing more
(`ClosedLog`), that memory is ahead of the files (`MemoryAhead`), that a copy under way
holds every effect there is in memory, in the files, in other copies or in a request
already applied, but for the requests in its `unseen` (`CopiesCover`), that a copy with
empty `unseen` is memory (`QuietCopy`), that a saver between rename and truncation holds
`m.mu` (`SaveLocked`), that requests that have not begun have no effect (`Unborn`), and
that a request on its way to the log is not in the AOF's tail yet, and in its base or in
the RDB file only in the named windows (`LoggedOnce`). `CopiesCover` is the heart: it is
why a truncation loses nothing but what it overtakes.

`CleanStopsKeep` is proved with a second invariant, `CleanLife`: in the first life, as long as
no call has failed, the AOF takes what it is given, and what was answered is in it, in the
published copy, or overtaken by that copy. `CopiesCover` carries it over every save and rewrite.
Liveness is model-checked only.

## 4. The collection

### 4.1 The model

`Collection` models one `Collection` with the nodes of its HNSW index, the snapshot and the
log that a restart brings it back from. A vector is a content with a dimension.

* `Insert`, `InsertFails`, `Delete` are the methods, each one step because it holds `c.mu`;
  the bodies are `ApplyInsert`, `ApplyInsertFails`, `ApplyDelete`, which `Replay` and
  `ReplayFails` share, as `ApplyCommand` does. The index refuses an identifier it has a node
  for, deleted or not; what the loop of `Insert` stored until then stays, uncounted. A
  request that is refused for its dimension changes nothing and is no action.
* `Log` is the handlers' second half, without the lock: in any order. `LogFails` is the same
  when the AOF reports an error: the effect stays in memory, and the record is there (only its
  fsync failed) or not. `InsertVectors` and `DeleteVectors` answer with an error,
  `EmbedAndInsert` answers the identifiers.
* `Sync` is a flush and an fsync. Which strategy asks for it is `AOFLogger`'s subject: here it may
  come at any time, or never. `Stop`, a part of both restarts, leaves any prefix of the log that
  has what was synced (`durable`): all of it after an orderly stop, less after a crash under
  `everysec`, the default, or `no`. A record that is cut in two makes the next
  recovery fail (`AOFLogger`) and is not repeated here.
* `Save` copies the live vectors and all nodes (`Copy`), `Restart` restores them
  (`Restore`): no tombstones in the collection, those of the graph as saved, `nextID` one
  above the largest live vector. `RestartRefused` is `validateSnapshot`.
* `Rewrite` is `GetOptimizedCommands`: one insertion, in the order of a map.

Saves and rewrites are single steps that come when no request is between its effect and
its log record; what goes wrong in that gap is `Persistence`'s subject. Links, layers and
distances are `HNSW`'s. `Compact` has no caller and is left out.

History variables: `told`, for each length of the log what clients know by the answers of
the commands up to there (the live vectors, the identifiers answered), so that a crash that
cuts the log cuts `told` with it; and `causes`, why a restart may not bring back even that.
`tombstone`: saved with a node above all live vectors; `rewrite`: the rewritten log numbers the
vectors otherwise; `order`: commands that do not commute were logged in another order than they
were executed; `unlogged`: the AOF reported an error for a command, so that the log and memory
part, and `EmbedAndInsert` may have answered identifiers that a replay gives to others;
`conflict`: the index refused an identifier.

What a crash takes with the end of the log is lost, with its answers: the code promises no more
under `everysec` and `no`, and an identifier in such an answer is handed out again. The
properties are about the answers that survive.

### 4.2 The runs

`collection_restarts`: batches of one or two vectors of two dimensions, deletions of one
or both, logs of three commands, two of them on their way to the log at once, three
identifiers, two restarts. A restart shows what was
saved, a second one what was done to a collection that was restored, and three identifiers
leave room for an insertion after a refused one. Every action is taken, the refused
snapshot (a collection of two dimensions) included. The run has 2.4 million states, in a
little more than a minute.

`MCCollection` gives TLC a view, which leaves out what can no longer be read: the answers of the
part of the log that a crash cannot cut, all answers once a cause excuses both properties that read
them (causes stay, but for the rest of the behaviour), and `durable` when no restart is left. Two
states with the same view have the same successors up to the view and the same truth of
every property and action property of the run, but for the type of `told` in `TypeOK`, which
`CollectionTypeCorrect` proves.

* `IndexCovers`, `AllSearchable`, `CountsExact`, `OneDimension`: collection, index and
  counters agree; the last three as long as the index has refused nothing.
* `NothingOverwritten`, `IdsNeverReused`: an identifier is one vector's, within a life
  and, for those answered to clients with a record that survives, over restarts, unless
  `order`, `rewrite` or `unlogged` has occurred.
* `RestartExact`: but for the causes other than `tombstone`, a recovery that ends brings back
  what the surviving commands had told.
* `RefusedOnlyByTombstone`: a recovery fails only after the cause `tombstone`, also when commands
  are missing from the log or were lost.

`collection_persists` shows one of the causes as a defect: recovery fails for good (against
`docs/en/1_quick-start.md:265`). The rewritten log, whose insertions get other identifiers
when they are replayed, is the cause `rewrite`. Deadlock is not checked: the bounds and a
refused recovery end the behaviours.

### 4.3 The proofs

`CollectionProofs` proves `CollectionTypeCorrect`, `IndexAlwaysCovers`, `LiveIsSearchable`,
`CountsStayExact`, `DimensionStaysOne` and `NothingIsOverwritten` for all vectors, batches,
deletions and bounds. The inductive invariant relates the four places that record the same
facts: `Agreement` (map, tombstones, nodes and flags; new identifiers are above all
vectors), `Counted`, `SnapshotOK` (the same of the snapshot, which a restart needs) and
`PendingOK` (the identifiers of an insertion on its way to the log are consecutive). There
is one lemma for each of the bodies and for `Copy` and `Restore`.

`RefusedNeedsTombstone`: recovery fails only after a save that
had a tombstone above all live vectors. A replay can fail for two reasons, and `RInv`
excludes both while there was no such save: the index has nodes only below the next
identifier, also those a `Restore` would give it (`Below`), and memory, snapshot, log and
requests on their way to the log hold vectors of one dimension (`Kind`), which is known of a
log because every insertion in it left vectors in memory (`Sourced`) that the next one was
compared with.

`RestartIsExact` and `IdsAreNeverReused` say what a client sees over restarts, as long as none of
the causes above is set. The invariant
`TInv` has a trace: a sequence of maps from identifiers to contents, each made from the one
before it by one command, from the snapshot through the log and the commands on their way to
it to what memory holds; what clients had been told at each length of the log is its
point there, so that wherever a crash cuts the log the trace and `told` end in the same point.
It needs that the nodes
of the index are numbered without gaps (`Dense`), so that an insertion takes the next numbers
or is refused, in memory and in a replay alike. When a handler logs its command before others
that were executed earlier, the command is moved to the front of those, one exchange of
neighbours after the other, and the trace changes behind it only; commands that do not
commute are the cause `order`, and end the claim.

## 5. The index

### 5.1 The model

`HNSW` models `hnsw.go` with the algorithms as they are: every operation holds `h.mu` and is
one step, and what it computes is what the code computes, candidate by candidate. Vectors are
points with a constant distance; equal distances keep the order that the code's insertion
sort gives them. Two things are left open: the layer of a new node, which the code draws at
random, and which of the highest live nodes becomes the entry point, which the code leaves
to the order of a Go map.

* `Insert` is `insertVector`: the greedy descent (`Descend`), then from the node's layer down
  `SearchLayer`, `SelectNeighbors`, a link in both directions and the pruning of the other
  end (`Link`, `PruneConnections`), whose result the next layer starts from. The entry
  point moves only when the new layer is above the highest layer at which the old entry
  point has links (`NodeLayer`, which is not its top layer).
* `SearchLayer` is the walk of `searchLayer`, with its two lists and its visited set
  (`Visit`, `Explore`): it neither visits nor returns deleted nodes. No node is explored twice,
  so that `Walk` stands for the loop with as many steps as there are nodes; the proofs show
  that it has come to its end by then.
* `Delete` marks, and `FindNewEntrypoint` elects. `Search` descends with one candidate and
  searches layer 0 with `EfSearch`.
* `Reload` is a save and a load: `ExportGraphState` and the RDB form, which leaves out layers
  without links (`ToSnapshot`), then `ImportGraphState` (`FromSnapshot`).

`HNSWGraph` is the same index without vectors: any live nodes may become neighbours,
pruning may drop any links. `ImplementsGraph` is the refinement, with the lists of links as
sets.

### 5.2 The run

`hnsw`: three points on a line, two of them closer to each other than to the third, four
insertions, `M` = 1, two layers. With these a node of layer 0 has at most two links, so that
the third neighbour prunes; an upper layer one, so that it prunes at once; four nodes are one
more than a complete graph may have, so that `ExactWhileSmall` has both sides.

* `ImplementsGraph`, `GraphSound`: links lead to other existing nodes, degrees are bounded,
  the entry point is live exactly when anything is, the top layer covers all links.
* `ResultsSound`: an answer has distinct live vectors, nearest first, and is not empty
  when anything is live, whatever was deleted.
* `NearestIsLocalOptimum`: no live neighbour of the best answer is nearer.
* `ExactWhileSmall`: until more than `2M + 1` vectors have been live at once, the answer is
  exact. Beyond that HNSW is approximate, and a live vector may be out of reach.
* `ReloadExact`: a loaded graph is the saved graph.

### 5.3 The proofs

`HNSWProofs` proves all of the run's properties, for any vectors whose distances are numbers and
any `M`, `EfConstruction`, `EfSearch`, number of layers and of nodes: `GraphIsSound`,
`AnswersSound`, `BestIsLocalOptimum`, `SmallIsExact`, `LoadedIsSaved`, and with `Implements`
that every step of the algorithm is one of `HNSWGraph` or changes nothing of it.

The inductive invariant `HInv` says that the nodes are numbered in turn, that links are
distinct, lead to other nodes and are no more than allowed (`WellLinked`), that entry point and
top layer fit the live nodes (`Entered`), and that layer 0 is complete while the index is small.
It is short because an operation is one step; the work is in what that step computes, which
the lemmas follow from the inside out:

* An insertion sort keeps a list of candidates sorted, with one candidate for each
  node (`Listings`, `InsertInListing`, `SortedListing`).
* `searchLayer` is a walk in any set of live nodes that no link leaves (`Closed`). What it has
  explored is visited with its neighbours, and what it has kept is explored or waits
  (`Explored`). Each step explores one node more, so the walk finishes (`WalkFinishes`); then
  its best is as near as everything visited, and if the set is complete and not larger
  than the list, it has all of it (`WalkFinds`, `SearchLayerFinds`).
* A link adds to the new node, adds to its neighbour and prunes there (`LinkOne`). Pruning may drop
  links to dead nodes, or to the farthest, but none to a live node while the live nodes are no more
  than the bound and one (`LinksBack`).
* An insertion works down its layers (`Built`): those done are linked, those to come have no
  link to the new node, so that the other live nodes are closed there and the search for
  neighbours never meets the new node itself (`OthersClosed`, `ConnectedOf`).

The last point is what makes the refinement hold: neighbours are live, other than the
node, and there is at least one at each layer.

`HNSWGraphProofs` proves that `HNSWGraph` keeps its type and `GraphSound` by itself
(`GraphStaysSound` and its parts): links are made to live nodes only, an election takes a
node with the highest links, and heights bound the layers of links.

## 6. The catalogue and its handlers

### 6.1 The model

`Catalog` models the maps of `Engine` and `Database` and the handlers `CreateDatabase`,
`DropDatabase`, `CreateCollection`, `DropCollection`, `InsertVectors`, `EmbedAndInsert` and
`DeleteVectors`. Each handler finds its database, then its collection, changes what it
found and logs, and every one of these is a step of its own: the code holds a lock in each
and none between. A database or a collection is an object, named by the request that
created it, which the handler holds by pointer (`dbOf`, `collOf`) after it was dropped.

* `DropDatabase`, `DropCollection` close what they drop (`Close`): the vectors go, the counter
  stays. An insertion into a closed collection is refused for a wrong dimension when the
  counter is not zero (`InsertRefused`); otherwise it writes into a nil map (`InsertPanics`).
  Nothing recovers from that panic in a gRPC call, and the process ends. The HTTP gateway calls
  the same handlers behind `gin.Recovery()` (`internal/server/http/middleware.go:16`): its
  request answers an error, the deferred unlock releases `c.mu`, and the process lives.
* `CreateCollection` in a dropped database succeeds, and is logged.
* `Log`, `LogFails`: the second half, in any order; `EmbedAndInsert` ignores the error.
* `Save`, `Crash`, `Restart`: a snapshot between requests, and a recovery which replays the
  log on it with `ApplyCommand`, and ends the process at the first error.

Saves among requests are `Persistence`'s subject. The insertion of vectors is one element of a
set, and a deletion takes all: which vectors and identifiers is `Collection`'s.

`lin` is a history variable: the commands in an order in which one at a time would give what
memory holds. `causes` names why the log may replay to something else: `stale` (a command
was executed on a dropped object), `reordered` (logged before a command it should follow)
and `unlogged`.

### 6.2 The run

`catalog`: one database, one collection name, four requests of any kind, one command that
cannot be logged, one crash or panic, and an RDB file that is empty or has an empty
collection. Four requests are what it takes to drop and to create
again beside a handler that holds the old object: a creation (or an RDB file that has
the object), a drop, a second creation and the handler. Requests are symmetric.

* `NamesAreOpen`: no name leads to a closed collection.
* `Linearizable`: memory is what the commands give one after the other, those on a
  dropped object as if they had come before the drop. Handlers without a common lock are
  atomic all the same.
* `ReplayExact`, `RefusedOnlyByCause`: without a cause the log replays to memory, and
  recovery does not fail.

### 6.3 The proofs

`CatalogProofs` proves `NamesStayOpen` for any number of names and requests. `NInv` says that a
collection object has one place (`OnePlace`): the request that created it did so once, in the
database it had found, and one that has created nothing yet is nowhere (`Fresh`). So the drop
that closes it, by clearing its place or by unlinking the database of its place, leaves no
way to it (`Open`, which unlike `NamesAreOpen` also holds while the process is down).

`CommandsLinearize`, `LogReplaysExactly` and `RefusalHasCause` rest on `OInv`. The history `lin`
has a trace of catalogues, one after each command, from the RDB file to memory. A
handler that holds a dropped object adds its command before the drop, which absorbs its effect;
so the invariant says where every object is that a handler holds or a command has made
(`Held`, `Placed`), that a handler's pointer leads to what has the name now or to what a drop
in `lin` has dropped (`Fresher`), and that nothing after that drop is about the dropped object
(`Gone`). The log has a trace of its own, and the commands of `lin` that are not logged yet
lead from its end to memory; logging one of them moves it before the others, none of which
clashes with it unless the cause `reordered` is set.

## 7. Formats

`Snapshots` models what each representation carries of a database with one collection:
memory, the copy of `GetDatabaseState`, the FlatBuffers form with its JSON metadata and
its times in seconds, what parsing, `validateSnapshot`, `RestoreFromSnapshot` and
`ImportGraphState` make of it, the backups, the AOF's commands with what `createVector` and
`parseCommandArgs` leave out, and the commands of a rewrite. Requests come one at a time.
A metadata map is absent, empty or the client's, the three that the conversions tell apart;
a vector's elements are carried unchanged by all of them and are left out.

`snapshots`: two vectors, one with metadata; two configurations; a clock of four steps, two to
the second; two backups. Two vectors are a live one beside a deleted one in the same file; two
seconds are a truncated time that differs from the time, and two names for backups.

* `FilesStable`: every RDB file and backup is valid, and saving what is loaded from it gives
  the same file.
* `MetadataAgrees`: the two copies of the metadata never differ.
* `RestartKeeps`: a restart brings back memory, but for the metadata of what is in the AOF,
  which is lost, and its times, which are those of the replay; recovery is refused
  exactly when a rewritten AOF creates again what the RDB file has.
* `TimesOrdered`: creation and change times stay in order through every truncation.

`SnapshotsProofs` proves all four for any vectors, configurations, clocks and numbers of
backups. The conversions are lemmas: what is encoded and parsed is what was encoded, but for
times (`VectorsBack`, `GraphBack`, `CollectionBack`, `FileBack`), and a database that was once
restored is saved to the same file (`Kept`, `FileOf`). The invariant `SInv` says of the files
that each is the encoding of a good database. A recovery depends on when it runs, because a
replay stamps what it creates; `SInv` therefore describes the recovery at every time by the
one at time 0 (`Base`) with the stamps moved (`Retimed`), where a summary of the log
(`ContentOf`) tells which they are, and relates it to memory (`Told`). A request appends a record
to the log and has the same effect on memory and on the recovery (`RequestStep`); a
save empties the log (`SavedStep`); a rewrite without an RDB file is replayed record by record
(`RewriteAlone`), and beside one it is refused (`RewriteBeside`).

## 8. Assumptions and bounds

Assumptions on the constants are the ASSUMEs of the modules: sizes of at least two units, a
buffer of at least one, snapshots of whole records, distinct workers, batches that are not
empty, model values (`None`, `Refused`, `NoSnapshot`, `Never`) that are no records or contents, and distances that
compare as integers do. The proofs use nothing else. The last one holds for floats, infinite ones
included, but not for NaN, which the code does not reject: with a vector that has NaN for an
element, or an inner product of opposite infinities, nothing of section 5 is claimed about
the order of answers. Liveness under fairness and ENABLED cannot be proved with the provers
used, and stay with TLC.

Replays are recursive functions over a log of any length. The induction theorems of the library
take an operator as a parameter, which the provers cannot instantiate; `DataLemmas` proves
induction for sets of numbers instead (`NatSetInduction`, `UpTo`, `DownFrom`), from the fact
that a set of numbers has a smallest element. Each replay is characterised once by
two lemmas, its value on the empty sequence and on one that is longer by a record. The loops of
`HNSW` compute each value from the one before; `Iteration` shows that such a function exists
when every step leads from one given set into the next, and `Stays` that its values
are in them.

Bounds: `MaxCrashes`, `MaxEnds`, `MaxRestarts` and `MaxFaults` bound crashes, ends of the
process, restarts and failing calls in TLC's runs, `MaxId`, `MaxLog`, `MaxTime` and
`MaxBackups` identifiers, commands, the clock and backups; the theorems hold for every
value. Each request of `Persistence` and `Catalog` is sent once, each save call made once.

## 9. What is not modelled

* The audit logger, the embedding client, metrics, monitoring, the
  configuration and the command line client: nothing of the state above depends on them. The
  embedding client's rate counter is not called.
* The HTTP gateway: it translates requests into calls of the gRPC handlers, in the same process.
  The one difference it makes to the state above, that a panic of a handler ends the request and
  not the process, is in `Catalog` (`InsertPanics`); in `Persistence` such a request
  changes nothing.
* In modelled parts, what no code calls: `Collection.Compact` and with it `HNSW.Build`,
  `SetEfSearch`, `Manager.TruncateAOF`, `SaveRDB` and `LoadFromRDB`, the RDB manager's
  `Remove`; and what changes nothing: statistics, listings, memory estimates.
* `BackupManager` has no caller in the server. `Snapshots` has its backups all the same, as they
  are RDB files that its `RestoreFromBackup` puts in the place of another.
* Authentication, and the translation of requests and errors to gRPC.
* `GetDatabaseState` takes a collection's information before it looks the collection up
  again by name. A drop and a creation in between would mix two collections;
  `Catalog` saves between requests, and its collections have no configuration.

## 10. What could come next

`Catalog` with a copy that is taken name by name beside the handlers; `Compact`, should the server come to call it.

## 11. Running

`tlc -config aof_safety.cfg MCAOFLogger.tla`, and likewise for the other configurations
(`manager_*` with `MCPersistence.tla`, `collection_*` with `MCCollection.tla`, `hnsw` with
`MCHNSW.tla`, `catalog` with `MCCatalog.tla`, `snapshots` with `MCSnapshots.tla`). `tlapm`
checks the proofs: `DataLemmas.tla`, `AOFLoggerProofs.tla`, `PersistenceProofs.tla`,
`CollectionProofs.tla`, `HNSWGraphProofs.tla`, `HNSWProofs.tla`, `CatalogProofs.tla`,
`SnapshotsProofs.tla`; the longer ones take between one and ten minutes. The operators after a comment that begins "Mutant" are small changes of
the model, one for each property, that TLC refutes: they show that the property can fail.
