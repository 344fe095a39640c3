---------------------------- MODULE Persistence -----------------------------
(***************************************************************************)
(* The persistence Manager (internal/persistence/persistence.go) between   *)
(* the engine in memory and two files: the RDB snapshot and the AOF.       *)
(* Request handlers change memory and then log the change; the snapshot    *)
(* task and the Save and BgSave calls copy memory, save the copy as the    *)
(* RDB file and truncate the AOF; the rewrite task copies memory and puts  *)
(* the copy in the AOF's place; Stop closes the AOF; Recover loads the RDB *)
(* file and replays the AOF on top of it.                                  *)
(*                                                                         *)
(* Memory and files are bags: how many times the effect of each request is *)
(* in them.  Two times means vectors inserted twice or, for a request in   *)
(* Creating, a collection whose second creation is an error.               *)
(* The requests have no other effect on each other; drops and deletes are  *)
(* not modelled here.                                                      *)
(***************************************************************************)
EXTENDS Integers, Sequences, FiniteSets

CONSTANTS
    Request,        \* writing requests, each sent once
    Creating,       \* those that create a collection; the others insert
    SnapshotTask,   \* the goroutine of runRDBSnapshotTask
    RewriteTask,    \* the goroutine of runAOFRewriteTask
    SaveCalls,      \* Save calls and BgSave goroutines, one save each
    RewriteAfter,   \* commands since the last snapshot that justify a rewrite
    Strategies,     \* the AOF synchronisation strategies in use
    MaxEnds,        \* bound: crashes and exits in a behaviour
    MaxFaults       \* bound: system calls that fail in a behaviour

Savers == {SnapshotTask} \cup SaveCalls
Tasks == {SnapshotTask, RewriteTask}
Worker == Savers \cup {RewriteTask}

ASSUME RequestAssumption == Creating \subseteq Request
ASSUME WorkerAssumption ==
    /\ SnapshotTask # RewriteTask
    /\ SaveCalls \cap Tasks = {}
    /\ Worker \cap {"free", "stop"} = {}
ASSUME BoundsAssumption ==
    RewriteAfter \in Nat /\ MaxEnds \in Nat /\ MaxFaults \in Nat
ASSUME StrategyAssumption == Strategies \subseteq {"always", "everysec"}

VARIABLES
    strategy,   \* the AOF logger's synchronisation strategy
    phase,      \* "down", "serving", "stopping" (Stop has set m.stopped),
                \* "stopped" (Stop has returned), "closed" (and the engine),
                \* "refused" (Recover failed)
    mem,        \* the engine's content
    shut,       \* collections that the closing engine has stripped of their
                \* vectors and indexes
    rdb,        \* the RDB file
    rdbBare,    \* collections in it without their HNSW graphs
    base,       \* what the last rewrite put at the head of the AOF
    tail,       \* the commands appended to the AOF since
    synced,     \* how many commands of tail are durable
    aof,        \* the AOF logger's file: "open", "broken" (the Writer's error
                \* is sticky), "closed"
    pc,         \* progress of each request
    mu,         \* holder of m.mu across steps
    count,      \* m.aofCommandsSinceRDB
    dirty,      \* m.isDirty
    at,         \* progress of each worker
    snap,       \* the copy of memory each worker holds
    bare,       \* collections that were shut when each worker copied them
    ends, faults,
    \* History:
    unseen,     \* requests each worker's copy may lack: those applied since it
                \* began, all of them when the engine was closed
    settled,    \* requests that were answered with success and durable in
                \* the AOF
    overtaken,  \* requests that were unseen when a copy took the place of the
                \* RDB or the AOF
    straddled,  \* requests copied, but not logged when that file appeared
    half,       \* the last RDB file appeared and the truncation has not followed
    mixed       \* since the last truncation there was a rewrite beside an RDB
                \* file

files == <<rdb, rdbBare, base, tail, synced>>
manager == <<mu, count, dirty, aof>>
workers == <<at, snap, bare>>
ghosts == <<settled, overtaken, straddled, half, mixed>>
hist == <<unseen, ghosts>>
vars == <<strategy, phase, mem, shut, files, pc, manager, workers, ends, faults,
          hist>>

Content == [Request -> Nat]
Nothing == [r \in Request |-> 0]

InTail(r) == {i \in DOMAIN tail : tail[i] = r}

\* How often the effect of r is in memory after a recovery.
Recovered(r) == rdb[r] + base[r] + Cardinality(InTail(r))

\* Where the effect of r is.
InRdb(r) == rdb[r] > 0
InAof(r) == base[r] > 0 \/ InTail(r) # {}

InFlight(r) == pc[r] \in {"applied", "counted"}

Running == phase \in {"serving", "stopping", "stopped", "closed"}

\* A worker has begun to copy memory and its file has yet to replace the AOF.
Pending == {"copying", "copied", "renamed"}

AOF == INSTANCE DurableLog WITH
    Command <- Request, Content <- {<<>>},
    log <- tail, durable <- synced, replayed <- tail, Never <- <<>>

TypeOK ==
    /\ strategy \in Strategies
    /\ phase \in {"down", "serving", "stopping", "stopped", "closed", "refused"}
    /\ mem \in Content /\ rdb \in Content /\ base \in Content
    /\ tail \in Seq(Request) /\ synced \in 0 .. Len(tail)
    /\ aof \in {"open", "broken", "closed"} /\ rdbBare \subseteq Creating
    /\ pc \in [Request -> {"idle", "applied", "counted", "done", "failed", "gone"}]
    /\ mu \in Savers \cup {"free"}
    /\ count \in Nat /\ dirty \in BOOLEAN
    /\ at \in [Worker -> {"idle", "copying", "copied", "renamed", "saved", "ended"}]
    /\ snap \in [Worker -> Content] /\ bare \in [Worker -> SUBSET Creating]
    /\ shut \subseteq Creating
    /\ unseen \in [Worker -> SUBSET Request]
    /\ settled \subseteq Request /\ overtaken \subseteq Request
    /\ straddled \subseteq Request
    /\ half \in BOOLEAN /\ mixed \in BOOLEAN
    /\ ends \in 0 .. MaxEnds /\ faults \in 0 .. MaxFaults

\* Mutant: an early return without the unlock.
StillLocked == UNCHANGED mu

Unlock == mu' = "free"

\* Mutants: the truncation does nothing, or forgets how much was durable.
EmptyNot == UNCHANGED <<tail, base, synced>>
EmptyButSynced == tail' = <<>> /\ base' = Nothing /\ UNCHANGED synced

\* The AOF's Truncate.
Empty == AOF!DReset(<<>>) /\ base' = Nothing

\* Mutants: the rewrite has no INSERT commands, or the old commands stay.
ReplaceCreationsOnly(copy) ==
    /\ AOF!DReset(<<>>)
    /\ base' = [r \in Request |-> IF r \in Creating THEN copy[r] ELSE 0]
ReplaceBefore(copy) == base' = copy /\ UNCHANGED <<tail, synced>>

\* The AOF's Rewrite.
Replace(copy) == AOF!DReset(<<>>) /\ base' = copy

\* Mutant: the sync is forgotten.
NoSync == UNCHANGED <<tail, synced, settled>>

\* The AOF's syncToFile.
SyncAll ==
    /\ AOF!DSync(Len(tail))
    /\ settled' = settled \cup {r \in Request : InTail(r) # {}}

Fault == faults < MaxFaults /\ faults' = faults + 1

-----------------------------------------------------------------------------
(* Request handlers: engine first, then WriteAOF, then the answer.  No     *)
(* lock spans the steps, and nothing stops the handlers during Stop.       *)

\* An insertion into a collection of a closed engine panics: in a gRPC call that is
\* Crash, in a HTTP request an error, with memory as it was.
Apply(r) ==
    /\ Running /\ pc[r] = "idle"
    /\ phase = "closed" => r \in Creating
    /\ pc' = [pc EXCEPT ![r] = "applied"]
    /\ mem' = [mem EXCEPT ![r] = @ + 1]
    /\ unseen' = [w \in Worker |->
                   IF at[w] \in Pending THEN unseen[w] \cup {r} ELSE unseen[w]]
    /\ UNCHANGED <<strategy, phase, shut, files, manager, workers, ends,
                   faults, settled, overtaken, straddled, half, mixed>>

\* WriteAOF's bookkeeping, under m.mu.
Count(r) ==
    /\ Running /\ pc[r] = "applied" /\ mu = "free"
    /\ pc' = [pc EXCEPT ![r] = "counted"]
    /\ count' = count + 1
    /\ dirty' = TRUE
    /\ UNCHANGED <<strategy, phase, mem, shut, files, mu, aof, workers, ends,
                   faults, hist>>

\* The handler's answer, whatever WriteCommand did.
Answer(r, answer) ==
    /\ pc' = [pc EXCEPT ![r] = answer]
    /\ UNCHANGED <<strategy, phase, mem, shut, rdb, rdbBare, base, mu, count,
                   dirty, workers, ends, unseen, overtaken, straddled, half,
                   mixed>>

\* WriteAOF's call of WriteCommand, m.mu released: "always" syncs before it
\* returns.
Log(r) ==
    /\ Running /\ pc[r] = "counted" /\ aof = "open"
    /\ tail' = Append(tail, r)
    /\ IF strategy = "always"
       THEN synced' = Len(tail') /\ settled' = settled \cup {r}
       ELSE UNCHANGED <<synced, settled>>
    /\ Answer(r, "done")
    /\ UNCHANGED <<aof, faults>>

\* Writing fails, and breaks the Writer, or syncing fails after the write.
LogFails(r) ==
    /\ Running /\ pc[r] = "counted" /\ aof = "open"
    /\ Fault
    /\ \/ aof' = "broken" /\ UNCHANGED tail
       \/ strategy = "always" /\ tail' = Append(tail, r) /\ UNCHANGED aof
    /\ Answer(r, "failed")
    /\ UNCHANGED <<synced, settled>>

\* A broken Writer returns its error; the buffer in front of a closed file
\* takes what fits, and nothing will flush it, unless "always" tries to.
LogRefused(r) ==
    /\ Running /\ pc[r] = "counted" /\ aof # "open"
    /\ \/ Answer(r, "failed")
       \/ strategy = "everysec" /\ aof = "closed" /\ Answer(r, "done")
    /\ UNCHANGED <<tail, synced, aof, settled, faults>>

\* The logger's background sync.
Sync ==
    /\ Running /\ aof = "open" /\ strategy = "everysec"
    /\ synced < Len(tail)
    /\ SyncAll
    /\ UNCHANGED <<strategy, phase, mem, shut, rdb, rdbBare, base, pc,
                   manager, workers, ends, faults, unseen, overtaken,
                   straddled, half, mixed>>

SyncFails ==
    /\ Running /\ aof = "open" /\ strategy = "everysec"
    /\ synced < Len(tail)
    /\ Fault
    /\ aof' = "broken"
    /\ UNCHANGED <<strategy, phase, mem, shut, files, pc, mu, count, dirty,
                   workers, ends, hist>>

-----------------------------------------------------------------------------
(* Snapshots: GetDatabaseState, then SaveSnapshot under m.mu, and for the  *)
(* snapshot task a reset of the bookkeeping under m.mu again.              *)

\* The tasks look at the bookkeeping first.  Time and file sizes are not
\* modelled: thirty minutes may have passed, the AOF may be long enough.
Wanted(w) ==
    CASE w = SnapshotTask -> mu = "free" /\ dirty
      [] w = RewriteTask  -> mu = "free" /\ dirty /\ count >= RewriteAfter
      [] OTHER            -> TRUE

\* The copy is made collection by collection, and requests go on meanwhile:
\* snap is what it holds at least.  The collections of a closed engine are
\* still there, without vectors and graphs.
Copy(w) ==
    /\ Running /\ at[w] = "idle"
    /\ Wanted(w)
    /\ at' = [at EXCEPT ![w] = "copying"]
    /\ snap' = [snap EXCEPT ![w] = mem]
    /\ bare' = [bare EXCEPT ![w] = shut]
    /\ unseen' = [unseen EXCEPT ![w] = IF phase = "closed" THEN Request ELSE {}]
    /\ UNCHANGED <<strategy, phase, mem, shut, files, pc, manager, ends,
                   faults, settled, overtaken, straddled, half, mixed>>

\* Mutant: what is not logged yet is not copied.
LoggedOnly(w, seen) ==
    [r \in Request |-> IF pc[r] = "done" THEN mem[r] ELSE 0]

Seen(w, seen) == [r \in Request |-> IF r \in seen THEN mem[r] ELSE snap[w][r]]

\* Of a request applied meanwhile the copy may or may not hold the effect.
Copied(w) ==
    /\ Running /\ at[w] = "copying"
    /\ at' = [at EXCEPT ![w] = "copied"]
    /\ \E seen \in SUBSET unseen[w] : snap' = [snap EXCEPT ![w] = Seen(w, seen)]
    /\ UNCHANGED <<strategy, phase, mem, shut, files, pc, manager, bare,
                   ends, faults, hist>>

\* The requests in w's copy that are not logged yet.
Unlogged(w) == {r \in Request : InFlight(r) /\ snap[w][r] > 0}

\* SaveSnapshot, first half: the temporary file takes the RDB file's place.
Rename(w) ==
    /\ Running /\ w \in Savers /\ at[w] = "copied" /\ mu = "free"
    /\ mu' = w
    /\ rdb' = snap[w]
    /\ rdbBare' = bare[w]
    /\ at' = [at EXCEPT ![w] = "renamed"]
    /\ overtaken' = overtaken \cup unseen[w]
    /\ half' = TRUE
    /\ UNCHANGED <<strategy, phase, mem, shut, base, tail, synced, pc, count,
                   dirty, aof, snap, bare, ends, faults, unseen, settled,
                   straddled, mixed>>

\* The copy is dropped.
Finish(w, next) ==
    /\ at' = [at EXCEPT ![w] = next]
    /\ snap' = [snap EXCEPT ![w] = Nothing] /\ bare' = [bare EXCEPT ![w] = {}]
    /\ unseen' = [unseen EXCEPT ![w] = {}]

\* After it a task waits for its next round, and a call is over.
Over(w) == IF w \in Tasks THEN "idle" ELSE "ended"

\* Mutant: SaveSnapshot goes on to truncate whatever Save returned.
SaveErrorDropped(w) ==
    /\ mu' = w
    /\ at' = [at EXCEPT ![w] = "renamed"]
    /\ UNCHANGED <<snap, bare, unseen>>

\* SaveSnapshot returns Save's error.
SaveErrorReturned(w) == Finish(w, Over(w)) /\ UNCHANGED mu

\* Saving the RDB file fails: nothing has changed.
RenameFails(w) ==
    /\ Running /\ w \in Savers /\ at[w] = "copied" /\ mu = "free"
    /\ Fault
    /\ SaveErrorReturned(w)
    /\ UNCHANGED <<strategy, phase, mem, shut, files, pc, count, dirty, aof,
                   ends, ghosts>>

\* SaveSnapshot, second half: the AOF is emptied.
Truncate(w) ==
    /\ Running /\ mu = w /\ at[w] = "renamed" /\ aof # "closed"
    /\ Empty
    /\ aof' = "open"
    /\ Unlock
    /\ Finish(w, IF w = SnapshotTask THEN "saved" ELSE Over(w))
    /\ overtaken' = overtaken \cup unseen[w]
    /\ straddled' = straddled \cup Unlogged(w)
    /\ half' = FALSE /\ mixed' = FALSE
    /\ UNCHANGED <<strategy, phase, mem, shut, rdb, rdbBare, pc, count,
                   dirty, ends, faults, settled>>

\* The truncation fails, as it does once the AOF is closed, and leaves the
\* logger without an open file.
TruncateFails(w) ==
    /\ Running /\ mu = w /\ at[w] = "renamed"
    /\ IF aof # "closed" THEN Fault ELSE UNCHANGED faults
    /\ aof' = "closed"
    /\ Unlock
    /\ Finish(w, Over(w))
    /\ UNCHANGED <<strategy, phase, mem, shut, files, pc, count, dirty, ends,
                   ghosts>>

\* The snapshot task's reset.
ResetCounters ==
    /\ Running /\ at[SnapshotTask] = "saved" /\ mu = "free"
    /\ count' = 0
    /\ dirty' = FALSE
    /\ at' = [at EXCEPT ![SnapshotTask] = "idle"]
    /\ UNCHANGED <<strategy, phase, mem, shut, files, pc, mu, aof, snap,
                   bare, ends, faults, hist>>

-----------------------------------------------------------------------------
(* RewriteAOF, under m.mu and the logger's own lock.                       *)

Rewrite ==
    /\ Running /\ at[RewriteTask] = "copied" /\ mu = "free" /\ aof = "open"
    /\ Replace(snap[RewriteTask])
    /\ Finish(RewriteTask, "idle")
    /\ overtaken' = overtaken \cup unseen[RewriteTask]
    /\ straddled' = straddled \cup Unlogged(RewriteTask)
    /\ mixed' = (mixed \/ rdb # Nothing)
    /\ \/ UNCHANGED <<aof, faults>>
       \/ Fault /\ aof' = "closed"    \* the new file cannot be reopened
    /\ UNCHANGED <<strategy, phase, mem, shut, rdb, rdbBare, pc, mu, count,
                   dirty, ends, settled, half>>

\* It fails before anything is changed, as it does with a Writer that is broken
\* or in front of a closed file, and may do once main has cancelled the context
\* and called Stop; or by the final sync, which breaks the Writer; or by the
\* rename, with the logger's file closed.
RewriteFails ==
    /\ Running /\ at[RewriteTask] = "copied" /\ mu = "free"
    /\ \/ (aof # "open" \/ phase # "serving") /\ UNCHANGED <<faults, aof>>
       \/ aof = "open" /\ Fault /\ aof' \in {"open", "broken", "closed"}
    /\ Finish(RewriteTask, "idle")
    /\ UNCHANGED <<strategy, phase, mem, shut, files, pc, mu, count, dirty,
                   ends, ghosts>>

-----------------------------------------------------------------------------
(* Stop, the end of the process, and recovery.                             *)

\* Mutant: m.mu is kept while the tasks are waited for.
WaitLocked == mu' = "stop"

\* taskWG.Wait, outside of the lock.
WaitUnlocked == UNCHANGED mu

Stop ==
    /\ phase = "serving" /\ mu = "free"
    /\ phase' = "stopping"
    /\ WaitUnlocked
    /\ UNCHANGED <<strategy, mem, shut, files, pc, count, dirty, aof,
                   workers, ends, faults, hist>>

\* A task between two rounds sees the closed channel.
EndTask(w) ==
    /\ phase = "stopping" /\ w \in Tasks /\ at[w] = "idle"
    /\ at' = [at EXCEPT ![w] = "ended"]
    /\ UNCHANGED <<strategy, phase, mem, shut, files, pc, manager, snap,
                   bare, ends, faults, hist>>

\* Both tasks have ended; m.mu is taken; the logger syncs and closes.
Close ==
    /\ phase = "stopping" /\ mu = "free"
    /\ \A w \in Tasks : at[w] = "ended"
    /\ phase' = "stopped"
    /\ aof' = "closed"
    /\ \/ aof = "open" /\ SyncAll /\ UNCHANGED faults
       \/ aof = "open" /\ Fault /\ UNCHANGED <<tail, synced, settled>>
       \/ aof # "open" /\ UNCHANGED <<tail, synced, settled, faults>>
    /\ UNCHANGED <<strategy, mem, shut, rdb, rdbBare, base, pc, mu, count,
                   dirty, workers, ends, unseen, overtaken, straddled, half,
                   mixed>>

\* Server.Stop goes on to close the engine, which waits for copies under way:
\* the collections lose their vectors and indexes.
CloseEngine ==
    /\ phase = "stopped"
    /\ \A w \in Worker : at[w] # "copying"
    /\ phase' = "closed"
    /\ mem' = [r \in Request |-> IF r \in Creating THEN mem[r] ELSE 0]
    /\ shut' = {r \in Creating : mem[r] > 0}
    /\ UNCHANGED <<strategy, files, pc, manager, workers, ends, faults, hist>>

\* What ends with the process; the AOF keeps at least its durable part.
Halt ==
    /\ ends < MaxEnds /\ ends' = ends + 1
    /\ phase' = "down"
    /\ mem' = Nothing /\ shut' = {}
    /\ \E n \in 0 .. Len(tail) : AOF!DCrash(n)
    /\ pc' = [r \in Request |-> IF InFlight(r) THEN "gone" ELSE pc[r]]
    /\ mu' = "free" /\ count' = 0 /\ dirty' = FALSE /\ aof' = "closed"
    /\ at' = [w \in Worker |-> "idle"]
    /\ snap' = [w \in Worker |-> Nothing] /\ bare' = [w \in Worker |-> {}]
    /\ unseen' = [w \in Worker |-> {}]
    /\ UNCHANGED <<strategy, rdb, rdbBare, base, ghosts, faults>>

\* main returns after Stop, or when Stop could not close the AOF, whatever
\* handlers and save calls are doing.
Exit ==
    /\ phase \in {"stopped", "closed"}
    /\ Halt

Crash ==
    /\ Running
    /\ Halt

\* Start: the background tasks, which find nothing dirty yet, and then Recover,
\* before any request is served.  When it fails main ends.
Loadable == rdbBare = {} /\ \A r \in Creating : Recovered(r) <= 1

Recover ==
    /\ phase = "down"
    /\ IF Loadable
       THEN /\ phase' = "serving"
            /\ mem' = [r \in Request |-> Recovered(r)]
            /\ aof' = "open"
       ELSE phase' = "refused" /\ UNCHANGED <<mem, aof>>
    /\ UNCHANGED <<strategy, shut, files, pc, mu, count, dirty, workers,
                   ends, faults, hist>>

-----------------------------------------------------------------------------
Init ==
    /\ strategy \in Strategies
    /\ phase = "down" /\ mem = Nothing /\ shut = {}
    /\ rdb = Nothing /\ rdbBare = {} /\ base = Nothing /\ tail = <<>> /\ synced = 0
    /\ aof = "closed"
    /\ pc = [r \in Request |-> "idle"]
    /\ mu = "free" /\ count = 0 /\ dirty = FALSE
    /\ at = [w \in Worker |-> "idle"]
    /\ snap = [w \in Worker |-> Nothing] /\ bare = [w \in Worker |-> {}]
    /\ unseen = [w \in Worker |-> {}]
    /\ settled = {} /\ overtaken = {} /\ straddled = {}
    /\ half = FALSE /\ mixed = FALSE
    /\ ends = 0 /\ faults = 0

Handle(r) == Apply(r) \/ Count(r) \/ Log(r) \/ LogFails(r) \/ LogRefused(r)

Save(w) ==
    \/ Copy(w) \/ Copied(w)
    \/ Rename(w) \/ RenameFails(w)
    \/ Truncate(w) \/ TruncateFails(w)
    \/ EndTask(w)

Next ==
    \/ \E r \in Request : Handle(r)
    \/ \E w \in Worker : Save(w)
    \/ Sync \/ SyncFails \/ ResetCounters
    \/ Rewrite \/ RewriteFails
    \/ Stop \/ Close \/ CloseEngine \/ Exit \/ Crash \/ Recover

Spec == Init /\ [][Next]_vars

\* Handlers and goroutines are scheduled, and m.mu, whose starvation mode
\* hands it to whoever waits longest, is granted.  An ended round of a task
\* sees the closed channel before it starts ever more rounds.
Fairness ==
    /\ \A r \in Request : SF_vars(Count(r)) /\ WF_vars(Log(r) \/ LogRefused(r))
    /\ \A w \in Worker :
          /\ WF_vars(Copied(w))
          /\ SF_vars(Rename(w))
          /\ WF_vars(Truncate(w) \/ TruncateFails(w))
          /\ SF_vars(EndTask(w))
    /\ SF_vars(ResetCounters)
    /\ SF_vars(Rewrite \/ RewriteFails)
    /\ SF_vars(Close)

LiveSpec == Spec /\ Fairness

-----------------------------------------------------------------------------
(* Properties                                                              *)

\* SaveSnapshot and RewriteAOF never lose a command that was durable, except
\* one that the copy they publish could not have: it was applied after the
\* worker had begun to copy, or the engine was closed.
SettledRecoverable ==
    \A r \in settled : Recovered(r) > 0 \/ r \in overtaken

\* The effect of a request is in two places at once, so that a recovery would
\* repeat it, only after an RDB file appeared without the truncation (a crash
\* or a failure in between, or right now), after a rewrite beside an RDB file,
\* or when the request was copied before it was logged.
OverlapOnlyInWindows ==
    \A r \in Request :
        \/ half \/ mixed \/ r \in straddled
        \/ ~InRdb(r) /\ (base[r] = 0 \/ InTail(r) = {})
        \/ InRdb(r) /\ ~InAof(r)

\* The RDB file and AOF hold exactly what memory holds after a save during
\* which no request was applied.
QuietSaveExact ==
    [][\A w \in Savers :
          at[w] = "renamed" /\ at'[w] # "renamed" /\ ~half' /\ unseen[w] = {} =>
              \A r \in Request : Recovered(r)' = mem[r]]_vars

\* Without a crash or a failed call, Stop leaves every answered request's
\* effect durable in the files, whatever was buffered and whatever the tasks
\* were saving when it came, unless a save overtook the request.
CleanStopKeeps ==
    [][phase = "stopping" /\ phase' = "stopped" /\ ends = 0 /\ faults' = 0 =>
          /\ synced' = Len(tail')
          /\ \A r \in Request :
                pc[r] = "done" => Recovered(r)' > 0 \/ r \in overtaken]_vars

\* Stop ends: it waits for the tasks without holding m.mu, which they need
\* to finish their round.
StopEnds == phase = "stopping" ~> phase # "stopping"

\* Every request that has changed memory is answered, while the process lives.
RequestsAnswered ==
    \A r \in Request : pc[r] = "applied" ~> ~InFlight(r)

\* "RDB snapshot now contains all current data" (persistence.go:345): as long
\* as the server runs, a durable command is not lost by a save or a rewrite.
SnapshotHasAll == phase = "serving" => \A r \in settled : Recovered(r) > 0

\* "truncate the AOF file to avoid replay conflicts" (persistence.go:346).
NoReplayConflict == phase # "refused"
=============================================================================
