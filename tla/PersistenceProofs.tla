------------------------- MODULE PersistenceProofs --------------------------
(***************************************************************************)
(* Proofs about Persistence, for any number of requests and save calls:    *)
(* type correctness, that durable commands stay recoverable, that an       *)
(* effect is in the RDB file and in the AOF at once only in the windows    *)
(* named by OverlapOnlyInWindows, and that a Stop without a failing call   *)
(* loses nothing that was answered.                                        *)
(***************************************************************************)
EXTENDS Persistence, FiniteSetTheorems, TLAPS

-----------------------------------------------------------------------------
(* The inductive invariant.                                                *)

\* The engine still holds everything it ever held in this life.
Intact == phase \in {"serving", "stopping", "stopped"}

\* The effect of r is somewhere.
Known(r) ==
    \/ mem[r] > 0 \/ InRdb(r) \/ InAof(r) \/ InFlight(r)
    \/ \E w \in Worker : snap[w][r] > 0

\* Nothing outlives the process but the files.
QuietWhenDown ==
    ~Running => /\ \A w \in Worker : at[w] = "idle" /\ snap[w] = Nothing
                /\ \A r \in Request : ~InFlight(r)

ClosedLog == phase \in {"stopped", "closed"} => aof = "closed"

\* Nothing is known elsewhere that memory does not hold.
MemoryAhead == Intact => \A r \in Request : Known(r) => mem[r] > 0

\* A copy under way holds everything known except what it may lack.
CopiesCover ==
    \A w \in Worker : at[w] \in Pending =>
        \A r \in Request \ unseen[w] : Known(r) => snap[w][r] > 0

\* A copy that lacks nothing is a copy of memory as it is.
QuietCopy ==
    Intact => \A w \in Worker : at[w] \in Pending /\ unseen[w] = {} => snap[w] = mem

\* A saver between its two halves holds m.mu, and the RDB file is its copy.
SaveLocked ==
    \A w \in Worker : at[w] = "renamed" => mu = w /\ rdb = snap[w] /\ half

\* A settled request is in the durable part of a file, or was overtaken.
SettledSafe ==
    \A r \in settled :
        \/ r \in overtaken \/ InRdb(r) \/ base[r] > 0
        \/ \E i \in 1 .. synced : tail[i] = r

Unborn == \A r \in Request : pc[r] = "idle" => ~Known(r)

\* A request that is not logged yet is not in the AOF, and is in the RDB file
\* only in one of the windows.
LoggedOnce ==
    \A r \in Request : InFlight(r) =>
        /\ InTail(r) = {}
        /\ r \in straddled \/ base[r] = 0
        /\ r \in straddled \/ half \/ rdb[r] = 0

IInv ==
    /\ TypeOK /\ QuietWhenDown /\ ClosedLog /\ MemoryAhead /\ CopiesCover /\ QuietCopy
    /\ SaveLocked /\ SettledSafe /\ Unborn /\ LoggedOnce /\ OverlapOnlyInWindows

-----------------------------------------------------------------------------
(* Lemmas.                                                                 *)

\* What a recovery would put in memory: a number, positive exactly when the
\* effect is in one of the files.
LEMMA RecoveredPositive ==
    ASSUME TypeOK, NEW r \in Request
    PROVE  /\ Recovered(r) \in Nat
           /\ Recovered(r) > 0 <=> InRdb(r) \/ InAof(r)
  <1>1. rdb[r] \in Nat /\ base[r] \in Nat
    BY DEF TypeOK, Content
  <1>2. IsFiniteSet(InTail(r))
    <2>1. Len(tail) \in Nat /\ DOMAIN tail = 1 .. Len(tail)
      BY DEF TypeOK
    <2>2. IsFiniteSet(1 .. Len(tail))
      BY <2>1, FS_Interval
    <2> QED BY <2>1, <2>2, FS_Subset DEF InTail
  <1>3. Cardinality(InTail(r)) \in Nat /\ (Cardinality(InTail(r)) = 0 <=> InTail(r) = {})
    BY <1>2, FS_CardinalityType, FS_EmptySet
  <1> QED BY <1>1, <1>3 DEF Recovered, InRdb, InAof

\* After an append, the new command is in the tail and no other has joined it.
LEMMA TailAppended ==
    ASSUME TypeOK, NEW c \in Request, tail' = Append(tail, c), NEW r \in Request
    PROVE  InTail(r)' # {} <=> r = c \/ InTail(r) # {}
  <1>1. tail \in Seq(Request) /\ Len(tail) \in Nat /\ Len(tail') = Len(tail) + 1
        /\ DOMAIN tail = 1 .. Len(tail) /\ DOMAIN tail' = 1 .. Len(tail) + 1
    BY DEF TypeOK
  <1>2. tail'[Len(tail) + 1] = c /\ \A i \in 1 .. Len(tail) : tail'[i] = tail[i]
    BY DEF TypeOK
  <1> QED BY <1>1, <1>2 DEF InTail

\* What is in the first part of the tail was in the tail.
LEMMA TailCut ==
    ASSUME TypeOK, NEW n \in 0 .. Len(tail), tail' = SubSeq(tail, 1, n),
           NEW r \in Request
    PROVE  InTail(r)' # {} => InTail(r) # {}
  <1>1. tail \in Seq(Request) /\ Len(tail) \in Nat /\ n \in Nat
        /\ DOMAIN tail = 1 .. Len(tail) /\ DOMAIN tail' = 1 .. n
    BY DEF TypeOK
  <1>2. \A i \in 1 .. n : tail'[i] = tail[i] /\ i \in 1 .. Len(tail)
    BY <1>1
  <1> QED BY <1>1, <1>2 DEF InTail

\* A bag is what a Nothing, an increment or another bag leaves it.
LEMMA BagType ==
    /\ Nothing \in Content
    /\ \A b \in Content, r \in Request : [b EXCEPT ![r] = @ + 1] \in Content
  BY DEF Nothing, Content

-----------------------------------------------------------------------------
(* Type correctness.                                                       *)

\* Steps of request handlers.
LEMMA HandleType ==
    ASSUME TypeOK, NEW r \in Request, Handle(r)
    PROVE  TypeOK'
  <1>1. CASE Apply(r)
    <2>1. mem' \in Content
      BY <1>1, BagType DEF Apply, TypeOK
    <2>2. unseen' \in [Worker -> SUBSET Request]
      BY <1>1 DEF Apply, TypeOK
    <2>3. pc' \in [Request -> {"idle", "applied", "counted", "done", "failed", "gone"}]
      BY <1>1 DEF Apply, TypeOK
    <2> QED BY <1>1, <2>1, <2>2, <2>3 DEF Apply, TypeOK, files, manager, workers
  <1>2. CASE Count(r)
    <2>1. count' \in Nat
      BY <1>2 DEF Count, TypeOK
    <2> QED BY <1>2, <2>1 DEF Count, TypeOK, files, workers, hist, ghosts
  <1>3. CASE Log(r)
    <2>1. tail' \in Seq(Request) /\ Len(tail') = Len(tail) + 1 /\ synced' \in 0 .. Len(tail')
      BY <1>3 DEF Log, TypeOK
    <2> QED BY <1>3, <2>1 DEF Log, Answer, TypeOK, workers
  <1>4. CASE LogFails(r)
    <2>1. tail' \in Seq(Request) /\ synced' \in 0 .. Len(tail')
      BY <1>4 DEF LogFails, TypeOK
    <2>2. faults' \in 0 .. MaxFaults
      BY <1>4, BoundsAssumption DEF LogFails, Fault, TypeOK
    <2> QED BY <1>4, <2>1, <2>2 DEF LogFails, Answer, TypeOK, workers
  <1>5. CASE LogRefused(r)
    BY <1>5 DEF LogRefused, Answer, TypeOK, workers
  <1> QED BY <1>1, <1>2, <1>3, <1>4, <1>5 DEF Handle

LEMMA OverType == ASSUME NEW w PROVE Over(w) \in {"idle", "ended"}
BY DEF Over

\* A worker that drops its copy.
LEMMA FinishType ==
    ASSUME TypeOK, NEW w \in Worker, NEW next \in {"idle", "saved", "ended"}, Finish(w, next)
    PROVE  /\ at' \in [Worker -> {"idle", "copying", "copied", "renamed", "saved", "ended"}]
           /\ snap' \in [Worker -> Content] /\ bare' \in [Worker -> SUBSET Creating]
           /\ unseen' \in [Worker -> SUBSET Request]
  BY BagType DEF Finish, TypeOK

\* Steps of the savers and of the rewrite task up to its rewrite.
LEMMA SaveType ==
    ASSUME TypeOK, NEW w \in Worker, Save(w)
    PROVE  TypeOK'
  <1>1. CASE Copy(w)
    <2>1. /\ snap' \in [Worker -> Content] /\ bare' \in [Worker -> SUBSET Creating]
          /\ unseen' \in [Worker -> SUBSET Request]
          /\ at' \in [Worker -> {"idle", "copying", "copied", "renamed", "saved", "ended"}]
      BY <1>1 DEF Copy, TypeOK
    <2> QED BY <1>1, <2>1 DEF Copy, TypeOK, files, manager
  <1>2. CASE Copied(w)
    <2>1. \A seen \in SUBSET unseen[w] : Seen(w, seen) \in Content
      BY DEF Seen, Content, TypeOK
    <2>2. snap' \in [Worker -> Content]
      BY <1>2, <2>1 DEF Copied, TypeOK
    <2> QED BY <1>2, <2>2 DEF Copied, TypeOK, files, manager, hist, ghosts
  <1>3. CASE Rename(w)
    <2>1. rdb' \in Content /\ rdbBare' \subseteq Creating /\ overtaken' \subseteq Request
          /\ mu' \in Savers
      BY <1>3 DEF Rename, TypeOK
    <2> QED BY <1>3, <2>1 DEF Rename, TypeOK
  <1>4. CASE RenameFails(w)
    <2>1. faults' \in 0 .. MaxFaults
      BY <1>4, BoundsAssumption DEF RenameFails, Fault, TypeOK
    <2>2. Finish(w, Over(w)) /\ UNCHANGED mu
      BY <1>4 DEF RenameFails, SaveErrorReturned
    <2> QED BY <1>4, <2>1, <2>2, OverType, FinishType DEF RenameFails, TypeOK, files, ghosts
  <1>5. CASE Truncate(w)
    <2>1. /\ tail' \in Seq(Request) /\ synced' \in 0 .. Len(tail')
          /\ base' \in Content
      BY <1>5, BagType DEF Truncate, Empty, AOF!DReset
    <2>2. PICK next \in {"idle", "saved", "ended"} : Finish(w, next)
      BY <1>5, OverType DEF Truncate
    <2>3. overtaken' \subseteq Request /\ straddled' \subseteq Request
      BY <1>5 DEF Truncate, Unlogged, TypeOK
    <2>4. mu' = "free" /\ aof' = "open"
      BY <1>5 DEF Truncate, Unlock
    <2>5. /\ at' \in [Worker -> {"idle", "copying", "copied", "renamed", "saved", "ended"}]
          /\ snap' \in [Worker -> Content] /\ bare' \in [Worker -> SUBSET Creating]
          /\ unseen' \in [Worker -> SUBSET Request]
      BY <2>2, FinishType
    <2>6. /\ half' = FALSE /\ mixed' = FALSE
          /\ UNCHANGED <<strategy, phase, mem, shut, rdb, rdbBare, pc, count, dirty,
                         ends, faults, settled>>
      BY <1>5 DEF Truncate
    <2> QED BY <2>1, <2>3, <2>4, <2>5, <2>6 DEF TypeOK
  <1>6. CASE TruncateFails(w)
    <2>1. faults' \in 0 .. MaxFaults
      BY <1>6, BoundsAssumption DEF TruncateFails, Fault, TypeOK
    <2>2. Finish(w, Over(w)) /\ mu' = "free"
      BY <1>6 DEF TruncateFails, Unlock
    <2> QED BY <1>6, <2>1, <2>2, OverType, FinishType DEF TruncateFails, TypeOK, files, ghosts
  <1>7. CASE EndTask(w)
    BY <1>7 DEF EndTask, TypeOK, files, manager, hist, ghosts
  <1> QED BY <1>1, <1>2, <1>3, <1>4, <1>5, <1>6, <1>7 DEF Save

\* A sync makes the whole tail durable and changes none of it.
LEMMA SyncAllType ==
    ASSUME TypeOK, SyncAll
    PROVE  tail' = tail /\ synced' = Len(tail) /\ settled' \subseteq Request
           /\ synced' \in 0 .. Len(tail')
  BY DEF SyncAll, AOF!DSync, TypeOK

\* The end of the process.
LEMMA HaltType ==
    ASSUME TypeOK, Halt
    PROVE  TypeOK'
  <1>1. tail' \in Seq(Request) /\ synced' \in 0 .. Len(tail')
    BY DEF Halt, AOF!DCrash, TypeOK
  <1>2. ends' \in 0 .. MaxEnds
    BY BoundsAssumption DEF Halt, TypeOK
  <1>3. mem' \in Content /\ snap' \in [Worker -> Content]
    BY BagType DEF Halt
  <1>4. pc' \in [Request -> {"idle", "applied", "counted", "done", "failed", "gone"}]
    BY DEF Halt, TypeOK
  <1> QED BY <1>1, <1>2, <1>3, <1>4 DEF Halt, TypeOK, ghosts

\* Steps of the logger, the rewrite, Stop, and the process.
LEMMA OtherType ==
    ASSUME TypeOK,
           Sync \/ SyncFails \/ ResetCounters \/ Rewrite \/ RewriteFails \/ Stop
           \/ Close \/ CloseEngine \/ Exit \/ Crash \/ Recover
    PROVE  TypeOK'
  <1>1. CASE Sync
    BY <1>1, SyncAllType DEF Sync, TypeOK, manager, workers
  <1>2. CASE SyncFails
    <2>1. faults' \in 0 .. MaxFaults
      BY <1>2, BoundsAssumption DEF SyncFails, Fault, TypeOK
    <2> QED BY <1>2, <2>1 DEF SyncFails, TypeOK, files, workers, hist, ghosts
  <1>3. CASE ResetCounters
    BY <1>3 DEF ResetCounters, TypeOK, files, workers, hist, ghosts
  <1>4. CASE Rewrite
    <2>1. RewriteTask \in Worker
      BY DEF Worker
    <2>2. tail' = <<>> /\ synced' = 0 /\ base' \in Content
      BY <1>4, <2>1 DEF Rewrite, Replace, AOF!DReset, TypeOK
    <2>3. Finish(RewriteTask, "idle")
      BY <1>4 DEF Rewrite
    <2>4. /\ overtaken' \subseteq Request /\ straddled' \subseteq Request
          /\ mixed' \in BOOLEAN
      BY <1>4, <2>1 DEF Rewrite, Unlogged, TypeOK
    <2>5. aof' \in {"open", "closed"} /\ faults' \in 0 .. MaxFaults
      BY <1>4, BoundsAssumption DEF Rewrite, Fault, TypeOK
    <2> QED BY <1>4, <2>1, <2>2, <2>3, <2>4, <2>5, FinishType DEF Rewrite, TypeOK
  <1>5. CASE RewriteFails
    <2>1. RewriteTask \in Worker
      BY DEF Worker
    <2>2. faults' \in 0 .. MaxFaults /\ aof' \in {"open", "broken", "closed"}
      BY <1>5, BoundsAssumption DEF RewriteFails, Fault, TypeOK
    <2>3. Finish(RewriteTask, "idle")
      BY <1>5 DEF RewriteFails
    <2> QED BY <1>5, <2>1, <2>2, <2>3, FinishType DEF RewriteFails, TypeOK, files, ghosts
  <1>6. CASE Stop
    BY <1>6 DEF Stop, WaitUnlocked, TypeOK, files, workers, hist, ghosts
  <1>7. CASE Close
    <2>1. /\ tail' = tail /\ synced' \in 0 .. Len(tail') /\ settled' \subseteq Request
          /\ faults' \in 0 .. MaxFaults
      BY <1>7, SyncAllType, BoundsAssumption DEF Close, Fault, TypeOK
    <2> QED BY <1>7, <2>1 DEF Close, TypeOK, workers
  <1>8. CASE CloseEngine
    <2>1. mem' \in Content /\ shut' \subseteq Creating
      BY <1>8 DEF CloseEngine, Content, TypeOK
    <2> QED BY <1>8, <2>1 DEF CloseEngine, TypeOK, files, manager, workers, hist, ghosts
  <1>9. CASE Exit \/ Crash
    BY <1>9, HaltType DEF Exit, Crash
  <1>10. CASE Recover
    <2>1. mem' \in Content
      BY <1>10, RecoveredPositive DEF Recover, Content, TypeOK
    <2> QED BY <1>10, <2>1 DEF Recover, TypeOK, files, workers, hist, ghosts
  <1> QED BY <1>1, <1>2, <1>3, <1>4, <1>5, <1>6, <1>7, <1>8, <1>9, <1>10

\* The first start, on empty files.
LEMMA InitType ==
    ASSUME Init
    PROVE  TypeOK
  <1>1. tail \in Seq(Request) /\ synced \in 0 .. Len(tail)
    BY DEF Init
  <1>2. ends \in 0 .. MaxEnds /\ faults \in 0 .. MaxFaults /\ count \in Nat
    BY BoundsAssumption DEF Init
  <1>3. mem \in Content /\ rdb \in Content /\ base \in Content /\ snap \in [Worker -> Content]
    BY BagType DEF Init
  <1> QED BY <1>1, <1>2, <1>3 DEF Init, TypeOK

\* Every step keeps the types.
LEMMA NextType ==
    ASSUME TypeOK, [Next]_vars
    PROVE  TypeOK'
  <1>1. CASE Next
    BY <1>1, HandleType, SaveType, OtherType DEF Next
  <1>2. CASE UNCHANGED vars
    BY <1>2 DEF vars, TypeOK, files, manager, workers, hist, ghosts
  <1> QED BY <1>1, <1>2

\* Every variable keeps its type.
THEOREM ManagerTypeCorrect == Spec => []TypeOK
  <1>1. Init => TypeOK
    BY InitType
  <1>2. TypeOK /\ [Next]_vars => TypeOK'
    BY NextType
  <1> QED BY <1>1, <1>2, PTL DEF Spec

-----------------------------------------------------------------------------
(* Durable commands stay recoverable, and overlaps keep to their windows.  *)

\* No saver is between its halves while m.mu is free.
LEMMA FreeLock ==
    ASSUME SaveLocked, mu = "free", NEW w \in Worker
    PROVE  at[w] # "renamed"
  BY WorkerAssumption DEF SaveLocked

\* A settled request that was not overtaken is in the RDB file or the AOF.
LEMMA SettledKnown ==
    ASSUME TypeOK, SettledSafe, NEW r \in settled, r \notin overtaken
    PROVE  InRdb(r) \/ InAof(r)
  <1>1. r \in Request /\ base[r] \in Nat
    BY DEF TypeOK, Content
  <1>2. CASE \E i \in 1 .. synced : tail[i] = r
    <2>1. PICK i \in 1 .. synced : tail[i] = r
      BY <1>2
    <2>2. i \in DOMAIN tail
      BY <2>1 DEF TypeOK
    <2> QED BY <2>1, <2>2 DEF InTail, InAof
  <1> QED BY <1>1, <1>2 DEF SettledSafe, InRdb, InAof

\* Bookkeeping, answers and failures: the files and memory stay, and a worker
\* goes on or gives up.
CalmStep ==
    /\ UNCHANGED <<mem, rdb, base, tail, synced, settled, overtaken, straddled, half, mixed>>
    /\ Running'
    /\ Intact' => Intact
    /\ ClosedLog'
    /\ \A w \in Worker : at'[w] \in Pending =>
          at[w] \in Pending /\ unseen'[w] = unseen[w] /\ snap'[w] = snap[w]
    /\ \A w \in Worker : at'[w] = "renamed" => at[w] = "renamed" /\ mu' = mu
    /\ \A w \in Worker : snap'[w] \in {snap[w], Nothing}
    /\ \A r \in Request : /\ pc'[r] = "idle" => pc[r] = "idle"
                          /\ InFlight(r)' => InFlight(r)

\* A calm step keeps the inductive invariant.
LEMMA CalmStepIInv ==
    ASSUME IInv, CalmStep, TypeOK'
    PROVE  IInv'
  <1> USE DEF CalmStep
  <1>1. ASSUME NEW r \in Request
        PROVE  /\ InRdb(r)' <=> InRdb(r)
               /\ InAof(r)' <=> InAof(r)
               /\ InTail(r)' = InTail(r)
               /\ Known(r)' => Known(r)
    <2>1. InRdb(r)' = InRdb(r) /\ InTail(r)' = InTail(r) /\ InAof(r)' = InAof(r)
      BY DEF InRdb, InAof, InTail
    <2>2. Nothing[r] = 0
      BY DEF Nothing
    <2>3. \A w \in Worker : snap'[w][r] > 0 => snap[w][r] > 0
      BY <2>2
    <2> QED BY <2>1, <2>3 DEF Known
  <1>2. QuietWhenDown' /\ ClosedLog'
    BY DEF QuietWhenDown
  <1>3. MemoryAhead'
    BY <1>1 DEF IInv, MemoryAhead
  <1>4. CopiesCover'
    BY <1>1 DEF IInv, CopiesCover
  <1>5. QuietCopy'
    BY DEF IInv, QuietCopy
  <1>6. SaveLocked'
    BY DEF IInv, SaveLocked, Pending
  <1>7. SettledSafe' /\ Unborn'
    BY <1>1 DEF IInv, SettledSafe, Unborn, InRdb
  <1>8. LoggedOnce'
    BY <1>1 DEF IInv, LoggedOnce
  <1>9. OverlapOnlyInWindows'
    BY <1>1 DEF IInv, OverlapOnlyInWindows
  <1> QED BY <1>2, <1>3, <1>4, <1>5, <1>6, <1>7, <1>8, <1>9 DEF IInv

\* The effect of a request appears in memory, and in what copies may lack.
LEMMA ApplyIInv ==
    ASSUME IInv, NEW r \in Request, Apply(r), TypeOK'
    PROVE  IInv'
  <1>0. /\ UNCHANGED <<phase, rdb, base, tail, synced, aof, mu, at, snap, settled,
                        overtaken, straddled, half, mixed>>
        /\ Running /\ Running' /\ (Intact' <=> Intact)
        /\ pc[r] = "idle" /\ pc' = [pc EXCEPT ![r] = "applied"]
        /\ mem' = [mem EXCEPT ![r] = @ + 1]
        /\ \A w \in Worker : at[w] \in Pending => unseen'[w] = unseen[w] \cup {r}
    BY DEF Apply, files, manager, workers, Running, Intact
  <1>1. ASSUME NEW q \in Request
        PROVE  /\ InRdb(q)' = InRdb(q) /\ InAof(q)' = InAof(q) /\ InTail(q)' = InTail(q)
               /\ mem[q] \in Nat /\ mem'[q] = (IF q = r THEN mem[q] + 1 ELSE mem[q])
               /\ q # r => /\ pc'[q] = pc[q] /\ (InFlight(q)' <=> InFlight(q))
                           /\ (Known(q)' => Known(q))
    <2>1. InRdb(q)' = InRdb(q) /\ InTail(q)' = InTail(q) /\ InAof(q)' = InAof(q)
      BY <1>0 DEF InRdb, InAof, InTail
    <2>2. mem[q] \in Nat /\ mem'[q] = (IF q = r THEN mem[q] + 1 ELSE mem[q])
      BY <1>0 DEF IInv, TypeOK, Content
    <2>3. q # r => pc'[q] = pc[q]
      BY <1>0 DEF IInv, TypeOK
    <2>4. q # r => (InFlight(q)' <=> InFlight(q))
      BY <2>3 DEF InFlight
    <2>5. q # r => (Known(q)' => Known(q))
      BY <1>0, <2>1, <2>2, <2>4 DEF Known
    <2> QED BY <2>1, <2>2, <2>3, <2>4, <2>5
  <1>2. QuietWhenDown' /\ ClosedLog'
    BY <1>0 DEF IInv, QuietWhenDown, ClosedLog
  <1>3. MemoryAhead'
    <2> SUFFICES ASSUME Intact', NEW q \in Request, Known(q)' PROVE mem'[q] > 0
      BY DEF MemoryAhead
    <2>1. CASE q = r
      BY <2>1, <1>1
    <2>2. CASE q # r
      BY <2>2, <1>0, <1>1 DEF IInv, MemoryAhead
    <2> QED BY <2>1, <2>2
  <1>4. CopiesCover'
    BY <1>0, <1>1 DEF IInv, CopiesCover
  <1>5. QuietCopy'
    BY <1>0 DEF QuietCopy
  <1>6. SaveLocked'
    BY <1>0 DEF IInv, SaveLocked
  <1>7. SettledSafe'
    BY <1>0 DEF IInv, SettledSafe, InRdb
  <1>8. Unborn'
    <2>1. pc'[r] = "applied"
      BY <1>0 DEF IInv, TypeOK
    <2> QED BY <2>1, <1>1 DEF IInv, Unborn
  <1>9. LoggedOnce'
    <2> SUFFICES ASSUME NEW q \in Request, InFlight(q)'
                 PROVE  /\ InTail(q) = {}
                        /\ q \in straddled \/ base[q] = 0
                        /\ q \in straddled \/ half \/ rdb[q] = 0
      BY <1>0, <1>1 DEF LoggedOnce
    <2>1. CASE q = r
      <3>1. ~Known(r) /\ base[r] \in Nat /\ rdb[r] \in Nat
        BY <1>0 DEF IInv, Unborn, TypeOK, Content
      <3> QED BY <2>1, <3>1 DEF Known, InAof, InRdb
    <2>2. CASE q # r
      BY <2>2, <1>1 DEF IInv, LoggedOnce
    <2> QED BY <2>1, <2>2
  <1>10. OverlapOnlyInWindows'
    BY <1>0, <1>1 DEF IInv, OverlapOnlyInWindows
  <1> QED BY <1>2, <1>3, <1>4, <1>5, <1>6, <1>7, <1>8, <1>9, <1>10 DEF IInv

\* A command joins the AOF, where it was not before.
LEMMA LogIInv ==
    ASSUME IInv, NEW r \in Request, pc[r] = "counted", Running, TypeOK',
           tail' = Append(tail, r), NEW answer \in {"done", "failed"}, Answer(r, answer),
           \/ synced' = Len(tail') /\ settled' = settled \cup {r}
           \/ UNCHANGED <<synced, settled>>,
           UNCHANGED aof
    PROVE  IInv'
  <1>0. /\ UNCHANGED <<phase, mem, rdb, base, aof, mu, at, snap, unseen,
                        overtaken, straddled, half, mixed>>
        /\ Running' /\ (Intact' <=> Intact)
        /\ InFlight(r)
        /\ pc' = [pc EXCEPT ![r] = answer]
    BY DEF Answer, workers, Running, Intact, InFlight
  <1>1. ASSUME NEW q \in Request
        PROVE  /\ InRdb(q)' = InRdb(q)
               /\ InTail(q)' # {} <=> q = r \/ InTail(q) # {}
               /\ pc'[q] = "idle" => pc[q] = "idle"
               /\ InFlight(q)' => InFlight(q) /\ q # r
               /\ Known(q)' => Known(q)
    <2>1. InRdb(q)' = InRdb(q)
      BY <1>0 DEF InRdb
    <2>2. InTail(q)' # {} <=> q = r \/ InTail(q) # {}
      BY TailAppended DEF IInv
    <2>3. pc'[q] = (IF q = r THEN answer ELSE pc[q])
      BY <1>0 DEF IInv, TypeOK
    <2>4. InFlight(q)' => InFlight(q) /\ q # r
      BY <2>3 DEF InFlight
    <2>5. InAof(q)' => q = r \/ InAof(q)
      BY <1>0, <2>2 DEF InAof
    <2> QED BY <1>0, <2>1, <2>2, <2>3, <2>4, <2>5 DEF Known
  <1>2. QuietWhenDown' /\ ClosedLog'
    BY <1>0 DEF IInv, QuietWhenDown, ClosedLog
  <1>3. MemoryAhead'
    BY <1>0, <1>1 DEF IInv, MemoryAhead
  <1>4. CopiesCover'
    BY <1>0, <1>1 DEF IInv, CopiesCover
  <1>5. QuietCopy' /\ SaveLocked'
    BY <1>0 DEF IInv, QuietCopy, SaveLocked
  <1>7. SettledSafe'
    <2> SUFFICES ASSUME NEW q \in settled', q \notin overtaken, ~InRdb(q), ~(base[q] > 0)
                 PROVE  \E i \in 1 .. synced' : tail'[i] = q
      BY <1>0 DEF SettledSafe, InRdb
    <2>1. /\ Len(tail) \in Nat /\ synced \in 0 .. Len(tail) /\ tail \in Seq(Request)
          /\ Len(tail') = Len(tail) + 1 /\ tail'[Len(tail) + 1] = r
          /\ \A i \in 1 .. Len(tail) : tail'[i] = tail[i]
      BY DEF IInv, TypeOK
    <2>2. CASE q \in settled
      <3>1. PICK i \in 1 .. synced : tail[i] = q
        BY <2>2 DEF IInv, SettledSafe
      <3>2. i \in 1 .. synced' /\ tail'[i] = q
        BY <2>1, <3>1
      <3> QED BY <3>2
    <2>3. CASE q \notin settled
      <3>1. q = r /\ synced' = Len(tail) + 1
        BY <2>1, <2>3
      <3>2. Len(tail) + 1 \in 1 .. synced'
        BY <2>1, <3>1
      <3> QED BY <2>1, <3>1, <3>2
    <2> QED BY <2>2, <2>3
  <1>8. Unborn'
    BY <1>1 DEF IInv, Unborn
  <1>9. LoggedOnce'
    BY <1>0, <1>1 DEF IInv, LoggedOnce
  <1>10. OverlapOnlyInWindows'
    <2> SUFFICES ASSUME NEW q \in Request, ~half, ~mixed, q \notin straddled
                 PROVE  \/ ~InRdb(q)' /\ (base[q] = 0 \/ InTail(q)' = {})
                        \/ InRdb(q)' /\ ~InAof(q)'
      BY <1>0 DEF OverlapOnlyInWindows
    <2>1. CASE q = r
      <3>1. base[r] = 0 /\ rdb[r] = 0
        BY <1>0, <2>1 DEF IInv, LoggedOnce
      <3>2. ~InRdb(r)'
        BY <1>0, <3>1 DEF InRdb
      <3> QED BY <2>1, <3>1, <3>2
    <2>2. CASE q # r
      BY <1>0, <1>1, <2>2 DEF IInv, OverlapOnlyInWindows, InAof
    <2> QED BY <2>1, <2>2
  <1> QED BY <1>2, <1>3, <1>4, <1>5, <1>7, <1>8, <1>9, <1>10 DEF IInv

\* Steps of request handlers.
LEMMA HandleIInv ==
    ASSUME IInv, NEW r \in Request, Handle(r), TypeOK'
    PROVE  IInv'
  <1>1. CASE Apply(r)
    BY <1>1, ApplyIInv
  <1>2. CASE Count(r)
    <2>1. pc'[r] = "counted" /\ InFlight(r) /\ \A q \in Request \ {r} : pc'[q] = pc[q]
      BY <1>2 DEF Count, InFlight, IInv, TypeOK
    <2>2. CalmStep
      BY <1>2, <2>1 DEF Count, CalmStep, IInv, files, workers, hist, ghosts, Running,
                        Intact, ClosedLog, InFlight
    <2> QED BY <2>2, CalmStepIInv
  <1>3. CASE Log(r)
    <2>1. \/ synced' = Len(tail') /\ settled' = settled \cup {r}
          \/ UNCHANGED <<synced, settled>>
      BY <1>3 DEF Log
    <2> QED BY <1>3, <2>1, LogIInv DEF Log
  <1>4. CASE LogFails(r) \/ LogRefused(r)
    <2>1. CASE LogFails(r) /\ tail' = Append(tail, r) /\ UNCHANGED aof
      BY <2>1, LogIInv DEF LogFails
    <2>2. CASE ~(LogFails(r) /\ tail' = Append(tail, r) /\ UNCHANGED aof)
      <3>1. PICK answer \in {"done", "failed"} : Answer(r, answer)
        BY <1>4 DEF LogFails, LogRefused
      <3>2. /\ UNCHANGED <<tail, synced, settled>> /\ Running
            /\ aof' = aof \/ aof = "open"
            /\ pc[r] = "counted"
        BY <1>4, <2>2 DEF LogFails, LogRefused
      <3>3. \A q \in Request : pc'[q] = (IF q = r THEN answer ELSE pc[q])
        BY <3>1 DEF Answer, IInv, TypeOK
      <3>4. ClosedLog'
        BY <3>1, <3>2 DEF Answer, IInv, ClosedLog
      <3>5. CalmStep
        BY <3>1, <3>2, <3>3, <3>4 DEF Answer, CalmStep, workers, Running, Intact, InFlight
      <3> QED BY <3>5, CalmStepIInv
    <2> QED BY <2>1, <2>2
  <1> QED BY <1>1, <1>2, <1>3, <1>4 DEF Handle

\* A worker begins to copy.
LEMMA CopyIInv ==
    ASSUME IInv, NEW w \in Worker, Copy(w), TypeOK'
    PROVE  IInv'
  <1>0. /\ UNCHANGED <<phase, mem, rdb, base, tail, synced, pc, aof, mu, settled,
                        overtaken, straddled, half, mixed>>
        /\ Running /\ Running' /\ (Intact' <=> Intact) /\ (phase # "closed" => Intact)
        /\ at[w] = "idle" /\ at'[w] = "copying" /\ snap'[w] = mem
        /\ unseen'[w] = (IF phase = "closed" THEN Request ELSE {})
        /\ \A v \in Worker \ {w} :
              at'[v] = at[v] /\ snap'[v] = snap[v] /\ unseen'[v] = unseen[v]
    BY DEF Copy, files, manager, Running, Intact, IInv, TypeOK
  <1>1. ASSUME NEW q \in Request
        PROVE  /\ InRdb(q)' = InRdb(q) /\ InAof(q)' = InAof(q) /\ InTail(q)' = InTail(q)
               /\ (InFlight(q)' <=> InFlight(q))
               /\ Known(q)' => Known(q)
    <2>1. /\ InRdb(q)' = InRdb(q) /\ InTail(q)' = InTail(q) /\ InAof(q)' = InAof(q)
          /\ (InFlight(q)' <=> InFlight(q))
      BY <1>0 DEF InRdb, InAof, InTail, InFlight
    <2>2. \A v \in Worker : snap'[v][q] > 0 => snap[v][q] > 0 \/ mem[q] > 0
      BY <1>0
    <2> QED BY <1>0, <2>1, <2>2 DEF Known
  <1>2. QuietWhenDown' /\ ClosedLog'
    BY <1>0 DEF IInv, QuietWhenDown, ClosedLog
  <1>3. MemoryAhead'
    BY <1>0, <1>1 DEF IInv, MemoryAhead
  <1>4. CopiesCover'
    <2> SUFFICES ASSUME NEW v \in Worker, at'[v] \in Pending,
                        NEW q \in Request \ unseen'[v], Known(q)'
                 PROVE  snap'[v][q] > 0
      BY DEF CopiesCover
    <2>1. CASE v = w
      BY <2>1, <1>0, <1>1 DEF IInv, MemoryAhead
    <2>2. CASE v # w
      BY <2>2, <1>0, <1>1 DEF IInv, CopiesCover
    <2> QED BY <2>1, <2>2
  <1>5. QuietCopy' /\ SaveLocked'
    BY <1>0 DEF IInv, QuietCopy, SaveLocked
  <1>7. SettledSafe' /\ Unborn'
    BY <1>0, <1>1 DEF IInv, SettledSafe, Unborn, InRdb
  <1>9. LoggedOnce'
    BY <1>0, <1>1 DEF IInv, LoggedOnce
  <1>10. OverlapOnlyInWindows'
    BY <1>0, <1>1 DEF IInv, OverlapOnlyInWindows
  <1> QED BY <1>2, <1>3, <1>4, <1>5, <1>7, <1>9, <1>10 DEF IInv

\* The copy is complete; it may hold some of what was applied meanwhile.
LEMMA CopiedIInv ==
    ASSUME IInv, NEW w \in Worker, Copied(w), TypeOK'
    PROVE  IInv'
  <1>a. PICK seen \in SUBSET unseen[w] : snap' = [snap EXCEPT ![w] = Seen(w, seen)]
    BY DEF Copied
  <1>0. /\ UNCHANGED <<phase, mem, rdb, base, tail, synced, pc, aof, mu, unseen, settled,
                        overtaken, straddled, half, mixed>>
        /\ Running /\ Running' /\ (Intact' <=> Intact)
        /\ at[w] \in Pending /\ at'[w] = "copied" /\ snap'[w] = Seen(w, seen)
        /\ \A v \in Worker \ {w} : at'[v] = at[v] /\ snap'[v] = snap[v]
    BY <1>a DEF Copied, files, manager, hist, ghosts, Running, Intact, IInv, TypeOK, Pending
  <1>b. \A q \in Request : snap'[w][q] = (IF q \in seen THEN mem[q] ELSE snap[w][q])
    BY <1>0 DEF Seen
  <1>1. ASSUME NEW q \in Request
        PROVE  /\ InRdb(q)' = InRdb(q) /\ InAof(q)' = InAof(q) /\ InTail(q)' = InTail(q)
               /\ (InFlight(q)' <=> InFlight(q))
               /\ Known(q)' => Known(q)
    <2>1. /\ InRdb(q)' = InRdb(q) /\ InTail(q)' = InTail(q) /\ InAof(q)' = InAof(q)
          /\ (InFlight(q)' <=> InFlight(q))
      BY <1>0 DEF InRdb, InAof, InTail, InFlight
    <2>2. \A v \in Worker : snap'[v][q] > 0 => snap[v][q] > 0 \/ mem[q] > 0
      BY <1>0, <1>b
    <2> QED BY <1>0, <2>1, <2>2 DEF Known
  <1>2. QuietWhenDown' /\ ClosedLog'
    BY <1>0 DEF IInv, QuietWhenDown, ClosedLog
  <1>3. MemoryAhead'
    BY <1>0, <1>1 DEF IInv, MemoryAhead
  <1>4. CopiesCover'
    <2> SUFFICES ASSUME NEW v \in Worker, at'[v] \in Pending,
                        NEW q \in Request \ unseen[v], Known(q)'
                 PROVE  snap'[v][q] > 0
      BY <1>0 DEF CopiesCover
    <2>1. CASE v = w
      BY <2>1, <1>0, <1>1, <1>b DEF IInv, CopiesCover
    <2>2. CASE v # w
      BY <2>2, <1>0, <1>1 DEF IInv, CopiesCover
    <2> QED BY <2>1, <2>2
  <1>5. QuietCopy'
    <2> SUFFICES ASSUME Intact, unseen[w] = {} PROVE snap'[w] = mem
      BY <1>0 DEF IInv, QuietCopy
    <2>1. snap[w] = mem /\ mem \in Content
      BY <1>0 DEF IInv, QuietCopy, TypeOK
    <2>2. seen = {}
      OBVIOUS
    <2>3. Seen(w, seen) = [q \in Request |-> mem[q]]
      BY <2>1, <2>2 DEF Seen
    <2> QED BY <1>0, <2>1, <2>3 DEF Content
  <1>6. SaveLocked'
    BY <1>0 DEF IInv, SaveLocked
  <1>7. SettledSafe' /\ Unborn'
    BY <1>0, <1>1 DEF IInv, SettledSafe, Unborn, InRdb
  <1>9. LoggedOnce'
    BY <1>0, <1>1 DEF IInv, LoggedOnce
  <1>10. OverlapOnlyInWindows'
    BY <1>0, <1>1 DEF IInv, OverlapOnlyInWindows
  <1> QED BY <1>2, <1>3, <1>4, <1>5, <1>6, <1>7, <1>9, <1>10 DEF IInv

\* A copy takes the RDB file's place: what is settled and known is in it.
LEMMA RenameIInv ==
    ASSUME IInv, NEW w \in Worker, Rename(w), TypeOK'
    PROVE  IInv'
  <1>0. /\ UNCHANGED <<phase, mem, base, tail, synced, pc, aof, snap, unseen, settled,
                        straddled, mixed>>
        /\ Running /\ Running' /\ (Intact' <=> Intact)
        /\ at[w] = "copied" /\ at[w] \in Pending /\ at'[w] = "renamed"
        /\ mu = "free" /\ mu' = w /\ rdb' = snap[w] /\ half'
        /\ overtaken' = overtaken \cup unseen[w]
        /\ \A v \in Worker \ {w} : at'[v] = at[v]
    BY DEF Rename, Running, Intact, IInv, TypeOK, Pending
  <1>1. ASSUME NEW q \in Request
        PROVE  /\ InAof(q)' = InAof(q) /\ InTail(q)' = InTail(q)
               /\ (InFlight(q)' <=> InFlight(q))
               /\ (InRdb(q)' <=> snap[w][q] > 0)
               /\ Known(q)' => Known(q)
    <2>1. /\ InTail(q)' = InTail(q) /\ InAof(q)' = InAof(q)
          /\ (InFlight(q)' <=> InFlight(q)) /\ (InRdb(q)' <=> snap[w][q] > 0)
      BY <1>0 DEF InRdb, InAof, InTail, InFlight
    <2> QED BY <1>0, <2>1 DEF Known
  <1>2. QuietWhenDown' /\ ClosedLog'
    BY <1>0 DEF IInv, QuietWhenDown, ClosedLog
  <1>3. MemoryAhead'
    BY <1>0, <1>1 DEF IInv, MemoryAhead
  <1>4. CopiesCover'
    BY <1>0, <1>1 DEF IInv, CopiesCover
  <1>5. QuietCopy'
    BY <1>0 DEF IInv, QuietCopy
  <1>6. SaveLocked'
    <2>1. \A v \in Worker : at[v] # "renamed"
      BY <1>0, FreeLock DEF IInv
    <2> QED BY <1>0, <2>1 DEF SaveLocked
  <1>7. SettledSafe'
    <2> SUFFICES ASSUME NEW r \in settled, r \notin overtaken, r \notin unseen[w]
                 PROVE  InRdb(r)'
      BY <1>0 DEF SettledSafe
    <2>1. r \in Request /\ Known(r)
      BY SettledKnown DEF IInv, TypeOK, Known
    <2> QED BY <1>0, <1>1, <2>1 DEF IInv, CopiesCover
  <1>8. Unborn'
    BY <1>0, <1>1 DEF IInv, Unborn
  <1>9. LoggedOnce'
    BY <1>0, <1>1 DEF IInv, LoggedOnce
  <1>10. OverlapOnlyInWindows'
    BY <1>0 DEF OverlapOnlyInWindows
  <1> QED BY <1>2, <1>3, <1>4, <1>5, <1>6, <1>7, <1>8, <1>9, <1>10 DEF IInv

\* What Finish does, worker by worker.
LEMMA Finished ==
    ASSUME TypeOK, NEW w \in Worker, NEW next \in {"idle", "saved", "ended"}, Finish(w, next)
    PROVE  /\ at'[w] = next /\ next \notin Pending /\ snap'[w] = Nothing
           /\ \A v \in Worker \ {w} :
                 at'[v] = at[v] /\ snap'[v] = snap[v] /\ unseen'[v] = unseen[v]
           /\ \A v \in Worker, q \in Request : snap'[v][q] > 0 => snap[v][q] > 0
  <1>1. /\ at'[w] = next /\ next \notin Pending /\ snap'[w] = Nothing
        /\ \A v \in Worker \ {w} :
              at'[v] = at[v] /\ snap'[v] = snap[v] /\ unseen'[v] = unseen[v]
    BY DEF Finish, TypeOK, Pending
  <1>2. \A q \in Request : Nothing[q] = 0
    BY DEF Nothing
  <1> QED BY <1>1, <1>2

\* The AOF is emptied behind the RDB file that appeared just before.
LEMMA TruncateIInv ==
    ASSUME IInv, NEW w \in Worker, Truncate(w), TypeOK'
    PROVE  IInv'
  <1>a. PICK next \in {"idle", "saved", "ended"} : Finish(w, next)
    BY OverType DEF Truncate
  <1>0. /\ UNCHANGED <<phase, mem, rdb, pc, settled>>
        /\ Running /\ Running' /\ (Intact' <=> Intact)
        /\ at[w] = "renamed" /\ at[w] \in Pending
        /\ tail' = <<>> /\ base' = Nothing /\ aof # "closed"
        /\ overtaken' = overtaken \cup unseen[w]
        /\ straddled' = straddled \cup Unlogged(w)
    BY DEF Truncate, Empty, AOF!DReset, Running, Intact, Pending
  <1>b. /\ at'[w] = next /\ next \notin Pending
        /\ \A v \in Worker \ {w} :
              at'[v] = at[v] /\ snap'[v] = snap[v] /\ unseen'[v] = unseen[v]
        /\ \A v \in Worker, q \in Request : snap'[v][q] > 0 => snap[v][q] > 0
    BY <1>a, Finished DEF IInv
  <1>c. mu = w /\ rdb = snap[w] /\ \A v \in Worker \ {w} : at[v] # "renamed"
    BY <1>0 DEF IInv, SaveLocked
  <1>1. ASSUME NEW q \in Request
        PROVE  /\ ~InAof(q)' /\ InTail(q)' = {} /\ base'[q] = 0
               /\ (InFlight(q)' <=> InFlight(q)) /\ InRdb(q)' = InRdb(q)
               /\ Known(q)' => Known(q)
    <2>1. /\ InTail(q)' = {} /\ base'[q] = 0
          /\ (InFlight(q)' <=> InFlight(q)) /\ InRdb(q)' = InRdb(q)
      BY <1>0 DEF InTail, InFlight, InRdb, Nothing
    <2>2. ~InAof(q)'
      BY <2>1 DEF InAof
    <2> QED BY <1>0, <1>b, <2>1, <2>2 DEF Known
  <1>2. QuietWhenDown' /\ ClosedLog'
    BY <1>0 DEF IInv, QuietWhenDown, ClosedLog
  <1>3. MemoryAhead'
    BY <1>0, <1>1 DEF IInv, MemoryAhead
  <1>4. CopiesCover'
    BY <1>b, <1>1 DEF IInv, CopiesCover
  <1>5. QuietCopy'
    BY <1>0, <1>b DEF IInv, QuietCopy
  <1>6. SaveLocked'
    BY <1>b, <1>c DEF SaveLocked, Pending
  <1>7. SettledSafe'
    <2> SUFFICES ASSUME NEW r \in settled, r \notin overtaken, r \notin unseen[w]
                 PROVE  InRdb(r)'
      BY <1>0 DEF SettledSafe
    <2>1. r \in Request /\ Known(r)
      BY SettledKnown DEF IInv, TypeOK, Known
    <2>2. snap[w][r] > 0
      BY <1>0, <2>1 DEF IInv, CopiesCover
    <2> QED BY <1>0, <1>c, <2>2 DEF InRdb
  <1>8. Unborn'
    BY <1>0, <1>1 DEF IInv, Unborn
  <1>9. LoggedOnce'
    <2> SUFFICES ASSUME NEW q \in Request, InFlight(q), q \notin straddled'
                 PROVE  rdb[q] = 0
      BY <1>0, <1>1 DEF LoggedOnce
    <2>1. ~(snap[w][q] > 0)
      BY <1>0 DEF Unlogged
    <2>2. snap[w][q] \in Nat
      BY DEF IInv, TypeOK, Content
    <2> QED BY <1>c, <2>1, <2>2
  <1>10. OverlapOnlyInWindows'
    BY <1>1 DEF OverlapOnlyInWindows
  <1> QED BY <1>2, <1>3, <1>4, <1>5, <1>6, <1>7, <1>8, <1>9, <1>10 DEF IInv

\* A copy takes the AOF's place: what is settled and known is in it.
LEMMA RewriteIInv ==
    ASSUME IInv, Rewrite, TypeOK'
    PROVE  IInv'
  <1> DEFINE w == RewriteTask
  <1>w. w \in Worker
    BY DEF Worker
  <1>0. /\ UNCHANGED <<phase, mem, rdb, pc, mu, settled, half>>
        /\ aof = "open" /\ Running /\ Running' /\ (Intact' <=> Intact)
        /\ at[w] = "copied" /\ at[w] \in Pending
        /\ tail' = <<>> /\ base' = snap[w]
        /\ overtaken' = overtaken \cup unseen[w]
        /\ straddled' = straddled \cup Unlogged(w)
        /\ mixed' = (mixed \/ rdb # Nothing)
        /\ Finish(w, "idle")
    BY DEF Rewrite, Replace, AOF!DReset, Running, Intact, Pending
  <1>b. /\ at'[w] = "idle" /\ "idle" \notin Pending
        /\ \A v \in Worker \ {w} :
              at'[v] = at[v] /\ snap'[v] = snap[v] /\ unseen'[v] = unseen[v]
        /\ \A v \in Worker, q \in Request : snap'[v][q] > 0 => snap[v][q] > 0
    BY <1>w, <1>0, Finished DEF IInv
  <1> HIDE DEF w
  <1>1. ASSUME NEW q \in Request
        PROVE  /\ InTail(q)' = {} /\ (InAof(q)' <=> snap[w][q] > 0)
               /\ (InFlight(q)' <=> InFlight(q)) /\ InRdb(q)' = InRdb(q)
               /\ Known(q)' => Known(q)
    <2>1. InTail(q)' = {} /\ (InFlight(q)' <=> InFlight(q)) /\ InRdb(q)' = InRdb(q)
      BY <1>0 DEF InTail, InFlight, InRdb
    <2>2. InAof(q)' <=> snap[w][q] > 0
      BY <1>0, <2>1 DEF InAof
    <2> QED BY <1>w, <1>0, <1>b, <2>1, <2>2 DEF Known
  <1>2. QuietWhenDown' /\ ClosedLog'
    BY <1>0 DEF IInv, QuietWhenDown, ClosedLog
  <1>3. MemoryAhead'
    BY <1>0, <1>1 DEF IInv, MemoryAhead
  <1>4. CopiesCover'
    BY <1>b, <1>1 DEF IInv, CopiesCover
  <1>5. QuietCopy'
    BY <1>0, <1>b DEF IInv, QuietCopy
  <1>6. SaveLocked'
    BY <1>0, <1>b DEF IInv, SaveLocked
  <1>7. SettledSafe'
    <2> SUFFICES ASSUME NEW r \in settled, r \notin overtaken, r \notin unseen[w]
                 PROVE  base'[r] > 0
      BY <1>0 DEF SettledSafe
    <2>1. r \in Request /\ Known(r)
      BY SettledKnown DEF IInv, TypeOK, Known
    <2> QED BY <1>w, <1>0, <2>1 DEF IInv, CopiesCover
  <1>8. Unborn'
    BY <1>0, <1>1 DEF IInv, Unborn
  <1>9. LoggedOnce'
    <2> SUFFICES ASSUME NEW q \in Request, InFlight(q), q \notin straddled'
                 PROVE  base'[q] = 0 /\ (half \/ rdb[q] = 0)
      BY <1>0, <1>1 DEF LoggedOnce
    <2>1. ~(snap[w][q] > 0) /\ q \notin straddled
      BY <1>0 DEF Unlogged
    <2>2. snap[w][q] \in Nat
      BY <1>w DEF IInv, TypeOK, Content
    <2> QED BY <1>0, <2>1, <2>2 DEF IInv, LoggedOnce
  <1>10. OverlapOnlyInWindows'
    <2> SUFFICES ASSUME NEW q \in Request, ~mixed'
                 PROVE  ~InRdb(q)' /\ InTail(q)' = {}
      BY DEF OverlapOnlyInWindows
    <2>1. rdb[q] = 0
      BY <1>0 DEF Nothing
    <2> QED BY <1>0, <1>1, <2>1 DEF InRdb
  <1> QED BY <1>2, <1>3, <1>4, <1>5, <1>6, <1>7, <1>8, <1>9, <1>10 DEF IInv

\* A worker that gives up is calm.
LEMMA GivesUp ==
    ASSUME IInv, NEW w \in Worker, NEW next \in {"idle", "ended"}, Finish(w, next),
           Running, ClosedLog',
           UNCHANGED <<phase, mem, files, pc, ghosts>>,
           mu' = mu \/ at[w] = "renamed"
    PROVE  CalmStep
  <1>1. /\ at'[w] = next /\ next \notin Pending /\ next # "renamed" /\ snap'[w] = Nothing
        /\ \A v \in Worker \ {w} :
              at'[v] = at[v] /\ snap'[v] = snap[v] /\ unseen'[v] = unseen[v]
    BY Finished DEF IInv
  <1>2. \A v \in Worker : at'[v] = "renamed" => at[v] = "renamed" /\ mu' = mu
    BY <1>1 DEF IInv, SaveLocked
  <1> QED BY <1>1, <1>2 DEF CalmStep, files, ghosts, Running, Intact, InFlight

\* Steps of the savers and of the rewrite task up to its rewrite.
LEMMA SaveIInv ==
    ASSUME IInv, NEW w \in Worker, Save(w), TypeOK'
    PROVE  IInv'
  <1>1. CASE Copy(w)
    BY <1>1, CopyIInv
  <1>2. CASE Copied(w)
    BY <1>2, CopiedIInv
  <1>3. CASE Rename(w)
    BY <1>3, RenameIInv
  <1>4. CASE RenameFails(w)
    <2>1. Finish(w, Over(w)) /\ mu' = mu /\ Running
          /\ UNCHANGED <<phase, mem, files, pc, ghosts, aof>>
      BY <1>4 DEF RenameFails, SaveErrorReturned
    <2>2. ClosedLog'
      BY <2>1 DEF IInv, ClosedLog
    <2> QED BY <2>1, <2>2, OverType, GivesUp, CalmStepIInv
  <1>5. CASE Truncate(w)
    BY <1>5, TruncateIInv
  <1>6. CASE TruncateFails(w)
    <2>1. Finish(w, Over(w)) /\ at[w] = "renamed" /\ Running /\ aof' = "closed"
          /\ UNCHANGED <<phase, mem, files, pc, ghosts>>
      BY <1>6 DEF TruncateFails
    <2>2. ClosedLog'
      BY <2>1 DEF ClosedLog
    <2> QED BY <2>1, <2>2, OverType, GivesUp, CalmStepIInv
  <1>7. CASE EndTask(w)
    <2>1. at'[w] = "ended" /\ \A v \in Worker \ {w} : at'[v] = at[v]
      BY <1>7 DEF EndTask, IInv, TypeOK
    <2>2. CalmStep
      BY <1>7, <2>1 DEF EndTask, CalmStep, files, manager, hist, ghosts, Running, Intact,
                        InFlight, Pending, IInv, ClosedLog
    <2> QED BY <2>2, CalmStepIInv
  <1> QED BY <1>1, <1>2, <1>3, <1>4, <1>5, <1>6, <1>7 DEF Save

\* What is in the AOF becomes durable, and settled.
LEMMA SyncAllIInv ==
    ASSUME IInv, SyncAll, Running, Running', Intact' => Intact, ClosedLog', TypeOK',
           UNCHANGED <<mem, rdb, base, pc, mu, workers, unseen, overtaken, straddled,
                       half, mixed>>
    PROVE  IInv'
  <1>1. tail' = tail /\ synced' = Len(tail)
    BY SyncAllType DEF IInv
  <1>2. ASSUME NEW q \in Request
        PROVE  /\ InRdb(q)' = InRdb(q) /\ InAof(q)' = InAof(q) /\ InTail(q)' = InTail(q)
               /\ (InFlight(q)' <=> InFlight(q)) /\ (Known(q)' <=> Known(q))
    <2>1. /\ InRdb(q)' = InRdb(q) /\ InTail(q)' = InTail(q) /\ InAof(q)' = InAof(q)
          /\ (InFlight(q)' <=> InFlight(q))
      BY <1>1 DEF InRdb, InAof, InTail, InFlight
    <2> QED BY <2>1 DEF Known, workers
  <1>3. QuietWhenDown' /\ MemoryAhead' /\ CopiesCover' /\ QuietCopy' /\ SaveLocked'
    BY <1>2 DEF IInv, QuietWhenDown, MemoryAhead, CopiesCover, QuietCopy, SaveLocked, workers
  <1>4. SettledSafe'
    <2>1. synced \in 0 .. Len(tail) /\ DOMAIN tail = 1 .. Len(tail) /\ Len(tail) \in Nat
      BY DEF IInv, TypeOK
    <2>2. SUFFICES ASSUME NEW r \in settled'
                   PROVE  \/ r \in overtaken \/ InRdb(r) \/ base[r] > 0
                          \/ \E i \in 1 .. Len(tail) : tail[i] = r
      BY <1>1 DEF SettledSafe, InRdb
    <2>3. CASE r \in settled
      BY <2>1, <2>3 DEF IInv, SettledSafe
    <2>4. CASE r \notin settled
      BY <2>1, <2>4 DEF SyncAll, InTail
    <2> QED BY <2>3, <2>4
  <1>5. Unborn' /\ LoggedOnce' /\ OverlapOnlyInWindows'
    BY <1>2 DEF IInv, Unborn, LoggedOnce, OverlapOnlyInWindows
  <1> QED BY <1>3, <1>4, <1>5 DEF IInv

\* The AOF is closed, after its last sync or without it.
LEMMA CloseIInv ==
    ASSUME IInv, Close, TypeOK'
    PROVE  IInv'
  <1>1. /\ UNCHANGED <<mem, rdb, base, pc, mu, workers, unseen, overtaken, straddled, half, mixed>>
        /\ Running /\ Running' /\ Intact /\ aof' = "closed"
    BY DEF Close, Running, Intact
  <1>2. ClosedLog'
    BY <1>1 DEF ClosedLog
  <1>3. CASE SyncAll
    BY <1>1, <1>2, <1>3, SyncAllIInv
  <1>4. CASE UNCHANGED <<tail, synced, settled>>
    <2>1. CalmStep
      BY <1>1, <1>2, <1>4 DEF CalmStep, workers, InFlight
    <2> QED BY <2>1, CalmStepIInv
  <1> QED BY <1>3, <1>4 DEF Close

\* The collections lose their vectors.
LEMMA CloseEngineIInv ==
    ASSUME IInv, CloseEngine, TypeOK'
    PROVE  IInv'
  <1>0. /\ UNCHANGED <<rdb, base, tail, synced, pc, aof, mu, at, snap, unseen, settled,
                        overtaken, straddled, half, mixed>>
        /\ Running /\ Running' /\ ~Intact' /\ phase = "stopped"
    BY DEF CloseEngine, files, manager, workers, hist, ghosts, Running, Intact
  <1>1. ASSUME NEW q \in Request
        PROVE  /\ InRdb(q)' = InRdb(q) /\ InAof(q)' = InAof(q) /\ InTail(q)' = InTail(q)
               /\ (InFlight(q)' <=> InFlight(q)) /\ (Known(q)' => Known(q))
    <2>1. /\ InRdb(q)' = InRdb(q) /\ InTail(q)' = InTail(q) /\ InAof(q)' = InAof(q)
          /\ (InFlight(q)' <=> InFlight(q))
      BY <1>0 DEF InRdb, InAof, InTail, InFlight
    <2>2. mem'[q] > 0 => mem[q] > 0
      BY DEF CloseEngine
    <2> QED BY <1>0, <2>1, <2>2 DEF Known
  <1>2. QuietWhenDown' /\ MemoryAhead' /\ QuietCopy' /\ SaveLocked' /\ ClosedLog'
    BY <1>0 DEF IInv, QuietWhenDown, MemoryAhead, QuietCopy, SaveLocked, ClosedLog
  <1>3. CopiesCover'
    BY <1>0, <1>1 DEF IInv, CopiesCover
  <1>4. SettledSafe'
    BY <1>0 DEF IInv, SettledSafe, InRdb
  <1>5. Unborn' /\ LoggedOnce' /\ OverlapOnlyInWindows'
    BY <1>0, <1>1 DEF IInv, Unborn, LoggedOnce, OverlapOnlyInWindows
  <1> QED BY <1>2, <1>3, <1>4, <1>5 DEF IInv

\* The process ends; a prefix of the AOF that has its durable part is left.
LEMMA HaltIInv ==
    ASSUME IInv, Halt, TypeOK'
    PROVE  IInv'
  <1>a. PICK n \in 0 .. Len(tail) : AOF!DCrash(n)
    BY DEF Halt
  <1>0. /\ UNCHANGED <<rdb, base, settled, overtaken, straddled, half, mixed>>
        /\ ~Running' /\ ~Intact' /\ phase' = "down"
        /\ tail' = SubSeq(tail, 1, n) /\ synced <= n /\ synced' \in synced .. n
        /\ \A w \in Worker : at'[w] = "idle" /\ snap'[w] = Nothing
        /\ "idle" \notin Pending
    BY <1>a DEF Halt, AOF!DCrash, ghosts, Running, Intact, Pending
  <1>1. ASSUME NEW q \in Request
        PROVE  /\ InRdb(q)' = InRdb(q) /\ (InTail(q)' # {} => InTail(q) # {})
               /\ (InAof(q)' => InAof(q)) /\ ~InFlight(q)'
               /\ (pc'[q] = "idle" => pc[q] = "idle") /\ (Known(q)' => Known(q))
    <2>1. InTail(q)' # {} => InTail(q) # {}
      BY <1>0, TailCut DEF IInv
    <2>2. pc'[q] = (IF InFlight(q) THEN "gone" ELSE pc[q])
      BY DEF Halt
    <2>3. ~InFlight(q)' /\ (pc'[q] = "idle" => pc[q] = "idle")
      BY <2>2 DEF InFlight
    <2>4. InRdb(q)' = InRdb(q) /\ (InAof(q)' => InAof(q))
      BY <1>0, <2>1 DEF InRdb, InAof
    <2>5. mem'[q] = 0 /\ \A w \in Worker : snap'[w][q] = 0
      BY <1>0 DEF Halt, Nothing
    <2> QED BY <2>1, <2>3, <2>4, <2>5 DEF Known
  <1>2. QuietWhenDown' /\ ClosedLog' /\ MemoryAhead' /\ CopiesCover' /\ QuietCopy' /\ SaveLocked'
    BY <1>0, <1>1 DEF QuietWhenDown, ClosedLog, MemoryAhead, CopiesCover, QuietCopy, SaveLocked
  <1>3. SettledSafe'
    <2>1. \A i \in 1 .. synced : i \in 1 .. synced' /\ tail'[i] = tail[i]
      BY <1>0 DEF IInv, TypeOK
    <2> QED BY <1>0, <2>1 DEF IInv, SettledSafe, InRdb
  <1>4. Unborn' /\ LoggedOnce' /\ OverlapOnlyInWindows'
    BY <1>0, <1>1 DEF IInv, Unborn, LoggedOnce, OverlapOnlyInWindows
  <1> QED BY <1>2, <1>3, <1>4 DEF IInv

\* Memory becomes what the files hold, or the process refuses to start.
LEMMA RecoverIInv ==
    ASSUME IInv, Recover, TypeOK'
    PROVE  IInv'
  <1>0. /\ UNCHANGED <<rdb, base, tail, synced, pc, mu, at, snap, unseen, settled,
                        overtaken, straddled, half, mixed>>
        /\ ~Running /\ phase' \in {"serving", "refused"}
        /\ "idle" \notin Pending
    BY DEF Recover, files, workers, hist, ghosts, Running, Pending
  <1>a. /\ \A w \in Worker : at[w] = "idle" /\ snap[w] = Nothing
        /\ \A q \in Request : ~InFlight(q)
    BY <1>0 DEF IInv, QuietWhenDown
  <1>1. ASSUME NEW q \in Request
        PROVE  /\ InRdb(q)' = InRdb(q) /\ InAof(q)' = InAof(q) /\ InTail(q)' = InTail(q)
               /\ ~InFlight(q)'
               /\ \A w \in Worker : snap'[w][q] = 0
               /\ mem'[q] = mem[q] \/ (mem'[q] > 0 <=> InRdb(q) \/ InAof(q))
               /\ (Known(q)' => Known(q))
               /\ (phase' = "serving" => (Known(q)' => mem'[q] > 0))
    <2>1. InRdb(q)' = InRdb(q) /\ InTail(q)' = InTail(q) /\ InAof(q)' = InAof(q)
      BY <1>0 DEF InRdb, InAof, InTail
    <2>2. ~InFlight(q)' /\ \A w \in Worker : snap'[w][q] = 0
      BY <1>0, <1>a DEF InFlight, Nothing
    <2>3. CASE phase' = "serving"
      <3>1. mem'[q] = Recovered(q)
        BY <2>3 DEF Recover
      <3>2. mem'[q] > 0 <=> InRdb(q) \/ InAof(q)
        BY <3>1, RecoveredPositive DEF IInv
      <3> QED BY <2>1, <2>2, <3>2 DEF Known
    <2>4. CASE phase' # "serving"
      <3>1. mem'[q] = mem[q]
        BY <2>4 DEF Recover
      <3> QED BY <2>1, <2>2, <2>4, <3>1 DEF Known
    <2> QED BY <2>3, <2>4
  <1>2. QuietWhenDown' /\ ClosedLog' /\ CopiesCover' /\ QuietCopy' /\ SaveLocked'
    BY <1>0, <1>a, <1>1 DEF QuietWhenDown, ClosedLog, CopiesCover, QuietCopy, SaveLocked
  <1>3. MemoryAhead'
    BY <1>0, <1>1 DEF MemoryAhead, Intact
  <1>4. SettledSafe'
    BY <1>0 DEF IInv, SettledSafe, InRdb
  <1>5. Unborn' /\ LoggedOnce' /\ OverlapOnlyInWindows'
    BY <1>0, <1>1 DEF IInv, Unborn, LoggedOnce, OverlapOnlyInWindows
  <1> QED BY <1>2, <1>3, <1>4, <1>5 DEF IInv

\* Steps of the logger, the rewrite, Stop, and the process.
LEMMA OtherIInv ==
    ASSUME IInv, TypeOK',
           Sync \/ SyncFails \/ ResetCounters \/ Rewrite \/ RewriteFails \/ Stop
           \/ Close \/ CloseEngine \/ Exit \/ Crash \/ Recover
    PROVE  IInv'
  <1>1. CASE Sync
    <2>1. ClosedLog'
      BY <1>1 DEF Sync, manager, IInv, ClosedLog
    <2> QED BY <1>1, <2>1, SyncAllIInv DEF Sync, manager, Running, Intact
  <1>2. CASE SyncFails
    <2>1. ClosedLog'
      BY <1>2 DEF SyncFails, IInv, ClosedLog
    <2>2. CalmStep
      BY <1>2, <2>1 DEF SyncFails, CalmStep, files, workers, hist, ghosts, Running, Intact, InFlight
    <2> QED BY <2>2, CalmStepIInv
  <1>3. CASE ResetCounters
    <2>1. ClosedLog'
      BY <1>3 DEF ResetCounters, IInv, ClosedLog
    <2>2. \A w \in Worker : at'[w] \in Pending => at'[w] = at[w]
      BY <1>3 DEF ResetCounters, IInv, TypeOK, Pending
    <2>3. CalmStep
      BY <1>3, <2>1, <2>2 DEF ResetCounters, CalmStep, files, hist, ghosts, Running, Intact,
                              InFlight, Pending
    <2> QED BY <2>3, CalmStepIInv
  <1>4. CASE Rewrite
    BY <1>4, RewriteIInv
  <1>5. CASE RewriteFails
    <2>1. Finish(RewriteTask, "idle") /\ mu' = mu /\ Running
          /\ UNCHANGED <<phase, mem, files, pc, ghosts>>
          /\ (aof' = aof \/ aof = "open")
      BY <1>5 DEF RewriteFails
    <2>2. ClosedLog'
      BY <2>1 DEF IInv, ClosedLog
    <2>3. RewriteTask \in Worker
      BY DEF Worker
    <2> QED BY <2>1, <2>2, <2>3, GivesUp, CalmStepIInv
  <1>6. CASE Stop
    <2>1. ClosedLog' /\ Running /\ Running' /\ Intact
      BY <1>6 DEF Stop, ClosedLog, Running, Intact
    <2>2. CalmStep
      BY <1>6, <2>1 DEF Stop, WaitUnlocked, CalmStep, files, workers, hist, ghosts, InFlight
    <2> QED BY <2>2, CalmStepIInv
  <1>7. CASE Close
    BY <1>7, CloseIInv
  <1>8. CASE CloseEngine
    BY <1>8, CloseEngineIInv
  <1>9. CASE Exit \/ Crash
    BY <1>9, HaltIInv DEF Exit, Crash
  <1>10. CASE Recover
    BY <1>10, RecoverIInv
  <1> QED BY <1>1, <1>2, <1>3, <1>4, <1>5, <1>6, <1>7, <1>8, <1>9, <1>10

\* Before the first start nothing is anywhere.
LEMMA ManagerInitIInv ==
    ASSUME Init
    PROVE  IInv
  <1>1. TypeOK
    BY InitType
  <1>2. "idle" \notin Pending
    BY DEF Pending
  <1>3. \A r \in Request : ~Known(r) /\ ~InRdb(r) /\ ~InAof(r) /\ InTail(r) = {} /\ ~InFlight(r)
    BY DEF Init, Known, InRdb, InAof, InTail, InFlight, Nothing
  <1>4. ~Running /\ ~Intact
    BY DEF Init, Running, Intact
  <1> QED BY <1>1, <1>2, <1>3, <1>4
      DEF Init, IInv, QuietWhenDown, ClosedLog, MemoryAhead, CopiesCover, QuietCopy, SaveLocked,
          SettledSafe, Unborn, LoggedOnce, OverlapOnlyInWindows

\* Nothing happens.
LEMMA StutterIInv ==
    ASSUME IInv, UNCHANGED vars
    PROVE  IInv'
  <1>1. TypeOK'
    BY NextType DEF IInv
  <1>2. CASE Running
    <2>1. CalmStep
      BY <1>2 DEF CalmStep, vars, files, manager, workers, hist, ghosts, Running, Intact, InFlight,
                  IInv, ClosedLog
    <2> QED BY <1>1, <2>1, CalmStepIInv
  <1>3. CASE ~Running
    <2>1. \A q \in Request : /\ InRdb(q)' = InRdb(q) /\ InAof(q)' = InAof(q)
                             /\ InTail(q)' = InTail(q) /\ InFlight(q)' = InFlight(q)
                             /\ (Known(q)' <=> Known(q))
      BY DEF vars, files, workers, InRdb, InAof, InTail, InFlight, Known
    <2>2. QuietWhenDown' /\ ClosedLog' /\ MemoryAhead' /\ CopiesCover' /\ QuietCopy' /\ SaveLocked'
      BY <2>1 DEF IInv, vars, files, manager, workers, hist, ghosts, QuietWhenDown, ClosedLog,
                  MemoryAhead, CopiesCover, QuietCopy, SaveLocked, Running, Intact
    <2>3. SettledSafe' /\ Unborn' /\ LoggedOnce' /\ OverlapOnlyInWindows'
      BY <2>1 DEF IInv, vars, files, hist, ghosts, SettledSafe, Unborn, LoggedOnce,
                  OverlapOnlyInWindows, InRdb
    <2> QED BY <1>1, <2>2, <2>3 DEF IInv
  <1> QED BY <1>2, <1>3

\* The strengthening is inductive.
THEOREM ManagerInvariance == Spec => []IInv
  <1>1. Init => IInv
    BY ManagerInitIInv
  <1>2. IInv /\ [Next]_vars => IInv'
    <2> SUFFICES ASSUME IInv, [Next]_vars PROVE IInv'
      OBVIOUS
    <2>1. TypeOK'
      BY NextType DEF IInv
    <2> QED BY <2>1, HandleIInv, SaveIInv, OtherIInv, StutterIInv DEF Next
  <1> QED BY <1>1, <1>2, PTL DEF Spec

\* SaveSnapshot and RewriteAOF never lose a command that was durable, except
\* one applied after the worker that publishes its copy had begun to copy, for
\* any number of requests, save calls, crashes and failures.
THEOREM SettledStaysRecoverable == Spec => []SettledRecoverable
  <1>1. IInv => SettledRecoverable
    <2> SUFFICES ASSUME IInv, NEW r \in settled, r \notin overtaken
                 PROVE  Recovered(r) > 0
      BY DEF SettledRecoverable
    <2>1. r \in Request /\ (InRdb(r) \/ InAof(r))
      BY SettledKnown DEF IInv, TypeOK
    <2> QED BY <2>1, RecoveredPositive DEF IInv
  <1> QED BY <1>1, ManagerInvariance, PTL

\* A recovery repeats an effect only if one of the named windows was hit.
THEOREM OverlapsStayInWindows == Spec => []OverlapOnlyInWindows
  <1>1. IInv => OverlapOnlyInWindows
    BY DEF IInv
  <1> QED BY <1>1, ManagerInvariance, PTL

\* Only a truncation behind an RDB file makes the two files consistent again.
LEMMA HalfEnds ==
    ASSUME [Next]_vars, half, ~half'
    PROVE  \E w \in Worker : Truncate(w)
  <1>1. ASSUME NEW r \in Request, Handle(r) PROVE half' = half
    BY <1>1 DEF Handle, Apply, Count, Log, LogFails, LogRefused, Answer, hist, ghosts
  <1>2. ASSUME NEW w \in Worker, Save(w) PROVE half' = half \/ half' \/ Truncate(w)
    BY <1>2 DEF Save, Copy, Copied, Rename, RenameFails, TruncateFails, EndTask, hist, ghosts
  <1>3. ASSUME Sync \/ SyncFails \/ ResetCounters \/ Rewrite \/ RewriteFails \/ Stop
               \/ Close \/ CloseEngine \/ Exit \/ Crash \/ Recover
        PROVE  half' = half
    BY <1>3 DEF Sync, SyncFails, ResetCounters, Rewrite, RewriteFails, Stop, Close,
                CloseEngine, Exit, Crash, Halt, Recover, hist, ghosts
  <1>4. UNCHANGED vars => half' = half
    BY DEF vars, hist, ghosts
  <1> QED BY <1>1, <1>2, <1>3, <1>4 DEF Next

\* A save during which no request was applied leaves files that hold exactly
\* what memory holds: nothing is missing and nothing is there twice.
THEOREM QuietSavesAreExact == Spec => QuietSaveExact
  <1>1. ASSUME IInv, TypeOK', [Next]_vars, NEW w \in Savers,
               at[w] = "renamed", at'[w] # "renamed", ~half', unseen[w] = {},
               NEW r \in Request
        PROVE  Recovered(r)' = mem[r]
    <2>1. w \in Worker /\ half /\ mu = w /\ rdb = snap[w] /\ at[w] \in Pending
      BY <1>1 DEF IInv, SaveLocked, Worker, Pending
    <2>2. Truncate(w)
      BY <1>1, <2>1, HalfEnds DEF Truncate
    <2>3. Intact
      <3>1. Running /\ aof # "closed"
        BY <2>2 DEF Truncate
      <3> QED BY <1>1, <3>1 DEF IInv, ClosedLog, Running, Intact
    <2>4. rdb[r] = mem[r]
      BY <1>1, <2>1, <2>3 DEF IInv, QuietCopy
    <2>5. rdb'[r] = mem[r] /\ base'[r] = 0 /\ InTail(r)' = {}
      BY <2>2, <2>4 DEF Truncate, Empty, AOF!DReset, Nothing, InTail
    <2>6. Cardinality(InTail(r)') = 0
      <3>1. Cardinality({}) = 0
        BY FS_EmptySet
      <3> QED BY <2>5, <3>1
    <2>7. Recovered(r)' = rdb'[r] + base'[r] + Cardinality(InTail(r)')
      BY DEF Recovered
    <2>8. mem[r] \in Nat
      BY <1>1 DEF IInv, TypeOK, Content
    <2> QED BY <2>5, <2>6, <2>7, <2>8
  <1>2. IInv /\ TypeOK' /\ [Next]_vars =>
          \A w \in Savers :
             at[w] = "renamed" /\ at'[w] # "renamed" /\ ~half' /\ unseen[w] = {} =>
                 \A r \in Request : Recovered(r)' = mem[r]
    BY <1>1
  <1>3. IInv /\ TypeOK' /\ [Next]_vars =>
          [\A w \in Savers :
             at[w] = "renamed" /\ at'[w] # "renamed" /\ ~half' /\ unseen[w] = {} =>
                 \A r \in Request : Recovered(r)' = mem[r]]_vars
    BY <1>2
  <1> QED BY <1>3, ManagerInvariance, ManagerTypeCorrect, PTL DEF Spec, QuietSaveExact

-----------------------------------------------------------------------------
(* A stop without a crash or a failed call before it.                      *)

\* The effect of r is in a file, or in none for a known reason.
Kept(r) == InRdb(r) \/ InAof(r) \/ r \in overtaken

\* In the first life, as long as no call has failed, the AOF takes what it is
\* given, and what was answered with success was given to it.
CleanLife ==
    ends = 0 /\ faults = 0 =>
        /\ phase = "down" => \A r \in Request : pc[r] = "idle"
        /\ phase \in {"serving", "stopping"} =>
             aof = "open" /\ \A r \in Request : pc[r] = "done" => Kept(r)

\* A step that leaves the files, the answers and the life of the process alone.
LEMMA CleanSame ==
    ASSUME CleanLife, UNCHANGED <<ends, faults, aof, rdb, base, tail, overtaken>>,
           phase' = phase \/ (phase = "serving" /\ phase' = "stopping"),
           \A r \in Request : pc'[r] = "done" => pc[r] = "done",
           phase = "down" => pc' = pc
    PROVE  CleanLife'
  <1>1. \A r \in Request : Kept(r)' = Kept(r)
    BY DEF Kept, InRdb, InAof, InTail
  <1> QED BY <1>1 DEF CleanLife

\* A worker's file takes the place of the RDB file, or of the AOF: what it does
\* not hold was unseen when the copy was made.
LEMMA CopyKeeps ==
    ASSUME IInv, NEW w \in Worker, at[w] \in Pending, NEW r \in Request, Known(r),
           overtaken' = overtaken \cup unseen[w]
    PROVE  snap[w][r] > 0 \/ r \in overtaken'
  BY DEF IInv, CopiesCover

LEMMA CleanHandle ==
    ASSUME IInv, CleanLife, NEW r \in Request, Handle(r)
    PROVE  CleanLife'
  <1>1. CASE Apply(r) \/ Count(r)
    <2>1. /\ UNCHANGED <<ends, faults, aof, rdb, base, tail, overtaken, phase>>
          /\ phase # "down"
      BY <1>1 DEF Apply, Count, files, manager, hist, ghosts, Running
    <2>2. \A q \in Request : pc'[q] = "done" => pc[q] = "done"
      BY <1>1 DEF Apply, Count, IInv, TypeOK
    <2> QED BY <2>1, <2>2, CleanSame
  <1>2. CASE Log(r)
    <2>1. /\ UNCHANGED <<phase, rdb, base, overtaken, ends, faults, aof>>
          /\ tail' = Append(tail, r) /\ pc' = [pc EXCEPT ![r] = "done"] /\ phase # "down"
      BY <1>2 DEF Log, Answer, Running
    <2>2. ASSUME NEW q \in Request, q = r \/ Kept(q) PROVE Kept(q)'
      <3>1. InTail(q)' # {} <=> q = r \/ InTail(q) # {}
        BY <2>1, TailAppended DEF IInv
      <3> QED BY <2>1, <2>2, <3>1 DEF Kept, InRdb, InAof
    <2>3. \A q \in Request \ {r} : pc'[q] = pc[q]
      BY <2>1 DEF IInv, TypeOK
    <2> QED BY <2>1, <2>2, <2>3 DEF CleanLife
  <1>3. CASE LogFails(r)
    <2>1. faults' # 0
      BY <1>3 DEF LogFails, Fault, IInv, TypeOK
    <2> QED BY <2>1 DEF CleanLife
  <1>4. CASE LogRefused(r)
    <2>1. UNCHANGED <<phase, ends, faults>> /\ aof # "open" /\ phase # "down"
      BY <1>4 DEF LogRefused, Answer, Running
    <2> QED BY <2>1 DEF CleanLife
  <1> QED BY <1>1, <1>2, <1>3, <1>4 DEF Handle

LEMMA CleanSave ==
    ASSUME IInv, CleanLife, NEW w \in Worker, Save(w)
    PROVE  CleanLife'
  <1>1. CASE Copy(w) \/ Copied(w) \/ EndTask(w)
    <2>1. UNCHANGED <<ends, faults, aof, rdb, base, tail, overtaken, phase, pc>>
      BY <1>1 DEF Copy, Copied, EndTask, files, manager, hist, ghosts
    <2> QED BY <2>1, CleanSame
  <1>2. CASE Rename(w)
    <2>1. /\ UNCHANGED <<phase, base, tail, pc, aof, ends, faults>> /\ rdb' = snap[w]
          /\ overtaken' = overtaken \cup unseen[w] /\ at[w] \in Pending /\ phase # "down"
      BY <1>2 DEF Rename, Pending, Running
    <2>2. ASSUME NEW r \in Request, Kept(r) PROVE Kept(r)'
      <3>1. InAof(r)' = InAof(r)
        BY <2>1 DEF InAof, InTail
      <3>2. InRdb(r) => snap[w][r] > 0 \/ r \in overtaken'
        BY <2>1, CopyKeeps DEF Known
      <3> QED BY <2>1, <2>2, <3>1, <3>2 DEF Kept, InRdb
    <2> QED BY <2>1, <2>2 DEF CleanLife
  <1>3. CASE RenameFails(w) \/ (TruncateFails(w) /\ aof # "closed")
    <2>1. faults' # 0
      BY <1>3 DEF RenameFails, TruncateFails, Fault, IInv, TypeOK
    <2> QED BY <2>1 DEF CleanLife
  <1>4. CASE Truncate(w)
    <2>1. /\ UNCHANGED <<phase, rdb, pc, ends, faults>> /\ aof' = "open" /\ phase # "down"
          /\ overtaken' = overtaken \cup unseen[w] /\ at[w] \in Pending /\ rdb = snap[w]
      BY <1>4 DEF Truncate, Pending, Running, IInv, SaveLocked
    <2>2. ASSUME NEW r \in Request, Kept(r) PROVE Kept(r)'
      <3>1. InRdb(r) \/ InAof(r) => snap[w][r] > 0 \/ r \in overtaken'
        BY <2>1, CopyKeeps DEF Known
      <3> QED BY <2>1, <2>2, <3>1 DEF Kept, InRdb
    <2> QED BY <2>1, <2>2 DEF CleanLife, Truncate
  <1>5. CASE TruncateFails(w) /\ aof = "closed"
    <2>1. UNCHANGED <<phase, ends, faults>> /\ phase # "down" /\ aof = "closed"
      BY <1>5 DEF TruncateFails, Running
    <2> QED BY <2>1 DEF CleanLife
  <1> QED BY <1>1, <1>2, <1>3, <1>4, <1>5 DEF Save

LEMMA CleanOther ==
    ASSUME IInv, CleanLife,
           Sync \/ SyncFails \/ ResetCounters \/ Rewrite \/ RewriteFails \/ Stop
           \/ Close \/ CloseEngine \/ Exit \/ Crash \/ Recover
    PROVE  CleanLife'
  <1>1. CASE Sync \/ ResetCounters \/ Stop
    <2>1. /\ UNCHANGED <<ends, faults, aof, rdb, base, tail, overtaken, pc>>
          /\ phase' = phase \/ (phase = "serving" /\ phase' = "stopping")
      BY <1>1 DEF Sync, SyncAll, AOF!DSync, ResetCounters, Stop, files, manager, hist, ghosts
    <2> QED BY <2>1, CleanSame
  <1>2. CASE SyncFails
    <2>1. faults' # 0
      BY <1>2 DEF SyncFails, Fault, IInv, TypeOK
    <2> QED BY <2>1 DEF CleanLife
  <1>3. CASE Rewrite
    <2>1. /\ UNCHANGED <<phase, rdb, pc, ends>> /\ phase # "down" /\ RewriteTask \in Worker
          /\ overtaken' = overtaken \cup unseen[RewriteTask] /\ at[RewriteTask] \in Pending
          /\ base' = snap[RewriteTask] /\ aof = "open"
      BY <1>3 DEF Rewrite, Replace, Pending, Running, Worker
    <2>2. (aof' = aof /\ faults' = faults) \/ faults' # 0
      BY <1>3 DEF Rewrite, Fault, IInv, TypeOK
    <2>3. ASSUME NEW r \in Request, Kept(r) PROVE Kept(r)'
      <3>1. InAof(r) => snap[RewriteTask][r] > 0 \/ r \in overtaken'
        BY <2>1, CopyKeeps DEF Known
      <3> QED BY <2>1, <2>3, <3>1 DEF Kept, InRdb, InAof
    <2> QED BY <2>1, <2>2, <2>3 DEF CleanLife
  <1>4. CASE RewriteFails
    <2>1. UNCHANGED <<phase, pc, ends, rdb, base, tail, overtaken>> /\ phase # "down"
      BY <1>4 DEF RewriteFails, files, ghosts, Running
    <2>2. (aof' = aof /\ faults' = faults) \/ faults' # 0
      BY <1>4 DEF RewriteFails, Fault, IInv, TypeOK
    <2>3. \A r \in Request : Kept(r)' = Kept(r)
      BY <2>1 DEF Kept, InRdb, InAof, InTail
    <2> QED BY <2>1, <2>2, <2>3 DEF CleanLife
  <1>5. CASE Close \/ CloseEngine
    <2>1. phase' \in {"stopped", "closed"}
      BY <1>5 DEF Close, CloseEngine
    <2> QED BY <2>1 DEF CleanLife
  <1>6. CASE Exit \/ Crash
    <2>1. ends' # 0
      BY <1>6 DEF Exit, Crash, Halt, IInv, TypeOK
    <2> QED BY <2>1 DEF CleanLife
  <1>7. CASE Recover
    <2>1. /\ phase = "down" /\ UNCHANGED <<pc, ends, faults>>
          /\ phase' = "refused" \/ (phase' = "serving" /\ aof' = "open")
      BY <1>7 DEF Recover
    <2> QED BY <2>1 DEF CleanLife
  <1> QED BY <1>1, <1>2, <1>3, <1>4, <1>5, <1>6, <1>7

LEMMA CleanInvariance == Spec => []CleanLife
  <1>1. Init => CleanLife
    BY DEF Init, CleanLife
  <1>2. IInv /\ CleanLife /\ [Next]_vars => CleanLife'
    <2>1. ASSUME IInv, CleanLife, UNCHANGED vars PROVE CleanLife'
      BY <2>1, CleanSame DEF vars, files, manager, hist, ghosts
    <2> QED BY <2>1, CleanHandle, CleanSave, CleanOther DEF Next
  <1> QED BY <1>1, <1>2, ManagerInvariance, PTL DEF Spec

\* Without a crash or a failed call, Stop leaves the effect of every request that
\* was answered with success durable in the files, unless a save overtook it: for
\* any number of requests and save calls, whatever the tasks were saving when
\* Stop came.
THEOREM CleanStopsKeep == Spec => CleanStopKeeps
  <1>1. ASSUME IInv, CleanLife, [Next]_vars,
               phase = "stopping", phase' = "stopped", ends = 0, faults' = 0
        PROVE  /\ synced' = Len(tail')
               /\ \A r \in Request : pc[r] = "done" => Recovered(r)' > 0 \/ r \in overtaken
    <2>1. Close
      <3>1. ASSUME NEW r \in Request, Handle(r) PROVE phase' = phase
        BY <3>1 DEF Handle, Apply, Count, Log, LogFails, LogRefused, Answer
      <3>2. ASSUME NEW w \in Worker, Save(w) PROVE phase' = phase
        BY <3>2 DEF Save, Copy, Copied, Rename, RenameFails, Truncate, TruncateFails, EndTask
      <3>3. ASSUME Sync \/ SyncFails \/ ResetCounters \/ Rewrite \/ RewriteFails \/ Stop
                   \/ CloseEngine \/ Exit \/ Crash \/ Recover
            PROVE  phase' # "stopped" \/ phase' = phase
        BY <3>3 DEF Sync, SyncFails, ResetCounters, Rewrite, RewriteFails, Stop,
                    CloseEngine, Exit, Crash, Halt, Recover
      <3> QED BY <1>1, <3>1, <3>2, <3>3 DEF Next, vars
    <2>2. faults = 0 /\ aof = "open" /\ \A r \in Request : pc[r] = "done" => Kept(r)
      <3>1. faults = 0
        BY <1>1, <2>1 DEF Close, Fault, IInv, TypeOK
      <3> QED BY <1>1, <3>1 DEF CleanLife
    <2>3. /\ UNCHANGED <<rdb, base, overtaken, tail>> /\ synced' = Len(tail)
      <3>1. SyncAll
        BY <1>1, <2>1, <2>2 DEF Close, Fault, IInv, TypeOK
      <3> QED BY <2>1, <3>1 DEF Close, SyncAll, AOF!DSync
    <2>4. ASSUME NEW r \in Request, pc[r] = "done", r \notin overtaken PROVE Recovered(r)' > 0
      <3>1. Recovered(r) > 0
        BY <1>1, <2>2, <2>4, RecoveredPositive DEF IInv, Kept
      <3>2. Recovered(r)' = Recovered(r)
        BY <2>3 DEF Recovered, InTail
      <3> QED BY <3>1, <3>2
    <2> QED BY <2>3, <2>4
  <1>2. IInv /\ CleanLife /\ [Next]_vars =>
          [phase = "stopping" /\ phase' = "stopped" /\ ends = 0 /\ faults' = 0 =>
              /\ synced' = Len(tail')
              /\ \A r \in Request :
                    pc[r] = "done" => Recovered(r)' > 0 \/ r \in overtaken]_vars
    BY <1>1
  <1> QED BY <1>2, ManagerInvariance, CleanInvariance, PTL DEF Spec, CleanStopKeeps
=============================================================================
