----------------------------- MODULE AOFLogger ------------------------------
(***************************************************************************)
(* The append-only file of internal/persistence/aof/aof.go: a bufio.Writer *)
(* in front of a file, three synchronisation strategies, truncation,       *)
(* rewrite, replay and close, with process crashes, machine crashes and    *)
(* failing system calls.                                                   *)
(*                                                                         *)
(* The bytes of a command are abstracted to Size[c] units: unit 1 is the   *)
(* length prefix, the others are the FlatBuffers data.  A torn record is   *)
(* then a record some of whose last units are missing, wherever bufio or a *)
(* crash happened to cut it.                                               *)
(*                                                                         *)
(* a.mu is held from the first to the last step of every operation: "op"   *)
(* is the operation that holds it and "step" what it does next.  (Replay   *)
(* reads without it, before anything can be logged.)                       *)
(***************************************************************************)
EXTENDS Integers, Sequences, FiniteSets, SequencesExt

CONSTANTS
    Request,      \* commands that handlers pass to WriteCommand, once each
    Compacted,    \* commands that only a rewrite puts in the file
    Size,         \* units of each command's record
    BufCap,       \* capacity of the bufio.Writer, in units
    Threshold,    \* bufferThreshold, in units
    Snapshots,    \* contents a rewrite may write, as sequences of units
    Strategies,   \* the synchronisation strategies a logger may be given
    MaxCrashes,   \* bound: crashes in a behaviour
    MaxFaults,    \* bound: system calls that fail in a behaviour
    Never         \* "replayed" before the first replay

Command == Request \cup Compacted

ASSUME SizeAssumption ==
    /\ Size \in [Command -> Nat]
    /\ \A c \in Command : Size[c] >= 2

ASSUME BufferAssumption ==
    /\ BufCap \in Nat \ {0}
    /\ Threshold \in Nat

ASSUME StrategyAssumption == Strategies \subseteq {"always", "everysec", "no"}

ASSUME BoundsAssumption == MaxCrashes \in Nat /\ MaxFaults \in Nat

Unit == UNION {{c} \X (1 .. Size[c]) : c \in Command}
Record(c) == [k \in 1 .. Size[c] |-> <<c, k>>]

IsFirst(u) == u[2] = 1
IsLast(u) == u[2] = Size[u[1]]

\* Every unit continues the record of the unit before it or starts a record
\* after a whole one.
WellFormed(s) ==
    \A i \in DOMAIN s :
        IF IsFirst(s[i]) THEN i = 1 \/ IsLast(s[i - 1])
                         ELSE i > 1 /\ s[i - 1] = <<s[i][1], s[i][2] - 1>>

\* The stream does not end inside a record.
Whole(s) == s = <<>> \/ IsLast(s[Len(s)])

\* The commands whose record is entirely in s; the same in order, as Replay
\* hands them to its handler.
Complete(s) == {c \in Command : \E i \in DOMAIN s : s[i] = <<c, Size[c]>>}
Commands(s) ==
    LET read[n \in 0 .. Len(s)] ==
            IF n = 0 THEN <<>>
            ELSE IF IsLast(s[n]) THEN Append(read[n - 1], s[n][1])
            ELSE read[n - 1]
    IN  read[Len(s)]

ASSUME SnapshotAssumption ==
    /\ Snapshots \subseteq Seq(Unit)
    /\ \A s \in Snapshots : /\ WellFormed(s)
                            /\ Whole(s)
                            /\ Complete(s) \subseteq Compacted

ASSUME NeverAssumption == Never \notin Seq(Unit)

VARIABLES
    syncStrategy, \* the strategy given to NewAOFLogger
    up,           \* the process runs
    serving,      \* Recover has succeeded: handlers may log commands
    fileOpen,     \* a.file is an open handle
    ticking,      \* the background sync goroutine runs
    closing,      \* Close: "no", "stopping" (goroutine gone, lock wanted),
                  \* "done", "failed"
    op, step,     \* holder of a.mu and its next step
    cur,          \* the command being written, the content of a rewrite
    buf,          \* units in the bufio.Writer
    werr,         \* its sticky error
    file,         \* units the kernel has for filePath
    disk,         \* units that survive a machine crash
    issued,       \* history: commands passed to WriteCommand
    acked,        \* history: commands the current file answers for, those
                  \* whose WriteCommand returned nil since the last reset
    replayed,     \* history: the content the last Replay read
    crashes, faults

life == <<up, serving, fileOpen, ticking, closing>>
lock == <<op, step, cur>>
data == <<buf, werr, file, disk>>
hist == <<issued, acked, replayed>>
bounds == <<crashes, faults>>
vars == <<syncStrategy, life, lock, data, hist, bounds>>

Ops == {"none", "write", "tick", "replay", "rewrite", "close"}
Steps == {"none", "data", "flush", "fsync", "read", "swap"}

TypeOK ==
    /\ syncStrategy \in Strategies
    /\ up \in BOOLEAN /\ serving \in BOOLEAN /\ fileOpen \in BOOLEAN
    /\ ticking \in BOOLEAN /\ closing \in {"no", "stopping", "done", "failed"}
    /\ op \in Ops /\ step \in Steps
    /\ op = "none" <=> step = "none"
    /\ op = "write" => cur \in Request
    /\ op = "rewrite" => cur \in Snapshots
    /\ buf \in Seq(Unit) /\ Len(buf) <= BufCap
    /\ werr \in BOOLEAN
    /\ file \in Seq(Unit) /\ disk \in Seq(Unit)
    /\ issued \subseteq Request /\ acked \subseteq issued
    /\ replayed \in Seq(Unit) \cup {Never}
    /\ crashes \in 0 .. MaxCrashes /\ faults \in 0 .. MaxFaults

Idle == up /\ op = "none"
Acquire(o, s) == Idle /\ op' = o /\ step' = s
Release == op' = "none" /\ step' = "none" /\ cur' = Never
Goto(s) == step' = s /\ UNCHANGED <<op, cur>>

\* A system call fails, within the bound on injected faults; on a handle
\* that is not open it always does.
CallFails == IF fileOpen THEN faults < MaxFaults /\ faults' = faults + 1
                         ELSE UNCHANGED faults

-----------------------------------------------------------------------------
(* bufio.Writer, from how WriteCommand and syncToFile use it.              *)

\* Mutant: the buffer takes one unit too many.
SpilledOneLate(b, n) == IF b + n <= BufCap + 1 THEN 0 ELSE b + n

\* How many of the b buffered and n new units bufio.Writer.Write passes to
\* the file: none when they fit; the buffer, filled up, when they do not; and
\* also the rest, directly, when the buffer is empty and that still does not
\* fit.  What is written directly leaves the buffer empty.
Spilled(b, n) ==
    IF b + n <= BufCap THEN 0
    ELSE IF b = 0 \/ b + n > 2 * BufCap THEN b + n
    ELSE BufCap

BufWrite(p) ==
    LET s == buf \o p
        k == Spilled(Len(buf), Len(p))
    IN  /\ ~werr
        /\ k > 0 => fileOpen
        /\ file' = file \o SubSeq(s, 1, k)
        /\ buf' = SubSeq(s, k + 1, Len(s))
        /\ UNCHANGED <<werr, disk>>

\* A write that needs the file fails after n units got through; the error
\* is kept, and every later use of this Writer returns it at once.
BufWriteFails(p) ==
    LET s == buf \o p
        k == Spilled(Len(buf), Len(p))
    IN  \/ werr /\ UNCHANGED <<data, faults>>
        \/ /\ ~werr /\ k > 0 /\ CallFails
           /\ \E n \in IF fileOpen THEN 0 .. k - 1 ELSE {0} :
                /\ file' = file \o SubSeq(s, 1, n)
                /\ buf' = IF buf = <<>> THEN <<>> ELSE SubSeq(s, n + 1, BufCap)
           /\ werr' = TRUE
           /\ UNCHANGED disk

-----------------------------------------------------------------------------
(* WriteCommand                                                            *)

Ack == acked' = acked \cup {cur}

\* Mutant: the size threshold applies to "always" too.
SyncsWhenFull(buffered) ==
    syncStrategy \in {"always", "no"} /\ Len(buffered) >= Threshold

\* The strategies that sync before WriteCommand returns.
SyncsNow(buffered) ==
    \/ syncStrategy = "always"
    \/ syncStrategy = "no" /\ Len(buffered) >= Threshold

WritePrefix(c) ==
    /\ serving
    /\ c \notin issued
    /\ issued' = issued \cup {c}
    /\ Acquire("write", "data")
    /\ cur' = c
    /\ BufWrite(<<<<c, 1>>>>)
    /\ UNCHANGED <<syncStrategy, life, acked, replayed, bounds>>

WritePrefixFails(c) ==
    /\ Idle /\ serving
    /\ c \notin issued
    /\ issued' = issued \cup {c}
    /\ BufWriteFails(<<<<c, 1>>>>)
    /\ UNCHANGED <<syncStrategy, life, lock, acked, replayed, crashes>>

WriteData ==
    /\ up /\ op = "write" /\ step = "data"
    /\ BufWrite(Tail(Record(cur)))
    /\ IF SyncsNow(buf')
       THEN Goto("flush") /\ UNCHANGED acked
       ELSE Release /\ Ack
    /\ UNCHANGED <<syncStrategy, life, issued, replayed, bounds>>

\* Mutant: the error of the second Write is dropped.
WriteDataErrorDropped ==
    /\ up /\ op = "write" /\ step = "data"
    /\ BufWriteFails(Tail(Record(cur)))
    /\ Release /\ Ack
    /\ UNCHANGED <<syncStrategy, life, issued, replayed, crashes>>

WriteDataFails ==
    /\ up /\ op = "write" /\ step = "data"
    /\ BufWriteFails(Tail(Record(cur)))
    /\ Release
    /\ UNCHANGED <<syncStrategy, life, hist, crashes>>

-----------------------------------------------------------------------------
(* syncToFile: Flush, then Sync, for whichever operation called it.        *)

Flush ==
    /\ up /\ step = "flush"
    /\ ~werr /\ (buf # <<>> => fileOpen)
    /\ file' = file \o buf
    /\ buf' = <<>>
    /\ Goto("fsync")
    /\ UNCHANGED <<syncStrategy, life, werr, disk, hist, bounds>>

\* Mutant: WriteCommand ignores syncToFile's error.
SyncErrorDropped ==
    /\ IF op = "replay" THEN Goto("read") ELSE Release
    /\ closing' = IF op = "close" THEN "failed" ELSE closing
    /\ IF op = "write" THEN Ack ELSE UNCHANGED acked
    /\ UNCHANGED <<syncStrategy, up, serving, fileOpen, ticking, issued, replayed, crashes>>

\* The callers differ in what they do with an error: WriteCommand, Rewrite
\* and Close return it, the tickers and Replay ignore it.
AfterSyncError ==
    /\ IF op = "replay" THEN Goto("read") ELSE Release
    /\ closing' = IF op = "close" THEN "failed" ELSE closing
    /\ UNCHANGED <<syncStrategy, up, serving, fileOpen, ticking, hist, crashes>>

FlushFailsAgain ==
    /\ up /\ step = "flush"
    /\ werr
    /\ AfterSyncError
    /\ UNCHANGED <<data, faults>>

FlushFails ==
    /\ up /\ step = "flush"
    /\ ~werr /\ buf # <<>> /\ CallFails
    /\ \E n \in IF fileOpen THEN 0 .. Len(buf) - 1 ELSE {0} :
          /\ file' = file \o SubSeq(buf, 1, n)
          /\ buf' = SubSeq(buf, n + 1, Len(buf))
    /\ werr' = TRUE
    /\ AfterSyncError
    /\ UNCHANGED disk

\* After the sync WriteCommand acknowledges, Close closes the file, Rewrite
\* goes on to replace it and Replay to read it.
Fsync ==
    /\ up /\ step = "fsync" /\ fileOpen
    /\ disk' = file
    /\ CASE op = "rewrite" -> Goto("swap")
         [] op = "replay"  -> Goto("read")
         [] OTHER          -> Release
    /\ IF op = "write" THEN Ack ELSE UNCHANGED acked
    /\ IF op = "close" THEN closing' = "done" /\ fileOpen' = FALSE
                       ELSE UNCHANGED <<closing, fileOpen>>
    /\ UNCHANGED <<syncStrategy, up, serving, ticking, buf, werr, file,
                   issued, replayed, bounds>>

FsyncFails ==
    /\ up /\ step = "fsync"
    /\ CallFails
    /\ AfterSyncError
    /\ UNCHANGED data

-----------------------------------------------------------------------------
(* The background goroutine: every second ("everysec"), or every           *)
(* timeThreshold if the last sync is that old ("no").  Time is not         *)
(* modelled: a tick may come whenever the goroutine is running, and one    *)
(* that the age test skips is a stuttering step.                           *)

\* Mutant: the ticker waits for a full buffer.
TickWhenFull ==
    /\ ticking
    /\ Len(buf) = BufCap
    /\ Acquire("tick", "flush")
    /\ UNCHANGED <<syncStrategy, life, cur, data, hist, bounds>>

Tick ==
    /\ ticking
    /\ buf # <<>>
    /\ Acquire("tick", "flush")
    /\ UNCHANGED <<syncStrategy, life, cur, data, hist, bounds>>

-----------------------------------------------------------------------------
(* Rewrite and Truncate: the file gets a new content and a new Writer.     *)

\* Mutants: the old Writer is kept; the content lands behind the old one.
ResetKeepsWriter(content) ==
    /\ file' = content
    /\ disk' = content
    /\ UNCHANGED buf
    /\ werr' = FALSE
    /\ acked' = {}

ResetAppends(content) ==
    /\ file' = file \o content
    /\ disk' = file'
    /\ buf' = <<>>
    /\ werr' = FALSE
    /\ acked' = {}

Reset(content) ==
    /\ file' = content
    /\ disk' = content
    /\ buf' = <<>>
    /\ werr' = FALSE
    /\ acked' = {}

\* The temporary file is written, synced and closed; an error there returns
\* with nothing changed.  Then the current file is synced.
RewriteTemp ==
    /\ serving /\ closing = "no"
    /\ cur' \in Snapshots
    /\ Acquire("rewrite", "flush")
    /\ UNCHANGED <<syncStrategy, life, data, hist, bounds>>

\* Close the old handle, rename, reopen.
RewriteSwap ==
    /\ up /\ step = "swap"
    /\ Reset(cur)
    /\ Release
    /\ UNCHANGED <<syncStrategy, life, issued, replayed, bounds>>

\* Reopening fails: the new content is in place, and nothing can be added.
RewriteReopenFails ==
    /\ up /\ step = "swap"
    /\ CallFails
    /\ Reset(cur)
    /\ fileOpen' = FALSE
    /\ Release
    /\ UNCHANGED <<syncStrategy, up, serving, ticking, closing, issued, replayed, crashes>>

\* Closing or renaming fails: the logger keeps a handle it has closed.
RewriteSwapFails ==
    /\ up /\ step = "swap"
    /\ CallFails
    /\ fileOpen' = FALSE
    /\ Release
    /\ UNCHANGED <<syncStrategy, up, serving, ticking, closing, data, hist, crashes>>

\* The handle is closed without flushing the Writer, and the file emptied.
\* On a handle that is not open, Close fails and Truncate changes nothing.
Truncate ==
    /\ Idle /\ serving /\ fileOpen
    /\ Reset(<<>>)
    /\ UNCHANGED <<syncStrategy, life, lock, issued, replayed, bounds>>

TruncateFails ==
    /\ Idle /\ serving /\ fileOpen
    /\ CallFails
    /\ fileOpen' = FALSE
    /\ UNCHANGED <<syncStrategy, up, serving, ticking, closing, lock, data, hist, crashes>>

-----------------------------------------------------------------------------
(* Starting, replaying, closing and dying.                                 *)

\* NewAOFLogger: the file is opened for append, with what it holds.
Open ==
    /\ ~up
    /\ up' = TRUE /\ fileOpen' = TRUE
    /\ ticking' = (syncStrategy # "always")
    /\ acked' = acked \cap Complete(file)
    /\ UNCHANGED <<syncStrategy, serving, closing, lock, data, issued,
                   replayed, bounds>>

ReplayStart ==
    /\ ~serving
    /\ Acquire("replay", "flush")
    /\ UNCHANGED <<syncStrategy, life, cur, data, hist, bounds>>

\* What ends with the process.
Halt ==
    /\ up' = FALSE /\ serving' = FALSE /\ fileOpen' = FALSE
    /\ ticking' = FALSE /\ closing' = "no"
    /\ buf' = <<>> /\ werr' = FALSE
    /\ Release

\* Mutant: a torn last record ends the replay as if it were the end of file.
TornTolerated == FALSE

\* io.ReadFull meets the end of the file inside a record.
Torn == ~Whole(file)

\* The whole records go to the handler; a torn one makes Replay fail, and
\* with it Recover, Start and main (log.Fatalf).
Replay ==
    /\ up /\ step = "read"
    /\ replayed' = file
    /\ IF Torn THEN Halt
       ELSE /\ serving' = TRUE
            /\ Release
            /\ UNCHANGED <<up, fileOpen, ticking, closing, buf, werr>>
    /\ UNCHANGED <<syncStrategy, file, disk, issued, acked, bounds>>

\* Close, once (Manager.Stop sees to that): first the goroutine, outside
\* a.mu, then the final sync.
CloseStop ==
    /\ up /\ serving /\ closing = "no"
    /\ closing' = "stopping" /\ ticking' = FALSE
    /\ op # "tick"
    /\ UNCHANGED <<syncStrategy, up, serving, fileOpen, lock, data, hist, bounds>>

\* Mutant: the final sync forgets the Writer.
CloseUnflushed ==
    /\ closing = "stopping"
    /\ Acquire("close", "fsync")
    /\ UNCHANGED <<syncStrategy, life, cur, data, hist, bounds>>

CloseSync ==
    /\ closing = "stopping"
    /\ Acquire("close", "flush")
    /\ UNCHANGED <<syncStrategy, life, cur, data, hist, bounds>>

\* main returns after Close, whatever handlers are still doing.
Exit ==
    /\ up /\ closing \in {"done", "failed"}
    /\ Halt
    /\ UNCHANGED <<syncStrategy, file, disk, hist, bounds>>

\* The process dies: what the kernel has is kept.
Crash ==
    /\ up /\ crashes < MaxCrashes
    /\ crashes' = crashes + 1
    /\ Halt
    /\ UNCHANGED <<syncStrategy, file, disk, hist, faults>>

\* The machine dies: a suffix that was not synced may be gone, cut anywhere.
MachineCrash ==
    /\ crashes < MaxCrashes
    /\ crashes' = crashes + 1
    /\ Halt
    /\ \E n \in Len(disk) .. Len(file) : file' = SubSeq(file, 1, n)
    /\ disk' = file'
    /\ UNCHANGED <<syncStrategy, hist, faults>>

-----------------------------------------------------------------------------
Init ==
    /\ syncStrategy \in Strategies
    /\ up = FALSE /\ serving = FALSE /\ fileOpen = FALSE
    /\ ticking = FALSE /\ closing = "no"
    /\ op = "none" /\ step = "none" /\ cur = Never
    /\ buf = <<>> /\ werr = FALSE /\ file = <<>> /\ disk = <<>>
    /\ issued = {} /\ acked = {} /\ replayed = Never
    /\ crashes = 0 /\ faults = 0

Write ==
    \/ \E c \in Request : WritePrefix(c) \/ WritePrefixFails(c)
    \/ WriteData \/ WriteDataFails

SyncToFile == Flush \/ FlushFails \/ FlushFailsAgain \/ Fsync \/ FsyncFails

Rewrite == RewriteTemp \/ RewriteSwap \/ RewriteReopenFails \/ RewriteSwapFails

Next ==
    \/ Write \/ SyncToFile \/ Tick \/ Rewrite
    \/ Truncate \/ TruncateFails
    \/ Open \/ ReplayStart \/ Replay
    \/ CloseStop \/ CloseSync \/ Exit
    \/ Crash \/ MachineCrash

Spec == Init /\ [][Next]_vars

\* a.mu is a sync.Mutex, whose starvation mode lets a waiting ticker in; an
\* operation that holds it finishes; a ticking goroutine keeps ticking; a
\* process that starts goes on to Replay.
Fairness ==
    /\ SF_vars(Tick)
    /\ WF_vars(WriteData \/ Flush \/ Fsync \/ RewriteSwap)
    /\ WF_vars(ReplayStart \/ Replay)

LiveSpec == Spec /\ Fairness

-----------------------------------------------------------------------------
(* Properties                                                              *)

Stream == file \o buf

\* The synced content is a prefix of the kernel's, and file and buffer
\* together are records one after the other, only the last of which may be
\* cut: bufio's spilling and direct writes, failed writes and crashes
\* (WriteCommand, syncToFile) never leave a hole or a record out of place.
StreamIntact ==
    /\ IsPrefix(disk, file)
    /\ WellFormed(Stream)

\* While the process lives, every command that WriteCommand acknowledged is
\* whole in the file or in the buffer, until a truncation or a rewrite takes
\* its place: also after the Writer has failed.
AckedInLog == up => acked \subseteq Complete(Stream)

\* Under "always" an acknowledged command survives any crash.
AlwaysDurable == syncStrategy = "always" => acked \subseteq Complete(disk)

\* As long as the Writer has not failed, the log ends in a whole record
\* whenever no WriteCommand is half way.
NoTearWhileHealthy ==
    serving /\ ~werr /\ step # "data" => Whole(Stream)

\* A log that was only ever stopped through Close can be replayed: Replay
\* meets a torn record only after a crash or a failed system call.
RefusedOnlyAfterFailure ==
    replayed # Never /\ ~Whole(replayed) => crashes + faults > 0

\* When Close returns nil every acknowledged command is durable, and the log
\* it leaves behind ends in a whole record.
CloseLosesNothing ==
    [][closing # "done" /\ closing' = "done" =>
         acked \subseteq Complete(disk') /\ Whole(disk')]_vars

\* The Writer's error is sticky: neither the command whose write or sync
\* meets it nor any later one is acknowledged, until a truncation or a rewrite
\* replaces the Writer.
FailStop == [][werr' => acked' \subseteq acked]_vars

\* The logger implements the abstract durable log, on whole records.
Abstract == INSTANCE DurableLog WITH
    Content <- {<<>>} \cup {Commands(s) : s \in Snapshots},
    log <- Commands(Stream),
    durable <- Len(Commands(disk)),
    replayed <- IF replayed = Never THEN Never ELSE Commands(replayed)

ImplementsDurableLog == Abstract!DSpec

\* "Sync every second" (SyncEverySec, aof.go:27) and "sync every 1 minute"
\* (SyncNo, aof.go:28): an acknowledged command becomes durable, unless the
\* file is replaced, the logger closed or the process dies first.
AckedBecomesDurable ==
    \A c \in Request :
        c \in acked ~> (c \in Complete(disk) \/ c \notin acked
                          \/ closing # "no" \/ ~up)
=============================================================================
