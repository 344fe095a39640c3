----------------------------- MODULE DurableLog -----------------------------
(***************************************************************************)
(* What an append-only command log promises to the code above it: commands *)
(* are kept in the order they were appended, a prefix of them is durable,  *)
(* a crash loses at most a suffix that is not durable, and a replay        *)
(* delivers exactly the commands the log still holds, in order, or says    *)
(* that it met a damaged tail after delivering them.                       *)
(*                                                                         *)
(* AOFLogger implements this specification; Persistence uses its actions.  *)
(***************************************************************************)
EXTENDS Integers, Sequences

CONSTANTS Command,   \* the commands that can be logged
          Content,   \* what a truncation or a rewrite can put in the log
          Never      \* the value of "replayed" before the first replay

VARIABLES log,       \* the commands the log holds, oldest first
          durable,   \* how many of them survive any crash
          replayed   \* what the last replay delivered

dvars == <<log, durable, replayed>>

DInit ==
    /\ log = <<>>
    /\ durable = 0
    /\ replayed = Never

\* One command joins the end of the log.
DAppend(c) ==
    /\ log' = Append(log, c)
    /\ UNCHANGED durable

\* The first n commands are durable.
DSync(n) ==
    /\ n \in durable .. Len(log)
    /\ durable' = n
    /\ UNCHANGED log

\* The content is replaced as a whole, durably: a truncation or a rewrite.
DReset(content) ==
    /\ content \in Content
    /\ log' = content
    /\ durable' = Len(content)

\* A crash keeps the first n commands of the log, never less than the durable
\* ones; those are durable still.
DCrash(n) ==
    /\ n \in durable .. Len(log)
    /\ log' = SubSeq(log, 1, n)
    /\ durable' \in durable .. n

DReplay ==
    /\ replayed' = log
    /\ UNCHANGED <<log, durable>>

DNext ==
    \/ /\ \/ \E c \in Command : DAppend(c)
          \/ DSync(durable')
          \/ \E content \in Content : DReset(content)
          \/ \E n \in 0 .. Len(log) : DCrash(n)
       /\ UNCHANGED replayed
    \/ DReplay

DSpec == DInit /\ [][DNext]_dvars
=============================================================================
