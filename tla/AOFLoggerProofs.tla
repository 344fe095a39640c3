--------------------------- MODULE AOFLoggerProofs --------------------------
(***************************************************************************)
(* Proofs that AOFLogger keeps its type, the shape of its stream and its   *)
(* durability promises, and that it implements DurableLog, for all sizes,  *)
(* buffers, strategies and bounds.                                         *)
(***************************************************************************)
EXTENDS AOFLogger, DataLemmas

-----------------------------------------------------------------------------
(* Records and streams.                                                    *)

\* A unit is a command and one of its positions.
LEMMA UnitType ==
    ASSUME NEW c \in Command, NEW k \in 1 .. Size[c]
    PROVE  <<c, k>> \in Unit
  BY DEF Unit

\* A record is the sequence of its command's units, first to last.
LEMMA RecordType ==
    ASSUME NEW c \in Command
    PROVE  /\ Size[c] \in Nat /\ Size[c] >= 2
           /\ Record(c) \in Seq(Unit) /\ Len(Record(c)) = Size[c]
           /\ Tail(Record(c)) \in Seq(Unit)
           /\ Len(Tail(Record(c))) = Size[c] - 1
           /\ \A i \in 1 .. Size[c] - 1 : Tail(Record(c))[i] = <<c, i + 1>>
  <1>1. Size[c] \in Nat /\ Size[c] >= 2
    BY SizeAssumption
  <1>2. /\ Record(c) \in Seq(Unit) /\ Len(Record(c)) = Size[c]
        /\ \A i \in 1 .. Size[c] : Record(c)[i] = <<c, i>>
    <2>1. \A i \in 1 .. Size[c] : <<c, i>> \in Unit
      BY UnitType
    <2> QED BY <1>1, <2>1 DEF Record
  <1> DEFINE r == Record(c)
  <1> HIDE DEF r
  <1>3. r \in Seq(Unit) /\ Len(r) = Size[c] /\ r # <<>>
        /\ \A i \in 1 .. Size[c] : r[i] = <<c, i>>
    BY <1>1, <1>2 DEF r
  <1>4. /\ Tail(r) \in Seq(Unit) /\ Len(Tail(r)) = Size[c] - 1
        /\ \A i \in 1 .. Size[c] - 1 : Tail(r)[i] = r[i + 1]
    BY <1>1, <1>3
  <1>5. \A i \in 1 .. Size[c] - 1 : r[i + 1] = <<c, i + 1>>
    BY <1>1, <1>3
  <1> QED BY <1>1, <1>2, <1>4, <1>5 DEF r

\* What is complete in a prefix is complete in the whole.
LEMMA CompletePrefix ==
    ASSUME NEW s \in Seq(Unit), NEW t \in Seq(Unit), IsPrefix(s, t)
    PROVE  Complete(s) \subseteq Complete(t)
  <1>1. Len(s) <= Len(t) /\ \A i \in 1 .. Len(s) : s[i] = t[i]
    BY PrefixElements
  <1>2. \A i \in DOMAIN s : i \in DOMAIN t /\ s[i] = t[i]
    BY <1>1, LenProperties
  <1> QED BY <1>2 DEF Complete

\* A prefix of a well-formed stream is well formed.
LEMMA WellFormedPrefix ==
    ASSUME NEW s \in Seq(Unit), NEW t \in Seq(Unit), IsPrefix(s, t), WellFormed(t)
    PROVE  WellFormed(s)
  <1>1. Len(s) <= Len(t) /\ \A i \in 1 .. Len(s) : s[i] = t[i]
    BY PrefixElements
  <1>2. \A i \in DOMAIN s : /\ i \in DOMAIN t /\ s[i] = t[i]
                            /\ i > 1 => s[i - 1] = t[i - 1]
    BY <1>1, LenProperties
  <1>3. \A i \in DOMAIN s : i \in Nat /\ i >= 1
    BY LenProperties
  <1> QED BY <1>2, <1>3 DEF WellFormed, IsLast

\* A record can start after a whole one.
LEMMA StartRecord ==
    ASSUME NEW s \in Seq(Unit), WellFormed(s), Whole(s), NEW c \in Command
    PROVE  LET t == s \o <<<<c, 1>>>>
           IN  /\ t \in Seq(Unit) /\ WellFormed(t)
               /\ t # <<>> /\ t[Len(t)] = <<c, 1>>
  <1> DEFINE t == s \o <<<<c, 1>>>>
  <1>1. <<c, 1>> \in Unit
    BY RecordType, UnitType
  <1>2. /\ t \in Seq(Unit) /\ Len(t) = Len(s) + 1 /\ t[Len(s) + 1] = <<c, 1>>
        /\ \A i \in 1 .. Len(s) : t[i] = s[i]
    BY <1>1
  <1> HIDE DEF t
  <1>3. ASSUME NEW i \in DOMAIN t
        PROVE  IF IsFirst(t[i]) THEN i = 1 \/ IsLast(t[i - 1])
                                ELSE i > 1 /\ t[i - 1] = <<t[i][1], t[i][2] - 1>>
    <2>1. CASE i = Len(s) + 1
      <3>1. IsFirst(t[i])
        BY <1>2, <2>1 DEF IsFirst
      <3>2. s # <<>> => Len(s) \in 1 .. Len(s) /\ IsLast(s[Len(s)])
        BY LenProperties, EmptySeq DEF Whole
      <3>3. s # <<>> => t[i - 1] = s[Len(s)]
        BY <1>2, <2>1, <3>2
      <3>4. s = <<>> => i = 1
        BY <2>1
      <3> QED BY <3>1, <3>2, <3>3, <3>4
    <2>2. CASE i \in 1 .. Len(s)
      <3>1. t[i] = s[i] /\ (i > 1 => t[i - 1] = s[i - 1]) /\ i \in DOMAIN s
        BY <1>2, <2>2, LenProperties
      <3> QED BY <2>2, <3>1 DEF WellFormed
    <2>3. i \in 1 .. Len(s) + 1
      BY <1>2
    <2> QED BY <2>1, <2>2, <2>3, LenProperties
  <1>4. WellFormed(t)
    BY <1>3 DEF WellFormed
  <1>5. t # <<>> /\ t[Len(t)] = <<c, 1>>
    BY <1>2
  <1> QED BY <1>2, <1>4, <1>5 DEF t

\* And the rest of it completes it.
LEMMA FinishRecord ==
    ASSUME NEW s \in Seq(Unit), WellFormed(s), NEW c \in Command,
           s # <<>>, s[Len(s)] = <<c, 1>>
    PROVE  LET t == s \o Tail(Record(c))
           IN  t \in Seq(Unit) /\ WellFormed(t) /\ Whole(t) /\ c \in Complete(t)
  <1> DEFINE p == Tail(Record(c))
             t == s \o p
  <1>0. PICK n \in Nat : n = Size[c] /\ n >= 2
    BY RecordType
  <1>1. /\ p \in Seq(Unit) /\ Len(p) = n - 1
        /\ \A i \in 1 .. n - 1 : p[i] = <<c, i + 1>>
    BY <1>0, RecordType
  <1> HIDE DEF p
  <1>2. /\ t \in Seq(Unit) /\ Len(t) = Len(s) + (n - 1)
        /\ \A i \in 1 .. Len(s) : t[i] = s[i]
        /\ \A i \in 1 .. n - 1 : t[Len(s) + i] = p[i]
    <2>1. /\ t \in Seq(Unit) /\ Len(t) = Len(s) + Len(p)
          /\ \A i \in 1 .. Len(s) + Len(p) :
                t[i] = IF i <= Len(s) THEN s[i] ELSE p[i - Len(s)]
      BY <1>1, ConcatProperties
    <2>2. Len(s) \in Nat
      BY LenProperties
    <2>3. ASSUME NEW i \in 1 .. n - 1
          PROVE  t[Len(s) + i] = p[i]
      <3>1. Len(s) + i \in 1 .. Len(s) + Len(p) /\ ~(Len(s) + i <= Len(s))
            /\ (Len(s) + i) - Len(s) = i
        BY <1>0, <1>1, <2>2
      <3> QED BY <2>1, <3>1
    <2>4. ASSUME NEW i \in 1 .. Len(s)
          PROVE  t[i] = s[i]
      BY <1>0, <1>1, <2>1, <2>2
    <2> QED BY <1>1, <2>1, <2>3, <2>4
  <1> HIDE DEF t
  <1>3. Len(s) \in Nat /\ Len(s) >= 1
    BY EmptySeq
  <1>4. \A i \in 0 .. n - 1 : t[Len(s) + i] = <<c, i + 1>>
    <2>1. t[Len(s) + 0] = <<c, 0 + 1>>
      BY <1>2, <1>3
    <2>2. ASSUME NEW i \in 1 .. n - 1
          PROVE  t[Len(s) + i] = <<c, i + 1>>
      BY <1>1, <1>2
    <2>3. \A i \in 0 .. n - 1 : i = 0 \/ i \in 1 .. n - 1
      BY <1>0
    <2> QED BY <2>1, <2>2, <2>3
  <1>5. ASSUME NEW i \in DOMAIN t
        PROVE  IF IsFirst(t[i]) THEN i = 1 \/ IsLast(t[i - 1])
                                ELSE i > 1 /\ t[i - 1] = <<t[i][1], t[i][2] - 1>>
    <2>1. i \in 1 .. Len(s) + (n - 1)
      BY <1>2, LenProperties
    <2>2. CASE i <= Len(s)
      <3>1. t[i] = s[i] /\ (i > 1 => t[i - 1] = s[i - 1]) /\ i \in DOMAIN s
        <4>1. i \in 1 .. Len(s) /\ (i > 1 => i - 1 \in 1 .. Len(s))
          BY <1>3, <2>1, <2>2
        <4> QED BY <1>2, <4>1, LenProperties
      <3> QED BY <3>1, <2>1 DEF WellFormed
    <2>3. CASE i > Len(s)
      <3>0. PICK j \in 1 .. n - 1 : i = Len(s) + j
        <4>1. i - Len(s) \in 1 .. n - 1 /\ i = Len(s) + (i - Len(s))
          <5>1. i \in Nat /\ i > Len(s) /\ i <= Len(s) + (n - 1) /\ Len(s) \in Nat
            BY <1>3, <2>1, <2>3
          <5> QED BY <1>0, <5>1, SMTT(20)
        <4> QED BY <4>1
      <3>1. j \in 0 .. n - 1 /\ j - 1 \in 0 .. n - 1 /\ (j - 1) + 1 = j
            /\ i - 1 = Len(s) + (j - 1) /\ i > 1 /\ j + 1 # 1 /\ (j + 1) - 1 = j
        BY <1>0, <1>3, <3>0
      <3>2. t[i] = <<c, j + 1>>
        BY <1>4, <3>0, <3>1
      <3>3. t[i - 1] = <<c, j>>
        <4>1. t[Len(s) + (j - 1)] = <<c, (j - 1) + 1>>
          BY <1>4, <3>1
        <4> QED BY <3>1, <4>1
      <3>4. ~IsFirst(t[i])
        BY <3>1, <3>2 DEF IsFirst
      <3> QED BY <3>1, <3>2, <3>3, <3>4
    <2> QED BY <1>3, <2>1, <2>2, <2>3
  <1>6. WellFormed(t)
    BY <1>5 DEF WellFormed
  <1>7. t[Len(t)] = <<c, Size[c]>> /\ Len(t) \in DOMAIN t
    <2>1. n - 1 \in 0 .. n - 1 /\ Len(t) = Len(s) + (n - 1) /\ (n - 1) + 1 = n
      BY <1>0, <1>2, <1>3
    <2>2. t[Len(s) + (n - 1)] = <<c, (n - 1) + 1>>
      BY <1>4, <2>1
    <2>3. Len(t) \in 1 .. Len(t)
      BY <1>0, <1>2, <1>3
    <2> QED BY <1>0, <1>2, <2>1, <2>2, <2>3, LenProperties
  <1>8. Whole(t) /\ c \in Complete(t)
    BY <1>7 DEF Whole, IsLast, Complete
  <1> QED BY <1>2, <1>6, <1>8 DEF t, p

-----------------------------------------------------------------------------
(* The Writer.                                                             *)

\* bufio writes no more than it has, and keeps no more than its capacity.
LEMMA SpilledType ==
    ASSUME NEW b \in 0 .. BufCap, NEW n \in Nat
    PROVE  /\ Spilled(b, n) \in 0 .. b + n
           /\ b + n - Spilled(b, n) \in 0 .. BufCap
           /\ Spilled(b, n) > 0 => b + n > BufCap
           /\ b = 0 /\ Spilled(b, n) > 0 => Spilled(b, n) = n
  BY BufferAssumption DEF Spilled

\* Units are appended in any grouping, and their numbers add up.
LEMMA StreamAssociative ==
    ASSUME NEW f \in Seq(Unit), NEW b \in Seq(Unit), NEW p \in Seq(Unit)
    PROVE  f \o (b \o p) = (f \o b) \o p
  BY ConcatAssociative, SMTT(30)

LEMMA StreamLengths ==
    ASSUME NEW f \in Seq(Unit), NEW b \in Seq(Unit)
    PROVE  f \o b \in Seq(Unit) /\ Len(f \o b) = Len(f) + Len(b) /\ Len(f) \in Nat
  OBVIOUS

\* A write that succeeds appends p to the stream.
LEMMA BufWriteAppends ==
    ASSUME buf \in Seq(Unit), Len(buf) <= BufCap, file \in Seq(Unit),
           NEW p \in Seq(Unit), BufWrite(p)
    PROVE  /\ file' \in Seq(Unit) /\ buf' \in Seq(Unit) /\ Len(buf') <= BufCap
           /\ Stream' = Stream \o p
           /\ IsPrefix(file, file')
           /\ ~werr /\ werr' = werr /\ disk' = disk
  <1> DEFINE s == buf \o p
             k == Spilled(Len(buf), Len(p))
  <1>1. s \in Seq(Unit) /\ Len(s) = Len(buf) + Len(p) /\ Len(buf) \in Nat /\ Len(p) \in Nat
    OBVIOUS
  <1>2. k \in 0 .. Len(s) /\ Len(s) - k <= BufCap
    <2>1. Len(buf) \in 0 .. BufCap
      BY <1>1, BufferAssumption
    <2>2. /\ Spilled(Len(buf), Len(p)) \in 0 .. Len(buf) + Len(p)
          /\ Len(buf) + Len(p) - Spilled(Len(buf), Len(p)) \in 0 .. BufCap
      BY <1>1, <2>1, SpilledType
    <2> QED BY <1>1, <2>2, BufferAssumption
  <1>3. file' = file \o SubSeq(s, 1, k) /\ buf' = SubSeq(s, k + 1, Len(s))
        /\ ~werr /\ werr' = werr /\ disk' = disk
    BY DEF BufWrite
  <1>4. file \o s = (file \o buf) \o p
    BY StreamAssociative
  <1> HIDE DEF s, k
  <1>5. file' \in Seq(Unit) /\ buf' \in Seq(Unit) /\ file' \o buf' = file \o s
    BY <1>1, <1>2, <1>3, CutJoin, ZenonT(30)
  <1>6. Len(buf') <= BufCap
    BY <1>1, <1>2, <1>3, BufferAssumption
  <1>7. IsPrefix(file, file')
    <2>1. SubSeq(s, 1, k) \in Seq(Unit)
      BY <1>1, <1>2
    <2> QED BY <1>3, <2>1, PrefixConcat
  <1> QED BY <1>3, <1>4, <1>5, <1>6, <1>7 DEF Stream

\* A write that fails leaves a stream between what was there and what it
\* would have been.
LEMMA BufWriteFailsKeeps ==
    ASSUME buf \in Seq(Unit), Len(buf) <= BufCap, file \in Seq(Unit),
           werr \in BOOLEAN, faults \in 0 .. MaxFaults,
           NEW p \in Seq(Unit), BufWriteFails(p)
    PROVE  /\ file' \in Seq(Unit) /\ buf' \in Seq(Unit) /\ Len(buf') <= BufCap
           /\ IsPrefix(Stream, Stream')
           /\ werr => Stream' = Stream
           /\ ~werr => IsPrefix(Stream', Stream \o p) /\ Len(Stream') < Len(Stream \o p)
           /\ IsPrefix(file, file')
           /\ werr' = TRUE /\ disk' = disk /\ faults' \in 0 .. MaxFaults
  <1>1. CASE werr /\ UNCHANGED <<data, faults>>
    <2>1. file' = file /\ buf' = buf /\ werr' = werr /\ disk' = disk /\ faults' = faults
      BY <1>1 DEF data
    <2>2. Stream \in Seq(Unit) /\ Stream' = Stream
      BY <2>1 DEF Stream
    <2> QED BY <1>1, <2>1, <2>2, PrefixReflexive
  <1>2. CASE ~(werr /\ UNCHANGED <<data, faults>>)
    <2> DEFINE s == buf \o p
               k == Spilled(Len(buf), Len(p))
    <2>1. PICK n \in IF fileOpen THEN 0 .. k - 1 ELSE {0} :
              /\ file' = file \o SubSeq(s, 1, n)
              /\ buf' = IF buf = <<>> THEN <<>> ELSE SubSeq(s, n + 1, BufCap)
      BY <1>2 DEF BufWriteFails
    <2>2. ~werr /\ k > 0 /\ CallFails /\ werr' = TRUE /\ disk' = disk
      BY <1>2 DEF BufWriteFails
    <2>3. s \in Seq(Unit) /\ Len(s) = Len(buf) + Len(p) /\ Len(buf) \in Nat /\ Len(p) \in Nat
      OBVIOUS
    <2>4. k \in 0 .. Len(s) /\ n \in 0 .. Len(s) /\ n < Len(s) /\ Len(s) > BufCap
      <3>1. Len(buf) \in 0 .. BufCap
        BY <2>3, BufferAssumption
      <3>2. k \in 0 .. Len(s) /\ Len(s) > BufCap
        BY <2>2, <2>3, <3>1, SpilledType
      <3> HIDE DEF k, s
      <3> QED BY <2>1, <2>2, <3>2
    <2>5. faults' \in 0 .. MaxFaults
      BY <2>2, BoundsAssumption DEF CallFails
    <2>6. file \o s = Stream \o p /\ Stream \in Seq(Unit)
          /\ Stream \o p \in Seq(Unit) /\ Len(Stream) = Len(file) + Len(buf)
          /\ Len(Stream \o p) = Len(file) + Len(s)
          /\ Len(file) \in Nat
      <3>1. file \o s = (file \o buf) \o p
        BY StreamAssociative
      <3> HIDE DEF s
      <3>2. /\ file \o buf \in Seq(Unit) /\ (file \o buf) \o p \in Seq(Unit)
            /\ Len(file \o buf) = Len(file) + Len(buf) /\ Len(file) \in Nat
            /\ Len(file \o s) = Len(file) + Len(s)
        BY <2>3, StreamLengths
      <3> QED BY <3>1, <3>2 DEF Stream
    <2> HIDE DEF s, k
    <2>7. SubSeq(s, 1, n) \in Seq(Unit) /\ file' \in Seq(Unit) /\ IsPrefix(file, file')
      <3>1. SubSeq(s, 1, n) \in Seq(Unit)
        BY <2>3, <2>4
      <3> QED BY <2>1, <3>1, PrefixConcat
    <2>8. IsPrefix(Stream, Stream \o p)
      BY <2>6, PrefixConcat
    <2>9. CASE buf = <<>>
      <3>1. buf' = <<>> /\ Len(buf') = 0 /\ Stream' = file' /\ Stream = file
        BY <2>1, <2>7, <2>9, ConcatEmptySeq DEF Stream
      <3>2. IsPrefix(file', file \o s)
        BY <2>1, <2>3, <2>4, PrefixConcatCut
      <3>3. Len(Stream') = Len(file) + n
        BY <2>1, <2>3, <2>4, <3>1
      <3>4. Len(Stream') < Len(Stream \o p)
        BY <2>3, <2>4, <2>6, <3>3
      <3> QED BY <2>2, <2>5, <2>6, <2>7, <3>1, <3>2, <3>4, BufferAssumption
    <2>10. CASE buf # <<>> /\ n <= BufCap
      <3>1. /\ BufCap \in 0 .. Len(s) /\ n \in 0 .. BufCap
        BY <2>4, <2>10, <2>3, BufferAssumption
      <3>2. /\ buf' \in Seq(Unit) /\ Len(buf') = BufCap - n
            /\ file' \o buf' = file \o SubSeq(s, 1, BufCap)
        <4>1. /\ SubSeq(s, n + 1, BufCap) \in Seq(Unit)
              /\ Len(SubSeq(s, n + 1, BufCap)) = BufCap - n
              /\ (file \o SubSeq(s, 1, n)) \o SubSeq(s, n + 1, BufCap)
                   = file \o SubSeq(s, 1, BufCap)
          <5>1. s \in Seq(Unit) /\ BufCap \in 0 .. Len(s) /\ n \in 0 .. BufCap
            BY <2>3, <3>1
          <5>2. SubSeq(s, n + 1, BufCap) \in Seq(Unit)
            BY <5>1
          <5>3. Len(SubSeq(s, n + 1, BufCap)) = BufCap - n
            BY <5>1
          <5>4. (file \o SubSeq(s, 1, n)) \o SubSeq(s, n + 1, BufCap)
                   = file \o SubSeq(s, 1, BufCap)
            BY <5>1, CutMiddle
          <5> QED BY <5>2, <5>3, <5>4
        <4> QED BY <2>1, <2>10, <4>1
      <3>3. /\ Stream' \in Seq(Unit) /\ IsPrefix(Stream', Stream \o p)
            /\ Stream' = file \o SubSeq(s, 1, BufCap)
        BY <2>3, <2>6, <3>1, <3>2, PrefixConcatCut DEF Stream
      <3>4. Len(Stream') = Len(file) + BufCap
        <4>1. SubSeq(s, 1, BufCap) \in Seq(Unit) /\ Len(SubSeq(s, 1, BufCap)) = BufCap
          BY <2>3, <3>1
        <4> QED BY <3>3, <4>1
      <3>5. /\ Len(Stream) <= Len(Stream') /\ Len(buf') <= BufCap
            /\ Len(Stream') < Len(Stream \o p)
        BY <2>4, <2>3, <2>6, <3>1, <3>2, <3>4, BufferAssumption
      <3>6. IsPrefix(Stream, Stream')
        BY <2>6, <2>8, <3>3, <3>5, PrefixCompare
      <3> QED BY <2>2, <2>5, <2>7, <3>2, <3>3, <3>5, <3>6
    <2>11. CASE buf # <<>> /\ n > BufCap
      <3>1. buf' = <<>> /\ Len(buf') = 0
        <4>1. buf' = SubSeq(s, n + 1, BufCap) /\ n + 1 \in Int /\ BufCap \in Int
          BY <2>1, <2>4, <2>11, BufferAssumption
        <4>2. BufCap < n + 1
          BY <2>4, <2>11, BufferAssumption
        <4> QED BY <4>1, <4>2, SubSeqEmpty
      <3>2. Stream' = file'
        BY <2>7, <3>1, ConcatEmptySeq DEF Stream
      <3>3. IsPrefix(Stream', Stream \o p)
        BY <2>1, <2>3, <2>4, <2>6, <3>2, PrefixConcatCut
      <3>4. Len(Stream') = Len(file) + n
        <4>1. SubSeq(s, 1, n) \in Seq(Unit) /\ Len(SubSeq(s, 1, n)) = n
          BY <2>3, <2>4
        <4> QED BY <2>1, <3>2, <4>1
      <3>5. Len(Stream) <= Len(Stream') /\ Len(Stream') < Len(Stream \o p)
        BY <2>3, <2>4, <2>6, <2>11, <3>4, BufferAssumption
      <3>6. IsPrefix(Stream, Stream')
        BY <2>6, <2>7, <2>8, <3>2, <3>3, <3>5, PrefixCompare
      <3> QED BY <2>2, <2>5, <2>7, <3>1, <3>3, <3>5, <3>6, BufferAssumption
    <2>12. n <= BufCap \/ n > BufCap
      BY <2>4, BufferAssumption
    <2> QED BY <2>9, <2>10, <2>11, <2>12, Zenon
  <1> QED BY <1>1, <1>2

-----------------------------------------------------------------------------
(* The inductive invariant: the properties, and what the holder of a.mu    *)
(* has already done at each of its steps.                                  *)

LockOK ==
    /\ ~up => op = "none" /\ ~serving
    /\ ~serving => op \in {"none", "replay"} /\ buf = <<>> /\ ~werr
    /\ op = "write" => step \in {"data", "flush", "fsync"}
    /\ step = "data" => /\ op = "write" /\ ~werr /\ Stream # <<>>
                        /\ Stream[Len(Stream)] = <<cur, 1>>
    /\ op = "write" /\ step # "data" => cur \in Complete(Stream)
    /\ step = "fsync" => buf = <<>> /\ ~werr
    /\ step = "swap" <=> op = "rewrite" /\ step \notin {"flush", "fsync"}
    /\ step = "read" => op = "replay"
    /\ op = "replay" => ~serving
    /\ op = "write" => cur \in issued
    /\ closing # "no" => serving

IInv ==
    /\ TypeOK /\ LockOK
    /\ StreamIntact /\ AckedInLog /\ AlwaysDurable /\ NoTearWhileHealthy

\* File and buffer together are a sequence of units.
LEMMA StreamType ==
    ASSUME TypeOK
    PROVE  Stream \in Seq(Unit) /\ file \in Seq(Unit) /\ buf \in Seq(Unit)
           /\ disk \in Seq(Unit) /\ IsPrefix(file, Stream)
  BY PrefixConcat DEF TypeOK, Stream

\* A new logger, on an empty file.
LEMMA InitIInv == Init => IInv
  <1> SUFFICES ASSUME Init PROVE IInv
    OBVIOUS
  <1> USE DEF Init
  <1>1. TypeOK
    <2>1. buf \in Seq(Unit) /\ Len(buf) <= BufCap /\ file \in Seq(Unit) /\ disk \in Seq(Unit)
      BY EmptySeq, BufferAssumption
    <2>2. crashes \in 0 .. MaxCrashes /\ faults \in 0 .. MaxFaults
      BY BoundsAssumption
    <2> QED BY <2>1, <2>2 DEF TypeOK, Ops, Steps
  <1>2. Stream = <<>>
    BY DEF Stream
  <1>3. IsPrefix(disk, file) /\ WellFormed(Stream)
    <2>1. DOMAIN Stream = {}
      BY <1>2
    <2>2. disk \in Seq(Unit) /\ file = disk
      BY EmptySeq
    <2> QED BY <2>1, <2>2, PrefixReflexive DEF WellFormed
  <1>4. LockOK
    BY DEF LockOK
  <1> QED BY <1>1, <1>3, <1>4 DEF IInv, StreamIntact, AckedInLog, AlwaysDurable,
                                  NoTearWhileHealthy

\* WriteCommand, the length prefix: a record starts after a whole one.
LEMMA WritePrefixIInv ==
    ASSUME IInv, NEW c \in Request, WritePrefix(c)
    PROVE  IInv'
  <1> USE DEF IInv
  <1>1. c \in Command /\ <<c, 1>> \in Unit /\ <<<<c, 1>>>> \in Seq(Unit)
    BY RecordType, UnitType DEF Command
  <1>2. /\ up /\ serving /\ op = "none" /\ step = "none" /\ c \notin issued
        /\ issued' = issued \cup {c} /\ op' = "write" /\ step' = "data" /\ cur' = c
        /\ acked' = acked /\ up' = up /\ serving' = serving
        /\ syncStrategy' = syncStrategy
    BY DEF WritePrefix, Acquire, Idle, life, TypeOK
  <1>3. /\ file' \in Seq(Unit) /\ buf' \in Seq(Unit) /\ Len(buf') <= BufCap
        /\ Stream' = Stream \o <<<<c, 1>>>>
        /\ IsPrefix(file, file')
        /\ ~werr /\ werr' = werr /\ disk' = disk
    BY <1>1, BufWriteAppends DEF WritePrefix, TypeOK
  <1>4. /\ Stream' \in Seq(Unit) /\ WellFormed(Stream')
        /\ Stream' # <<>> /\ Stream'[Len(Stream')] = <<c, 1>>
        /\ IsPrefix(Stream, Stream')
    <2>1. WellFormed(Stream) /\ Whole(Stream)
      BY <1>2, <1>3 DEF StreamIntact, NoTearWhileHealthy
    <2> QED BY <1>1, <1>3, <2>1, StreamType, StartRecord, PrefixConcat
  <1>5. TypeOK'
    BY <1>2, <1>3 DEF TypeOK, WritePrefix, life, bounds, Ops, Steps
  <1>6. LockOK'
    BY <1>2, <1>3, <1>4 DEF LockOK
  <1>7. StreamIntact'
    <2>1. IsPrefix(disk, file')
      BY <1>3, StreamType, PrefixTransitive DEF StreamIntact
    <2> QED BY <1>3, <1>4, <2>1 DEF StreamIntact
  <1>8. AckedInLog' /\ AlwaysDurable'
    BY <1>2, <1>3, <1>4, StreamType, CompletePrefix DEF AckedInLog, AlwaysDurable
  <1>9. NoTearWhileHealthy'
    BY <1>2 DEF NoTearWhileHealthy
  <1> QED BY <1>5, <1>6, <1>7, <1>8, <1>9

\* The data: the record becomes whole, and is acknowledged at once unless the
\* strategy wants it synced.
LEMMA WriteDataIInv ==
    ASSUME IInv, WriteData
    PROVE  IInv'
  <1> USE DEF IInv
  <1>1. /\ up /\ op = "write" /\ step = "data" /\ cur \in Request /\ cur \in issued
        /\ serving /\ ~werr
        /\ up' = up /\ serving' = serving /\ syncStrategy' = syncStrategy
        /\ issued' = issued
    BY DEF WriteData, life, TypeOK, LockOK
  <1>2. cur \in Command
    BY <1>1 DEF Command
  <1> DEFINE p == Tail(Record(cur))
  <1>3. p \in Seq(Unit)
    BY <1>2, RecordType
  <1>4. /\ file' \in Seq(Unit) /\ buf' \in Seq(Unit) /\ Len(buf') <= BufCap
        /\ Stream' = Stream \o p
        /\ IsPrefix(file, file')
        /\ ~werr /\ werr' = werr /\ disk' = disk
    BY <1>3, BufWriteAppends DEF WriteData, TypeOK
  <1>5. /\ Stream' \in Seq(Unit) /\ WellFormed(Stream') /\ Whole(Stream')
        /\ cur \in Complete(Stream') /\ IsPrefix(Stream, Stream')
    <2>1. /\ WellFormed(Stream) /\ Stream # <<>>
          /\ Stream[Len(Stream)] = <<cur, 1>>
      BY <1>1 DEF StreamIntact, LockOK
    <2>2. Stream \in Seq(Unit)
      BY StreamType
    <2> QED BY <1>2, <1>3, <1>4, <2>1, <2>2, FinishRecord, PrefixConcat
  <1>6. \/ op' = op /\ step' = "flush" /\ cur' = cur /\ acked' = acked
        \/ /\ op' = "none" /\ step' = "none" /\ cur' = Never
           /\ acked' = acked \cup {cur} /\ syncStrategy # "always"
    BY DEF WriteData, Goto, Release, Ack, SyncsNow
  <1>7. TypeOK'
    BY <1>1, <1>4, <1>6 DEF TypeOK, WriteData, life, bounds, Ops, Steps
  <1>8. LockOK'
    BY <1>1, <1>4, <1>5, <1>6 DEF LockOK
  <1>9. StreamIntact'
    <2>1. IsPrefix(disk, file')
      BY <1>4, StreamType, PrefixTransitive DEF StreamIntact
    <2> QED BY <1>4, <1>5, <2>1 DEF StreamIntact
  <1>10. AckedInLog'
    BY <1>1, <1>5, <1>6, StreamType, CompletePrefix DEF AckedInLog
  <1>11. AlwaysDurable'
    BY <1>1, <1>4, <1>6 DEF AlwaysDurable
  <1>12. NoTearWhileHealthy'
    BY <1>5 DEF NoTearWhileHealthy
  <1> QED BY <1>7, <1>8, <1>9, <1>10, <1>11, <1>12

\* A write that fails tears at most its own record, and latches the error.
LEMMA WriteFailsStream ==
    ASSUME IInv, NEW p \in Seq(Unit), BufWriteFails(p),
           ~werr => WellFormed(Stream \o p)
    PROVE  /\ file' \in Seq(Unit) /\ buf' \in Seq(Unit) /\ Len(buf') <= BufCap
           /\ Stream' \in Seq(Unit)
           /\ werr' = TRUE /\ disk' = disk /\ faults' \in 0 .. MaxFaults
           /\ IsPrefix(Stream, Stream') /\ StreamIntact'
           /\ werr => Stream' = Stream
           /\ ~werr => IsPrefix(Stream', Stream \o p) /\ Len(Stream') < Len(Stream \o p)
  <1> USE DEF IInv
  <1>1. /\ file' \in Seq(Unit) /\ buf' \in Seq(Unit) /\ Len(buf') <= BufCap
        /\ IsPrefix(Stream, Stream')
        /\ werr => Stream' = Stream
        /\ ~werr => IsPrefix(Stream', Stream \o p) /\ Len(Stream') < Len(Stream \o p)
        /\ IsPrefix(file, file')
        /\ werr' = TRUE /\ disk' = disk /\ faults' \in 0 .. MaxFaults
    BY BufWriteFailsKeeps DEF TypeOK
  <1>2. Stream' \in Seq(Unit) /\ Stream \in Seq(Unit) /\ Stream \o p \in Seq(Unit)
    <2>1. Stream' \in Seq(Unit)
      BY <1>1 DEF Stream
    <2>2. Stream \in Seq(Unit)
      BY StreamType
    <2> QED BY <2>1, <2>2
  <1>3. WellFormed(Stream')
    <2>1. CASE werr
      BY <1>1, <2>1 DEF StreamIntact
    <2>2. CASE ~werr
      BY <1>1, <1>2, <2>2, WellFormedPrefix
    <2> QED BY <2>1, <2>2
  <1>4. IsPrefix(disk, file')
    BY <1>1, StreamType, PrefixTransitive DEF StreamIntact
  <1> QED BY <1>1, <1>2, <1>3, <1>4 DEF StreamIntact

\* The length prefix meets, or raises, the Writer's error.
LEMMA WritePrefixFailsIInv ==
    ASSUME IInv, NEW c \in Request, WritePrefixFails(c)
    PROVE  IInv'
  <1> USE DEF IInv
  <1>1. c \in Command /\ <<<<c, 1>>>> \in Seq(Unit)
    BY RecordType, UnitType DEF Command
  <1>2. /\ up /\ op = "none" /\ serving /\ step = "none"
        /\ op' = op /\ step' = step /\ cur' = cur /\ acked' = acked
        /\ up' = up /\ serving' = serving /\ syncStrategy' = syncStrategy
        /\ issued' = issued \cup {c} /\ BufWriteFails(<<<<c, 1>>>>)
    BY DEF WritePrefixFails, Idle, life, lock, TypeOK
  <1>3. ~werr => WellFormed(Stream \o <<<<c, 1>>>>)
    <2>1. ~werr => WellFormed(Stream) /\ Whole(Stream)
      BY <1>2 DEF StreamIntact, NoTearWhileHealthy
    <2> QED BY <1>1, <2>1, StreamType, StartRecord
  <1>4. /\ file' \in Seq(Unit) /\ buf' \in Seq(Unit) /\ Len(buf') <= BufCap
        /\ Stream' \in Seq(Unit)
        /\ werr' = TRUE /\ disk' = disk /\ faults' \in 0 .. MaxFaults
        /\ IsPrefix(Stream, Stream') /\ StreamIntact'
    BY <1>1, <1>2, <1>3, WriteFailsStream
  <1>5. TypeOK'
    BY <1>2, <1>4 DEF TypeOK, WritePrefixFails, life, Ops, Steps
  <1>6. LockOK'
    BY <1>2, <1>4 DEF LockOK
  <1>7. AckedInLog' /\ AlwaysDurable'
    BY <1>2, <1>4, StreamType, CompletePrefix DEF AckedInLog, AlwaysDurable
  <1>8. NoTearWhileHealthy'
    BY <1>4 DEF NoTearWhileHealthy
  <1> QED BY <1>4, <1>5, <1>6, <1>7, <1>8

\* The data of a record meets, or raises, the Writer's error.
LEMMA WriteDataFailsIInv ==
    ASSUME IInv, WriteDataFails
    PROVE  IInv'
  <1> USE DEF IInv
  <1>1. /\ up /\ op = "write" /\ step = "data" /\ cur \in Request /\ serving
        /\ op' = "none" /\ step' = "none" /\ cur' = Never /\ acked' = acked
        /\ up' = up /\ serving' = serving /\ syncStrategy' = syncStrategy
        /\ issued' = issued /\ BufWriteFails(Tail(Record(cur)))
    BY DEF WriteDataFails, life, hist, Release, TypeOK, LockOK
  <1>2. cur \in Command /\ Tail(Record(cur)) \in Seq(Unit)
    BY <1>1, RecordType DEF Command
  <1>3. WellFormed(Stream \o Tail(Record(cur)))
    <2>1. /\ WellFormed(Stream) /\ Stream # <<>>
          /\ Stream[Len(Stream)] = <<cur, 1>>
      BY <1>1 DEF StreamIntact, LockOK
    <2>2. Stream \in Seq(Unit)
      BY StreamType
    <2> QED BY <1>2, <2>1, <2>2, FinishRecord
  <1>4. /\ file' \in Seq(Unit) /\ buf' \in Seq(Unit) /\ Len(buf') <= BufCap
        /\ Stream' \in Seq(Unit)
        /\ werr' = TRUE /\ disk' = disk /\ faults' \in 0 .. MaxFaults
        /\ IsPrefix(Stream, Stream') /\ StreamIntact'
    BY <1>1, <1>2, <1>3, WriteFailsStream
  <1>5. TypeOK'
    BY <1>1, <1>4 DEF TypeOK, WriteDataFails, life, hist, Ops, Steps
  <1>6. LockOK'
    BY <1>1, <1>4 DEF LockOK
  <1>7. AckedInLog' /\ AlwaysDurable'
    BY <1>1, <1>4, StreamType, CompletePrefix DEF AckedInLog, AlwaysDurable
  <1>8. NoTearWhileHealthy'
    BY <1>4 DEF NoTearWhileHealthy
  <1> QED BY <1>4, <1>5, <1>6, <1>7, <1>8

-----------------------------------------------------------------------------
(* Steps that leave the stream alone.                                      *)

\* Moving content from the buffer to the file, or from the file to the disk,
\* keeps what is said of the stream.
LEMMA SameStream ==
    ASSUME IInv, file' \in Seq(Unit), buf' \in Seq(Unit), disk' \in Seq(Unit),
           Stream' = Stream, IsPrefix(disk', file'), IsPrefix(disk, disk'),
           acked' = acked, up' => up, syncStrategy' = syncStrategy,
           werr => werr', serving' /\ ~werr' /\ step' # "data" => serving /\ step # "data"
    PROVE  StreamIntact' /\ AckedInLog' /\ AlwaysDurable' /\ NoTearWhileHealthy'
  <1> USE DEF IInv
  <1>1. StreamIntact'
    BY DEF StreamIntact
  <1>2. AckedInLog'
    BY DEF AckedInLog
  <1>3. AlwaysDurable'
    <2>1. Complete(disk) \subseteq Complete(disk')
      BY StreamType, CompletePrefix
    <2> QED BY <2>1 DEF AlwaysDurable
  <1>4. NoTearWhileHealthy'
    <2>1. serving' /\ ~werr' /\ step' # "data" => Whole(Stream)
      BY DEF NoTearWhileHealthy, TypeOK
    <2> QED BY <2>1 DEF NoTearWhileHealthy
  <1> QED BY <1>1, <1>2, <1>3, <1>4

\* Steps that only concern the lock and the life of the process.
LEMMA ControlStep ==
    ASSUME IInv, UNCHANGED <<data, acked, up, serving, syncStrategy>>, step # "data"
    PROVE  StreamIntact' /\ AckedInLog' /\ AlwaysDurable' /\ NoTearWhileHealthy'
  <1>1. /\ file' = file /\ buf' = buf /\ disk' = disk /\ werr' = werr
        /\ acked' = acked /\ up' = up /\ serving' = serving
        /\ syncStrategy' = syncStrategy
    BY DEF data
  <1>2. file' \in Seq(Unit) /\ buf' \in Seq(Unit) /\ disk' \in Seq(Unit)
    BY <1>1 DEF IInv, TypeOK
  <1>3. Stream' = Stream
    BY <1>1 DEF Stream
  <1>4. IsPrefix(disk', file') /\ IsPrefix(disk, disk')
    BY <1>1, <1>2, PrefixReflexive DEF IInv, StreamIntact
  <1> QED BY <1>1, <1>2, <1>3, <1>4, SameStream

\* The buffer goes to the file: the stream is as before.
LEMMA FlushIInv ==
    ASSUME IInv, Flush
    PROVE  IInv'
  <1> USE DEF IInv
  <1>1. /\ up /\ step = "flush" /\ ~werr /\ file' = file \o buf /\ buf' = <<>>
        /\ step' = "fsync" /\ op' = op /\ cur' = cur /\ werr' = werr /\ disk' = disk
        /\ syncStrategy' = syncStrategy /\ up' = up /\ serving' = serving
        /\ acked' = acked /\ issued' = issued /\ closing' = closing
    BY DEF Flush, Goto, life, hist
  <1>2. file' \in Seq(Unit) /\ buf' \in Seq(Unit) /\ Len(buf') <= BufCap /\ Stream' = Stream
    BY <1>1, StreamType, EmptySeq, ConcatEmptySeq, BufferAssumption DEF Stream
  <1>3. IsPrefix(disk', file') /\ IsPrefix(disk, disk')
    BY <1>1, <1>2, StreamType, PrefixReflexive, PrefixTransitive DEF StreamIntact, Stream
  <1>4. TypeOK'
    BY <1>1, <1>2 DEF TypeOK, Flush, life, hist, bounds, Ops, Steps
  <1>5. LockOK'
    BY <1>1, <1>2 DEF LockOK
  <1>6. StreamIntact' /\ AckedInLog' /\ AlwaysDurable' /\ NoTearWhileHealthy'
    BY <1>1, <1>2, <1>3, SameStream DEF TypeOK
  <1> QED BY <1>4, <1>5, <1>6

\* Part of the buffer goes to the file, and the Writer's error is kept.
LEMMA FlushFailsIInv ==
    ASSUME IInv, FlushFails \/ FlushFailsAgain
    PROVE  IInv'
  <1> USE DEF IInv
  <1>1. /\ up /\ step = "flush"
        /\ syncStrategy' = syncStrategy /\ up' = up /\ serving' = serving
        /\ acked' = acked /\ issued' = issued /\ disk' = disk /\ werr' = TRUE
        /\ \/ op = "replay" /\ op' = op /\ step' = "read" /\ cur' = cur
           \/ op # "replay" /\ op' = "none" /\ step' = "none" /\ cur' = Never
    BY DEF FlushFails, FlushFailsAgain, AfterSyncError, Goto, Release, hist, data, TypeOK
  <1>2. file' \in Seq(Unit) /\ buf' \in Seq(Unit) /\ Len(buf') <= BufCap
        /\ Stream' = Stream /\ IsPrefix(file, file') /\ faults' \in 0 .. MaxFaults
    <2>1. CASE FlushFailsAgain
      BY <2>1, StreamType, PrefixReflexive DEF FlushFailsAgain, data, Stream, TypeOK
    <2>2. CASE FlushFails
      <3>1. PICK n \in IF fileOpen THEN 0 .. Len(buf) - 1 ELSE {0} :
                file' = file \o SubSeq(buf, 1, n) /\ buf' = SubSeq(buf, n + 1, Len(buf))
        BY <2>2 DEF FlushFails
      <3>2. n \in 0 .. Len(buf) /\ file \in Seq(Unit) /\ buf \in Seq(Unit)
        BY <3>1, StreamType
      <3>3. /\ file' \in Seq(Unit) /\ buf' \in Seq(Unit)
            /\ file' \o buf' = file \o buf
        BY <3>1, <3>2, CutJoin, ZenonT(30)
      <3>4. Len(buf') <= BufCap
        BY <3>1, <3>2, BufferAssumption DEF TypeOK
      <3>5. IsPrefix(file, file')
        <4>1. SubSeq(buf, 1, n) \in Seq(Unit)
          BY <3>2
        <4> QED BY <3>1, <3>2, <4>1, PrefixConcat
      <3>6. faults' \in 0 .. MaxFaults
        BY <2>2, BoundsAssumption DEF FlushFails, CallFails, TypeOK
      <3> QED BY <3>3, <3>4, <3>5, <3>6 DEF Stream
    <2> QED BY <2>1, <2>2
  <1>3. IsPrefix(disk', file') /\ IsPrefix(disk, disk')
    BY <1>1, <1>2, StreamType, PrefixReflexive, PrefixTransitive DEF StreamIntact
  <1>4. TypeOK'
    <2>1. /\ fileOpen' = fileOpen /\ ticking' = ticking /\ crashes' = crashes
          /\ replayed' = replayed /\ closing' \in {"no", "stopping", "done", "failed"}
      BY DEF FlushFails, FlushFailsAgain, AfterSyncError, hist, TypeOK
    <2> QED BY <1>1, <1>2, <2>1 DEF TypeOK, Ops, Steps
  <1>5. LockOK'
    <2>1. serving
      BY DEF FlushFails, FlushFailsAgain, LockOK
    <2> QED BY <1>1, <2>1 DEF LockOK
  <1>6. StreamIntact' /\ AckedInLog' /\ AlwaysDurable' /\ NoTearWhileHealthy'
    BY <1>1, <1>2, <1>3, SameStream DEF TypeOK
  <1> QED BY <1>4, <1>5, <1>6

\* The sync makes the whole stream durable, and only then is a command of
\* the "always" strategy acknowledged.
LEMMA FsyncIInv ==
    ASSUME IInv, Fsync
    PROVE  IInv'
  <1> USE DEF IInv
  <1>1. /\ up /\ step = "fsync" /\ disk' = file /\ file' = file /\ buf' = buf /\ buf = <<>>
        /\ werr' = werr /\ syncStrategy' = syncStrategy /\ up' = up
        /\ serving' = serving /\ issued' = issued
        /\ ~serving => closing' = closing
    BY DEF Fsync, LockOK
  <1>2. /\ op = "rewrite" => op' = op /\ step' = "swap" /\ cur' = cur /\ acked' = acked
        /\ op = "replay" => op' = op /\ step' = "read" /\ cur' = cur /\ acked' = acked
        /\ op \notin {"rewrite", "replay"} =>
              op' = "none" /\ step' = "none" /\ cur' = Never
        /\ op = "write" => acked' = acked \cup {cur}
        /\ op # "write" => acked' = acked
    BY DEF Fsync, Goto, Release, Ack
  <1>3. Stream' = Stream /\ Stream = file /\ file \in Seq(Unit)
    BY <1>1, StreamType, ConcatEmptySeq DEF Stream
  <1>4. acked' \subseteq Complete(file)
    BY <1>1, <1>2, <1>3 DEF AckedInLog, LockOK
  <1>5. TypeOK'
    <2>1. /\ ticking' = ticking /\ crashes' = crashes /\ faults' = faults
          /\ replayed' = replayed /\ closing' \in {"no", "stopping", "done", "failed"}
          /\ fileOpen' \in BOOLEAN
      BY DEF Fsync, bounds, TypeOK
    <2>2. acked' \subseteq issued'
      BY <1>1, <1>2 DEF LockOK, TypeOK
    <2> QED BY <1>1, <1>2, <2>1, <2>2 DEF TypeOK, Ops, Steps
  <1>6. LockOK'
    BY <1>1, <1>2 DEF LockOK
  <1>7. StreamIntact'
    BY <1>1, <1>3, PrefixReflexive DEF StreamIntact
  <1>8. AckedInLog' /\ AlwaysDurable'
    BY <1>1, <1>3, <1>4 DEF AckedInLog, AlwaysDurable
  <1>9. NoTearWhileHealthy'
    BY <1>1, <1>3 DEF NoTearWhileHealthy
  <1> QED BY <1>5, <1>6, <1>7, <1>8, <1>9

\* A failed fsync acknowledges nothing.
LEMMA FsyncFailsIInv ==
    ASSUME IInv, FsyncFails
    PROVE  IInv'
  <1> USE DEF IInv
  <1>1. /\ up /\ step = "fsync" /\ UNCHANGED <<data, acked, up, serving, syncStrategy>>
        /\ issued' = issued /\ buf' = buf /\ werr' = werr /\ buf = <<>>
        /\ ~serving => closing' = closing
        /\ \/ op = "replay" /\ op' = op /\ step' = "read" /\ cur' = cur
           \/ op # "replay" /\ op' = "none" /\ step' = "none" /\ cur' = Never
    BY DEF FsyncFails, AfterSyncError, Goto, Release, hist, data, LockOK
  <1>2. TypeOK'
    <2>1. /\ fileOpen' = fileOpen /\ ticking' = ticking /\ crashes' = crashes
          /\ replayed' = replayed /\ closing' \in {"no", "stopping", "done", "failed"}
          /\ faults' \in 0 .. MaxFaults
      BY BoundsAssumption DEF FsyncFails, AfterSyncError, CallFails, hist, TypeOK
    <2> QED BY <1>1, <2>1 DEF TypeOK, data, Ops, Steps
  <1>3. LockOK'
    BY <1>1 DEF LockOK
  <1>4. StreamIntact' /\ AckedInLog' /\ AlwaysDurable' /\ NoTearWhileHealthy'
    BY <1>1, ControlStep
  <1> QED BY <1>2, <1>3, <1>4

-----------------------------------------------------------------------------
(* The background goroutine, rewrites and truncations.                     *)

\* Taking a.mu changes nothing else.
LEMMA AcquireIInv ==
    ASSUME IInv, Tick \/ RewriteTemp \/ ReplayStart \/ CloseSync
    PROVE  IInv'
  <1> USE DEF IInv
  <1>1. /\ up /\ op = "none" /\ step = "none" /\ step' = "flush"
        /\ UNCHANGED <<syncStrategy, life, data, hist, bounds>>
        /\ \/ op' = "tick" /\ serving
           \/ op' = "rewrite" /\ serving /\ cur' \in Snapshots
           \/ op' = "replay" /\ ~serving
           \/ op' = "close" /\ serving
    <2>1. Tick => serving
      BY DEF Tick, LockOK
    <2>2. CloseSync => serving
      BY DEF CloseSync, LockOK, TypeOK
    <2> QED BY <2>1, <2>2 DEF Tick, RewriteTemp, ReplayStart, CloseSync, Acquire, Idle, TypeOK
  <1>2. TypeOK'
    BY <1>1 DEF TypeOK, life, data, hist, bounds, Ops, Steps
  <1>3. LockOK'
    BY <1>1 DEF LockOK, life, data, hist
  <1>4. StreamIntact' /\ AckedInLog' /\ AlwaysDurable' /\ NoTearWhileHealthy'
    BY <1>1, ControlStep DEF life, hist
  <1> QED BY <1>2, <1>3, <1>4

\* A truncation or a rewrite: a whole content, and nothing to answer for.
LEMMA ResetIInv ==
    ASSUME IInv, RewriteSwap \/ RewriteReopenFails \/ Truncate
    PROVE  IInv'
  <1> USE DEF IInv
  <1>1. /\ up /\ file' = disk' /\ buf' = <<>> /\ werr' = FALSE /\ acked' = {}
        /\ step' = "none" /\ op' = "none"
        /\ UNCHANGED <<syncStrategy, up, serving, ticking, closing, issued, replayed, crashes>>
        /\ serving /\ fileOpen' \in {fileOpen, FALSE}
    BY DEF RewriteSwap, RewriteReopenFails, Truncate, Reset, Release, Idle, lock, life, bounds,
           LockOK, TypeOK
  <1>f. faults' \in 0 .. MaxFaults
    BY BoundsAssumption DEF RewriteSwap, RewriteReopenFails, Truncate, CallFails, bounds, TypeOK
  <1>2. file' \in Seq(Unit) /\ WellFormed(file') /\ Whole(file')
    <2>1. CASE RewriteSwap \/ RewriteReopenFails
      <3>1. cur \in Snapshots /\ file' = cur
        BY <2>1 DEF RewriteSwap, RewriteReopenFails, Reset, LockOK, TypeOK
      <3> QED BY <3>1, SnapshotAssumption
    <2>2. CASE Truncate
      <3>1. file' = <<>> /\ DOMAIN file' = {}
        BY <2>2 DEF Truncate, Reset
      <3> QED BY <3>1, EmptySeq DEF WellFormed, Whole
    <2> QED BY <2>1, <2>2
  <1>3. Stream' = file' /\ buf' \in Seq(Unit) /\ Len(buf') <= BufCap
    BY <1>1, <1>2, ConcatEmptySeq, EmptySeq, BufferAssumption DEF Stream
  <1>4. TypeOK'
    BY <1>1, <1>f, <1>2, <1>3 DEF TypeOK, Ops, Steps
  <1>5. LockOK'
    BY <1>1 DEF LockOK
  <1>6. StreamIntact'
    BY <1>1, <1>2, <1>3, PrefixReflexive DEF StreamIntact
  <1>7. AckedInLog' /\ AlwaysDurable' /\ NoTearWhileHealthy'
    BY <1>1, <1>2, <1>3 DEF AckedInLog, AlwaysDurable, NoTearWhileHealthy
  <1> QED BY <1>4, <1>5, <1>6, <1>7

\* A truncation or a rewrite that fails leaves the content alone.
LEMMA ResetFailsIInv ==
    ASSUME IInv, RewriteSwapFails \/ TruncateFails
    PROVE  IInv'
  <1> USE DEF IInv
  <1>1. /\ up /\ step # "data" /\ step' = "none" /\ op' = "none" /\ fileOpen' = FALSE
        /\ UNCHANGED <<syncStrategy, up, serving, ticking, closing, data, hist, crashes>>
        /\ CallFails /\ serving
    BY DEF RewriteSwapFails, TruncateFails, Release, Idle, lock, LockOK, TypeOK
  <1>2. faults' \in 0 .. MaxFaults
    BY <1>1, BoundsAssumption DEF CallFails, TypeOK
  <1>3. TypeOK'
    BY <1>1, <1>2 DEF TypeOK, data, hist, Ops, Steps
  <1>4. LockOK'
    BY <1>1 DEF LockOK, data, hist
  <1>5. StreamIntact' /\ AckedInLog' /\ AlwaysDurable' /\ NoTearWhileHealthy'
    BY <1>1, ControlStep DEF hist
  <1> QED BY <1>3, <1>4, <1>5

-----------------------------------------------------------------------------
(* The life of the process.                                                *)

\* The logger answers for what the file holds.
LEMMA OpenIInv ==
    ASSUME IInv, Open
    PROVE  IInv'
  <1> USE DEF IInv
  <1>1. /\ ~up /\ op = "none" /\ step = "none" /\ ~serving /\ buf = <<>> /\ ~werr
        /\ up' = TRUE /\ acked' = acked \cap Complete(file)
        /\ UNCHANGED <<syncStrategy, serving, closing, lock, data, issued, replayed, bounds>>
    BY DEF Open, LockOK, TypeOK
  <1>2. Stream = file /\ Stream' = Stream /\ file' = file /\ disk' = disk
    BY <1>1, StreamType, ConcatEmptySeq DEF Stream, data
  <1>3. TypeOK'
    <2>1. ticking' \in BOOLEAN /\ fileOpen' \in BOOLEAN
      BY DEF Open
    <2>2. acked' \subseteq issued'
      BY <1>1 DEF TypeOK
    <2> QED BY <1>1, <2>1, <2>2 DEF TypeOK, lock, data, bounds, Ops, Steps
  <1>4. LockOK'
    BY <1>1 DEF LockOK, lock, data
  <1>5. StreamIntact'
    BY <1>2 DEF StreamIntact
  <1>6. AckedInLog' /\ AlwaysDurable' /\ NoTearWhileHealthy'
    BY <1>1, <1>2 DEF AckedInLog, AlwaysDurable, NoTearWhileHealthy
  <1> QED BY <1>3, <1>4, <1>5, <1>6

\* Close stops the ticker and asks for the lock.
LEMMA CloseStopIInv ==
    ASSUME IInv, CloseStop
    PROVE  IInv'
  <1> USE DEF IInv
  <1>1. /\ serving /\ closing' = "stopping" /\ ticking' = FALSE
        /\ UNCHANGED <<syncStrategy, up, serving, fileOpen, lock, data, hist, bounds>>
    BY DEF CloseStop
  <1>2. Stream' = Stream
    BY <1>1 DEF data, Stream
  <1>3. TypeOK'
    BY <1>1 DEF TypeOK, lock, data, hist, bounds
  <1>4. LockOK'
    BY <1>1, <1>2 DEF LockOK, lock, data, hist
  <1>5. StreamIntact' /\ AckedInLog' /\ AlwaysDurable' /\ NoTearWhileHealthy'
    BY <1>1, <1>2 DEF StreamIntact, AckedInLog, AlwaysDurable, NoTearWhileHealthy,
                      lock, data, hist
  <1> QED BY <1>3, <1>4, <1>5

\* What remains after the process ends is a prefix of the stream that is no
\* shorter than the synced content.
LEMMA HaltIInv ==
    ASSUME IInv, Halt, syncStrategy' = syncStrategy, acked' = acked, issued' = issued,
           replayed' \in Seq(Unit) \cup {Never},
           crashes' \in 0 .. MaxCrashes, faults' \in 0 .. MaxFaults,
           file' \in Seq(Unit), disk' \in Seq(Unit),
           IsPrefix(disk', file'), IsPrefix(disk, disk'), IsPrefix(file', file)
    PROVE  IInv'
  <1> USE DEF IInv
  <1>1. /\ up' = FALSE /\ serving' = FALSE /\ fileOpen' = FALSE
        /\ ticking' = FALSE /\ closing' = "no" /\ buf' = <<>> /\ werr' = FALSE
        /\ op' = "none" /\ step' = "none"
    BY DEF Halt, Release
  <1>2. Stream' = file'
    BY <1>1, ConcatEmptySeq DEF Stream
  <1>3. TypeOK'
    <2>1. buf' \in Seq(Unit) /\ Len(buf') <= BufCap
      BY <1>1, EmptySeq, BufferAssumption
    <2>2. syncStrategy' \in Strategies /\ issued' \subseteq Request /\ acked' \subseteq issued'
      BY DEF TypeOK
    <2> QED BY <1>1, <2>1, <2>2 DEF TypeOK, Ops, Steps
  <1>4. LockOK'
    BY <1>1 DEF LockOK
  <1>5. StreamIntact'
    <2>1. IsPrefix(file', Stream) /\ Stream \in Seq(Unit) /\ WellFormed(Stream)
      BY StreamType, PrefixTransitive DEF StreamIntact
    <2> QED BY <1>2, <2>1, WellFormedPrefix DEF StreamIntact
  <1>6. AlwaysDurable'
    BY StreamType, CompletePrefix DEF AlwaysDurable
  <1>7. AckedInLog' /\ NoTearWhileHealthy'
    BY <1>1 DEF AckedInLog, NoTearWhileHealthy
  <1> QED BY <1>3, <1>4, <1>5, <1>6, <1>7

\* The process ends: the file keeps what the kernel has.
LEMMA CrashIInv ==
    ASSUME IInv, Crash \/ Exit
    PROVE  IInv'
  <1>1. /\ Halt /\ UNCHANGED <<syncStrategy, file, disk, hist, faults>>
        /\ crashes' \in 0 .. MaxCrashes
    BY BoundsAssumption DEF Crash, Exit, bounds, IInv, TypeOK
  <1>2. IsPrefix(disk', file') /\ IsPrefix(disk, disk') /\ IsPrefix(file', file)
    BY <1>1, StreamType, PrefixReflexive DEF IInv, StreamIntact
  <1> QED BY <1>1, <1>2, HaltIInv DEF hist, IInv, TypeOK

\* The machine ends: a prefix at least as long as the synced one is kept.
LEMMA MachineCrashIInv ==
    ASSUME IInv, MachineCrash
    PROVE  IInv'
  <1>1. /\ Halt /\ UNCHANGED <<syncStrategy, hist, faults>> /\ disk' = file'
        /\ crashes' \in 0 .. MaxCrashes
    BY BoundsAssumption DEF MachineCrash, IInv, TypeOK
  <1>2. PICK n \in Len(disk) .. Len(file) : file' = SubSeq(file, 1, n)
    BY DEF MachineCrash
  <1>3. file \in Seq(Unit) /\ disk \in Seq(Unit) /\ IsPrefix(disk, file)
        /\ n \in 0 .. Len(file) /\ Len(disk) <= n
    BY <1>2, StreamType, LenProperties DEF IInv, StreamIntact
  <1>4. file' \in Seq(Unit) /\ IsPrefix(file', file) /\ IsPrefix(disk, disk')
    BY <1>1, <1>2, <1>3, PrefixCut
  <1>5. IsPrefix(disk', file')
    BY <1>1, <1>4, PrefixReflexive
  <1> QED BY <1>1, <1>3, <1>4, <1>5, HaltIInv DEF hist, IInv, TypeOK

\* The content is read, and the logger serves unless it is torn.
LEMMA ReplayIInv ==
    ASSUME IInv, Replay
    PROVE  IInv'
  <1> USE DEF IInv
  <1>1. /\ up /\ step = "read" /\ op = "replay" /\ ~serving /\ buf = <<>> /\ ~werr
        /\ closing = "no" /\ replayed' = file
        /\ UNCHANGED <<syncStrategy, file, disk, issued, acked, bounds>>
    BY DEF Replay, LockOK, TypeOK
  <1>2. file' \in Seq(Unit) /\ disk' \in Seq(Unit)
        /\ IsPrefix(disk', file') /\ IsPrefix(disk, disk') /\ IsPrefix(file', file)
    BY <1>1, StreamType, PrefixReflexive DEF StreamIntact
  <1>3. CASE ~Whole(file)
    <2>1. Halt
      BY <1>3 DEF Replay, Torn
    <2> QED BY <1>1, <1>2, <2>1, HaltIInv DEF bounds, TypeOK
  <1>4. CASE Whole(file)
    <2>1. /\ serving' = TRUE /\ op' = "none" /\ step' = "none"
          /\ UNCHANGED <<up, fileOpen, ticking, closing, buf, werr>>
      BY <1>4 DEF Replay, Release, Torn
    <2>2. Stream' = file /\ Stream = file /\ Stream \in Seq(Unit)
      BY <1>1, <1>2, <2>1, StreamType, ConcatEmptySeq DEF Stream
    <2>3. TypeOK'
      BY <1>1, <2>1 DEF TypeOK, bounds, Ops, Steps
    <2>4. LockOK'
      BY <1>1, <2>1 DEF LockOK
    <2>5. StreamIntact' /\ AckedInLog' /\ AlwaysDurable'
      BY <1>1, <2>1, <2>2 DEF StreamIntact, AckedInLog, AlwaysDurable
    <2>6. NoTearWhileHealthy'
      BY <1>4, <2>2 DEF NoTearWhileHealthy
    <2> QED BY <2>3, <2>4, <2>5, <2>6
  <1> QED BY <1>3, <1>4

-----------------------------------------------------------------------------
(* The theorems.                                                           *)

\* Nothing happens.
LEMMA StutterIInv ==
    ASSUME IInv, UNCHANGED vars
    PROVE  IInv'
  BY DEF IInv, TypeOK, LockOK, StreamIntact, AckedInLog, AlwaysDurable,
         NoTearWhileHealthy, Stream, vars, life, lock, data, hist, bounds

\* Every step keeps the inductive invariant.
LEMMA NextIInv ==
    ASSUME IInv, Next
    PROVE  IInv'
  BY WritePrefixIInv, WritePrefixFailsIInv, WriteDataIInv, WriteDataFailsIInv,
     FlushIInv, FlushFailsIInv, FsyncIInv, FsyncFailsIInv, AcquireIInv,
     ResetIInv, ResetFailsIInv, OpenIInv, CloseStopIInv, CrashIInv,
     MachineCrashIInv, ReplayIInv
     DEF Next, Write, SyncToFile, Rewrite

\* The inductive invariant holds in every reachable state of the logger.
THEOREM Invariance == Spec => []IInv
  <1>1. Init => IInv
    BY InitIInv
  <1>2. IInv /\ [Next]_vars => IInv'
    BY NextIInv, StutterIInv
  <1> QED BY <1>1, <1>2, PTL DEF Spec

\* Every variable keeps its type.
THEOREM TypeCorrect == Spec => []TypeOK
  <1>1. IInv => TypeOK
    BY DEF IInv
  <1> QED BY <1>1, Invariance, PTL

\* No hole and no misplaced record, whatever bufio spills, whichever call
\* fails and wherever the process or the machine dies.
THEOREM StreamStaysIntact == Spec => []StreamIntact
  <1>1. IInv => StreamIntact
    BY DEF IInv
  <1> QED BY <1>1, Invariance, PTL

\* An acknowledged command is never dropped by a living process.
THEOREM AckedStaysInLog == Spec => []AckedInLog
  <1>1. IInv => AckedInLog
    BY DEF IInv
  <1> QED BY <1>1, Invariance, PTL

\* With "always", what WriteCommand acknowledged is on disk.
THEOREM AlwaysIsDurable == Spec => []AlwaysDurable
  <1>1. IInv => AlwaysDurable
    BY DEF IInv
  <1> QED BY <1>1, Invariance, PTL

\* Only a write in progress or a failed one leaves a torn record at the end.
THEOREM NoTear == Spec => []NoTearWhileHealthy
  <1>1. IInv => NoTearWhileHealthy
    BY DEF IInv
  <1> QED BY <1>1, Invariance, PTL

\* A step that ends with a failed Writer acknowledges nothing.
THEOREM FailStops == Spec => FailStop
  <1>1. ASSUME IInv, Next, werr'
        PROVE  acked' \subseteq acked
    <2>1. ASSUME NEW c \in Request, WritePrefix(c) \/ WritePrefixFails(c)
          PROVE  acked' \subseteq acked
      BY <2>1 DEF WritePrefix, WritePrefixFails
    <2>2. CASE WriteData
      BY <1>1, <2>2 DEF WriteData, BufWrite
    <2>3. CASE WriteDataFails \/ Flush \/ FlushFails \/ FlushFailsAgain \/ FsyncFails
      BY <2>3 DEF WriteDataFails, Flush, FlushFails, FlushFailsAgain, FsyncFails,
                  AfterSyncError, hist
    <2>4. CASE Fsync
      BY <1>1, <2>4 DEF Fsync, IInv, LockOK
    <2>5. CASE Tick \/ RewriteTemp \/ RewriteSwapFails \/ TruncateFails \/ ReplayStart
                 \/ CloseStop \/ CloseSync
      BY <2>5 DEF Tick, RewriteTemp, RewriteSwapFails, TruncateFails, ReplayStart,
                  CloseStop, CloseSync, hist
    <2>6. CASE RewriteSwap \/ RewriteReopenFails \/ Truncate
      BY <2>6 DEF RewriteSwap, RewriteReopenFails, Truncate, Reset
    <2>7. CASE Open \/ Replay \/ Exit \/ Crash \/ MachineCrash
      BY <2>7 DEF Open, Replay, Exit, Crash, MachineCrash, hist
    <2> QED BY <1>1, <2>1, <2>2, <2>3, <2>4, <2>5, <2>6, <2>7
            DEF Next, Write, SyncToFile, Rewrite
  <1>2. ASSUME IInv, [Next]_vars
        PROVE  werr' => acked' \subseteq acked
    BY <1>1, <1>2 DEF vars, hist
  <1>3. IInv /\ [Next]_vars => [werr' => acked' \subseteq acked]_vars
    BY <1>2
  <1> QED BY <1>3, Invariance, PTL DEF Spec, FailStop

\* A Close that succeeds leaves every acknowledged command on disk and no torn
\* record behind.
THEOREM CloseKeepsAll == Spec => CloseLosesNothing
  <1> DEFINE Kept == closing # "done" /\ closing' = "done" =>
                       acked \subseteq Complete(disk') /\ Whole(disk')
  <1>1. ASSUME IInv, Next, closing # "done", closing' = "done"
        PROVE  Fsync /\ op = "close"
    <2>1. ASSUME NEW c \in Request
          PROVE  ~WritePrefix(c) /\ ~WritePrefixFails(c)
      BY <1>1 DEF WritePrefix, WritePrefixFails, life
    <2>2. ~WriteData /\ ~WriteDataFails /\ ~Flush /\ ~Tick /\ ~RewriteTemp
      BY <1>1 DEF WriteData, WriteDataFails, Flush, Tick, RewriteTemp, life
    <2>3. ~RewriteSwap /\ ~RewriteReopenFails /\ ~RewriteSwapFails /\ ~Truncate
          /\ ~TruncateFails /\ ~Open
      BY <1>1 DEF RewriteSwap, RewriteReopenFails, RewriteSwapFails, Truncate, TruncateFails, Open, life
    <2>4. ~ReplayStart /\ ~CloseStop /\ ~CloseSync
      BY <1>1 DEF ReplayStart, CloseStop, CloseSync, life
    <2>5. ~Replay /\ ~Exit /\ ~Crash /\ ~MachineCrash
      BY <1>1 DEF Replay, Exit, Crash, MachineCrash, Halt
    <2>6. ~FlushFails /\ ~FlushFailsAgain /\ ~FsyncFails
      BY <1>1 DEF FlushFails, FlushFailsAgain, FsyncFails, AfterSyncError
    <2>7. Fsync
      BY <1>1, <2>1, <2>2, <2>3, <2>4, <2>5, <2>6
         DEF Next, Write, SyncToFile, Rewrite
    <2> QED BY <1>1, <2>7 DEF Fsync
  <1>2. ASSUME IInv, Fsync, op = "close"
        PROVE  acked \subseteq Complete(disk') /\ Whole(disk')
    <2>1. disk' = file /\ up /\ step = "fsync"
      BY <1>2 DEF Fsync
    <2>2. buf = <<>> /\ ~werr /\ serving
      BY <1>2, <2>1 DEF IInv, LockOK
    <2>3. Stream = file
      BY <1>2, <2>2, ConcatEmptySeq DEF IInv, TypeOK, Stream
    <2>4. acked \subseteq Complete(file)
      BY <1>2, <2>1, <2>3 DEF IInv, AckedInLog
    <2>5. Whole(file)
      BY <1>2, <2>1, <2>2, <2>3 DEF IInv, NoTearWhileHealthy
    <2> QED BY <2>1, <2>4, <2>5
  <1>3. IInv /\ [Next]_vars => [Kept]_vars
    BY <1>1, <1>2 DEF vars
  <1> QED BY <1>3, Invariance, PTL DEF Spec, CloseLosesNothing

-----------------------------------------------------------------------------
(* A logger which only ever stopped through Close finds a log it can       *)
(* replay.  As long as nothing has failed or crashed, the file may end     *)
(* inside a record only while a serving process has it open: bufio spills  *)
(* buffers that end anywhere, and only Close's final sync puts the end of  *)
(* the record behind them.  So what has to be invariant is what is left    *)
(* of a logger that is not serving, or that has closed its file.           *)

Unharmed == crashes = 0 /\ faults = 0

\* What Replay read was whole; so is the file when nobody is adding to it; the
\* handle is closed by Close and by nothing else, and Close never fails.
Careful ==
    /\ replayed # Never => Whole(replayed)
    /\ ~fileOpen \/ ~serving => Whole(file)
    /\ fileOpen => ~werr
    /\ up /\ ~fileOpen => closing = "done"
    /\ closing = "done" => ~fileOpen
    /\ closing # "failed"
    /\ op = "close" => closing = "stopping"

CInv == Unharmed => Careful

\* The counters of crashes and failures only grow.
LEMMA HarmLasts ==
    ASSUME TypeOK, crashes' >= crashes, faults' >= faults, Unharmed'
    PROVE  Unharmed
  BY BoundsAssumption DEF TypeOK, Unharmed

\* On an open handle a failing call leaves its mark.
LEMMA FailureMarks ==
    ASSUME TypeOK, CallFails
    PROVE  faults' >= faults /\ (Unharmed' => ~fileOpen /\ faults' = faults)
  BY BoundsAssumption DEF TypeOK, Unharmed, CallFails

\* Without a handle a write stays in the buffer.
LEMMA UnopenedWrite ==
    ASSUME TypeOK, ~fileOpen, NEW p \in Seq(Unit), BufWrite(p)
    PROVE  file' = file
  <1> DEFINE s == buf \o p
             k == Spilled(Len(buf), Len(p))
  <1>1. file' = file \o SubSeq(s, 1, k) /\ ~(k > 0)
    BY DEF BufWrite
  <1>2. buf \in Seq(Unit) /\ Len(buf) \in 0 .. BufCap /\ Len(p) \in Nat
    BY BufferAssumption DEF TypeOK
  <1>3. k \in Nat
    BY <1>2, SpilledType, BufferAssumption
  <1>4. k = 0 /\ s \in Seq(Unit)
    BY <1>1, <1>2, <1>3
  <1> HIDE DEF k, s
  <1>5. SubSeq(s, 1, k) = <<>>
    BY <1>4
  <1> QED BY <1>1, <1>5, ConcatEmptySeq DEF TypeOK

\* A write that fails either fails a system call on the open handle or finds
\* no handle and leaves the file alone.
LEMMA FailedWrite ==
    ASSUME TypeOK, Careful, NEW p \in Seq(Unit), BufWriteFails(p)
    PROVE  /\ faults' >= faults
           /\ Unharmed' => ~fileOpen /\ file' = file
  <1>1. CASE werr /\ UNCHANGED <<data, faults>>
    BY <1>1 DEF Careful, data, TypeOK
  <1>2. CASE ~(werr /\ UNCHANGED <<data, faults>>)
    <2> DEFINE s == buf \o p
    <2>1. CallFails
      BY <1>2 DEF BufWriteFails
    <2>2. ASSUME ~fileOpen
          PROVE  file' = file
      <3>1. file' = file \o SubSeq(s, 1, 0) /\ s \in Seq(Unit)
        BY <1>2, <2>2 DEF BufWriteFails, TypeOK
      <3> HIDE DEF s
      <3>2. SubSeq(s, 1, 0) = <<>>
        BY <3>1
      <3> QED BY <3>1, <3>2, ConcatEmptySeq DEF TypeOK
    <2> QED BY <2>1, <2>2, FailureMarks
  <1> QED BY <1>1, <1>2

-----------------------------------------------------------------------------
(* The steps.                                                              *)

\* WriteCommand adds to a file only through an open handle.
LEMMA WriteCareful ==
    ASSUME IInv, Careful, Write
    PROVE  Unharmed' => Careful'
  <1> USE DEF IInv
  <1>1. ASSUME NEW c \in Request, WritePrefix(c)
        PROVE  Careful'
    <2>1. <<<<c, 1>>>> \in Seq(Unit)
      BY RecordType, UnitType DEF Command
    <2>2. BufWrite(<<<<c, 1>>>>) /\ UNCHANGED <<life, replayed, bounds>>
          /\ op' = "write" /\ serving
      BY <1>1 DEF WritePrefix, Acquire
    <2>3. werr' = werr /\ (~fileOpen => file' = file)
      BY <2>1, <2>2, UnopenedWrite DEF BufWrite
    <2> QED BY <2>2, <2>3 DEF Careful, life, bounds, TypeOK
  <1>2. ASSUME NEW c \in Request, WritePrefixFails(c)
        PROVE  Unharmed' => Careful'
    <2>1. <<<<c, 1>>>> \in Seq(Unit)
      BY RecordType, UnitType DEF Command
    <2>2. BufWriteFails(<<<<c, 1>>>>) /\ UNCHANGED <<life, lock, replayed, crashes>>
      BY <1>2 DEF WritePrefixFails
    <2>3. faults' >= faults /\ (Unharmed' => ~fileOpen /\ file' = file)
      BY <2>1, <2>2, FailedWrite
    <2> QED BY <2>2, <2>3 DEF Careful, life, lock, TypeOK
  <1>3. op = "write" => serving /\ cur \in Command /\ Tail(Record(cur)) \in Seq(Unit)
    BY RecordType DEF LockOK, TypeOK, Command
  <1>4. ASSUME WriteData
        PROVE  Careful'
    <2>1. BufWrite(Tail(Record(cur))) /\ UNCHANGED <<life, replayed, bounds>>
          /\ op = "write" /\ op' # "close"
      BY <1>4 DEF WriteData, Goto, Release
    <2>2. werr' = werr /\ (~fileOpen => file' = file)
      BY <1>3, <2>1, UnopenedWrite DEF BufWrite
    <2> QED BY <1>3, <2>1, <2>2 DEF Careful, life, bounds, TypeOK
  <1>5. ASSUME WriteDataFails
        PROVE  Unharmed' => Careful'
    <2>1. BufWriteFails(Tail(Record(cur))) /\ UNCHANGED <<life, hist, crashes>>
          /\ op = "write" /\ op' = "none"
      BY <1>5 DEF WriteDataFails, Release
    <2>2. faults' >= faults /\ (Unharmed' => ~fileOpen /\ file' = file)
      BY <1>3, <2>1, FailedWrite
    <2> QED BY <2>1, <2>2 DEF Careful, life, hist, TypeOK
  <1> QED BY <1>1, <1>2, <1>4, <1>5 DEF Write

\* An error of syncToFile is an injected one, and never Close's, unless the
\* handle is closed already.
LEMMA SyncErrorCareful ==
    ASSUME IInv, Careful, AfterSyncError, ~fileOpen, file' = file
    PROVE  Careful'
  <1>1. op # "close"
    BY DEF Careful, IInv, LockOK
  <1>2. /\ closing' = closing /\ op' \in {op, "none"}
        /\ UNCHANGED <<up, serving, fileOpen, hist>>
    BY <1>1 DEF AfterSyncError, Goto, Release
  <1> QED BY <1>1, <1>2 DEF Careful, hist

\* syncToFile: Close's final sync leaves whole records.
LEMMA SyncCareful ==
    ASSUME IInv, Careful, SyncToFile
    PROVE  Unharmed' => Careful'
  <1> USE DEF IInv
  <1>1. CASE Flush
    <2>1. /\ file' = file \o buf /\ (buf # <<>> => fileOpen) /\ op' = op
          /\ UNCHANGED <<life, werr, hist, bounds>>
      BY <1>1 DEF Flush, Goto
    <2>2. buf = <<>> => file' = file
      BY <2>1, ConcatEmptySeq DEF TypeOK
    <2>3. ~serving => buf = <<>>
      BY DEF LockOK
    <2> QED BY <2>1, <2>2, <2>3 DEF Careful, life, hist, bounds, TypeOK
  <1>2. CASE FlushFails
    <2>1. CallFails /\ AfterSyncError
      BY <1>2 DEF FlushFails
    <2>2. ASSUME ~fileOpen
          PROVE  file' = file
      <3>1. file' = file \o SubSeq(buf, 1, 0) /\ buf \in Seq(Unit)
        BY <1>2, <2>2 DEF FlushFails, TypeOK
      <3>2. SubSeq(buf, 1, 0) = <<>>
        BY <3>1
      <3> QED BY <3>1, <3>2, ConcatEmptySeq DEF TypeOK
    <2>3. crashes' = crashes
      BY <2>1 DEF AfterSyncError
    <2> QED BY <2>1, <2>2, <2>3, FailureMarks, SyncErrorCareful DEF TypeOK
  <1>3. CASE FlushFailsAgain
    <2>1. werr /\ AfterSyncError /\ file' = file /\ faults' = faults
      BY <1>3 DEF FlushFailsAgain, data
    <2>2. ~fileOpen /\ crashes' = crashes
      BY <2>1 DEF Careful, AfterSyncError
    <2> QED BY <2>1, <2>2, SyncErrorCareful DEF TypeOK
  <1>4. CASE Fsync
    <2>1. /\ up /\ step = "fsync" /\ fileOpen
          /\ UNCHANGED <<up, serving, werr, file, replayed, bounds>>
      BY <1>4 DEF Fsync
    <2>2. CASE op = "close"
      <3>1. closing' = "done" /\ ~fileOpen' /\ op' = "none"
        BY <1>4, <2>2 DEF Fsync, Release
      <3>2. buf = <<>> /\ ~werr /\ serving
        BY <2>1, <2>2 DEF LockOK, Careful
      <3>3. Stream = file
        BY <3>2, ConcatEmptySeq DEF TypeOK, Stream
      <3>4. Whole(file)
        BY <2>1, <3>2, <3>3 DEF NoTearWhileHealthy
      <3> QED BY <2>1, <3>1, <3>4 DEF Careful, bounds, TypeOK
    <2>3. CASE op # "close"
      <3>1. UNCHANGED <<closing, fileOpen>> /\ op' \in {op, "none"}
        BY <1>4, <2>3 DEF Fsync, Goto, Release
      <3> QED BY <2>1, <2>3, <3>1 DEF Careful, bounds, TypeOK
    <2> QED BY <2>2, <2>3
  <1>5. CASE FsyncFails
    <2>1. CallFails /\ AfterSyncError /\ file' = file
      BY <1>5 DEF FsyncFails, data
    <2>2. crashes' = crashes
      BY <2>1 DEF AfterSyncError
    <2> QED BY <2>1, <2>2, FailureMarks, SyncErrorCareful DEF TypeOK
  <1> QED BY <1>1, <1>2, <1>3, <1>4, <1>5 DEF SyncToFile

\* Operations that begin.
LEMMA BeginCareful ==
    ASSUME IInv, Careful, Tick \/ RewriteTemp \/ ReplayStart \/ CloseStop \/ CloseSync
    PROVE  Careful'
  <1> USE DEF IInv
  <1>1. CASE Tick \/ RewriteTemp \/ ReplayStart
    BY <1>1 DEF Tick, RewriteTemp, ReplayStart, Acquire, Careful, life, data, hist,
                bounds, TypeOK
  <1>2. CASE CloseStop
    <2>1. /\ up /\ closing = "no" /\ closing' = "stopping"
          /\ UNCHANGED <<up, serving, fileOpen, lock, data, hist, bounds>>
      BY <1>2 DEF CloseStop
    <2>2. fileOpen
      BY <2>1 DEF Careful
    <2> QED BY <2>1, <2>2 DEF Careful, lock, data, hist, bounds, TypeOK
  <1>3. CASE CloseSync
    BY <1>3 DEF CloseSync, Acquire, Careful, life, data, hist, bounds, TypeOK
  <1> QED BY <1>1, <1>2, <1>3

\* A rewrite or a truncation puts whole records in the place of the old ones.
LEMMA ReplaceCareful ==
    ASSUME IInv, Careful,
           RewriteSwap \/ RewriteReopenFails \/ RewriteSwapFails \/ Truncate \/ TruncateFails
    PROVE  Unharmed' => Careful'
  <1> USE DEF IInv
  <1>0. step = "swap" => Whole(cur)
    BY SnapshotAssumption DEF LockOK, TypeOK
  <1>1. CASE RewriteSwap
    <2>1. /\ step = "swap" /\ file' = cur /\ werr' = FALSE /\ op' = "none"
          /\ UNCHANGED <<life, replayed, bounds>>
      BY <1>1 DEF RewriteSwap, Reset, Release
    <2> QED BY <1>0, <2>1 DEF Careful, life, bounds, TypeOK
  <1>2. CASE RewriteReopenFails
    <2>1. /\ CallFails /\ step = "swap" /\ file' = cur /\ werr' = FALSE /\ op' = "none"
          /\ fileOpen' = FALSE /\ UNCHANGED <<up, serving, closing, replayed, crashes>>
      BY <1>2 DEF RewriteReopenFails, Reset, Release
    <2> QED BY <1>0, <2>1, FailureMarks DEF Careful, TypeOK
  <1>3. CASE RewriteSwapFails
    <2>1. /\ CallFails /\ file' = file /\ op' = "none" /\ fileOpen' = FALSE
          /\ UNCHANGED <<up, serving, closing, werr, replayed, crashes>>
      BY <1>3 DEF RewriteSwapFails, Release, data, hist
    <2> QED BY <2>1, FailureMarks DEF Careful, TypeOK
  <1>4. CASE Truncate
    <2>1. /\ file' = <<>> /\ werr' = FALSE
          /\ UNCHANGED <<life, lock, replayed, bounds>>
      BY <1>4 DEF Truncate, Reset
    <2> QED BY <2>1 DEF Careful, Whole, life, lock, bounds, TypeOK
  <1>5. CASE TruncateFails
    <2>1. CallFails /\ fileOpen /\ crashes' = crashes
      BY <1>5 DEF TruncateFails
    <2> QED BY <2>1, FailureMarks DEF TypeOK
  <1> QED BY <1>1, <1>2, <1>3, <1>4, <1>5

\* A process starts, replays, and ends.
LEMMA LifeCareful ==
    ASSUME IInv, Careful, Open \/ Replay \/ Exit
    PROVE  Careful'
  <1> USE DEF IInv
  <1>1. CASE Open
    <2>1. /\ ~up /\ fileOpen' = TRUE
          /\ UNCHANGED <<serving, closing, lock, data, replayed, bounds>>
      BY <1>1 DEF Open
    <2>2. ~serving /\ ~werr /\ closing = "no" /\ Whole(file)
      BY <2>1 DEF LockOK, Careful, TypeOK
    <2> QED BY <2>1, <2>2 DEF Careful, lock, data, bounds, TypeOK
  <1>2. CASE Replay
    <2>1. /\ step = "read" /\ replayed' = file
          /\ UNCHANGED <<file, bounds>>
      BY <1>2 DEF Replay
    <2>2. ~serving /\ Whole(file)
      BY <2>1 DEF LockOK, Careful
    <2>3. /\ serving' = TRUE /\ op' = "none"
          /\ UNCHANGED <<up, fileOpen, closing, werr>>
      BY <1>2, <2>2 DEF Replay, Torn, Release
    <2> QED BY <2>1, <2>2, <2>3 DEF Careful, bounds, TypeOK
  <1>3. CASE Exit
    <2>1. /\ closing \in {"done", "failed"} /\ Halt
          /\ UNCHANGED <<file, hist, faults, crashes>>
      BY <1>3 DEF Exit, bounds
    <2>2. Whole(file)
      BY <2>1 DEF Careful
    <2> QED BY <2>1, <2>2 DEF Careful, Halt, Release, hist, TypeOK
  <1> QED BY <1>1, <1>2, <1>3

\* A crash is counted.
LEMMA CrashHarms ==
    ASSUME TypeOK, Crash \/ MachineCrash
    PROVE  ~Unharmed'
  BY DEF Crash, MachineCrash, Unharmed, TypeOK

\* Nothing has been read from the empty file of a new logger.
LEMMA InitCInv == Init => CInv
  BY DEF Init, CInv, Careful, Whole

\* Every step keeps what an unharmed logger promises.
LEMMA NextCInv ==
    ASSUME IInv, CInv, [Next]_vars
    PROVE  CInv'
  <1>1. CASE UNCHANGED vars
    BY <1>1 DEF CInv, Unharmed, Careful, vars, life, lock, data, hist, bounds
  <1>2. CASE Crash \/ MachineCrash
    BY <1>2, CrashHarms DEF CInv, IInv
  <1>3. ASSUME ~(Crash \/ MachineCrash), Next
        PROVE  crashes' >= crashes /\ faults' >= faults
    <2>1. TypeOK
      BY DEF IInv
    <2>2. ASSUME NEW p, BufWriteFails(p)
          PROVE  faults' >= faults
      BY <2>1, <2>2, FailureMarks DEF BufWriteFails, TypeOK
    <2>3. CASE Write
      <3>1. \/ UNCHANGED bounds
            \/ crashes' = crashes /\ \E p : BufWriteFails(p)
        BY <2>3 DEF Write, WritePrefix, WritePrefixFails, WriteData, WriteDataFails
      <3> QED BY <2>1, <2>2, <3>1 DEF bounds, TypeOK
    <2>4. CASE SyncToFile
      BY <2>1, <2>4, FailureMarks DEF SyncToFile, Flush, FlushFails, FlushFailsAgain,
                        Fsync, FsyncFails, AfterSyncError, bounds, TypeOK
    <2>5. CASE Rewrite \/ Truncate \/ TruncateFails
      BY <2>1, <2>5, FailureMarks DEF Rewrite, RewriteTemp, RewriteSwap, RewriteReopenFails,
                        RewriteSwapFails, Truncate, TruncateFails, bounds, TypeOK
    <2>6. CASE Tick \/ Open \/ ReplayStart \/ Replay \/ CloseStop \/ CloseSync \/ Exit
      BY <2>1, <2>6 DEF Tick, Open, ReplayStart, Replay, CloseStop, CloseSync, Exit,
                        hist, bounds, TypeOK
    <2> QED BY <1>3, <2>3, <2>4, <2>5, <2>6 DEF Next
  <1>4. ASSUME ~(Crash \/ MachineCrash), Next, Unharmed'
        PROVE  Careful'
    <2>1. Unharmed /\ Careful
      BY <1>3, <1>4, HarmLasts DEF CInv, IInv
    <2> QED BY <1>4, <2>1, WriteCareful, SyncCareful, BeginCareful, ReplaceCareful,
               LifeCareful DEF Next, Rewrite
  <1> QED BY <1>1, <1>2, <1>4 DEF CInv

\* Recovery refuses a log only after a crash or a failed system call: however
\* bufio spills, and whatever a rewrite or a late write does around Close.
THEOREM RefusalNeedsFailure == Spec => []RefusedOnlyAfterFailure
  <1>1. Init => IInv /\ CInv
    BY InitIInv, InitCInv
  <1>2. IInv /\ CInv /\ [Next]_vars => IInv' /\ CInv'
    BY NextIInv, StutterIInv, NextCInv
  <1>3. IInv /\ CInv => RefusedOnlyAfterFailure
    BY BoundsAssumption DEF IInv, TypeOK, CInv, Unharmed, Careful, RefusedOnlyAfterFailure
  <1> QED BY <1>1, <1>2, <1>3, PTL DEF Spec

-----------------------------------------------------------------------------
(* The commands of a stream, read unit by unit.                            *)

\* What Replay has delivered after the unit u, and had delivered as d before it.
Deliver(d, u) == IF IsLast(u) THEN Append(d, u[1]) ELSE d

\* r[n] is what has been delivered after n units of s.
Reads(r, s) ==
    /\ r[0] = <<>>
    /\ \A n \in 1 .. Len(s) : r[n] = Deliver(r[n - 1], s[n])
    /\ \A n \in 0 .. Len(s) : r[n] \in Seq(Command)

\* A unit delivers its command or nothing.
LEMMA DeliverType ==
    ASSUME NEW d \in Seq(Command), NEW u \in Unit
    PROVE  Deliver(d, u) \in Seq(Command)
  <1>1. u[1] \in Command
    BY DEF Unit
  <1> QED BY <1>1 DEF Deliver

\* The recursion of Commands: each value from the one before.
LEMMA CommandsRead ==
    ASSUME NEW s \in Seq(Unit)
    PROVE  \E r : Reads(r, s) /\ Commands(s) = r[Len(s)]
  <1> DEFINE m == Len(s)
             T == [n \in 0 .. m |-> Seq(Command)]
             g == [x \in Seq(Command) \X (1 .. m) |-> Deliver(x[1], s[x[2]])]
             Body(r) == [n \in 0 .. m |-> IF n = 0 THEN <<>>
                                          ELSE IF IsLast(s[n]) THEN Append(r[n - 1], s[n][1])
                                          ELSE r[n - 1]]
             read == CHOOSE r : r = Body(r)
  <1>0. m \in Nat /\ \A n \in 1 .. m : s[n] \in Unit
    OBVIOUS
  <1>1. Commands(s) = read[m]
    BY DEF Commands
  <1>2. <<>> \in T[0]
    BY <1>0, EmptySeq
  <1>3. \A n \in 1 .. m : \A d \in Seq(Command) : Deliver(d, s[n]) \in Seq(Command)
    BY <1>0, DeliverType
  <1>4. \A n \in 1 .. m : \A d \in Seq(Command) : g[<<d, n>>] = Deliver(d, s[n])
    OBVIOUS
  <1>5. \A n \in 0 .. m : T[n] = Seq(Command)
    OBVIOUS
  <1>6. \A n \in 1 .. m : n \in 0 .. m /\ n - 1 \in 0 .. m
    BY <1>0
  <1> HIDE DEF g, T, m
  <1>7. Carries(m, g, T)
    <2> SUFFICES ASSUME NEW n \in 1 .. m, NEW d \in T[n - 1]
                 PROVE  g[<<d, n>>] \in T[n]
      BY DEF Carries
    <2>1. d \in Seq(Command) /\ T[n] = Seq(Command)
      BY <1>5, <1>6
    <2>2. g[<<d, n>>] = Deliver(d, s[n]) /\ Deliver(d, s[n]) \in Seq(Command)
      BY <1>3, <1>4, <2>1
    <2> QED BY <2>1, <2>2
  <1>8. PICK f : Iterates(f, m, <<>>, g, T)
    BY <1>0, <1>2, <1>7, Iteration
  <1>9. /\ f = [n \in 0 .. m |-> f[n]] /\ f[0] = <<>>
        /\ \A n \in 1 .. m : f[n] = Deliver(f[n - 1], s[n])
    <2>1. \A n \in 1 .. m : f[n - 1] \in Seq(Command)
      BY <1>5, <1>6, <1>8 DEF Iterates
    <2> QED BY <1>4, <1>8, <2>1 DEF Iterates
  <1>10. f = Body(f)
    <2>1. ASSUME NEW n \in 0 .. m
          PROVE  f[n] = Body(f)[n]
      <3>1. n = 0 \/ n \in 1 .. m
        BY <1>0
      <3> QED BY <1>9, <3>1 DEF Deliver
    <2> QED BY <1>9, <2>1
  <1>11. read = Body(read)
    BY <1>10
  <1> HIDE DEF read
  <1>12. read[0] = <<>> /\ \A n \in 1 .. m : read[n] = Deliver(read[n - 1], s[n])
    <2>1. 0 \in 0 .. m /\ \A n \in 1 .. m : n \in 0 .. m /\ n # 0
      BY <1>0
    <2>2. read[0] = Body(read)[0] /\ \A n \in 1 .. m : read[n] = Body(read)[n]
      BY <1>11
    <2> QED BY <2>1, <2>2 DEF Deliver
  <1>13. \A n \in 1 .. m : read[n - 1] \in T[n - 1] => read[n] \in T[n]
    BY <1>3, <1>5, <1>6, <1>12
  <1>14. \A n \in 0 .. m : read[n] \in T[n]
    BY <1>0, <1>2, <1>12, <1>13, Stays
  <1>15. \A n \in 0 .. m : read[n] \in Seq(Command)
    BY <1>5, <1>14
  <1> QED BY <1>1, <1>12, <1>15 DEF Reads, m

\* As far as two streams agree, what has been read of them agrees.
LEMMA SameReads ==
    ASSUME NEW s \in Seq(Unit), NEW t \in Seq(Unit), IsPrefix(s, t),
           NEW q, Reads(q, s), NEW r, Reads(r, t)
    PROVE  \A n \in 0 .. Len(s) : q[n] = r[n]
  <1> DEFINE A == {n \in 0 .. Len(s) : q[n] = r[n]}
  <1>1. Len(s) \in Nat /\ Len(s) <= Len(t) /\ \A n \in 1 .. Len(s) : s[n] = t[n]
    BY PrefixElements, LenProperties
  <1>2. 0 \in A
    BY <1>1 DEF Reads
  <1>3. ASSUME NEW n \in 0 .. Len(s) - 1, n \in A
        PROVE  n + 1 \in A
    <2>1. /\ n + 1 \in 1 .. Len(s) /\ n + 1 \in 1 .. Len(t) /\ (n + 1) - 1 = n
          /\ n + 1 \in 0 .. Len(s)
      BY <1>1
    <2>2. q[n + 1] = Deliver(q[n], s[n + 1]) /\ r[n + 1] = Deliver(r[n], t[n + 1])
      BY <2>1 DEF Reads
    <2> QED BY <1>1, <1>3, <2>1, <2>2
  <1>4. \A n \in 0 .. Len(s) : n \in A
    <2> HIDE DEF A
    <2> QED BY <1>1, <1>2, <1>3, UpTo
  <1> QED BY <1>4

\* The commands of a prefix come first, and the units behind it that end no record
\* add none.
LEMMA CommandsPrefix ==
    ASSUME NEW s \in Seq(Unit), NEW t \in Seq(Unit), IsPrefix(s, t)
    PROVE  /\ Commands(s) \in Seq(Command) /\ Commands(t) \in Seq(Command)
           /\ IsPrefix(Commands(s), Commands(t))
           /\ (\A n \in Len(s) + 1 .. Len(t) : ~IsLast(t[n])) => Commands(t) = Commands(s)
  <1>1. PICK q : Reads(q, s) /\ Commands(s) = q[Len(s)]
    BY CommandsRead
  <1>2. PICK r : Reads(r, t) /\ Commands(t) = r[Len(t)]
    BY CommandsRead
  <1>3. Len(s) \in Nat /\ Len(t) \in Nat /\ Len(s) <= Len(t)
    BY PrefixElements, LenProperties
  <1>4. Commands(s) = r[Len(s)] /\ \A n \in 0 .. Len(t) : r[n] \in Seq(Command)
    <2>1. \A n \in 0 .. Len(s) : q[n] = r[n]
      BY <1>1, <1>2, SameReads
    <2>2. Len(s) \in 0 .. Len(s)
      BY <1>3
    <2>3. q[Len(s)] = r[Len(s)]
      BY <2>1, <2>2
    <2> QED BY <1>1, <1>2, <2>3 DEF Reads
  <1> DEFINE e == Len(t) - Len(s)
             B == {n \in 0 .. e : /\ IsPrefix(r[Len(s)], r[Len(s) + n])
                                  /\ (\A k \in Len(s) + 1 .. Len(t) : ~IsLast(t[k]))
                                        => r[Len(s) + n] = r[Len(s)]}
  <1>5. 0 \in B
    BY <1>3, <1>4, PrefixReflexive
  <1>6. ASSUME NEW n \in 0 .. e - 1, n \in B
        PROVE  n + 1 \in B
    <2> DEFINE k == Len(s) + n
    <2>1. /\ k + 1 \in 1 .. Len(t) /\ k + 1 \in Len(s) + 1 .. Len(t) /\ (k + 1) - 1 = k
          /\ k \in 0 .. Len(t) /\ Len(s) \in 0 .. Len(t) /\ Len(s) + (n + 1) = k + 1
          /\ n + 1 \in 0 .. e /\ k + 1 \in 0 .. Len(t)
      BY <1>3
    <2>2. IsPrefix(r[Len(s)], r[k])
          /\ ((\A j \in Len(s) + 1 .. Len(t) : ~IsLast(t[j])) => r[k] = r[Len(s)])
      BY <1>6
    <2> HIDE DEF k
    <2>3. r[k + 1] = Deliver(r[k], t[k + 1]) /\ t[k + 1] \in Unit
      BY <1>2, <2>1 DEF Reads
    <2>4. IsPrefix(r[k], r[k + 1])
      <3>1. r[k] \in Seq(Command)
        BY <1>4, <2>1
      <3>2. CASE IsLast(t[k + 1])
        <4>1. t[k + 1][1] \in Command
          BY <2>3 DEF Unit
        <4>2. r[k + 1] = r[k] \o <<t[k + 1][1]>> /\ <<t[k + 1][1]>> \in Seq(Command)
          <5>1. r[k + 1] = Append(r[k], t[k + 1][1])
            BY <2>3, <3>2 DEF Deliver
          <5>2. ASSUME NEW d \in Seq(Command), NEW c \in Command
                PROVE  Append(d, c) = d \o <<c>> /\ <<c>> \in Seq(Command)
            OBVIOUS
          <5> QED BY <3>1, <4>1, <5>1, <5>2
        <4> QED BY <3>1, <4>2, PrefixConcat
      <3>3. CASE ~IsLast(t[k + 1])
        BY <2>3, <3>1, <3>3, PrefixReflexive DEF Deliver
      <3> QED BY <3>2, <3>3
    <2>5. IsPrefix(r[Len(s)], r[k + 1])
      BY <1>4, <2>1, <2>2, <2>4, PrefixTransitive
    <2>6. (\A j \in Len(s) + 1 .. Len(t) : ~IsLast(t[j])) => r[k + 1] = r[Len(s)]
      BY <2>1, <2>2, <2>3 DEF Deliver
    <2> QED BY <2>1, <2>5, <2>6
  <1>7. e \in Nat /\ Len(s) + e = Len(t)
    BY <1>3
  <1>8. \A n \in 0 .. e : n \in B
    <2> HIDE DEF B, e
    <2> QED BY <1>5, <1>6, <1>7, UpTo
  <1>9. e \in B
    <2> HIDE DEF B
    <2> QED BY <1>7, <1>8
  <1>10. IsPrefix(r[Len(s)], r[Len(t)])
         /\ ((\A k \in Len(s) + 1 .. Len(t) : ~IsLast(t[k])) => r[Len(t)] = r[Len(s)])
    <2> HIDE DEF e
    <2> QED BY <1>7, <1>9
  <1>11. Commands(s) \in Seq(Command) /\ Commands(t) \in Seq(Command)
    BY <1>2, <1>3, <1>4
  <1> QED BY <1>2, <1>4, <1>10, <1>11

\* Nothing is read of nothing.
LEMMA CommandsEmpty == Commands(<<>>) = <<>>
  <1>1. <<>> \in Seq(Unit) /\ Len(<<>>) = 0
    BY EmptySeq
  <1>2. PICK r : Reads(r, <<>>) /\ Commands(<<>>) = r[0]
    BY <1>1, CommandsRead
  <1> QED BY <1>2 DEF Reads

\* What an unfinished record adds is delivered only with its last unit.
LEMMA PartOfRecord ==
    ASSUME NEW c \in Command, NEW s \in Seq(Unit), NEW t \in Seq(Unit), NEW n \in Nat,
           n <= Size[c] - 1,
           IsPrefix(s, t), IsPrefix(t, s \o Tail(Record(c))), Len(t) = Len(s) + n
    PROVE  Commands(t) = IF n = Size[c] - 1 THEN Append(Commands(s), c) ELSE Commands(s)
  <1> DEFINE p == Tail(Record(c))
  <1>0. PICK z \in Nat : z = Size[c] /\ z >= 2
    BY RecordType
  <1>1. /\ p \in Seq(Unit) /\ Len(p) = z - 1 /\ n <= z - 1
        /\ \A i \in 1 .. z - 1 : p[i] = <<c, i + 1>>
    BY <1>0, RecordType
  <1> HIDE DEF p
  <1>2. /\ Len(s) \in Nat /\ s \o p \in Seq(Unit) /\ Len(s \o p) = Len(s) + Len(p)
        /\ \A i \in 1 .. Len(s) + Len(p) :
              (s \o p)[i] = IF i <= Len(s) THEN s[i] ELSE p[i - Len(s)]
    BY <1>1, LenProperties, ConcatProperties
  <1>3. \A k \in 1 .. Len(t) : t[k] = (s \o p)[k]
    BY <1>2, PrefixElements DEF p
  <1>4. ASSUME NEW k \in Len(s) + 1 .. Len(t)
        PROVE  t[k] = <<c, k - Len(s) + 1>>
    <2>1. /\ k \in 1 .. Len(t) /\ k \in 1 .. Len(s) + Len(p) /\ ~(k <= Len(s))
          /\ k - Len(s) \in 1 .. z - 1
      BY <1>1, <1>2
    <2> QED BY <1>1, <1>2, <1>3, <2>1
  <1>5. \A k \in Len(s) + 1 .. Len(t) : IsLast(t[k]) <=> k - Len(s) + 1 = z
    BY <1>0, <1>4 DEF IsLast
  <1>6. CASE n < z - 1
    <2>1. \A k \in Len(s) + 1 .. Len(t) : ~IsLast(t[k])
      BY <1>1, <1>2, <1>5, <1>6
    <2>2. Commands(t) = Commands(s)
      BY <2>1, CommandsPrefix
    <2>3. n # Size[c] - 1
      BY <1>0, <1>6
    <2> QED BY <2>2, <2>3
  <1>7. CASE n = z - 1
    <2>0. Len(s) \in Nat /\ Len(t) = Len(s) + (z - 1)
      BY <1>7, LenProperties
    <2>1. PICK r : Reads(r, t) /\ Commands(t) = r[Len(t)]
      BY CommandsRead
    <2>2. /\ Len(t) - 1 \in 0 .. Len(t) /\ Len(t) \in 1 .. Len(t)
          /\ Len(t) \in Len(s) + 1 .. Len(t) /\ Len(s) <= Len(t) - 1
      BY <1>0, <2>0
    <2> DEFINE u == SubSeq(t, 1, Len(t) - 1)
    <2>3. /\ u \in Seq(Unit) /\ Len(u) = Len(t) - 1 /\ IsPrefix(u, t) /\ IsPrefix(s, u)
      BY <2>2, PrefixCut
    <2> HIDE DEF u
    <2>4. PICK q : Reads(q, u) /\ Commands(u) = q[Len(u)]
      BY <2>3, CommandsRead
    <2>5. Commands(u) = r[Len(t) - 1]
      <3>1. \A k \in 0 .. Len(u) : q[k] = r[k]
        BY <2>1, <2>3, <2>4, SameReads
      <3> QED BY <2>2, <2>3, <2>4, <3>1
    <2>6. Commands(u) = Commands(s)
      <3>1. \A k \in Len(s) + 1 .. Len(u) : ~IsLast(u[k])
        <4>1. \A k \in 1 .. Len(u) : u[k] = t[k]
          <5>1. u \in Seq(Unit) /\ IsPrefix(u, t)
            BY <2>3
          <5> QED BY <5>1, PrefixElements
        <4>2. ASSUME NEW k \in Len(s) + 1 .. Len(u)
              PROVE  k \in 1 .. Len(u) /\ k \in Len(s) + 1 .. Len(t) /\ k - Len(s) + 1 # z
          <5>1. Len(u) = Len(s) + (z - 2)
            <6>1. Len(u) = Len(t) - 1
              BY <2>3
            <6>2. PICK e \in Nat : e = Len(s)
              BY <2>0
            <6>3. Len(t) = e + (z - 1)
              BY <2>0, <6>2
            <6>4. Len(u) = e + (z - 2)
              <7>1. z \in Nat /\ (e + (z - 1)) - 1 = e + (z - 2)
                BY <6>2
              <7> QED BY <6>1, <6>3, <7>1
            <6> QED BY <6>2, <6>4
          <5>2. PICK e \in Nat : e = Len(s)
            BY <2>0
          <5>3. k \in e + 1 .. e + (z - 2)
            BY <5>1, <5>2
          <5>4. k \in 1 .. e + (z - 2) /\ k \in e + 1 .. e + (z - 1) /\ k - e + 1 # z
            <6>1. k \in Int /\ e + 1 <= k /\ k <= e + (z - 2)
              BY <1>0, <5>3
            <6>2. z \in Int /\ z >= 2 /\ e \in Int /\ e >= 0
              BY <1>0
            <6>3. k - e + 1 < z
              BY <6>1, <6>2
            <6>4. 1 <= k
              BY <6>1, <6>2
            <6>5. k <= e + (z - 1)
              BY <6>1, <6>2
            <6> QED BY <6>1, <6>2, <6>3, <6>4, <6>5
          <5> QED BY <2>0, <5>1, <5>2, <5>4
        <4> QED BY <1>5, <4>1, <4>2
      <3> QED BY <2>3, <3>1, CommandsPrefix
    <2>7. IsLast(t[Len(t)]) /\ t[Len(t)][1] = c
      <3>1. Len(t) - Len(s) + 1 = z
        BY <1>0, <2>0
      <3> QED BY <1>4, <1>5, <2>2, <3>1
    <2>8. Commands(t) = Deliver(r[Len(t) - 1], t[Len(t)])
      BY <2>1, <2>2 DEF Reads
    <2> QED BY <1>0, <1>7, <2>5, <2>6, <2>7, <2>8 DEF Deliver
  <1> QED BY <1>0, <1>1, <1>6, <1>7

\* The first unit of a record delivers nothing.
LEMMA StartDelivers ==
    ASSUME NEW c \in Command, NEW s \in Seq(Unit), NEW t \in Seq(Unit),
           IsPrefix(s, t), IsPrefix(t, s \o <<<<c, 1>>>>)
    PROVE  Commands(t) = Commands(s)
  <1>1. <<<<c, 1>>>> \in Seq(Unit) /\ ~IsLast(<<c, 1>>)
    BY RecordType, UnitType DEF IsLast
  <1>2. /\ Len(s) \in Nat /\ s \o <<<<c, 1>>>> \in Seq(Unit)
        /\ Len(s \o <<<<c, 1>>>>) = Len(s) + 1 /\ (s \o <<<<c, 1>>>>)[Len(s) + 1] = <<c, 1>>
    BY <1>1
  <1>3. Len(t) <= Len(s) + 1 /\ \A k \in 1 .. Len(t) : t[k] = (s \o <<<<c, 1>>>>)[k]
    <2> DEFINE v == s \o <<<<c, 1>>>>
    <2>1. v \in Seq(Unit) /\ Len(v) = Len(s) + 1 /\ IsPrefix(t, v)
      BY <1>2
    <2> HIDE DEF v
    <2>2. Len(t) <= Len(v) /\ \A k \in 1 .. Len(t) : t[k] = v[k]
      BY <2>1, PrefixElements
    <2> QED BY <2>1, <2>2 DEF v
  <1>4. \A k \in Len(s) + 1 .. Len(t) : k = Len(s) + 1 /\ k \in 1 .. Len(t)
    BY <1>2, <1>3
  <1>5. \A k \in Len(s) + 1 .. Len(t) : ~IsLast(t[k])
    BY <1>1, <1>2, <1>3, <1>4
  <1> QED BY <1>5, CommandsPrefix

-----------------------------------------------------------------------------
(* AOFLogger implements DurableLog: what each step does to the commands.   *)

\* The step changes neither what the log holds nor what is durable or replayed.
Unseen ==
    /\ Commands(Stream') = Commands(Stream)
    /\ Len(Commands(disk')) = Len(Commands(disk))
    /\ replayed' = replayed

\* Such a step is a stuttering step of the abstract log.
LEMMA UnseenStutters ==
    ASSUME Unseen
    PROVE  UNCHANGED Abstract!dvars
  BY DEF Unseen, Abstract!dvars

\* WriteCommand puts its command in the log with the last unit of the record, and
\* when it fails it leaves the commands as they were.
LEMMA WriteStep ==
    ASSUME IInv, Write
    PROVE  Unseen \/ Abstract!DNext
  <1> USE DEF IInv
  <1>1. Stream \in Seq(Unit) /\ buf \in Seq(Unit) /\ Len(buf) <= BufCap /\ file \in Seq(Unit)
    BY StreamType DEF TypeOK
  <1>2. ASSUME NEW c \in Request, WritePrefix(c)
        PROVE  Unseen
    <2>1. c \in Command /\ <<<<c, 1>>>> \in Seq(Unit)
      BY RecordType, UnitType DEF Command
    <2>2. BufWrite(<<<<c, 1>>>>) /\ replayed' = replayed
      BY <1>2 DEF WritePrefix
    <2>3. Stream' = Stream \o <<<<c, 1>>>> /\ disk' = disk
      BY <1>1, <2>1, <2>2, BufWriteAppends
    <2>4. Stream' \in Seq(Unit) /\ IsPrefix(Stream, Stream')
      BY <1>1, <2>1, <2>3, PrefixConcat
    <2>5. Commands(Stream') = Commands(Stream)
      BY <1>1, <2>1, <2>3, <2>4, PrefixReflexive, StartDelivers
    <2> QED BY <2>2, <2>3, <2>5 DEF Unseen
  <1>3. ASSUME NEW c \in Request, WritePrefixFails(c)
        PROVE  Unseen
    <2>1. c \in Command /\ <<<<c, 1>>>> \in Seq(Unit)
      BY RecordType, UnitType DEF Command
    <2>2. BufWriteFails(<<<<c, 1>>>>) /\ replayed' = replayed /\ serving /\ op = "none"
      BY <1>3 DEF WritePrefixFails, Idle
    <2>3. ~werr => WellFormed(Stream \o <<<<c, 1>>>>)
      <3>1. ~werr => WellFormed(Stream) /\ Whole(Stream)
        BY <2>2 DEF StreamIntact, NoTearWhileHealthy, TypeOK
      <3> QED BY <1>1, <2>1, <3>1, StartRecord
    <2>4. /\ Stream' \in Seq(Unit) /\ IsPrefix(Stream, Stream') /\ disk' = disk
          /\ werr => Stream' = Stream
          /\ ~werr => IsPrefix(Stream', Stream \o <<<<c, 1>>>>)
      BY <2>1, <2>2, <2>3, WriteFailsStream
    <2>5. Commands(Stream') = Commands(Stream)
      BY <1>1, <2>1, <2>4, StartDelivers DEF TypeOK
    <2> QED BY <2>2, <2>4, <2>5 DEF Unseen
  <1>4. CASE WriteData
    <2>1. /\ op = "write" /\ BufWrite(Tail(Record(cur))) /\ replayed' = replayed
          /\ cur \in Command
      BY <1>4 DEF WriteData, TypeOK, Command
    <2>2. PICK z \in Nat : z = Size[cur] /\ z >= 2
      BY <2>1, RecordType
    <2>3. Tail(Record(cur)) \in Seq(Unit) /\ Len(Tail(Record(cur))) = z - 1
      BY <2>1, <2>2, RecordType
    <2>4. Stream' = Stream \o Tail(Record(cur)) /\ disk' = disk
      BY <1>1, <2>1, <2>3, BufWriteAppends
    <2>5. /\ Stream' \in Seq(Unit) /\ IsPrefix(Stream, Stream')
          /\ IsPrefix(Stream', Stream \o Tail(Record(cur)))
          /\ Len(Stream') = Len(Stream) + (z - 1)
      <3> DEFINE p == Tail(Record(cur))
      <3>1. p \in Seq(Unit) /\ Len(p) = z - 1 /\ Stream' = Stream \o p
        BY <2>3, <2>4
      <3> HIDE DEF p
      <3>2. Stream \o p \in Seq(Unit) /\ IsPrefix(Stream, Stream \o p)
        BY <1>1, <3>1, PrefixConcat
      <3>3. Len(Stream \o p) = Len(Stream) + (z - 1)
        <4>1. Len(Stream \o p) = Len(Stream) + Len(p)
          <5>1. Stream \in Seq(Unit) /\ p \in Seq(Unit)
            BY <1>1, <3>1
          <5> QED BY <5>1
        <4> QED BY <3>1, <4>1
      <3>4. IsPrefix(Stream \o p, Stream \o p)
        BY <3>2, PrefixReflexive
      <3> QED BY <3>1, <3>2, <3>3, <3>4 DEF p
    <2>6. z - 1 \in Nat
      BY <2>2
    <2>7. Commands(Stream') = Append(Commands(Stream), cur)
      <3>1. z - 1 <= Size[cur] - 1 /\ z - 1 = Size[cur] - 1
        BY <2>2
      <3> QED BY <1>1, <2>1, <2>5, <2>6, <3>1, PartOfRecord
    <2>8. Abstract!DAppend(cur) /\ UNCHANGED replayed
      BY <2>1, <2>4, <2>7 DEF Abstract!DAppend
    <2> QED BY <2>1, <2>8 DEF Abstract!DNext
  <1>5. CASE WriteDataFails
    <2>1. /\ op = "write" /\ step = "data" /\ BufWriteFails(Tail(Record(cur)))
          /\ replayed' = replayed /\ cur \in Command
      BY <1>5 DEF WriteDataFails, TypeOK, Command, hist
    <2>2. PICK z \in Nat : z = Size[cur] /\ z >= 2
      BY <2>1, RecordType
    <2> DEFINE p == Tail(Record(cur))
    <2>3. p \in Seq(Unit) /\ Len(p) = z - 1
      BY <2>1, <2>2, RecordType
    <2>4. WellFormed(Stream \o p)
      <3>1. WellFormed(Stream) /\ Stream # <<>> /\ Stream[Len(Stream)] = <<cur, 1>>
        BY <2>1 DEF StreamIntact, LockOK
      <3> QED BY <1>1, <2>1, <3>1, FinishRecord
    <2>5. /\ Stream' \in Seq(Unit) /\ IsPrefix(Stream, Stream') /\ disk' = disk
          /\ werr => Stream' = Stream
          /\ ~werr => IsPrefix(Stream', Stream \o p) /\ Len(Stream') < Len(Stream \o p)
      BY <2>1, <2>3, <2>4, WriteFailsStream
    <2>6. CASE ~werr
      <3>1. Len(Stream \o p) = Len(Stream) + (z - 1) /\ Len(Stream) \in Nat
            /\ Len(Stream') \in Nat /\ Len(Stream) <= Len(Stream')
        <4>1. Len(Stream) <= Len(Stream') /\ Len(Stream') \in Nat /\ Len(Stream) \in Nat
          BY <1>1, <2>5, PrefixElements, LenProperties
        <4>2. Len(Stream \o p) = Len(Stream) + Len(p)
          <5> HIDE DEF p
          <5>1. Stream \in Seq(Unit) /\ p \in Seq(Unit)
            BY <1>1, <2>3
          <5> QED BY <5>1
        <4> QED BY <2>3, <4>1, <4>2
      <3>2. PICK n \in Nat : Len(Stream') = Len(Stream) + n /\ n < z - 1
        <4>1. Len(Stream') - Len(Stream) \in Nat
          BY <3>1
        <4>2. Len(Stream') < Len(Stream) + (z - 1)
          BY <2>5, <2>6, <3>1
        <4>3. Len(Stream') - Len(Stream) < z - 1
          BY <2>2, <3>1, <4>2
        <4> QED BY <3>1, <4>1, <4>3
      <3>3. Commands(Stream') = Commands(Stream)
        <4>1. n <= Size[cur] - 1 /\ n # Size[cur] - 1
          BY <2>2, <3>2
        <4> QED BY <1>1, <2>1, <2>5, <2>6, <3>2, <4>1, PartOfRecord
      <3> QED BY <2>1, <2>5, <3>3 DEF Unseen
    <2>7. CASE werr
      BY <2>1, <2>5, <2>7 DEF Unseen
    <2> QED BY <2>6, <2>7
  <1> QED BY <1>2, <1>3, <1>4, <1>5 DEF Write

\* A flush moves units, which are the same commands; an fsync makes all of them durable.
LEMMA SyncStep ==
    ASSUME IInv, SyncToFile
    PROVE  Unseen \/ Abstract!DNext
  <1> USE DEF IInv
  <1>1. CASE Flush
    <2>1. file' = file \o buf /\ buf' = <<>> /\ disk' = disk /\ replayed' = replayed
      BY <1>1 DEF Flush, hist
    <2>2. Stream' = Stream
      BY <2>1, StreamType, ConcatEmptySeq DEF Stream
    <2> QED BY <2>1, <2>2 DEF Unseen
  <1>2. CASE FlushFails
    <2>1. PICK n \in IF fileOpen THEN 0 .. Len(buf) - 1 ELSE {0} :
              file' = file \o SubSeq(buf, 1, n) /\ buf' = SubSeq(buf, n + 1, Len(buf))
      BY <1>2 DEF FlushFails
    <2>2. buf # <<>> /\ disk' = disk /\ replayed' = replayed
      BY <1>2 DEF FlushFails, AfterSyncError, hist
    <2>3. n \in 0 .. Len(buf)
      BY <2>1, <2>2, StreamType
    <2>4. Stream' = Stream
      <3>1. file \in Seq(Unit) /\ buf \in Seq(Unit)
        BY StreamType
      <3>2. file' \o buf' = file \o buf
        BY <2>1, <2>3, <3>1, CutJoin, ZenonT(30)
      <3> QED BY <3>2 DEF Stream
    <2> QED BY <2>2, <2>4 DEF Unseen
  <1>3. CASE FlushFailsAgain \/ FsyncFails
    <2>1. file' = file /\ buf' = buf /\ disk' = disk /\ replayed' = replayed
      BY <1>3 DEF FlushFailsAgain, FsyncFails, AfterSyncError, hist, data
    <2> QED BY <2>1 DEF Unseen, Stream
  <1>4. CASE Fsync
    <2>1. disk' = file /\ file' = file /\ buf' = buf /\ buf = <<>> /\ replayed' = replayed
      BY <1>4 DEF Fsync, LockOK
    <2>2. Stream' = Stream /\ Stream = file /\ file \in Seq(Unit) /\ disk \in Seq(Unit)
      BY <2>1, StreamType, ConcatEmptySeq DEF Stream
    <2>3. Len(Commands(disk)) <= Len(Commands(file)) /\ Len(Commands(file)) \in Nat
          /\ Len(Commands(disk)) \in Nat
      <3>1. Commands(disk) \in Seq(Command) /\ Commands(file) \in Seq(Command)
            /\ IsPrefix(Commands(disk), Commands(file))
        BY <2>2, CommandsPrefix DEF StreamIntact
      <3> QED BY <3>1, PrefixElements, LenProperties
    <2>4. Abstract!DSync(Len(Commands(disk'))) /\ UNCHANGED replayed
      BY <2>1, <2>2, <2>3 DEF Abstract!DSync
    <2> QED BY <2>1, <2>4 DEF Abstract!DNext
  <1> QED BY <1>1, <1>2, <1>3, <1>4 DEF SyncToFile

\* A truncation or a rewrite replaces the log, durably; one that fails does not.
LEMMA ReplaceStep ==
    ASSUME IInv, Rewrite \/ Truncate \/ TruncateFails
    PROVE  Unseen \/ Abstract!DNext
  <1> USE DEF IInv
  <1>1. CASE RewriteTemp \/ RewriteSwapFails \/ TruncateFails
    <2>1. file' = file /\ buf' = buf /\ disk' = disk /\ replayed' = replayed
      BY <1>1 DEF RewriteTemp, RewriteSwapFails, TruncateFails, data, hist
    <2> QED BY <2>1 DEF Unseen, Stream
  <1>2. CASE RewriteSwap \/ RewriteReopenFails \/ Truncate
    <2> DEFINE New == {<<>>} \cup {Commands(s) : s \in Snapshots}
    <2>1. file' = disk' /\ buf' = <<>> /\ replayed' = replayed
      BY <1>2 DEF RewriteSwap, RewriteReopenFails, Truncate, Reset
    <2>2. file' \in Seq(Unit) /\ Commands(file') \in New
      <3>1. CASE RewriteSwap \/ RewriteReopenFails
        <4>1. cur \in Snapshots /\ file' = cur
          BY <3>1 DEF RewriteSwap, RewriteReopenFails, Reset, LockOK, TypeOK
        <4> QED BY <4>1, SnapshotAssumption
      <3>2. CASE Truncate
        BY <3>2, EmptySeq, CommandsEmpty DEF Truncate, Reset
      <3> QED BY <1>2, <3>1, <3>2
    <2>3. Stream' = file'
      BY <2>1, <2>2, ConcatEmptySeq DEF Stream
    <2>4. Abstract!DReset(Commands(file'))
      BY <2>1, <2>2, <2>3 DEF Abstract!DReset
    <2> QED BY <2>1, <2>2, <2>4 DEF Abstract!DNext
  <1> QED BY <1>1, <1>2 DEF Rewrite

\* A process that ends leaves what the kernel has, a machine that ends what was synced
\* and perhaps more: a prefix of the log with every durable command.
LEMMA HaltStep ==
    ASSUME IInv, Halt, replayed' = replayed,
           file' \in Seq(Unit), disk' \in Seq(Unit),
           IsPrefix(disk', file'), IsPrefix(disk, disk'), IsPrefix(file', file)
    PROVE  Abstract!DNext
  <1>1. file' = Stream'
    BY ConcatEmptySeq DEF Halt, Stream
  <1>2. Stream \in Seq(Unit) /\ disk \in Seq(Unit) /\ IsPrefix(Stream', Stream)
    BY <1>1, StreamType, PrefixTransitive DEF IInv
  <1> DEFINE all == Commands(Stream)
             left == Commands(Stream')
             old == Commands(disk)
             new == Commands(disk')
  <1>3. /\ all \in Seq(Command) /\ left \in Seq(Command)
        /\ old \in Seq(Command) /\ new \in Seq(Command)
        /\ IsPrefix(left, all) /\ IsPrefix(new, left) /\ IsPrefix(old, new)
    BY <1>1, <1>2, CommandsPrefix
  <1> HIDE DEF all, left, old, new
  <1>4. /\ Len(all) \in Nat /\ Len(left) \in Nat /\ Len(old) \in Nat /\ Len(new) \in Nat
        /\ Len(left) <= Len(all) /\ Len(new) <= Len(left) /\ Len(old) <= Len(new)
    BY <1>3, PrefixElements, LenProperties
  <1>5. left = SubSeq(all, 1, Len(left))
    BY <1>3, <1>4 DEF IsPrefix
  <1>6. Len(left) \in 0 .. Len(all) /\ Len(left) \in Len(old) .. Len(all)
        /\ Len(new) \in Len(old) .. Len(left)
    BY <1>4
  <1>7. Abstract!DCrash(Len(left))
    BY <1>5, <1>6 DEF Abstract!DCrash, all, left, old, new
  <1> QED BY <1>6, <1>7 DEF Abstract!DNext, all

\* Starting, replaying, closing and dying.
LEMMA LifeStep ==
    ASSUME IInv, Tick \/ Open \/ ReplayStart \/ Replay \/ CloseStop \/ CloseSync
                   \/ Exit \/ Crash \/ MachineCrash
    PROVE  Unseen \/ Abstract!DNext
  <1> USE DEF IInv
  <1>1. CASE Tick \/ Open \/ ReplayStart \/ CloseStop \/ CloseSync
    <2>1. file' = file /\ buf' = buf /\ disk' = disk /\ replayed' = replayed
      BY <1>1 DEF Tick, Open, ReplayStart, CloseStop, CloseSync, data, hist
    <2> QED BY <2>1 DEF Unseen, Stream
  <1>2. CASE Replay
    <2>1. /\ buf = <<>> /\ file' = file /\ disk' = disk /\ replayed' = file /\ buf' = <<>>
      BY <1>2 DEF Replay, LockOK, Halt
    <2>2. Stream = file /\ Stream' = file /\ file \in Seq(Unit)
      BY <2>1, StreamType, ConcatEmptySeq DEF Stream
    <2>3. replayed' # Never
      BY <2>1, <2>2, NeverAssumption
    <2>4. Abstract!DReplay
      BY <2>1, <2>2, <2>3 DEF Abstract!DReplay
    <2> QED BY <2>4 DEF Abstract!DNext
  <1>3. CASE Exit \/ Crash
    <2>1. Halt /\ file' = file /\ disk' = disk /\ replayed' = replayed
      BY <1>3 DEF Exit, Crash, hist
    <2>2. /\ file' \in Seq(Unit) /\ disk' \in Seq(Unit)
          /\ IsPrefix(disk', file') /\ IsPrefix(disk, disk') /\ IsPrefix(file', file)
      BY <2>1, StreamType, PrefixReflexive DEF StreamIntact
    <2> QED BY <2>1, <2>2, HaltStep
  <1>4. CASE MachineCrash
    <2>1. Halt /\ disk' = file' /\ replayed' = replayed
      BY <1>4 DEF MachineCrash, hist
    <2>2. PICK n \in Len(disk) .. Len(file) : file' = SubSeq(file, 1, n)
      BY <1>4 DEF MachineCrash
    <2>3. file \in Seq(Unit) /\ disk \in Seq(Unit) /\ IsPrefix(disk, file)
          /\ n \in 0 .. Len(file) /\ Len(disk) <= n
      BY <2>2, StreamType, LenProperties DEF StreamIntact
    <2>4. file' \in Seq(Unit) /\ IsPrefix(file', file) /\ IsPrefix(disk, disk')
      BY <2>1, <2>2, <2>3, PrefixCut
    <2>5. IsPrefix(disk', file')
      BY <2>1, <2>4, PrefixReflexive
    <2> QED BY <2>1, <2>4, <2>5, HaltStep
  <1> QED BY <1>1, <1>2, <1>3, <1>4

\* Buffering, spilling, flushing and syncing, failures, truncations and rewrites, crashes
\* and restarts: the commands in the file and the buffer are an append-only log that
\* loses at most what is not durable, and Replay delivers it.
THEOREM Implements == Spec => ImplementsDurableLog
  <1>1. Init => Abstract!DInit
    <2> SUFFICES ASSUME Init PROVE Abstract!DInit
      OBVIOUS
    <2>1. Stream = <<>> /\ disk = <<>> /\ replayed = Never
      BY DEF Init, Stream
    <2> QED BY <2>1, CommandsEmpty, EmptySeq DEF Abstract!DInit
  <1>2. IInv /\ [Next]_vars => Abstract!DNext \/ UNCHANGED Abstract!dvars
    <2> SUFFICES ASSUME IInv, [Next]_vars PROVE Abstract!DNext \/ UNCHANGED Abstract!dvars
      OBVIOUS
    <2>1. CASE Next
      <3>1. Unseen \/ Abstract!DNext
        BY <2>1, WriteStep, SyncStep, ReplaceStep, LifeStep DEF Next
      <3> QED BY <3>1, UnseenStutters
    <2>2. CASE UNCHANGED vars
      <3>1. Unseen
        BY <2>2 DEF vars, data, hist, Unseen, Stream
      <3> QED BY <3>1, UnseenStutters
    <2> QED BY <2>1, <2>2
  <1> QED BY <1>1, <1>2, Invariance, PTL DEF Spec, ImplementsDurableLog, Abstract!DSpec
=============================================================================
