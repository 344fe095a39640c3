----------------------------- MODULE DataLemmas -----------------------------
(***************************************************************************)
(* What the proofs about the components rest on: induction over the        *)
(* natural numbers, in a form in which sets stand for predicates, and      *)
(* facts about prefixes and cuts of sequences.                             *)
(***************************************************************************)
EXTENDS Integers, SequencesExt, SequenceTheorems, FiniteSetTheorems, TLAPS

-----------------------------------------------------------------------------
(* Induction.                                                              *)

\* A set of natural numbers has a smallest element.
LEMMA SmallestOf ==
    ASSUME NEW T \in SUBSET Nat, T # {}
    PROVE  \E m \in T : \A k \in T : m <= k
  <1> DEFINE R == OpToRel(<, Nat)
  <1>1. IsWellFoundedOn(R, Nat)
    BY NatLessThanWellFounded
  <1>2. PICK m \in T : \A k \in T : <<k, m>> \notin R
    <2> HIDE DEF R
    <2> QED BY <1>1, WFMin
  <1>3. ASSUME NEW k \in T
        PROVE  m <= k
    <2>1. <<k, m>> \notin R
      BY <1>2
    <2> QED BY <2>1 DEF OpToRel
  <1> QED BY <1>3

\* A set with 0 that holds n + 1 with n holds every natural number.
LEMMA NatSetInduction ==
    ASSUME NEW S, 0 \in S, \A n \in Nat : n \in S => n + 1 \in S
    PROVE  Nat \subseteq S
  <1> DEFINE T == Nat \ S
  <1> SUFFICES ASSUME T # {} PROVE FALSE
    OBVIOUS
  <1>1. PICK m \in T : \A k \in T : m <= k
    BY SmallestOf
  <1>2. m # 0 /\ m - 1 \in Nat /\ m - 1 \notin T
    BY <1>1
  <1> QED BY <1>1, <1>2

\* The same up to a bound.
LEMMA UpTo ==
    ASSUME NEW n \in Nat, NEW S, 0 \in S, \A i \in 0 .. n - 1 : i \in S => i + 1 \in S
    PROVE  \A i \in 0 .. n : i \in S
  <1> DEFINE T == {i \in Nat : i <= n => i \in S}
  <1>1. 0 \in T
    OBVIOUS
  <1>2. ASSUME NEW i \in Nat, i \in T
        PROVE  i + 1 \in T
    BY <1>2
  <1>3. Nat \subseteq T
    <2> HIDE DEF T
    <2> QED BY <1>1, <1>2, NatSetInduction
  <1> QED BY <1>3

\* The same downwards.
LEMMA DownFrom ==
    ASSUME NEW n \in Nat, NEW S, n \in S, \A i \in 0 .. n - 1 : i + 1 \in S => i \in S
    PROVE  \A i \in 0 .. n : i \in S
  <1> DEFINE T == {i \in Nat : i <= n => n - i \in S}
  <1>1. 0 \in T
    OBVIOUS
  <1>2. ASSUME NEW i \in Nat, i \in T
        PROVE  i + 1 \in T
    <2>1. CASE i + 1 <= n
      <3>1. n - (i + 1) \in 0 .. n - 1 /\ (n - (i + 1)) + 1 = n - i
        BY <2>1
      <3> QED BY <1>2, <2>1, <3>1
    <2> QED BY <2>1
  <1>3. Nat \subseteq T
    <2> HIDE DEF T
    <2> QED BY <1>1, <1>2, NatSetInduction
  <1>4. ASSUME NEW i \in 0 .. n
        PROVE  i \in S
    <2>1. n - i \in T /\ n - (n - i) = i
      BY <1>3
    <2> QED BY <2>1
  <1> QED BY <1>4

\* A recursion whose k-th value is computed from the one before and k: if every
\* step from T[k - 1] leads into T[k], there is such a function, and it stays in T.
Carries(n, g, T) == \A k \in 1 .. n : \A x \in T[k - 1] : g[<<x, k>>] \in T[k]
Iterates(f, n, b, g, T) ==
    /\ f = [k \in 0 .. n |-> f[k]] /\ f[0] = b
    /\ \A k \in 1 .. n : f[k] = g[<<f[k - 1], k>>]
    /\ \A k \in 0 .. n : f[k] \in T[k]
LEMMA Iteration ==
    ASSUME NEW n \in Nat, NEW T, NEW g, NEW b, b \in T[0], Carries(n, g, T)
    PROVE  \E f : Iterates(f, n, b, g, T)
  <1> DEFINE Upto(m, f) == /\ f = [k \in 0 .. m |-> f[k]] /\ f[0] = b
                           /\ \A k \in 1 .. m : f[k] = g[<<f[k - 1], k>>]
                           /\ \A k \in 0 .. m : f[k] \in T[k]
             P == {m \in 0 .. n : \E f : Upto(m, f)}
  <1>1. 0 \in P
    <2> DEFINE h == [k \in 0 .. 0 |-> b]
    <2>1. Upto(0, h)
      OBVIOUS
    <2> HIDE DEF h, Upto
    <2> QED BY <2>1
  <1>2. ASSUME NEW m \in 0 .. n - 1, m \in P
        PROVE  m + 1 \in P
    <2>1. PICK f : Upto(m, f)
      BY <1>2
    <2> DEFINE h == [k \in 0 .. m + 1 |-> IF k <= m THEN f[k] ELSE g[<<f[m], m + 1>>]]
    <2>2. h = [k \in 0 .. m + 1 |-> h[k]] /\ h[0] = b
      BY <2>1
    <2>3. ASSUME NEW k \in 1 .. m + 1
          PROVE  h[k] = g[<<h[k - 1], k>>]
      <3>1. CASE k <= m
        <4>1. k \in 1 .. m /\ k - 1 \in 0 .. m
          BY <3>1
        <4>2. h[k] = f[k] /\ h[k - 1] = f[k - 1]
          BY <4>1
        <4> QED BY <2>1, <4>1, <4>2
      <3>2. CASE k = m + 1
        BY <2>1, <3>2
      <3> QED BY <3>1, <3>2
    <2>4. ASSUME NEW k \in 0 .. m + 1
          PROVE  h[k] \in T[k]
      <3>1. CASE k <= m
        BY <2>1, <3>1
      <3>2. CASE k = m + 1
        <4>1. m + 1 \in 1 .. n /\ f[m] \in T[m] /\ (m + 1) - 1 = m
          BY <2>1
        <4>2. g[<<f[m], m + 1>>] \in T[m + 1]
          BY <4>1 DEF Carries
        <4> QED BY <3>2, <4>2
      <3> QED BY <3>1, <3>2
    <2>5. Upto(m + 1, h)
      <3> HIDE DEF h
      <3> QED BY <2>2, <2>3, <2>4
    <2> HIDE DEF h, Upto
    <2> QED BY <2>5
  <1>3. n \in P
    <2> HIDE DEF P
    <2> QED BY <1>1, <1>2, UpTo
  <1> QED BY <1>3 DEF Iterates

\* What one step of such a recursion preserves, every value has.
LEMMA Stays ==
    ASSUME NEW n \in Nat, NEW T, NEW h, h[0] \in T[0],
           \A k \in 1 .. n : h[k - 1] \in T[k - 1] => h[k] \in T[k]
    PROVE  \A k \in 0 .. n : h[k] \in T[k]
  <1> DEFINE P == {k \in 0 .. n : h[k] \in T[k]}
  <1>1. 0 \in P
    OBVIOUS
  <1>2. ASSUME NEW i \in 0 .. n - 1, i \in P
        PROVE  i + 1 \in P
    <2>1. i + 1 \in 1 .. n /\ (i + 1) - 1 = i
      OBVIOUS
    <2> QED BY <1>2, <2>1
  <1>3. \A k \in 0 .. n : k \in P
    <2> HIDE DEF P
    <2> QED BY <1>1, <1>2, UpTo
  <1> QED BY <1>3

-----------------------------------------------------------------------------
(* Prefixes and cuts.                                                      *)

\* A prefix, element by element.
LEMMA PrefixElements ==
    ASSUME NEW S, NEW s \in Seq(S), NEW t \in Seq(S)
    PROVE  IsPrefix(s, t) <=> /\ Len(s) <= Len(t)
                              /\ \A i \in 1 .. Len(s) : s[i] = t[i]
  <1>1. ASSUME IsPrefix(s, t), NEW i \in 1 .. Len(s)
        PROVE  s[i] = t[i]
    <2>1. SubSeq(s, 1, Len(s))[i] = s[i] /\ SubSeq(t, 1, Len(s))[i] = t[i]
      BY <1>1 DEF IsPrefix
    <2> QED BY <1>1, <2>1 DEF IsPrefix
  <1>2. ASSUME Len(s) <= Len(t), \A i \in 1 .. Len(s) : s[i] = t[i]
        PROVE  IsPrefix(s, t)
    <2>1. /\ SubSeq(s, 1, Len(s)) \in Seq(S) /\ SubSeq(t, 1, Len(s)) \in Seq(S)
          /\ Len(SubSeq(s, 1, Len(s))) = Len(s)
          /\ Len(SubSeq(t, 1, Len(s))) = Len(s)
      BY <1>2
    <2>2. \A i \in 1 .. Len(s) :
             SubSeq(s, 1, Len(s))[i] = s[i] /\ SubSeq(t, 1, Len(s))[i] = t[i]
      BY <1>2
    <2>3. SubSeq(s, 1, Len(s)) = SubSeq(t, 1, Len(s))
      BY <1>2, <2>1, <2>2, SeqEqual
    <2> QED BY <1>2, <2>3 DEF IsPrefix
  <1> QED BY <1>1, <1>2 DEF IsPrefix

\* Cutting a sequence and joining the parts gives it back.
LEMMA CutJoin ==
    ASSUME NEW S, NEW f \in Seq(S), NEW s \in Seq(S), NEW k \in 0 .. Len(s)
    PROVE  /\ f \o SubSeq(s, 1, k) \in Seq(S)
           /\ SubSeq(s, k + 1, Len(s)) \in Seq(S)
           /\ (f \o SubSeq(s, 1, k)) \o SubSeq(s, k + 1, Len(s)) = f \o s
  <1> DEFINE a == SubSeq(s, 1, k)
             b == SubSeq(s, k + 1, Len(s))
  <1>1. /\ a \in Seq(S) /\ Len(a) = k
        /\ \A i \in 1 .. k : a[i] = s[i]
    OBVIOUS
  <1>2. /\ b \in Seq(S) /\ Len(b) = Len(s) - k
        /\ \A i \in 1 .. Len(s) - k : b[i] = s[k + i]
    OBVIOUS
  <1> HIDE DEF a, b
  <1>3. /\ f \o a \in Seq(S) /\ Len(f \o a) = Len(f) + k
        /\ \A i \in 1 .. Len(f) + k :
              (f \o a)[i] = IF i <= Len(f) THEN f[i] ELSE s[i - Len(f)]
    BY <1>1
  <1> DEFINE g == f \o a
  <1>a. /\ g \in Seq(S) /\ Len(g) = Len(f) + k
        /\ \A i \in 1 .. Len(f) + k :
              g[i] = IF i <= Len(f) THEN f[i] ELSE s[i - Len(f)]
    BY <1>3
  <1> HIDE DEF g
  <1>4. /\ g \o b \in Seq(S) /\ Len(g \o b) = Len(f) + Len(s)
        /\ \A i \in 1 .. Len(f) + Len(s) :
              (g \o b)[i] = IF i <= Len(f) THEN f[i] ELSE s[i - Len(f)]
    <2>1. /\ g \o b \in Seq(S) /\ Len(g \o b) = Len(g) + Len(b)
          /\ \A i \in 1 .. Len(g) + Len(b) :
                (g \o b)[i] = IF i <= Len(g) THEN g[i] ELSE b[i - Len(g)]
      BY <1>2, <1>a, ConcatProperties
    <2>2. Len(g) + Len(b) = Len(f) + Len(s) /\ Len(f) \in Nat /\ k \in Nat
      BY <1>2, <1>a
    <2>3. ASSUME NEW i \in 1 .. Len(f) + Len(s)
          PROVE  (g \o b)[i] = IF i <= Len(f) THEN f[i] ELSE s[i - Len(f)]
      <3>1. CASE i <= Len(g)
        BY <1>a, <2>1, <2>2, <3>1
      <3>2. CASE ~(i <= Len(g))
        <4>1. (g \o b)[i] = b[i - Len(g)]
          BY <2>1, <2>2, <3>2
        <4>2. i - Len(g) \in 1 .. Len(s) - k /\ k + (i - Len(g)) = i - Len(f)
          BY <1>a, <2>2, <3>2
        <4>3. b[i - Len(g)] = s[i - Len(f)]
          BY <1>2, <4>2
        <4>4. ~(i <= Len(f))
          BY <1>a, <2>2, <3>2
        <4> QED BY <4>1, <4>3, <4>4
      <3> QED BY <3>1, <3>2
    <2> QED BY <2>1, <2>2, <2>3
  <1>5. /\ f \o s \in Seq(S) /\ Len(f \o s) = Len(f) + Len(s)
        /\ \A i \in 1 .. Len(f) + Len(s) :
              (f \o s)[i] = IF i <= Len(f) THEN f[i] ELSE s[i - Len(f)]
    OBVIOUS
  <1>6. g \o b = f \o s
    BY <1>4, <1>5, SeqEqual
  <1> QED BY <1>2, <1>3, <1>6 DEF g, a, b

\* Every sequence is a prefix of itself.
LEMMA PrefixReflexive ==
    ASSUME NEW S, NEW s \in Seq(S)
    PROVE  IsPrefix(s, s)
  BY PrefixElements

\* A prefix of a prefix is a prefix.
LEMMA PrefixTransitive ==
    ASSUME NEW S, NEW s \in Seq(S), NEW t \in Seq(S), NEW u \in Seq(S),
           IsPrefix(s, t), IsPrefix(t, u)
    PROVE  IsPrefix(s, u)
  <1>1. Len(s) <= Len(t) /\ Len(t) <= Len(u)
    BY PrefixElements
  <1>2. ASSUME NEW i \in 1 .. Len(s)
        PROVE  s[i] = u[i]
    <2>1. i \in 1 .. Len(t)
      BY <1>1
    <2>2. s[i] = t[i] /\ t[i] = u[i]
      BY <2>1, PrefixElements
    <2> QED BY <2>2
  <1>3. Len(s) <= Len(u)
    BY <1>1, LenProperties
  <1> QED BY <1>2, <1>3, PrefixElements

\* Of two prefixes of one sequence the shorter is a prefix of the longer.
LEMMA PrefixCompare ==
    ASSUME NEW S, NEW s \in Seq(S), NEW t \in Seq(S), NEW u \in Seq(S),
           IsPrefix(s, u), IsPrefix(t, u), Len(s) <= Len(t)
    PROVE  IsPrefix(s, t)
  <1>1. \A i \in 1 .. Len(s) : s[i] = u[i]
    BY PrefixElements
  <1>2. \A i \in 1 .. Len(t) : t[i] = u[i]
    BY PrefixElements
  <1>3. \A i \in 1 .. Len(s) : i \in 1 .. Len(t)
    BY LenProperties
  <1> QED BY <1>1, <1>2, <1>3, PrefixElements

\* What is appended leaves a prefix behind.
LEMMA PrefixConcat ==
    ASSUME NEW S, NEW s \in Seq(S), NEW t \in Seq(S)
    PROVE  s \o t \in Seq(S) /\ IsPrefix(s, s \o t)
  <1>1. s \o t \in Seq(S)
    OBVIOUS
  <1>2. Len(s) <= Len(s \o t) /\ \A i \in 1 .. Len(s) : s[i] = (s \o t)[i]
    OBVIOUS
  <1> QED BY <1>1, <1>2, PrefixElements

\* The first n elements are a prefix, and a longer one for a larger n.
LEMMA PrefixCut ==
    ASSUME NEW S, NEW s \in Seq(S), NEW n \in 0 .. Len(s)
    PROVE  /\ SubSeq(s, 1, n) \in Seq(S)
           /\ Len(SubSeq(s, 1, n)) = n
           /\ IsPrefix(SubSeq(s, 1, n), s)
           /\ \A p \in Seq(S) :
                 IsPrefix(p, s) /\ Len(p) <= n => IsPrefix(p, SubSeq(s, 1, n))
  <1> DEFINE c == SubSeq(s, 1, n)
  <1>1. c \in Seq(S) /\ Len(c) = n /\ \A i \in 1 .. n : c[i] = s[i]
    OBVIOUS
  <1> HIDE DEF c
  <1>2. IsPrefix(c, s)
    BY <1>1, PrefixElements
  <1>3. ASSUME NEW p \in Seq(S), IsPrefix(p, s), Len(p) <= n
        PROVE  IsPrefix(p, c)
    <2>1. \A i \in 1 .. Len(p) : p[i] = s[i]
      BY <1>3, PrefixElements
    <2>2. \A i \in 1 .. Len(p) : i \in 1 .. n
      BY <1>3, LenProperties
    <2> QED BY <1>1, <1>3, <2>1, <2>2, PrefixElements
  <1> QED BY <1>1, <1>2, <1>3 DEF c

\* Appending the first part of s is a prefix of appending s.
LEMMA PrefixConcatCut ==
    ASSUME NEW S, NEW f \in Seq(S), NEW s \in Seq(S), NEW k \in 0 .. Len(s)
    PROVE  /\ f \o SubSeq(s, 1, k) \in Seq(S)
           /\ IsPrefix(f \o SubSeq(s, 1, k), f \o s)
  <1> DEFINE g == f \o SubSeq(s, 1, k)
             b == SubSeq(s, k + 1, Len(s))
  <1>1. g \in Seq(S) /\ b \in Seq(S) /\ g \o b = f \o s
    BY CutJoin
  <1> HIDE DEF g, b
  <1>2. IsPrefix(g, g \o b)
    BY <1>1, PrefixConcat
  <1> QED BY <1>1, <1>2 DEF g

\* A cut in the middle: what was before the cut and a part of what follows.
LEMMA CutMiddle ==
    ASSUME NEW S, NEW f \in Seq(S), NEW s \in Seq(S),
           NEW m \in 0 .. Len(s), NEW k \in 0 .. m
    PROVE  (f \o SubSeq(s, 1, k)) \o SubSeq(s, k + 1, m) = f \o SubSeq(s, 1, m)
  <1> DEFINE c == SubSeq(s, 1, m)
  <1>1. c \in Seq(S) /\ Len(c) = m /\ \A i \in 1 .. m : c[i] = s[i]
    OBVIOUS
  <1>2. SubSeq(s, k + 1, m) \in Seq(S) /\ Len(SubSeq(s, k + 1, m)) = m - k
    OBVIOUS
  <1>3. SubSeq(s, 1, k) = SubSeq(c, 1, k)
    <2>1. /\ SubSeq(s, 1, k) \in Seq(S) /\ Len(SubSeq(s, 1, k)) = k
          /\ \A i \in 1 .. k : SubSeq(s, 1, k)[i] = s[i]
      OBVIOUS
    <2> HIDE DEF c
    <2>2. /\ SubSeq(c, 1, k) \in Seq(S) /\ Len(SubSeq(c, 1, k)) = k
          /\ \A i \in 1 .. k : SubSeq(c, 1, k)[i] = s[i]
      BY <1>1
    <2> QED BY <2>1, <2>2, SeqEqual
  <1>4. SubSeq(s, k + 1, m) = SubSeq(c, k + 1, m)
    <2>1. \A i \in 1 .. m - k : SubSeq(s, k + 1, m)[i] = s[k + i]
      OBVIOUS
    <2> HIDE DEF c
    <2>2. /\ SubSeq(c, k + 1, m) \in Seq(S) /\ Len(SubSeq(c, k + 1, m)) = m - k
          /\ \A i \in 1 .. m - k : SubSeq(c, k + 1, m)[i] = s[k + i]
      BY <1>1
    <2> QED BY <1>2, <2>1, <2>2, SeqEqual
  <1> HIDE DEF c
  <1>5. (f \o SubSeq(c, 1, k)) \o SubSeq(c, k + 1, m) = f \o c
    <2>1. m = Len(c) /\ k \in 0 .. Len(c)
      BY <1>1
    <2>2. (f \o SubSeq(c, 1, k)) \o SubSeq(c, k + 1, Len(c)) = f \o c
      BY <1>1, <2>1, CutJoin, ZenonT(30)
    <2> QED BY <2>1, <2>2
  <1> QED BY <1>3, <1>4, <1>5 DEF c
=============================================================================
