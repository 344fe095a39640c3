------------------------------ MODULE HNSWProofs ------------------------------
(***************************************************************************)
(* Theorems about the HNSW index, for all vectors and distances, all       *)
(* numbers of links, layers and nodes and all widths of a search.          *)
(***************************************************************************)
EXTENDS HNSW, DataLemmas

-----------------------------------------------------------------------------
(* Sorted lists of candidates.                                             *)

Candidate == [id : Id, distance : Int]
Ascending(list) ==
    \A j, k \in DOMAIN list : j < k => list[j].distance <= list[k].distance
SortedLists == {list \in Seq(Candidate) : Ascending(list)}
IdSet(list) == {list[k].id : k \in DOMAIN list}

\* There is a place for every candidate in a sorted list.
LEMMA PlaceFound ==
    ASSUME NEW list \in SortedLists, NEW d \in Int
    PROVE  /\ Place(list, d) \in 1 .. Len(list) + 1
           /\ \A k \in 1 .. Place(list, d) - 1 : list[k].distance <= d
           /\ \A k \in Place(list, d) .. Len(list) : d < list[k].distance
  <1> DEFINE T == {p \in 1 .. Len(list) + 1 : \A k \in p .. Len(list) : d < list[k].distance}
  <1>0. list \in Seq(Candidate) /\ Len(list) \in Nat /\ DOMAIN list = 1 .. Len(list)
    BY DEF SortedLists
  <1>1. Len(list) + 1 \in T
    BY <1>0
  <1>2. T \in SUBSET Nat /\ T # {}
    BY <1>1, <1>0
  <1>3. PICK p \in T : \A k \in T : p <= k
    <2> HIDE DEF T
    <2> QED BY <1>2, SmallestOf
  <1>4. ASSUME NEW k \in 1 .. p - 1
        PROVE  list[k].distance <= d
    <2>1. p - 1 \notin T /\ p - 1 \in 1 .. Len(list)
      <3>1. p \in Nat /\ p - 1 \in 1 .. Len(list)
        BY <1>0, <1>3
      <3>2. p - 1 \notin T
        <4> HIDE DEF T
        <4> QED BY <1>3, <3>1
      <3> QED BY <3>1, <3>2
    <2>2. PICK j \in p - 1 .. Len(list) : ~(d < list[j].distance)
      BY <2>1, <1>0
    <2>3. j = p - 1
      BY <2>2, <1>3, <1>0
    <2>4. list[p - 1].distance \in Int /\ list[k].distance \in Int
      <3>1. k \in 1 .. Len(list)
        BY <1>0, <2>1
      <3>2. list[p - 1] \in Candidate /\ list[k] \in Candidate
        BY <1>0, <2>1, <3>1
      <3> QED BY <3>2 DEF Candidate
    <2>5. list[p - 1].distance <= d
      BY <2>2, <2>3, <2>4
    <2>6. k = p - 1 \/ list[k].distance <= list[p - 1].distance
      BY <1>0, <2>1 DEF SortedLists, Ascending
    <2> QED BY <2>4, <2>5, <2>6
  <1>5. \E x \in 1 .. Len(list) + 1 :
           /\ \A k \in 1 .. x - 1 : list[k].distance <= d
           /\ \A k \in x .. Len(list) : d < list[k].distance
    BY <1>3, <1>4
  <1> QED BY <1>5 DEF Place

\* InsertAt, element by element.
LEMMA InsertAtElements ==
    ASSUME NEW S, NEW s \in Seq(S), NEW e \in S, NEW p \in 1 .. Len(s) + 1
    PROVE  /\ InsertAt(s, p, e) \in Seq(S)
           /\ Len(InsertAt(s, p, e)) = Len(s) + 1
           /\ \A k \in 1 .. Len(s) + 1 :
                 InsertAt(s, p, e)[k] = IF k < p THEN s[k] ELSE IF k = p THEN e ELSE s[k - 1]
  <1> DEFINE a == SubSeq(s, 1, p - 1)
             b == SubSeq(s, p, Len(s))
             c == a \o <<e>>
  <1>0. Len(s) \in Nat /\ p \in Nat
    OBVIOUS
  <1>1. /\ a \in Seq(S) /\ Len(a) = p - 1
        /\ \A k \in 1 .. p - 1 : a[k] = s[k]
    OBVIOUS
  <1>2. /\ b \in Seq(S) /\ Len(b) = Len(s) + 1 - p
        /\ \A k \in 1 .. Len(s) + 1 - p : b[k] = s[p - 1 + k]
    OBVIOUS
  <1>3. /\ c \in Seq(S) /\ Len(c) = p
        /\ \A k \in 1 .. p : c[k] = IF k < p THEN s[k] ELSE e
    <2> HIDE DEF a
    <2> QED BY <1>1
  <1> HIDE DEF a, b, c
  <1>c. /\ c \o b \in Seq(S) /\ Len(c \o b) = Len(c) + Len(b)
        /\ \A k \in 1 .. Len(c) + Len(b) :
              (c \o b)[k] = IF k <= Len(c) THEN c[k] ELSE b[k - Len(c)]
    BY <1>2, <1>3, ConcatProperties
  <1>4. c \o b \in Seq(S) /\ Len(c \o b) = Len(s) + 1
    BY <1>0, <1>2, <1>3, <1>c
  <1>5. ASSUME NEW k \in 1 .. Len(s) + 1
        PROVE  (c \o b)[k] = IF k < p THEN s[k] ELSE IF k = p THEN e ELSE s[k - 1]
    <2>1. CASE k <= p
      BY <1>0, <1>2, <1>3, <1>c, <2>1
    <2>2. CASE k > p
      <3>1. k - p \in 1 .. Len(s) + 1 - p /\ p - 1 + (k - p) = k - 1
        BY <2>2
      <3>2. (c \o b)[k] = b[k - p]
        BY <1>0, <1>2, <1>3, <1>c, <2>2
      <3> QED BY <1>0, <1>2, <2>2, <3>1, <3>2
    <2>3. k <= p \/ k > p
      BY <1>0
    <2> QED BY <2>1, <2>2, <2>3
  <1> QED BY <1>4, <1>5 DEF InsertAt, a, b, c

\* RemoveAt, element by element.
LEMMA RemoveAtElements ==
    ASSUME NEW S, NEW s \in Seq(S), NEW p \in 1 .. Len(s)
    PROVE  /\ RemoveAt(s, p) \in Seq(S)
           /\ Len(RemoveAt(s, p)) = Len(s) - 1
           /\ \A k \in 1 .. Len(s) - 1 : RemoveAt(s, p)[k] = IF k < p THEN s[k] ELSE s[k + 1]
  <1> DEFINE a == SubSeq(s, 1, p - 1)
             b == SubSeq(s, p + 1, Len(s))
  <1>0. Len(s) \in Nat /\ p \in Nat
    OBVIOUS
  <1>1. /\ a \in Seq(S) /\ Len(a) = p - 1
        /\ \A k \in 1 .. p - 1 : a[k] = s[k]
    OBVIOUS
  <1>2. /\ b \in Seq(S) /\ Len(b) = Len(s) - p
        /\ \A k \in 1 .. Len(s) - p : b[k] = s[p + k]
    OBVIOUS
  <1> HIDE DEF a, b
  <1>c. /\ a \o b \in Seq(S) /\ Len(a \o b) = Len(a) + Len(b)
        /\ \A k \in 1 .. Len(a) + Len(b) :
              (a \o b)[k] = IF k <= Len(a) THEN a[k] ELSE b[k - Len(a)]
    BY <1>1, <1>2, ConcatProperties
  <1>4. a \o b \in Seq(S) /\ Len(a \o b) = Len(s) - 1
    BY <1>0, <1>1, <1>2, <1>c
  <1>5. ASSUME NEW k \in 1 .. Len(s) - 1
        PROVE  (a \o b)[k] = IF k < p THEN s[k] ELSE s[k + 1]
    <2>1. CASE k < p
      BY <1>0, <1>1, <1>2, <1>c, <2>1
    <2>2. CASE k >= p
      <3>1. k - (p - 1) \in 1 .. Len(s) - p /\ p + (k - (p - 1)) = k + 1
        BY <2>2
      <3>2. (a \o b)[k] = b[k - (p - 1)]
        BY <1>0, <1>1, <1>2, <1>c, <2>2
      <3> QED BY <1>0, <1>2, <2>2, <3>1, <3>2
    <2>3. k < p \/ k >= p
      BY <1>0
    <2> QED BY <2>1, <2>2, <2>3
  <1> QED BY <1>4, <1>5 DEF RemoveAt, a, b


Distinct(list) == \A j, k \in DOMAIN list : list[j].id = list[k].id => j = k

\* A sorted list of candidates, as its elements.
LEMMA ListElements ==
    ASSUME NEW list \in SortedLists
    PROVE  /\ list \in Seq(Candidate) /\ Len(list) \in Nat /\ DOMAIN list = 1 .. Len(list)
           /\ \A k \in DOMAIN list : list[k] \in Candidate /\ list[k].id \in Id
                                     /\ list[k].distance \in Int
           /\ \A j, k \in DOMAIN list : j <= k => list[j].distance <= list[k].distance
           /\ IdSet(list) \in SUBSET Id
  <1>1. list \in Seq(Candidate) /\ Len(list) \in Nat /\ DOMAIN list = 1 .. Len(list)
    BY DEF SortedLists
  <1>2. \A k \in DOMAIN list : list[k] \in Candidate
    BY <1>1
  <1>3. \A k \in DOMAIN list : list[k].id \in Id /\ list[k].distance \in Int
    BY <1>2 DEF Candidate
  <1>4. ASSUME NEW j \in DOMAIN list, NEW k \in DOMAIN list, j <= k
        PROVE  list[j].distance <= list[k].distance
    <2>1. CASE j = k
      BY <1>3, <2>1
    <2>2. CASE j # k
      <3>1. j < k
        BY <1>1, <1>4, <2>2
      <3> QED BY <3>1 DEF SortedLists, Ascending
    <2> QED BY <2>1, <2>2
  <1> QED BY <1>1, <1>2, <1>3, <1>4 DEF IdSet

\* An insertion keeps a list sorted and adds the one candidate.
LEMMA InsertSortedList ==
    ASSUME NEW list \in SortedLists, NEW item \in Candidate
    PROVE  LET new == InsertSorted(list, item) IN
           /\ new \in SortedLists
           /\ Len(new) = Len(list) + 1
           /\ IdSet(new) = IdSet(list) \cup {item.id}
           /\ \A k \in DOMAIN new : new[k] = item \/ \E j \in DOMAIN list : new[k] = list[j]
           /\ Distinct(list) /\ item.id \notin IdSet(list) => Distinct(new)
  <1> DEFINE p == Place(list, item.distance)
             new == InsertSorted(list, item)
  <1>1. /\ list \in Seq(Candidate) /\ Len(list) \in Nat /\ DOMAIN list = 1 .. Len(list)
        /\ \A k \in DOMAIN list : list[k].distance \in Int
        /\ \A j, k \in DOMAIN list : j <= k => list[j].distance <= list[k].distance
    BY ListElements
  <1>2. item.distance \in Int
    BY DEF Candidate
  <1>3. /\ p \in 1 .. Len(list) + 1
        /\ \A k \in 1 .. p - 1 : list[k].distance <= item.distance
        /\ \A k \in p .. Len(list) : item.distance < list[k].distance
    BY <1>2, PlaceFound
  <1> HIDE DEF p
  <1>n. new = InsertAt(list, p, item)
    BY DEF InsertSorted, p
  <1> HIDE DEF new
  <1>4. /\ new \in Seq(Candidate) /\ Len(new) = Len(list) + 1
        /\ \A k \in 1 .. Len(list) + 1 :
              new[k] = IF k < p THEN list[k] ELSE IF k = p THEN item ELSE list[k - 1]
    <2>1. /\ InsertAt(list, p, item) \in Seq(Candidate)
          /\ Len(InsertAt(list, p, item)) = Len(list) + 1
          /\ \A k \in 1 .. Len(list) + 1 :
                InsertAt(list, p, item)[k] =
                    IF k < p THEN list[k] ELSE IF k = p THEN item ELSE list[k - 1]
      <3>1. list \in Seq(Candidate) /\ p \in 1 .. Len(list) + 1
        BY <1>1, <1>3
      <3> QED BY <3>1, InsertAtElements
    <2> QED BY <1>n, <2>1
  <1>d. DOMAIN new = 1 .. Len(list) + 1
    BY <1>4
  <1>5. ASSUME NEW j \in DOMAIN new, NEW k \in DOMAIN new, j < k
        PROVE  new[j].distance <= new[k].distance
    <2>0. j \in Nat /\ k \in Nat /\ p \in Nat
      BY <1>1, <1>3, <1>d
    <2>1. CASE k < p
      <3>1. j \in 1 .. Len(list) /\ k \in 1 .. Len(list) /\ new[j] = list[j] /\ new[k] = list[k]
        BY <1>1, <1>3, <1>4, <1>5, <1>d, <2>0, <2>1
      <3> QED BY <1>1, <1>5, <2>0, <3>1
    <2>2. CASE k = p
      <3>1. j \in 1 .. p - 1 /\ new[j] = list[j] /\ new[k] = item
        BY <1>1, <1>3, <1>4, <1>5, <1>d, <2>0, <2>2
      <3> QED BY <1>3, <3>1
    <2>3. CASE k > p /\ j < p
      <3>1. /\ j \in 1 .. p - 1 /\ new[j] = list[j] /\ new[k] = list[k - 1]
            /\ k - 1 \in p .. Len(list) /\ j \in 1 .. Len(list) /\ k - 1 \in 1 .. Len(list)
        BY <1>1, <1>3, <1>4, <1>5, <1>d, <2>0, <2>3
      <3> QED BY <1>1, <1>2, <1>3, <3>1
    <2>4. CASE k > p /\ j = p
      <3>1. /\ new[j] = item /\ new[k] = list[k - 1]
            /\ k - 1 \in p .. Len(list) /\ k - 1 \in 1 .. Len(list)
        BY <1>1, <1>3, <1>4, <1>5, <1>d, <2>0, <2>4
      <3> QED BY <1>1, <1>2, <1>3, <3>1
    <2>5. CASE k > p /\ j > p
      <3>1. /\ new[j] = list[j - 1] /\ new[k] = list[k - 1] /\ j - 1 <= k - 1
            /\ k - 1 \in 1 .. Len(list) /\ j - 1 \in 1 .. Len(list)
        BY <1>1, <1>3, <1>4, <1>5, <1>d, <2>0, <2>5
      <3> QED BY <1>1, <3>1
    <2> QED BY <2>0, <2>1, <2>2, <2>3, <2>4, <2>5
  <1>6. ASSUME NEW k \in DOMAIN new
        PROVE  \/ k = p /\ new[k] = item
               \/ k # p /\ \E j \in DOMAIN list : new[k] = list[j] /\ j = IF k < p THEN k ELSE k - 1
    BY <1>1, <1>3, <1>4, <1>d
  <1>7. ASSUME NEW j \in DOMAIN list
        PROVE  \E k \in DOMAIN new : new[k] = list[j]
    <2>0. j \in 1 .. Len(list)
      BY <1>1
    <2>1. CASE j < p
      BY <1>1, <1>3, <1>4, <1>d, <2>0, <2>1
    <2>2. CASE ~(j < p)
      <3>1. j + 1 \in DOMAIN new /\ ~(j + 1 < p) /\ j + 1 # p /\ (j + 1) - 1 = j
        BY <1>1, <1>3, <1>d, <2>0, <2>2
      <3>2. new[j + 1] = list[j]
        BY <1>4, <1>d, <3>1
      <3> QED BY <3>1, <3>2
    <2> QED BY <2>1, <2>2
  <1>8. p \in DOMAIN new /\ new[p] = item
    BY <1>1, <1>3, <1>4, <1>d
  <1>9. IdSet(new) = IdSet(list) \cup {item.id}
    BY <1>6, <1>7, <1>8 DEF IdSet
  <1>10. ASSUME Distinct(list), item.id \notin IdSet(list),
                NEW j \in DOMAIN new, NEW k \in DOMAIN new, new[j].id = new[k].id
         PROVE  j = k
    <2>0. j \in Nat /\ k \in Nat /\ p \in Nat
      BY <1>1, <1>3, <1>d
    <2>1. CASE j = p \/ k = p
      BY <1>6, <1>10, <2>1 DEF IdSet
    <2>2. CASE j # p /\ k # p
      <3>1. PICK x \in DOMAIN list : new[j] = list[x] /\ x = IF j < p THEN j ELSE j - 1
        BY <1>6, <2>2
      <3>2. PICK y \in DOMAIN list : new[k] = list[y] /\ y = IF k < p THEN k ELSE k - 1
        BY <1>6, <2>2
      <3>3. x = y
        BY <1>10, <3>1, <3>2 DEF Distinct
      <3> QED BY <2>0, <2>2, <3>1, <3>2, <3>3
    <2> QED BY <2>1, <2>2
  <1>11. new \in SortedLists
    BY <1>4, <1>5 DEF SortedLists, Ascending
  <1>12. \A k \in DOMAIN new : new[k] = item \/ \E j \in DOMAIN list : new[k] = list[j]
    BY <1>6
  <1>13. Distinct(list) /\ item.id \notin IdSet(list) => Distinct(new)
    BY <1>10 DEF Distinct
  <1> QED BY <1>4, <1>9, <1>11, <1>12, <1>13 DEF new

\* Taking a candidate out of a list takes out just that one.
LEMMA RemoveFromList ==
    ASSUME NEW list \in SortedLists, Distinct(list), NEW n \in 1 .. Len(list)
    PROVE  LET new == RemoveAt(list, n) IN
           /\ new \in SortedLists /\ Distinct(new)
           /\ Len(new) = Len(list) - 1
           /\ IdSet(new) = IdSet(list) \ {list[n].id}
           /\ \A k \in DOMAIN new : \E j \in DOMAIN list : new[k] = list[j]
  <1> DEFINE new == RemoveAt(list, n)
  <1>1. /\ list \in Seq(Candidate) /\ Len(list) \in Nat /\ DOMAIN list = 1 .. Len(list)
        /\ \A j, k \in DOMAIN list : j <= k => list[j].distance <= list[k].distance
    BY ListElements
  <1>2. /\ new \in Seq(Candidate) /\ Len(new) = Len(list) - 1
        /\ \A k \in 1 .. Len(list) - 1 : new[k] = IF k < n THEN list[k] ELSE list[k + 1]
    BY <1>1, RemoveAtElements
  <1> HIDE DEF new
  <1>d. DOMAIN new = 1 .. Len(list) - 1
    BY <1>2
  <1>3. ASSUME NEW k \in DOMAIN new
        PROVE  /\ k \in Nat
               /\ \E j \in DOMAIN list : j # n /\ new[k] = list[j] /\ j = IF k < n THEN k ELSE k + 1
    BY <1>1, <1>2, <1>d
  <1>4. ASSUME NEW j \in DOMAIN new, NEW k \in DOMAIN new
        PROVE  /\ j < k => new[j].distance <= new[k].distance
               /\ new[j].id = new[k].id => j = k
    <2>1. PICK x \in DOMAIN list : new[j] = list[x] /\ x = IF j < n THEN j ELSE j + 1
      BY <1>3
    <2>2. PICK y \in DOMAIN list : new[k] = list[y] /\ y = IF k < n THEN k ELSE k + 1
      BY <1>3
    <2>3. j \in Nat /\ k \in Nat /\ n \in Nat
      BY <1>1, <1>3
    <2>4. j < k => x <= y
      BY <2>1, <2>2, <2>3
    <2>5. x = y => j = k
      BY <2>1, <2>2, <2>3
    <2> QED BY <1>1, <2>1, <2>2, <2>4, <2>5 DEF Distinct
  <1>5. ASSUME NEW j \in DOMAIN list, j # n
        PROVE  \E k \in DOMAIN new : new[k] = list[j]
    <2>0. j \in 1 .. Len(list)
      BY <1>1
    <2>1. CASE j < n
      BY <1>1, <1>2, <1>5, <1>d, <2>0, <2>1
    <2>2. CASE ~(j < n)
      <3>1. j - 1 \in DOMAIN new /\ ~(j - 1 < n) /\ (j - 1) + 1 = j
        BY <1>1, <1>5, <1>d, <2>0, <2>2
      <3>2. new[j - 1] = list[j]
        BY <1>2, <1>d, <3>1
      <3> QED BY <3>1, <3>2
    <2> QED BY <2>1, <2>2
  <1>6. IdSet(new) = IdSet(list) \ {list[n].id}
    <2>1. ASSUME NEW k \in DOMAIN new
          PROVE  new[k].id \in IdSet(list) \ {list[n].id}
      BY <1>1, <1>3 DEF IdSet, Distinct
    <2>2. ASSUME NEW j \in DOMAIN list, list[j].id # list[n].id
          PROVE  list[j].id \in IdSet(new)
      BY <1>5, <2>2 DEF IdSet
    <2> QED BY <2>1, <2>2 DEF IdSet
  <1>7. new \in SortedLists /\ Distinct(new)
    BY <1>2, <1>4 DEF SortedLists, Ascending, Distinct
  <1> QED BY <1>2, <1>3, <1>6, <1>7 DEF new

\* The lists that the algorithm works with: distinct nodes of A, nearest first,
\* each with its distance from q.
Listings(ns, q, A) ==
    {list \in SortedLists :
        /\ Distinct(list) /\ IdSet(list) \subseteq A
        /\ \A k \in DOMAIN list : list[k] = Item(ns, q, list[k].id)}

Far(ns, q, i) == Distance(q, ns[i].vector)
PointsOf(ns) == DOMAIN ns \subseteq Id /\ \A i \in DOMAIN ns : ns[i].vector \in Point

\* A candidate has its node's identifier and distance.
LEMMA ItemOfNode ==
    ASSUME NEW ns, PointsOf(ns), NEW q \in Point, NEW i \in DOMAIN ns
    PROVE  /\ Item(ns, q, i) \in Candidate /\ Item(ns, q, i).id = i
           /\ Item(ns, q, i).distance = Far(ns, q, i) /\ Far(ns, q, i) \in Int
BY DistanceAssumption DEF Item, Candidate, Far, PointsOf

LEMMA ListingElements ==
    ASSUME NEW ns, NEW q, NEW A, NEW list \in Listings(ns, q, A)
    PROVE  /\ list \in SortedLists /\ list \in Seq(Candidate)
           /\ Len(list) \in Nat /\ DOMAIN list = 1 .. Len(list)
           /\ Distinct(list) /\ IdSet(list) \subseteq A
           /\ \A k \in DOMAIN list :
                 /\ list[k].id \in A /\ list[k].id \in IdSet(list)
                 /\ list[k].distance = Far(ns, q, list[k].id) /\ list[k].distance \in Int
           /\ \A j, k \in DOMAIN list : j <= k => list[j].distance <= list[k].distance
  <1>1. list \in SortedLists /\ Distinct(list) /\ IdSet(list) \subseteq A
    BY DEF Listings
  <1>2. /\ list \in Seq(Candidate) /\ Len(list) \in Nat /\ DOMAIN list = 1 .. Len(list)
        /\ \A k \in DOMAIN list : list[k].distance \in Int
        /\ \A j, k \in DOMAIN list : j <= k => list[j].distance <= list[k].distance
    BY <1>1, ListElements
  <1>3. ASSUME NEW k \in DOMAIN list
        PROVE  list[k].id \in IdSet(list) /\ list[k].distance = Far(ns, q, list[k].id)
    <2>1. list[k] = Item(ns, q, list[k].id)
      BY DEF Listings
    <2>2. list[k].distance = Item(ns, q, list[k].id).distance
      BY <2>1
    <2> QED BY <2>2 DEF Item, Far, IdSet
  <1> QED BY <1>1, <1>2, <1>3

\* What insertion and removal make of such a list.
LEMMA InsertInListing ==
    ASSUME NEW ns, PointsOf(ns), NEW q \in Point, NEW A \in SUBSET DOMAIN ns,
           NEW list \in Listings(ns, q, A), NEW i \in A, i \notin IdSet(list)
    PROVE  LET new == InsertSorted(list, Item(ns, q, i)) IN
           /\ new \in Listings(ns, q, A)
           /\ Len(new) = Len(list) + 1 /\ IdSet(new) = IdSet(list) \cup {i}
  <1> DEFINE item == Item(ns, q, i)
             new == InsertSorted(list, item)
  <1>1. item \in Candidate /\ item.id = i
    BY ItemOfNode
  <1>2. list \in SortedLists /\ Distinct(list) /\ IdSet(list) \subseteq A
    BY DEF Listings
  <1> HIDE DEF item
  <1>3. /\ new \in SortedLists /\ Len(new) = Len(list) + 1
        /\ IdSet(new) = IdSet(list) \cup {item.id}
        /\ \A k \in DOMAIN new : new[k] = item \/ \E j \in DOMAIN list : new[k] = list[j]
        /\ Distinct(list) /\ item.id \notin IdSet(list) => Distinct(new)
    BY <1>1, <1>2, InsertSortedList
  <1> HIDE DEF new
  <1>4. ASSUME NEW k \in DOMAIN new
        PROVE  new[k] = Item(ns, q, new[k].id)
    <2>1. CASE new[k] = item
      BY <1>1, <2>1 DEF item
    <2>2. CASE \E j \in DOMAIN list : new[k] = list[j]
      BY <2>2 DEF Listings
    <2> QED BY <1>3, <2>1, <2>2
  <1>5. new \in Listings(ns, q, A)
    BY <1>1, <1>2, <1>3, <1>4 DEF Listings
  <1> QED BY <1>1, <1>3, <1>5 DEF new, item

\* The last candidate makes room for a nearer one.
LEMMA RemoveFromListing ==
    ASSUME NEW ns, NEW q, NEW A, NEW list \in Listings(ns, q, A), NEW n \in 1 .. Len(list)
    PROVE  LET new == RemoveAt(list, n) IN
           /\ new \in Listings(ns, q, A)
           /\ Len(new) = Len(list) - 1 /\ IdSet(new) = IdSet(list) \ {list[n].id}
  <1> DEFINE new == RemoveAt(list, n)
  <1>1. list \in SortedLists /\ Distinct(list) /\ IdSet(list) \subseteq A
    BY DEF Listings
  <1>2. /\ new \in SortedLists /\ Distinct(new) /\ Len(new) = Len(list) - 1
        /\ IdSet(new) = IdSet(list) \ {list[n].id}
        /\ \A k \in DOMAIN new : \E j \in DOMAIN list : new[k] = list[j]
    BY <1>1, RemoveFromList
  <1> HIDE DEF new
  <1>3. ASSUME NEW k \in DOMAIN new
        PROVE  new[k] = Item(ns, q, new[k].id)
    BY <1>2 DEF Listings
  <1>4. new \in Listings(ns, q, A)
    BY <1>1, <1>2, <1>3 DEF Listings
  <1> QED BY <1>2, <1>4 DEF new

\* Sorting lists the wanted ones of the identifiers, each once.
LEMMA SortedListing ==
    ASSUME NEW ns, PointsOf(ns), NEW q \in Point, NEW wanted,
           NEW ids \in Seq(DOMAIN ns), IsInjective(ids)
    PROVE  LET list == SortCandidates(ns, q, ids, wanted) IN
           /\ list \in Listings(ns, q, DOMAIN ns)
           /\ IdSet(list) = ToSet(ids) \cap wanted
  <1> DEFINE n == Len(ids)
             Insert1(list, k) == InsertSorted(list, Item(ns, q, ids[k]))
             Body(f) == [k \in 0 .. n |->
                IF k = 0 THEN <<>>
                ELSE IF ids[k] \in wanted THEN Insert1(f[k - 1], k)
                ELSE f[k - 1]]
             sorted == CHOOSE f : f = Body(f)
             L == Listings(ns, q, DOMAIN ns)
             Seen(k) == {ids[j] : j \in 1 .. k} \cap wanted
             T == [k \in 0 .. n |-> {list \in L : IdSet(list) = Seen(k)}]
             g == [p \in L \X (1 .. n) |->
                      IF ids[p[2]] \in wanted THEN Insert1(p[1], p[2]) ELSE p[1]]
  <1>0. n \in Nat /\ DOMAIN ids = 1 .. n /\ \A k \in 1 .. n : ids[k] \in DOMAIN ns
    OBVIOUS
  <1> HIDE DEF n
  <1>1. SortCandidates(ns, q, ids, wanted) = sorted[n]
    BY DEF SortCandidates, n
  <1>2. <<>> \in T[0]
    <2>1. <<>> \in SortedLists
      BY DEF SortedLists, Ascending
    <2>2. Seen(0) = {} /\ IdSet(<<>>) = {} /\ Distinct(<<>>)
      BY DEF IdSet, Distinct
    <2>3. <<>> \in L
      BY <2>1, <2>2 DEF Listings
    <2> QED BY <1>0, <2>2, <2>3
  <1>3. ASSUME NEW k \in 1 .. n, NEW list \in T[k - 1]
        PROVE  (IF ids[k] \in wanted THEN Insert1(list, k) ELSE list) \in T[k]
    <2>0. k \in 0 .. n /\ k - 1 \in 0 .. n
      BY <1>0
    <2>1. list \in L /\ IdSet(list) = Seen(k - 1)
      BY <2>0
    <2>2. Seen(k) = IF ids[k] \in wanted THEN Seen(k - 1) \cup {ids[k]} ELSE Seen(k - 1)
      <3>1. \A j : j \in 1 .. k <=> j \in 1 .. k - 1 \/ j = k
        BY <1>0
      <3>2. {ids[j] : j \in 1 .. k} = {ids[j] : j \in 1 .. k - 1} \cup {ids[k]}
        BY <3>1
      <3> QED BY <3>2
    <2>3. CASE ids[k] \in wanted
      <3>1. ids[k] \notin Seen(k - 1)
        <4>1. ASSUME NEW j \in 1 .. k - 1, ids[j] = ids[k]
              PROVE  FALSE
          <5>1. j \in 1 .. n /\ j # k
            BY <1>0, <2>0
          <5> QED BY <1>0, <4>1, <5>1 DEF IsInjective
        <4> QED BY <4>1
      <3>2. ids[k] \in DOMAIN ns /\ DOMAIN ns \in SUBSET DOMAIN ns
        BY <1>0
      <3> HIDE DEF Seen
      <3>3. /\ Insert1(list, k) \in L
            /\ IdSet(Insert1(list, k)) = IdSet(list) \cup {ids[k]}
        BY <2>1, <3>1, <3>2, InsertInListing
      <3> HIDE DEF Insert1, L
      <3> QED BY <2>0, <2>1, <2>2, <2>3, <3>3
    <2>4. CASE ids[k] \notin wanted
      <3> HIDE DEF Seen, L, Insert1
      <3> QED BY <2>0, <2>1, <2>2, <2>4
    <2> QED BY <2>3, <2>4
  <1>4. \A k \in 0 .. n : \A list \in T[k] : list \in L
    OBVIOUS
  <1> HIDE DEF Insert1, L, T
  <1>5. \A k \in 1 .. n : \A list \in T[k - 1] :
           g[<<list, k>>] = IF ids[k] \in wanted THEN Insert1(list, k) ELSE list
    <2>1. \A k \in 1 .. n : k - 1 \in 0 .. n
      BY <1>0
    <2> QED BY <1>4, <2>1
  <1> HIDE DEF g
  <1>6. \A k \in 1 .. n : \A list \in T[k - 1] : g[<<list, k>>] \in T[k]
    <2> SUFFICES ASSUME NEW k \in 1 .. n, NEW list \in T[k - 1]
                 PROVE  g[<<list, k>>] \in T[k]
      OBVIOUS
    <2>1. (IF ids[k] \in wanted THEN Insert1(list, k) ELSE list) \in T[k]
      BY <1>3
    <2>2. g[<<list, k>>] = IF ids[k] \in wanted THEN Insert1(list, k) ELSE list
      BY <1>5
    <2> QED BY <2>1, <2>2, Zenon
  <1>7. PICK f : /\ f = [k \in 0 .. n |-> f[k]] /\ f[0] = <<>>
                 /\ \A k \in 1 .. n : f[k] = g[<<f[k - 1], k>>]
                 /\ \A k \in 0 .. n : f[k] \in T[k]
    <2>1. Carries(n, g, T)
      BY <1>6 DEF Carries
    <2>2. \E f : Iterates(f, n, <<>>, g, T)
      BY <1>0, <1>2, <2>1, Iteration
    <2> QED BY <2>2 DEF Iterates
  <1>8. f = Body(f)
    <2>1. ASSUME NEW k \in 1 .. n
          PROVE  f[k] = IF ids[k] \in wanted THEN Insert1(f[k - 1], k) ELSE f[k - 1]
      <3>1. f[k - 1] \in T[k - 1]
        BY <1>0, <1>7
      <3> QED BY <1>5, <1>7, <3>1
    <2>2. \A k \in 0 .. n : k # 0 => k \in 1 .. n
      BY <1>0
    <2>3. \A k \in 0 .. n : f[k] = Body(f)[k]
      BY <1>7, <2>1, <2>2
    <2> QED BY <1>7, <2>3
  <1>9. sorted = Body(sorted)
    BY <1>8
  <1> HIDE DEF sorted
  <1>10. sorted[0] = <<>> /\ \A k \in 1 .. n :
            sorted[k] = IF ids[k] \in wanted THEN Insert1(sorted[k - 1], k) ELSE sorted[k - 1]
    <2>1. \A k \in 1 .. n : k \in 0 .. n /\ k # 0
      BY <1>0
    <2>2. 0 \in 0 .. n
      BY <1>0
    <2>3. sorted[0] = Body(sorted)[0] /\ \A k \in 1 .. n : sorted[k] = Body(sorted)[k]
      BY <1>9
    <2> QED BY <2>1, <2>2, <2>3
  <1>11. \A k \in 1 .. n : sorted[k - 1] \in T[k - 1] => sorted[k] \in T[k]
    BY <1>3, <1>10
  <1>12. \A k \in 0 .. n : sorted[k] \in T[k]
    BY <1>0, <1>2, <1>10, <1>11, Stays
  <1>13. sorted[n] \in T[n] /\ n \in 0 .. n
    BY <1>0, <1>12
  <1>14. sorted[n] \in L /\ IdSet(sorted[n]) = ToSet(ids) \cap wanted
    BY <1>0, <1>13 DEF T, ToSet
  <1> QED BY <1>1, <1>14 DEF L

\* The identifiers of the first n of a list.
LEMMA FirstOfListing ==
    ASSUME NEW ns, NEW q, NEW A, NEW list \in Listings(ns, q, A), NEW n \in Nat
    PROVE  LET r == Ids(First(list, n)) IN
           /\ r \in Seq(A) /\ Len(r) = (IF n < Len(list) THEN n ELSE Len(list))
           /\ IsInjective(r) /\ ToSet(r) \subseteq IdSet(list)
           /\ \A j, k \in DOMAIN r : j <= k => Far(ns, q, r[j]) <= Far(ns, q, r[k])
           /\ Len(list) <= n => ToSet(r) = IdSet(list)
           /\ r # <<>> => r[1] = list[1].id
  <1> DEFINE m == IF n < Len(list) THEN n ELSE Len(list)
             c == First(list, n)
             r == Ids(c)
  <1>1. /\ list \in Seq(Candidate) /\ Len(list) \in Nat /\ DOMAIN list = 1 .. Len(list)
        /\ Distinct(list)
        /\ \A k \in DOMAIN list :
              /\ list[k].id \in A /\ list[k].id \in IdSet(list)
              /\ list[k].distance = Far(ns, q, list[k].id)
        /\ \A j, k \in DOMAIN list : j <= k => list[j].distance <= list[k].distance
    BY ListingElements
  <1>2. m \in 0 .. Len(list) /\ m \in Nat
    BY <1>1
  <1>3. Len(list) <= n => m = Len(list)
    <2>1. Len(list) \in Nat
      BY <1>1
    <2> QED BY <2>1
  <1>4. c = SubSeq(list, 1, m)
    BY DEF First
  <1> HIDE DEF m, c
  <1>5. DOMAIN c = 1 .. m /\ \A k \in 1 .. m : c[k] = list[k] /\ k \in DOMAIN list
    BY <1>1, <1>2, <1>4
  <1>6. r = [k \in 1 .. m |-> list[k].id]
    BY <1>5 DEF Ids
  <1>7. /\ DOMAIN r = 1 .. m /\ r \in Seq(A) /\ Len(r) = m
        /\ \A k \in 1 .. m : r[k] = list[k].id
    <2>1. \A k \in 1 .. m : list[k].id \in A
      BY <1>1, <1>5
    <2>2. [k \in 1 .. m |-> list[k].id] \in Seq(A)
      BY <1>2, <2>1
    <2> HIDE DEF r
    <2> QED BY <1>2, <1>6, <2>2
  <1> HIDE DEF r
  <1>8. IsInjective(r)
    BY <1>1, <1>5, <1>7 DEF IsInjective, Distinct
  <1>9. ToSet(r) \subseteq IdSet(list)
    BY <1>1, <1>5, <1>7 DEF ToSet
  <1>10. \A j, k \in DOMAIN r : j <= k => Far(ns, q, r[j]) <= Far(ns, q, r[k])
    <2> SUFFICES ASSUME NEW j \in DOMAIN r, NEW k \in DOMAIN r, j <= k
                 PROVE  Far(ns, q, r[j]) <= Far(ns, q, r[k])
      OBVIOUS
    <2>1. j \in DOMAIN list /\ k \in DOMAIN list /\ r[j] = list[j].id /\ r[k] = list[k].id
      BY <1>5, <1>7
    <2> QED BY <1>1, <2>1
  <1>11. Len(list) <= n => ToSet(r) = IdSet(list)
    BY <1>1, <1>3, <1>7 DEF ToSet, IdSet
  <1>12. r # <<>> => r[1] = list[1].id
    <2>1. r # <<>> => 1 \in 1 .. m
      BY <1>2, <1>7
    <2> QED BY <1>7, <2>1
  <1> QED BY <1>7, <1>8, <1>9, <1>10, <1>11, <1>12 DEF r, c, m

-----------------------------------------------------------------------------
(* Counting.                                                               *)

\* A set of nodes is finite.
LEMMA NodesAreFinite == \A S \in SUBSET Id : IsFiniteSet(S) /\ Cardinality(S) \in Nat
  <1>1. IsFiniteSet(Id)
    BY GraphAssumption, FS_Interval DEF Id
  <1> QED BY <1>1, FS_Subset, FS_CardinalityType

LEMMA CountUpTo == \A n \in Nat : IsFiniteSet(1 .. n) /\ Cardinality(1 .. n) = n
  <1> SUFFICES ASSUME NEW n \in Nat
               PROVE  IsFiniteSet(1 .. n) /\ Cardinality(1 .. n) = n
    OBVIOUS
  <1>1. n \in Int /\ 1 \in Int
    OBVIOUS
  <1>2. Cardinality(1 .. n) = IF 1 > n THEN 0 ELSE n - 1 + 1
    BY <1>1, FS_Interval
  <1>3. IsFiniteSet(1 .. n)
    BY <1>1, FS_Interval
  <1> QED BY <1>2, <1>3

\* An injective sequence lists as many as it is long.
LEMMA InjectiveCount ==
    ASSUME NEW s \in Seq(Id), IsInjective(s)
    PROVE  ToSet(s) \in SUBSET Id /\ Cardinality(ToSet(s)) = Len(s)
  <1>1. ToSet(s) \in SUBSET Id
    BY DEF ToSet
  <1>2. s \in Bijection(1 .. Len(s), ToSet(s))
    BY DEF Bijection, Injection, Surjection, ToSet, IsInjective
  <1>3. Cardinality(1 .. Len(s)) = Len(s) /\ IsFiniteSet(1 .. Len(s))
    <2>1. Len(s) \in Nat
      OBVIOUS
    <2> QED BY <2>1, CountUpTo
  <1> QED BY <1>1, <1>2, <1>3, FS_Bijection DEF ExistsBijection

\* So a list of distinct nodes of A that is as long as A is large holds all of A.
LEMMA ListingCount ==
    ASSUME NEW ns, NEW q, NEW A \in SUBSET Id, NEW list \in Listings(ns, q, A)
    PROVE  /\ Cardinality(IdSet(list)) = Len(list) /\ Len(list) <= Cardinality(A)
           /\ Cardinality(A) <= Len(list) => IdSet(list) = A
           /\ \A i \in A : i \notin IdSet(list) => Len(list) < Cardinality(A)
  <1>1. /\ list \in Seq(Candidate) /\ Len(list) \in Nat /\ DOMAIN list = 1 .. Len(list)
        /\ Distinct(list) /\ IdSet(list) \subseteq A
    BY ListingElements
  <1> DEFINE s == [k \in 1 .. Len(list) |-> list[k].id]
  <1>2. s \in Seq(Id) /\ IsInjective(s) /\ ToSet(s) = IdSet(list) /\ Len(s) = Len(list)
    <2>1. \A k \in 1 .. Len(list) : list[k].id \in Id
      BY <1>1 DEF IdSet
    <2>2. s \in Seq(Id) /\ Len(s) = Len(list) /\ DOMAIN s = 1 .. Len(list)
      BY <1>1, <2>1
    <2> QED BY <1>1, <2>2 DEF IsInjective, Distinct, ToSet, IdSet
  <1>3. Cardinality(IdSet(list)) = Len(list)
    <2> HIDE DEF s
    <2> QED BY <1>2, InjectiveCount
  <1>4. Len(list) <= Cardinality(A)
    BY <1>1, <1>3, NodesAreFinite, FS_Subset
  <1>5. Cardinality(A) <= Len(list) => IdSet(list) = A
    BY <1>1, <1>3, <1>4, NodesAreFinite, FS_Subset
  <1> QED BY <1>1, <1>3, <1>4, <1>5, NodesAreFinite

-----------------------------------------------------------------------------
(* The walk of searchLayer over a set A of live nodes.                     *)

\* The first of a list is the nearest, and Tail takes just it away.
LEMMA HeadOfListing ==
    ASSUME NEW ns, NEW q, NEW A, NEW list \in Listings(ns, q, A), list # <<>>
    PROVE  /\ 1 \in DOMAIN list /\ Head(list) = list[1] /\ list[1].id \in IdSet(list)
           /\ \A i \in IdSet(list) : list[1].distance <= Far(ns, q, i)
           /\ Tail(list) \in Listings(ns, q, A) /\ IdSet(Tail(list)) = IdSet(list) \ {list[1].id}
  <1>1. /\ list \in Seq(Candidate) /\ Len(list) \in Nat /\ DOMAIN list = 1 .. Len(list)
        /\ \A k \in DOMAIN list : list[k].id \in IdSet(list) /\ list[k].distance = Far(ns, q, list[k].id)
        /\ \A j, k \in DOMAIN list : j <= k => list[j].distance <= list[k].distance
    BY ListingElements
  <1>2. 1 \in DOMAIN list /\ Head(list) = list[1] /\ 1 \in 1 .. Len(list)
    BY <1>1
  <1>3. ASSUME NEW i \in IdSet(list)
        PROVE  list[1].distance <= Far(ns, q, i)
    <2>1. PICK k \in DOMAIN list : list[k].id = i
      BY DEF IdSet
    <2>2. 1 <= k
      BY <1>1
    <2> QED BY <1>1, <1>2, <2>1, <2>2
  <1>4. Tail(list) = RemoveAt(list, 1)
    <2>1. /\ RemoveAt(list, 1) \in Seq(Candidate) /\ Len(RemoveAt(list, 1)) = Len(list) - 1
          /\ \A k \in 1 .. Len(list) - 1 : RemoveAt(list, 1)[k] = IF k < 1 THEN list[k] ELSE list[k + 1]
      BY <1>1, <1>2, RemoveAtElements
    <2>2. /\ Tail(list) \in Seq(Candidate) /\ Len(Tail(list)) = Len(list) - 1
          /\ \A k \in 1 .. Len(list) - 1 : Tail(list)[k] = list[k + 1]
      BY <1>1, <1>2
    <2>3. \A k \in 1 .. Len(list) - 1 : ~(k < 1)
      BY <1>1
    <2>4. \A k \in 1 .. Len(Tail(list)) : Tail(list)[k] = RemoveAt(list, 1)[k]
      BY <2>1, <2>2, <2>3
    <2> QED BY <2>1, <2>2, <2>4, SeqEqual
  <1>5. /\ RemoveAt(list, 1) \in Listings(ns, q, A)
        /\ IdSet(RemoveAt(list, 1)) = IdSet(list) \ {list[1].id}
    BY <1>2, RemoveFromListing
  <1> QED BY <1>1, <1>2, <1>3, <1>4, <1>5

\* The states of a walk: what is still to be explored and the candidates have been
\* visited, the first candidate is the nearest of all that were, and none that was
\* visited is missing when there is room for all of A.
Walks(ns, q, n, A) ==
    {s \in [candidates : Listings(ns, q, A), dynamic : Listings(ns, q, A), visited : SUBSET A] :
        /\ s.candidates # <<>>
        /\ IdSet(s.candidates) \subseteq s.visited /\ IdSet(s.dynamic) \subseteq s.visited
        /\ \A i \in s.visited : s.candidates[1].distance <= Far(ns, q, i)
        /\ Cardinality(A) <= n => IdSet(s.candidates) = s.visited}

\* What a walk may have become after some more visits.
Later(s, t) ==
    /\ s.visited \subseteq t.visited
    /\ IdSet(s.dynamic) \subseteq IdSet(t.dynamic)
    /\ IdSet(t.dynamic) \cap s.visited \subseteq IdSet(s.dynamic)
    /\ IdSet(t.candidates) \subseteq IdSet(s.candidates) \cup IdSet(t.dynamic)

LEMMA LaterTransitive ==
    ASSUME NEW s, NEW t, NEW u, Later(s, t), Later(t, u)
    PROVE  Later(s, u)
BY DEF Later

\* A visit to a node of A, whether it becomes a candidate or not.
LEMMA VisitInWalk ==
    ASSUME NEW ns, PointsOf(ns), NEW q \in Point, NEW n \in Nat \ {0},
           NEW A \in SUBSET Live(ns), NEW s \in Walks(ns, q, n, A),
           NEW id \in DOMAIN ns, id \in Live(ns) => id \in A
    PROVE  LET t == Visit(ns, q, n, s, id) IN
           /\ t \in Walks(ns, q, n, A) /\ Later(s, t)
           /\ id \in Live(ns) => id \in t.visited
  <1> DEFINE L == Listings(ns, q, A)
             U == [candidates : L, dynamic : L, visited : SUBSET A]
             t == Visit(ns, q, n, s, id)
             item == Item(ns, q, id)
             c == s.candidates
             kept == IF Len(c) < n THEN c ELSE RemoveAt(c, n)
             new == InsertSorted(kept, item)
             dyn == InsertSorted(s.dynamic, item)
  <1>1. /\ s \in U /\ c \in L /\ s.dynamic \in L /\ s.visited \in SUBSET A
        /\ c # <<>> /\ IdSet(c) \subseteq s.visited /\ IdSet(s.dynamic) \subseteq s.visited
        /\ \A i \in s.visited : c[1].distance <= Far(ns, q, i)
        /\ Cardinality(A) <= n => IdSet(c) = s.visited
    BY DEF Walks
  <1>2. A \subseteq DOMAIN ns /\ A \in SUBSET Id
    BY DEF Live, PointsOf
  <1> HIDE DEF L
  <1>3. CASE id \in s.visited \/ ns[id].deleted
    <2>1. t = s
      BY <1>3 DEF Visit
    <2>2. id \in Live(ns) => id \in s.visited
      BY <1>3 DEF Live
    <2> QED BY <2>1, <2>2 DEF Later
  <1>4. CASE id \notin s.visited /\ ~ns[id].deleted
    <2>1. id \in A /\ id \in Live(ns)
      BY <1>4 DEF Live
    <2>2. item \in Candidate /\ item.distance = Far(ns, q, id) /\ item.distance \in Int /\ item.id = id
      BY ItemOfNode
    <2>3. Len(c) \in Nat /\ Len(c) > 0 /\ DOMAIN c = 1 .. Len(c) /\ 1 \in DOMAIN c
          /\ \A k \in DOMAIN c : c[k].distance \in Int /\ c[1].distance <= c[k].distance
      <3>1. /\ c \in Seq(Candidate) /\ Len(c) \in Nat /\ DOMAIN c = 1 .. Len(c)
            /\ \A k \in DOMAIN c : c[k].distance \in Int
            /\ \A j, k \in DOMAIN c : j <= k => c[j].distance <= c[k].distance
        BY <1>1, ListingElements DEF L
      <3>2. Len(c) > 0
        BY <1>1, <3>1
      <3>3. 1 \in DOMAIN c /\ \A k \in DOMAIN c : 1 <= k
        BY <3>1, <3>2
      <3> QED BY <3>1, <3>2, <3>3
    <2>4. Cardinality(A) <= n => Len(c) < n
      <3>1. Len(c) < Cardinality(A)
        BY <1>1, <1>2, <1>4, <2>1, ListingCount DEF L
      <3>2. Cardinality(A) \in Nat
        BY <1>2, NodesAreFinite
      <3> QED BY <2>3, <3>1, <3>2
    <2>5. CASE Len(c) < n \/ item.distance < c[n].distance
      <3>1. /\ kept \in L /\ IdSet(kept) \subseteq IdSet(c)
            /\ Len(c) < n => kept = c
            /\ Len(c) >= n => n \in DOMAIN c /\ IdSet(kept) = IdSet(c) \ {c[n].id}
        <4>1. CASE Len(c) < n
          BY <1>1, <2>3, <4>1
        <4>2. CASE Len(c) >= n
          <5>1. n \in 1 .. Len(c) /\ ~(Len(c) < n) /\ n \in DOMAIN c
            BY <2>3, <4>2
          <5>2. /\ RemoveAt(c, n) \in L
                /\ IdSet(RemoveAt(c, n)) = IdSet(c) \ {c[n].id}
            BY <1>1, <5>1, RemoveFromListing DEF L
          <5> QED BY <5>1, <5>2
        <4> QED BY <2>3, <4>1, <4>2
      <3>2. id \notin IdSet(kept) /\ id \notin IdSet(s.dynamic)
        BY <1>1, <1>4, <3>1
      <3> HIDE DEF kept
      <3>3. new \in L /\ IdSet(new) = IdSet(kept) \cup {id} /\ Len(new) = Len(kept) + 1
        BY <1>2, <2>1, <3>1, <3>2, InsertInListing DEF L
      <3>4. dyn \in L /\ IdSet(dyn) = IdSet(s.dynamic) \cup {id}
        BY <1>1, <1>2, <2>1, <3>2, InsertInListing DEF L
      <3>5. t = [s EXCEPT !.visited = s.visited \cup {id}, !.candidates = new, !.dynamic = dyn]
        BY <1>4, <2>5 DEF Visit, kept
      <3> HIDE DEF new, dyn, t
      <3>6. /\ t \in U /\ t.candidates = new /\ t.dynamic = dyn
            /\ t.visited = s.visited \cup {id}
        BY <1>1, <2>1, <3>3, <3>4, <3>5
      <3>7. new # <<>>
        <4>1. kept \in SortedLists
          BY <3>1 DEF L, Listings
        <4>2. Len(kept) \in Nat
          BY <4>1, ListElements
        <4> QED BY <3>3, <4>2
      <3>8. \A i \in IdSet(new) : new[1].distance <= Far(ns, q, i)
        BY <3>3, <3>7, HeadOfListing DEF L
      <3>9. new[1].distance \in Int
        <4>1. 1 \in DOMAIN new
          BY <3>3, <3>7, HeadOfListing DEF L
        <4> QED BY <3>3, <4>1, ListingElements DEF L
      <3>10. new[1].distance <= c[1].distance
        <4>1. c[1].id \in IdSet(c) /\ c[1].distance = Far(ns, q, c[1].id)
          BY <1>1, <2>3, ListingElements DEF L
        <4>2. CASE c[1].id \in IdSet(kept)
          BY <3>3, <3>8, <4>1, <4>2
        <4>3. CASE c[1].id \notin IdSet(kept)
          <5>1. n \in DOMAIN c /\ c[1].id = c[n].id /\ ~(Len(c) < n)
            BY <2>3, <3>1, <4>1, <4>3
          <5>2. n = 1
            BY <1>1, <2>3, <5>1, ListingElements DEF L, Distinct
          <5>3. item.distance < c[1].distance
            BY <2>5, <5>1, <5>2
          <5>4. new[1].distance <= item.distance
            BY <2>2, <3>3, <3>8
          <5> QED BY <2>2, <2>3, <3>9, <5>3, <5>4
        <4> QED BY <4>2, <4>3
      <3>11. \A i \in t.visited : new[1].distance <= Far(ns, q, i)
        <4> SUFFICES ASSUME NEW i \in t.visited
                     PROVE  new[1].distance <= Far(ns, q, i)
          OBVIOUS
        <4>1. CASE i = id
          BY <3>3, <3>8, <4>1
        <4>2. CASE i \in s.visited
          <5>1. Far(ns, q, i) \in Int
            BY <1>1, <1>2, <4>2, ItemOfNode
          <5> QED BY <1>1, <2>3, <3>9, <3>10, <4>2, <5>1
        <4> QED BY <3>6, <4>1, <4>2
      <3>12. Cardinality(A) <= n => IdSet(new) = t.visited
        BY <1>1, <2>4, <3>1, <3>3, <3>6
      <3>13. IdSet(new) \subseteq t.visited /\ IdSet(dyn) \subseteq t.visited
        BY <1>1, <3>1, <3>3, <3>4, <3>6
      <3>14. t \in Walks(ns, q, n, A)
        BY <3>6, <3>7, <3>11, <3>12, <3>13 DEF Walks, L
      <3>15. Later(s, t)
        BY <1>4, <3>1, <3>3, <3>4, <3>6 DEF Later
      <3> QED BY <3>6, <3>14, <3>15 DEF t
    <2>6. CASE ~(Len(c) < n \/ item.distance < c[n].distance)
      <3>1. t = [s EXCEPT !.visited = s.visited \cup {id}]
        BY <1>4, <2>6 DEF Visit
      <3> HIDE DEF t
      <3>2. /\ t \in U /\ t.candidates = c /\ t.dynamic = s.dynamic
            /\ t.visited = s.visited \cup {id}
        BY <1>1, <2>1, <3>1
      <3>3. c[1].distance <= Far(ns, q, id)
        <4>1. n \in DOMAIN c
          BY <2>3, <2>6
        <4> QED BY <2>2, <2>3, <2>6, <4>1
      <3>4. ~(Cardinality(A) <= n)
        BY <2>4, <2>6
      <3>5. t \in Walks(ns, q, n, A)
        BY <1>1, <3>2, <3>3, <3>4 DEF Walks, L
      <3>6. Later(s, t)
        BY <3>2 DEF Later
      <3> QED BY <3>2, <3>5, <3>6 DEF t
    <2> QED BY <2>5, <2>6
  <1> QED BY <1>3, <1>4

\* All the neighbours of a node.
LEMMA VisitAllInWalk ==
    ASSUME NEW ns, PointsOf(ns), NEW q \in Point, NEW n \in Nat \ {0},
           NEW A \in SUBSET Live(ns), NEW s \in Walks(ns, q, n, A),
           NEW ids \in Seq(DOMAIN ns), ToSet(ids) \cap Live(ns) \subseteq A
    PROVE  LET t == VisitAll(ns, q, n, s, ids) IN
           /\ t \in Walks(ns, q, n, A) /\ Later(s, t)
           /\ ToSet(ids) \cap Live(ns) \subseteq t.visited
  <1> DEFINE m == Len(ids)
             Visit1(t, k) == Visit(ns, q, n, t, ids[k])
             Body(f) == [k \in 0 .. m |-> IF k = 0 THEN s ELSE Visit1(f[k - 1], k)]
             after == CHOOSE f : f = Body(f)
             W == Walks(ns, q, n, A)
             Seen(k) == {ids[j] : j \in 1 .. k} \cap Live(ns)
             T == [k \in 0 .. m |-> {t \in W : Later(s, t) /\ Seen(k) \subseteq t.visited}]
             g == [p \in W \X (1 .. m) |-> Visit1(p[1], p[2])]
  <1>0. m \in Nat /\ DOMAIN ids = 1 .. m /\ \A k \in 1 .. m : ids[k] \in DOMAIN ns
    OBVIOUS
  <1>a. \A k \in 1 .. m : ids[k] \in Live(ns) => ids[k] \in A
    BY <1>0 DEF ToSet
  <1> HIDE DEF m
  <1>1. VisitAll(ns, q, n, s, ids) = after[m]
    BY DEF VisitAll, m
  <1>2. s \in T[0]
    <2>1. Seen(0) = {} /\ Later(s, s)
      BY DEF Later
    <2> QED BY <1>0, <2>1
  <1>3. ASSUME NEW k \in 1 .. m, NEW t \in T[k - 1]
        PROVE  Visit1(t, k) \in T[k]
    <2>0. k \in 0 .. m /\ k - 1 \in 0 .. m
      BY <1>0
    <2>1. t \in W /\ Later(s, t) /\ Seen(k - 1) \subseteq t.visited
      BY <2>0
    <2>2. Seen(k) = Seen(k - 1) \cup ({ids[k]} \cap Live(ns))
      <3>1. \A j : j \in 1 .. k <=> j \in 1 .. k - 1 \/ j = k
        BY <1>0
      <3>2. {ids[j] : j \in 1 .. k} = {ids[j] : j \in 1 .. k - 1} \cup {ids[k]}
        BY <3>1
      <3> QED BY <3>2
    <2>3. /\ Visit1(t, k) \in W /\ Later(t, Visit1(t, k))
          /\ ids[k] \in Live(ns) => ids[k] \in Visit1(t, k).visited
      BY <1>0, <1>a, <2>1, VisitInWalk
    <2> HIDE DEF Visit1, W, Seen
    <2>4. Later(s, Visit1(t, k))
      BY <2>1, <2>3, LaterTransitive
    <2>5. Seen(k) \subseteq Visit1(t, k).visited
      BY <2>1, <2>2, <2>3 DEF Later
    <2> QED BY <2>0, <2>3, <2>4, <2>5
  <1>4. \A k \in 0 .. m : \A t \in T[k] : t \in W
    OBVIOUS
  <1> HIDE DEF Visit1, W, T
  <1>5. \A k \in 1 .. m : \A t \in T[k - 1] : g[<<t, k>>] = Visit1(t, k)
    <2>1. \A k \in 1 .. m : k - 1 \in 0 .. m
      BY <1>0
    <2> QED BY <1>4, <2>1
  <1> HIDE DEF g
  <1>6. Carries(m, g, T)
    <2> SUFFICES ASSUME NEW k \in 1 .. m, NEW t \in T[k - 1]
                 PROVE  g[<<t, k>>] \in T[k]
      BY DEF Carries
    <2> QED BY <1>3, <1>5
  <1>7. PICK f : Iterates(f, m, s, g, T)
    BY <1>0, <1>2, <1>6, Iteration
  <1>8. f = Body(f)
    <2>1. \A k \in 1 .. m : k \in 0 .. m /\ k - 1 \in 0 .. m
      BY <1>0
    <2>2. \A k \in 1 .. m : f[k] = Visit1(f[k - 1], k)
      BY <1>5, <1>7, <2>1 DEF Iterates
    <2>3. \A k \in 0 .. m : k # 0 => k \in 1 .. m
      BY <1>0
    <2>4. \A k \in 0 .. m : f[k] = Body(f)[k]
      BY <1>7, <2>2, <2>3 DEF Iterates
    <2> QED BY <1>7, <2>4 DEF Iterates
  <1>9. after = Body(after)
    BY <1>8
  <1> HIDE DEF after
  <1>10. after[0] = s /\ \A k \in 1 .. m : after[k] = Visit1(after[k - 1], k)
    <2>1. \A k \in 1 .. m : k \in 0 .. m /\ k # 0
      BY <1>0
    <2>2. 0 \in 0 .. m
      BY <1>0
    <2>3. after[0] = Body(after)[0] /\ \A k \in 1 .. m : after[k] = Body(after)[k]
      BY <1>9
    <2> QED BY <2>1, <2>2, <2>3
  <1>11. \A k \in 1 .. m : after[k - 1] \in T[k - 1] => after[k] \in T[k]
    BY <1>3, <1>10
  <1>12. \A k \in 0 .. m : after[k] \in T[k]
    BY <1>0, <1>2, <1>10, <1>11, Stays
  <1>13. after[m] \in T[m] /\ m \in 0 .. m
    BY <1>0, <1>12
  <1>14. after[m] \in W /\ Later(s, after[m]) /\ Seen(m) \subseteq after[m].visited
    BY <1>13 DEF T
  <1>15. ToSet(ids) = {ids[j] : j \in 1 .. m}
    BY <1>0 DEF ToSet
  <1> QED BY <1>1, <1>14, <1>15 DEF W

\* Every walk from a node of A at layer l stays in A.
Closed(ns, A, l) ==
    \A i \in A : /\ GetConnections(ns[i], l) \in Seq(DOMAIN ns)
                 /\ ToSet(GetConnections(ns[i], l)) \cap Live(ns) \subseteq A

\* E are the nodes explored so far: their neighbours have been visited, none of
\* them waits to be explored, and every candidate is one of them or waits.
Explored(ns, l, E, s) ==
    /\ E \subseteq s.visited /\ E \cap IdSet(s.dynamic) = {}
    /\ IdSet(s.candidates) \subseteq E \cup IdSet(s.dynamic)
    /\ \A e \in E : ToSet(GetConnections(ns[e], l)) \cap Live(ns) \subseteq s.visited

\* One step of the walk stays a walk in A: its node is explored and waits no longer.
LEMMA ExploreInWalk ==
    ASSUME NEW ns, PointsOf(ns), NEW q \in Point, NEW n \in Nat \ {0}, NEW l,
           NEW A \in SUBSET Live(ns), Closed(ns, A, l),
           NEW s \in Walks(ns, q, n, A), ~Finished(n, s),
           NEW E \in SUBSET A, Explored(ns, l, E, s)
    PROVE  /\ Explore(ns, q, n, l, s) \in Walks(ns, q, n, A)
           /\ \E F \in SUBSET A : /\ Explored(ns, l, F, Explore(ns, q, n, l, s))
                                  /\ Cardinality(F) = Cardinality(E) + 1
  <1> DEFINE L == Listings(ns, q, A)
             U == [candidates : L, dynamic : L, visited : SUBSET A]
             c == Head(s.dynamic).id
             r == [s EXCEPT !.dynamic = Tail(s.dynamic)]
             ids == GetConnections(ns[c], l)
             t == VisitAll(ns, q, n, r, ids)
  <1>1. /\ s \in U /\ s.dynamic \in L /\ IdSet(s.dynamic) \subseteq s.visited
        /\ s.visited \subseteq A
    BY DEF Walks
  <1>2. s.dynamic # <<>> /\ Explore(ns, q, n, l, s) = t
    BY DEF Finished, Explore
  <1>3. /\ c \in IdSet(s.dynamic) /\ Tail(s.dynamic) \in L
        /\ IdSet(Tail(s.dynamic)) = IdSet(s.dynamic) \ {c}
    BY <1>1, <1>2, HeadOfListing
  <1> HIDE DEF L, c
  <1>4. /\ r \in U /\ r.candidates = s.candidates /\ r.visited = s.visited
        /\ r.dynamic = Tail(s.dynamic)
    BY <1>1, <1>3
  <1> HIDE DEF r
  <1>5. r \in Walks(ns, q, n, A)
    BY <1>1, <1>3, <1>4 DEF Walks, L
  <1>6. c \in A /\ c \notin E
    BY <1>1, <1>3 DEF Explored
  <1>7. ids \in Seq(DOMAIN ns) /\ ToSet(ids) \cap Live(ns) \subseteq A
    BY <1>6 DEF Closed
  <1> HIDE DEF ids
  <1>8. /\ t \in Walks(ns, q, n, A) /\ Later(r, t)
        /\ ToSet(ids) \cap Live(ns) \subseteq t.visited
    BY <1>5, <1>7, VisitAllInWalk
  <1> HIDE DEF t
  <1>9. Explored(ns, l, E \cup {c}, t)
    <2>1. E \cup {c} \subseteq t.visited
      BY <1>1, <1>3, <1>4, <1>8 DEF Explored, Later
    <2>2. (E \cup {c}) \cap IdSet(t.dynamic) = {}
      BY <1>1, <1>3, <1>4, <1>8 DEF Explored, Later
    <2>3. IdSet(t.candidates) \subseteq (E \cup {c}) \cup IdSet(t.dynamic)
      BY <1>3, <1>4, <1>8 DEF Explored, Later
    <2>4. \A e \in E \cup {c} : ToSet(GetConnections(ns[e], l)) \cap Live(ns) \subseteq t.visited
      BY <1>4, <1>8 DEF Explored, Later, ids
    <2> QED BY <2>1, <2>2, <2>3, <2>4 DEF Explored
  <1>10. Cardinality(E \cup {c}) = Cardinality(E) + 1
    <2>1. A \in SUBSET Id
      BY DEF Live, PointsOf
    <2> QED BY <1>6, <2>1, NodesAreFinite, FS_AddElement
  <1>11. E \cup {c} \in SUBSET A
    BY <1>6
  <1> QED BY <1>2, <1>8, <1>9, <1>10, <1>11

\* The walk has finished when it has made as many steps as there are nodes.
LEMMA WalkFinishes ==
    ASSUME NEW ns, PointsOf(ns), NEW q \in Point, NEW n \in Nat \ {0}, NEW l,
           NEW A \in SUBSET Live(ns), Closed(ns, A, l),
           NEW s \in Walks(ns, q, n, A), Explored(ns, l, {}, s)
    PROVE  LET t == Walk(ns, q, n, l, s) IN
           /\ t \in Walks(ns, q, n, A) /\ Finished(n, t)
           /\ \E E \in SUBSET A : Explored(ns, l, E, t)
  <1> DEFINE m == Cardinality(DOMAIN ns)
             Step(t) == Explore(ns, q, n, l, t)
             Body(f) == [k \in 0 .. m |-> IF k = 0 THEN s ELSE Step(f[k - 1])]
             after == CHOOSE f : f = Body(f)
             W == Walks(ns, q, n, A)
             Reached(t, k) == \E E \in SUBSET A :
                /\ Explored(ns, l, E, t)
                /\ Finished(n, t) \/ Cardinality(E) = k
             T == [k \in 0 .. m |-> {t \in W : Reached(t, k)}]
             g == [p \in W \X (1 .. m) |-> Step(p[1])]
  <1>0. m \in Nat
    BY NodesAreFinite DEF PointsOf
  <1>s. A \subseteq DOMAIN ns /\ A \in SUBSET Id
    BY DEF Live, PointsOf
  <1>1. Walk(ns, q, n, l, s) = after[m]
    BY DEF Walk
  <1>2. s \in T[0]
    <2>1. Cardinality({}) = 0
      BY FS_EmptySet
    <2>2. Reached(s, 0)
      BY <2>1
    <2> QED BY <1>0, <2>2
  <1>f. ASSUME NEW t \in W, Finished(n, t)
        PROVE  Step(t) = t
    BY <1>f DEF Explore
  <1>3. ASSUME NEW k \in 1 .. m, NEW t \in T[k - 1]
        PROVE  Step(t) \in T[k]
    <2>0. k \in 0 .. m /\ k - 1 \in 0 .. m
      BY <1>0
    <2>1. t \in W /\ Reached(t, k - 1)
      BY <2>0
    <2>2. PICK E \in SUBSET A : /\ Explored(ns, l, E, t)
                                /\ Finished(n, t) \/ Cardinality(E) = k - 1
      BY <2>1
    <2>3. CASE Finished(n, t)
      <3>1. Step(t) = t
        BY <1>f, <2>1, <2>3
      <3>2. Reached(t, k)
        BY <2>2, <2>3
      <3> QED BY <2>0, <2>1, <3>1, <3>2
    <2>4. CASE ~Finished(n, t)
      <3>1. /\ Step(t) \in W
            /\ \E F \in SUBSET A : /\ Explored(ns, l, F, Step(t))
                                   /\ Cardinality(F) = Cardinality(E) + 1
        BY <2>1, <2>2, <2>4, ExploreInWalk
      <3>2. PICK F \in SUBSET A : /\ Explored(ns, l, F, Step(t))
                                  /\ Cardinality(F) = Cardinality(E) + 1
        BY <3>1
      <3>3. Cardinality(F) = k
        BY <1>0, <2>2, <2>4, <3>2
      <3> HIDE DEF Step
      <3>4. Reached(Step(t), k)
        BY <3>2, <3>3
      <3> QED BY <2>0, <3>1, <3>4
    <2> QED BY <2>3, <2>4
  <1>4. \A k \in 0 .. m : \A t \in T[k] : t \in W
    OBVIOUS
  <1> HIDE DEF m, Step, W, T
  <1>5. \A k \in 1 .. m : \A t \in T[k - 1] : g[<<t, k>>] = Step(t)
    <2>1. \A k \in 1 .. m : k - 1 \in 0 .. m
      BY <1>0
    <2> QED BY <1>4, <2>1
  <1> HIDE DEF g
  <1>6. Carries(m, g, T)
    <2> SUFFICES ASSUME NEW k \in 1 .. m, NEW t \in T[k - 1]
                 PROVE  g[<<t, k>>] \in T[k]
      BY DEF Carries
    <2> QED BY <1>3, <1>5
  <1>7. PICK f : Iterates(f, m, s, g, T)
    BY <1>0, <1>2, <1>6, Iteration
  <1>8. f = Body(f)
    <2>1. \A k \in 1 .. m : k \in 0 .. m /\ k - 1 \in 0 .. m
      BY <1>0
    <2>2. \A k \in 1 .. m : f[k] = Step(f[k - 1])
      BY <1>5, <1>7, <2>1 DEF Iterates
    <2>3. \A k \in 0 .. m : k # 0 => k \in 1 .. m
      BY <1>0
    <2>4. \A k \in 0 .. m : f[k] = Body(f)[k]
      BY <1>7, <2>2, <2>3 DEF Iterates
    <2> QED BY <1>7, <2>4 DEF Iterates
  <1>9. after = Body(after)
    BY <1>8
  <1> HIDE DEF after
  <1>10. after[0] = s /\ \A k \in 1 .. m : after[k] = Step(after[k - 1])
    <2>1. \A k \in 1 .. m : k \in 0 .. m /\ k # 0
      BY <1>0
    <2>2. 0 \in 0 .. m
      BY <1>0
    <2>3. after[0] = Body(after)[0] /\ \A k \in 1 .. m : after[k] = Body(after)[k]
      BY <1>9
    <2> QED BY <2>1, <2>2, <2>3
  <1>11. \A k \in 1 .. m : after[k - 1] \in T[k - 1] => after[k] \in T[k]
    BY <1>3, <1>10
  <1>12. \A k \in 0 .. m : after[k] \in T[k]
    BY <1>0, <1>2, <1>10, <1>11, Stays
  <1> DEFINE t == after[m]
  <1>13. t \in W /\ Reached(t, m)
    <2>1. t \in T[m] /\ m \in 0 .. m
      BY <1>0, <1>12
    <2> QED BY <2>1 DEF T
  <1> HIDE DEF t
  <1>14. PICK E \in SUBSET A : Explored(ns, l, E, t) /\ (Finished(n, t) \/ Cardinality(E) = m)
    BY <1>13
  <1>15. ASSUME ~Finished(n, t)
         PROVE  FALSE
    <2>1. Cardinality(E) = m /\ E \in SUBSET DOMAIN ns /\ IsFiniteSet(DOMAIN ns)
      BY <1>14, <1>15, <1>s, NodesAreFinite DEF PointsOf
    <2>2. E = DOMAIN ns
      BY <2>1, FS_Subset DEF m
    <2>3. t.dynamic # <<>> /\ t.dynamic \in Listings(ns, q, A)
      BY <1>13, <1>15 DEF Finished, W, Walks
    <2>4. t.dynamic[1].id \in IdSet(t.dynamic) /\ IdSet(t.dynamic) \subseteq A
      BY <2>3, HeadOfListing, ListingElements
    <2> QED BY <1>s, <1>14, <2>2, <2>4 DEF Explored
  <1> QED BY <1>1, <1>13, <1>14, <1>15 DEF t, W

\* Every node of A links to every other.
Complete(ns, A, l) ==
    \A i \in A, j \in A : i # j => j \in ToSet(GetConnections(ns[i], l))

Finishes(ns, q, n, l, A, r) ==
    /\ r \in Seq(A) /\ Len(r) <= n /\ IsInjective(r) /\ r # <<>>
    /\ \A j, k \in DOMAIN r : j <= k => Far(ns, q, r[j]) <= Far(ns, q, r[k])
    /\ \A i \in ToSet(GetConnections(ns[r[1]], l)) \cap Live(ns) : Far(ns, q, r[1]) <= Far(ns, q, i)
    /\ Complete(ns, A, l) /\ Cardinality(A) <= n => ToSet(r) = A

\* What a walk that has finished has found: its best is at least as near as the
\* neighbours of the best, and it has all of A when A is complete and not too large.
LEMMA WalkFinds ==
    ASSUME NEW ns, PointsOf(ns), NEW q \in Point, NEW n \in Nat \ {0}, NEW l,
           NEW A \in SUBSET Live(ns), NEW s \in Walks(ns, q, n, A), Finished(n, s),
           NEW E \in SUBSET A, Explored(ns, l, E, s)
    PROVE  Finishes(ns, q, n, l, A, Ids(First(s.candidates, n)))
  <1> DEFINE c == s.candidates
             r == Ids(First(c, n))
  <1>1. /\ c \in Listings(ns, q, A) /\ s.dynamic \in Listings(ns, q, A)
        /\ s.visited \in SUBSET A /\ c # <<>> /\ IdSet(c) \subseteq s.visited
        /\ \A i \in s.visited : c[1].distance <= Far(ns, q, i)
        /\ Cardinality(A) <= n => IdSet(c) = s.visited
    BY DEF Walks
  <1>s. A \in SUBSET Id /\ Cardinality(A) \in Nat
    BY NodesAreFinite DEF Live, PointsOf
  <1>2. /\ c \in Seq(Candidate) /\ Len(c) \in Nat /\ DOMAIN c = 1 .. Len(c)
        /\ \A k \in DOMAIN c : /\ c[k].id \in A /\ c[k].id \in IdSet(c) /\ c[k].distance \in Int
                               /\ c[k].distance = Far(ns, q, c[k].id)
        /\ \A j, k \in DOMAIN c : j <= k => c[j].distance <= c[k].distance
    BY <1>1, ListingElements
  <1>3. 1 \in DOMAIN c /\ Len(c) > 0
    BY <1>1, <1>2
  <1>4. /\ r \in Seq(A) /\ Len(r) = (IF n < Len(c) THEN n ELSE Len(c))
        /\ IsInjective(r) /\ ToSet(r) \subseteq IdSet(c)
        /\ \A j, k \in DOMAIN r : j <= k => Far(ns, q, r[j]) <= Far(ns, q, r[k])
        /\ Len(c) <= n => ToSet(r) = IdSet(c)
        /\ r # <<>> => r[1] = c[1].id
    BY <1>1, FirstOfListing
  <1>5. Len(r) <= n /\ r # <<>>
    BY <1>2, <1>3, <1>4
  <1> HIDE DEF r, c
  <1>6. c[1].id \in E
    <2>1. c[1].id \notin IdSet(s.dynamic)
      <3> SUFFICES ASSUME c[1].id \in IdSet(s.dynamic)
                   PROVE  FALSE
        OBVIOUS
      <3>1. s.dynamic # <<>>
        BY DEF IdSet
      <3>2. /\ n \in DOMAIN c /\ Head(s.dynamic).distance > c[n].distance
        BY <1>2, <3>1 DEF Finished, c
      <3>3. /\ Head(s.dynamic).distance <= Far(ns, q, c[1].id)
            /\ Head(s.dynamic) = s.dynamic[1] /\ 1 \in DOMAIN s.dynamic
        BY <1>1, <3>1, HeadOfListing
      <3>4. Head(s.dynamic).distance \in Int
        BY <1>1, <3>3, ListingElements
      <3>5. c[1].distance <= c[n].distance
        BY <1>2, <1>3, <3>2
      <3> QED BY <1>2, <1>3, <3>2, <3>3, <3>4, <3>5
    <2>2. c[1].id \in IdSet(c)
      BY <1>2, <1>3
    <2> QED BY <2>1, <2>2 DEF Explored, c
  <1>7. ASSUME NEW i \in ToSet(GetConnections(ns[r[1]], l)) \cap Live(ns)
        PROVE  Far(ns, q, r[1]) <= Far(ns, q, i)
    <2>1. r[1] = c[1].id
      BY <1>4, <1>5
    <2>2. i \in s.visited
      BY <1>6, <2>1 DEF Explored
    <2> QED BY <1>1, <1>2, <1>3, <2>1, <2>2
  <1>8. ASSUME Complete(ns, A, l), Cardinality(A) <= n
        PROVE  ToSet(r) = A
    <2>1. IdSet(c) = A
      <3>1. CASE s.dynamic = <<>>
        <4>1. A \subseteq s.visited
          <5> SUFFICES ASSUME NEW j \in A
                       PROVE  j \in s.visited
            OBVIOUS
          <5>1. CASE j = c[1].id
            BY <1>6, <5>1 DEF Explored
          <5>2. CASE j # c[1].id
            <6>1. c[1].id \in A
              BY <1>2, <1>3
            <6>2. j \in ToSet(GetConnections(ns[c[1].id], l))
              BY <1>8, <5>2, <6>1 DEF Complete
            <6>3. j \in Live(ns)
              OBVIOUS
            <6> QED BY <1>6, <6>2, <6>3 DEF Explored
          <5> QED BY <5>1, <5>2
        <4> QED BY <1>1, <1>8, <4>1
      <3>2. CASE s.dynamic # <<>>
        <4>1. Len(c) >= n
          BY <3>2 DEF Finished, c
        <4>2. Cardinality(A) <= Len(c)
          BY <1>2, <1>s, <1>8, <4>1
        <4> QED BY <1>1, <1>s, <4>2, ListingCount
      <3> QED BY <3>1, <3>2
    <2>2. Len(c) <= Cardinality(A)
      BY <1>1, <1>s, ListingCount
    <2>3. Len(c) <= n
      BY <1>2, <1>s, <1>8, <2>2
    <2> QED BY <1>4, <2>1, <2>3
  <1> QED BY <1>4, <1>5, <1>7, <1>8 DEF Finishes, r, c

\* searchLayer, from live nodes of a closed set A.
LEMMA SearchLayerFinds ==
    ASSUME NEW ns, PointsOf(ns), NEW q \in Point, NEW n \in Nat \ {0}, NEW l,
           NEW A \in SUBSET Live(ns), Closed(ns, A, l),
           NEW eps \in Seq(A), IsInjective(eps), eps # <<>>
    PROVE  Finishes(ns, q, n, l, A, SearchLayer(ns, q, eps, n, l))
  <1> DEFINE start == SortCandidates(ns, q, eps, Live(ns))
             s == [candidates |-> start, dynamic |-> start,
                   visited |-> ToSet(eps) \cap Live(ns)]
             end == Walk(ns, q, n, l, s)
  <1>1. A \subseteq DOMAIN ns /\ eps \in Seq(DOMAIN ns)
    BY DEF Live
  <1>2. ToSet(eps) \subseteq A /\ ToSet(eps) \cap Live(ns) = ToSet(eps) /\ ToSet(eps) # {}
    <2>1. \A k \in DOMAIN eps : eps[k] \in A
      OBVIOUS
    <2>2. 1 \in DOMAIN eps
      OBVIOUS
    <2> QED BY <2>1, <2>2 DEF ToSet
  <1>3. /\ start \in Listings(ns, q, DOMAIN ns)
        /\ IdSet(start) = ToSet(eps) \cap Live(ns)
    BY <1>1, SortedListing
  <1> HIDE DEF start
  <1>4. start \in Listings(ns, q, A)
    BY <1>2, <1>3 DEF Listings
  <1>5. start # <<>>
    BY <1>2, <1>3 DEF IdSet
  <1>6. s \in Walks(ns, q, n, A)
    <2>1. \A i \in s.visited : s.candidates[1].distance <= Far(ns, q, i)
      BY <1>3, <1>4, <1>5, HeadOfListing
    <2>2. s \in [candidates : Listings(ns, q, A), dynamic : Listings(ns, q, A), visited : SUBSET A]
      BY <1>2, <1>4
    <2> QED BY <1>3, <1>5, <2>1, <2>2 DEF Walks
  <1>7. Explored(ns, l, {}, s)
    BY DEF Explored
  <1>8. SearchLayer(ns, q, eps, n, l) = Ids(First(end.candidates, n))
    BY DEF SearchLayer, start
  <1> HIDE DEF s
  <1>9. /\ end \in Walks(ns, q, n, A) /\ Finished(n, end)
        /\ \E E \in SUBSET A : Explored(ns, l, E, end)
    BY <1>6, <1>7, WalkFinishes
  <1> HIDE DEF end
  <1>10. Finishes(ns, q, n, l, A, Ids(First(end.candidates, n)))
    BY <1>9, WalkFinds
  <1> QED BY <1>8, <1>10

\* What one layer hands down to the next: some distinct nodes of A.
EntryPoints(A) == {eps \in Seq(A) : IsInjective(eps) /\ eps # <<>>}

\* The greedy descent ends at nodes of A.
LEMMA DescendFinds ==
    ASSUME NEW ns, PointsOf(ns), NEW q \in Point, NEW A \in SUBSET Live(ns),
           NEW from \in Int, NEW to \in Int, to <= from,
           \A l \in to + 1 .. from : Closed(ns, A, l), NEW entry \in A
    PROVE  Descend(ns, q, entry, from, to) \in EntryPoints(A)
  <1> DEFINE m == from - to
             Step(eps, k) == SearchLayer(ns, q, eps, 1, from + 1 - k)
             Body(f) == [k \in 0 .. m |-> IF k = 0 THEN <<entry>> ELSE Step(f[k - 1], k)]
             points == CHOOSE f : f = Body(f)
             W == EntryPoints(A)
             T == [k \in 0 .. m |-> W]
             g == [p \in W \X (1 .. m) |-> Step(p[1], p[2])]
  <1>0. m \in Nat
    OBVIOUS
  <1>1. Descend(ns, q, entry, from, to) = points[m]
    BY DEF Descend
  <1>2. <<entry>> \in T[0]
    BY <1>0 DEF EntryPoints, IsInjective
  <1>3. ASSUME NEW k \in 1 .. m, NEW eps \in T[k - 1]
        PROVE  Step(eps, k) \in T[k]
    <2>0. k \in 0 .. m /\ k - 1 \in 0 .. m
      BY <1>0
    <2>1. eps \in Seq(A) /\ IsInjective(eps) /\ eps # <<>>
      BY <2>0 DEF EntryPoints
    <2>2. from + 1 - k \in to + 1 .. from
      BY <1>0
    <2>3. Closed(ns, A, from + 1 - k) /\ 1 \in Nat \ {0}
      BY <2>2
    <2>4. Finishes(ns, q, 1, from + 1 - k, A, Step(eps, k))
      BY <2>1, <2>3, SearchLayerFinds
    <2> HIDE DEF Step
    <2> QED BY <2>0, <2>4 DEF Finishes, EntryPoints
  <1>4. \A k \in 0 .. m : \A eps \in T[k] : eps \in W
    OBVIOUS
  <1> HIDE DEF m, Step, W, T
  <1>5. \A k \in 1 .. m : \A eps \in T[k - 1] : g[<<eps, k>>] = Step(eps, k)
    <2>1. \A k \in 1 .. m : k - 1 \in 0 .. m
      BY <1>0
    <2> QED BY <1>4, <2>1
  <1> HIDE DEF g
  <1>6. Carries(m, g, T)
    <2> SUFFICES ASSUME NEW k \in 1 .. m, NEW eps \in T[k - 1]
                 PROVE  g[<<eps, k>>] \in T[k]
      BY DEF Carries
    <2> QED BY <1>3, <1>5
  <1>7. PICK f : Iterates(f, m, <<entry>>, g, T)
    BY <1>0, <1>2, <1>6, Iteration
  <1>8. f = Body(f)
    <2>1. \A k \in 1 .. m : k \in 0 .. m /\ k - 1 \in 0 .. m
      BY <1>0
    <2>2. \A k \in 1 .. m : f[k] = Step(f[k - 1], k)
      BY <1>5, <1>7, <2>1 DEF Iterates
    <2>3. \A k \in 0 .. m : k # 0 => k \in 1 .. m
      BY <1>0
    <2>4. \A k \in 0 .. m : f[k] = Body(f)[k]
      BY <1>7, <2>2, <2>3 DEF Iterates
    <2> QED BY <1>7, <2>4 DEF Iterates
  <1>9. points = Body(points)
    BY <1>8
  <1> HIDE DEF points
  <1>10. points[0] = <<entry>> /\ \A k \in 1 .. m : points[k] = Step(points[k - 1], k)
    <2>1. \A k \in 1 .. m : k \in 0 .. m /\ k # 0
      BY <1>0
    <2>2. 0 \in 0 .. m
      BY <1>0
    <2>3. points[0] = Body(points)[0] /\ \A k \in 1 .. m : points[k] = Body(points)[k]
      BY <1>9
    <2> QED BY <2>1, <2>2, <2>3
  <1>11. \A k \in 1 .. m : points[k - 1] \in T[k - 1] => points[k] \in T[k]
    BY <1>3, <1>10
  <1>12. \A k \in 0 .. m : points[k] \in T[k]
    BY <1>0, <1>2, <1>10, <1>11, Stays
  <1>13. points[m] \in T[m] /\ m \in 0 .. m
    BY <1>0, <1>12
  <1> QED BY <1>1, <1>13 DEF T, W

\* The neighbours selected for a new node: no more than it may have, all candidates
\* when they are no more than that.
LEMMA SelectNeighborsOf ==
    ASSUME NEW ns, PointsOf(ns), NEW q \in Point, NEW A \in SUBSET DOMAIN ns,
           NEW candidates \in EntryPoints(A), NEW n \in Nat \ {0}
    PROVE  LET selected == SelectNeighbors(ns, q, candidates, n) IN
           /\ selected \in EntryPoints(A) /\ Len(selected) <= n
           /\ ToSet(selected) \subseteq ToSet(candidates)
           /\ Len(candidates) <= n => selected = candidates
  <1> DEFINE list == SortCandidates(ns, q, candidates, DOMAIN ns)
             r == Ids(First(list, n))
             selected == SelectNeighbors(ns, q, candidates, n)
  <1>1. candidates \in Seq(A) /\ IsInjective(candidates) /\ candidates # <<>>
    BY DEF EntryPoints
  <1>2. Len(candidates) \in Nat /\ candidates \in Seq(DOMAIN ns)
    BY <1>1
  <1>3. CASE Len(candidates) <= n
    <2>1. selected = candidates
      BY <1>3 DEF SelectNeighbors
    <2> HIDE DEF selected
    <2> QED BY <1>3, <2>1 DEF selected
  <1>4. CASE ~(Len(candidates) <= n)
    <2>1. selected = r
      BY <1>4 DEF SelectNeighbors
    <2>2. /\ list \in Listings(ns, q, DOMAIN ns)
          /\ IdSet(list) = ToSet(candidates) \cap DOMAIN ns
      BY <1>1, <1>2, SortedListing
    <2>3. ToSet(candidates) \subseteq A /\ 1 \in DOMAIN candidates
      BY <1>1 DEF ToSet
    <2>4. IdSet(list) = ToSet(candidates) /\ ToSet(candidates) # {}
      BY <2>2, <2>3 DEF ToSet
    <2> HIDE DEF list
    <2>5. list \in Listings(ns, q, A)
      BY <2>2, <2>3, <2>4 DEF Listings
    <2>6. list # <<>> /\ Len(list) \in Nat /\ list \in Seq(Candidate)
      BY <2>4, <2>5, ListingElements DEF IdSet
    <2>7. /\ r \in Seq(A) /\ Len(r) = (IF n < Len(list) THEN n ELSE Len(list))
          /\ IsInjective(r) /\ ToSet(r) \subseteq IdSet(list)
      BY <2>5, FirstOfListing
    <2> HIDE DEF r
    <2>8. Len(r) <= n /\ r # <<>>
      <3>1. Len(list) > 0
        BY <2>6
      <3>2. Len(r) > 0 /\ Len(r) <= n
        BY <2>6, <2>7, <3>1
      <3> QED BY <3>2
    <2> HIDE DEF selected
    <2>9. selected \in EntryPoints(A)
      BY <2>1, <2>7, <2>8 DEF EntryPoints
    <2> QED BY <1>4, <2>1, <2>4, <2>7, <2>8, <2>9 DEF selected
  <1> QED BY <1>3, <1>4

-----------------------------------------------------------------------------
(* Links: what an insertion does to the nodes at one layer.                *)

AnyNode == UNION {Node(layer) : layer \in Layer}
Maps(D) == [D -> AnyNode]

\* Nothing but links has changed between two maps.
SameNodes(t, u) ==
    /\ DOMAIN u = DOMAIN t
    /\ \A i \in DOMAIN t : /\ u[i].vector = t[i].vector /\ u[i].deleted = t[i].deleted
                           /\ DOMAIN u[i].connections = DOMAIN t[i].connections

\* A node has links at the layers up to its own.
LEMMA NodeHeight ==
    ASSUME NEW D, NEW t \in Maps(D), NEW i \in D
    PROVE  \E h \in Layer : /\ t[i] \in Node(h) /\ t[i].connections \in [0 .. h -> Seq(Id)]
                            /\ DOMAIN t[i].connections = 0 .. h
                            /\ t[i].vector \in Point /\ t[i].deleted \in BOOLEAN
  <1>1. t[i] \in AnyNode
    BY DEF Maps
  <1>2. PICK h \in Layer : t[i] \in Node(h)
    BY <1>1 DEF AnyNode
  <1> QED BY <1>2 DEF Node

\* Setting the links of a node at one layer changes nothing else.
LEMMA SetConnectionsOf ==
    ASSUME NEW D, NEW t \in Maps(D), NEW i \in D, NEW l \in DOMAIN t[i].connections,
           NEW c \in Seq(Id)
    PROVE  LET u == SetConnections(t, i, l, c) IN
           /\ u \in Maps(D) /\ SameNodes(t, u) /\ u[i].connections[l] = c
           /\ \A j \in D : \A x \in DOMAIN t[j].connections :
                 j # i \/ x # l => u[j].connections[x] = t[j].connections[x]
  <1> DEFINE u == SetConnections(t, i, l, c)
             links == [t[i].connections EXCEPT ![l] = c]
             node == [t[i] EXCEPT !.connections = links]
  <1>1. PICK h \in Layer : /\ t[i] \in Node(h) /\ t[i].connections \in [0 .. h -> Seq(Id)]
                           /\ DOMAIN t[i].connections = 0 .. h
    BY NodeHeight
  <1>2. u = [t EXCEPT ![i] = node]
    BY DEF SetConnections
  <1>3. /\ links \in [0 .. h -> Seq(Id)] /\ links[l] = c
        /\ \A x \in 0 .. h : x # l => links[x] = t[i].connections[x]
    BY <1>1
  <1> HIDE DEF links
  <1>4. /\ node \in Node(h) /\ node.connections = links
        /\ node.vector = t[i].vector /\ node.deleted = t[i].deleted
    BY <1>1, <1>3 DEF Node
  <1> HIDE DEF node
  <1>5. node \in AnyNode
    BY <1>4 DEF AnyNode
  <1> HIDE DEF u
  <1>6. DOMAIN t = D
    BY DEF Maps
  <1>7. u \in Maps(D) /\ u[i] = node /\ \A j \in D : j # i => u[j] = t[j]
    BY <1>2, <1>5 DEF Maps
  <1>8. DOMAIN u = D
    BY <1>7 DEF Maps
  <1>9. SameNodes(t, u)
    <2>1. ASSUME NEW j \in D
          PROVE  /\ u[j].vector = t[j].vector /\ u[j].deleted = t[j].deleted
                 /\ DOMAIN u[j].connections = DOMAIN t[j].connections
      <3>1. CASE j = i
        BY <1>1, <1>3, <1>4, <1>7, <3>1
      <3>2. CASE j # i
        BY <1>7, <3>2
      <3> QED BY <3>1, <3>2
    <2> QED BY <1>6, <1>8, <2>1 DEF SameNodes
  <1>10. u[i].connections[l] = c
    BY <1>3, <1>4, <1>7
  <1>11. ASSUME NEW j \in D, NEW x \in DOMAIN t[j].connections, j # i \/ x # l
         PROVE  u[j].connections[x] = t[j].connections[x]
    <2>1. CASE j = i
      BY <1>1, <1>3, <1>4, <1>7, <1>11, <2>1
    <2>2. CASE j # i
      BY <1>7, <2>2
    <2> QED BY <2>1, <2>2
  <1> QED BY <1>7, <1>9, <1>10, <1>11 DEF u

LEMMA SameNodesTransitive ==
    ASSUME NEW t, NEW u, NEW v, SameNodes(t, u), SameNodes(u, v)
    PROVE  SameNodes(t, v)
BY DEF SameNodes

LEMMA SameNodesLive ==
    ASSUME NEW t, NEW u, SameNodes(t, u)
    PROVE  Live(u) = Live(t) /\ (PointsOf(t) => PointsOf(u))
BY DEF SameNodes, Live, PointsOf

\* The links c of node i, after it has linked back to the new node id at layer l: old
\* links and one to id, no more than allowed; none to a live node is dropped while the
\* live nodes are few.
LinksBack(ns, id, l, i, c) ==
    /\ c \in Seq(DOMAIN ns \ {i}) /\ IsInjective(c) /\ Len(c) <= MaxConnections(l)
    /\ ToSet(c) \subseteq ToSet(ns[i].connections[l]) \cup {id}
    /\ Cardinality(Live(ns)) <= MaxConnections(l) + 1 =>
          (ToSet(ns[i].connections[l]) \cap Live(ns)) \cup {id} \subseteq ToSet(c)

\* t is ns after id has been linked with the nodes "done" at layer l.
LinkedWith(ns, id, l, done, t) ==
    /\ t \in Maps(DOMAIN ns) /\ SameNodes(ns, t)
    /\ \A i \in DOMAIN ns : \A x \in DOMAIN ns[i].connections :
          x # l => t[i].connections[x] = ns[i].connections[x]
    /\ \A i \in DOMAIN ns \ {id} : l \in DOMAIN ns[i].connections =>
          /\ i \in done => LinksBack(ns, id, l, i, t[i].connections[l])
          /\ i \notin done => t[i].connections[l] = ns[i].connections[l]

\* The new node id has no links at layer l yet, to or from it.
Ready(ns, id, l) ==
    /\ ns \in Maps(DOMAIN ns) /\ DOMAIN ns \subseteq Id /\ id \in Live(ns)
    /\ l \in DOMAIN ns[id].connections /\ ns[id].connections[l] = <<>>
    /\ \A i \in DOMAIN ns \ {id} : l \in DOMAIN ns[i].connections =>
          /\ ns[i].connections[l] \in Seq(DOMAIN ns \ {i, id})
          /\ IsInjective(ns[i].connections[l])
          /\ Len(ns[i].connections[l]) <= MaxConnections(l)

LEMMA Widths == \A l : MaxConnections(l) \in Nat \ {0}
BY GraphAssumption DEF MaxConnections

\* The links that pruning leaves.
IsPruned(t, i, l, c, r) ==
    /\ r \in Seq(DOMAIN t \ {i}) /\ IsInjective(r) /\ Len(r) <= MaxConnections(l)
    /\ ToSet(r) \subseteq ToSet(c)
    /\ Cardinality(Live(t)) <= MaxConnections(l) + 1 => ToSet(r) = ToSet(c) \cap Live(t)

LEMMA PrunedLinks ==
    ASSUME NEW t, PointsOf(t), NEW i \in DOMAIN t, NEW l,
           NEW c \in Seq(DOMAIN t \ {i}), IsInjective(c), i \in Live(t),
           l \in DOMAIN t[i].connections, t[i].connections[l] = c
    PROVE  IsPruned(t, i, l, c, Pruned(t, i, l))
  <1> DEFINE q == t[i].vector
             D == DOMAIN t
             n == MaxConnections(l)
             list == SortCandidates(t, q, c, Live(t))
             r == Ids(First(list, n))
  <1>1. Pruned(t, i, l) = r
    BY DEF Pruned, GetConnections
  <1>2. q \in Point /\ c \in Seq(D) /\ n \in Nat
    BY Widths DEF PointsOf
  <1>3. list \in Listings(t, q, D) /\ IdSet(list) = ToSet(c) \cap Live(t)
    BY <1>2, SortedListing
  <1>4. ToSet(c) \subseteq D \ {i}
    BY DEF ToSet
  <1> HIDE DEF list, q, n
  <1>5. list \in Listings(t, q, D \ {i}) /\ list \in Listings(t, q, Live(t) \ {i})
    BY <1>3, <1>4 DEF Listings
  <1>6. /\ r \in Seq(D \ {i}) /\ Len(r) = (IF n < Len(list) THEN n ELSE Len(list))
        /\ IsInjective(r) /\ ToSet(r) \subseteq IdSet(list)
        /\ Len(list) <= n => ToSet(r) = IdSet(list)
    BY <1>2, <1>5, FirstOfListing
  <1>7. Len(list) \in Nat
    BY <1>5, ListingElements
  <1>8. Cardinality(Live(t)) <= n + 1 => Len(list) <= n
    <2>1. Live(t) \in SUBSET Id /\ Live(t) \ {i} \in SUBSET Id
      BY DEF Live, PointsOf
    <2>2. Cardinality(Live(t) \ {i}) = Cardinality(Live(t)) - 1 /\ Cardinality(Live(t)) \in Nat
      BY <2>1, NodesAreFinite, FS_RemoveElement
    <2>3. Len(list) <= Cardinality(Live(t) \ {i})
      BY <1>5, <2>1, ListingCount
    <2> QED BY <1>2, <1>7, <2>2, <2>3
  <1>9. Len(r) <= n
    BY <1>2, <1>6, <1>7
  <1> QED BY <1>1, <1>3, <1>6, <1>8, <1>9 DEF n, IsPruned

\* One neighbour, n, after those in "done", which the new node lists as c.
IsNext(ns, id, l, done, t, c, n) ==
    /\ Ready(ns, id, l) /\ LinkedWith(ns, id, l, done, t)
    /\ n \in Live(ns) \ {id} /\ n \notin done
    /\ t[id].connections[l] = c /\ n \notin ToSet(c)

IsLinked(ns, id, l, done, c, n, t) ==
    /\ LinkedWith(ns, id, l, done \cup {n}, t)
    /\ t[id].connections[l] = Append(c, n)

\* Linking one neighbour: no other node, and no other layer, is touched.
LEMMA LinkOne ==
    ASSUME NEW ns, NEW id, NEW l, NEW done, NEW t, NEW c, NEW n,
           IsNext(ns, id, l, done, t, c, n)
    PROVE  IsLinked(ns, id, l, done, c, n, Link(t, id, l, n))
  <1> DEFINE D == DOMAIN ns
             t1 == AddConnection(t, id, l, n)
             t2 == AddConnection(t1, n, l, id)
             u == PruneConnections(t2, n, l)
             old == ns[n].connections[l]
             Others(v, w) == \A j \in D : \A x \in DOMAIN ns[j].connections :
                                x # l => w[j].connections[x] = v[j].connections[x]
  <1>a. /\ Ready(ns, id, l) /\ LinkedWith(ns, id, l, done, t)
        /\ n \in Live(ns) \ {id} /\ n \notin done
        /\ t[id].connections[l] = c /\ n \notin ToSet(c)
    BY DEF IsNext
  <1>0. Link(t, id, l, n) = u
    BY DEF Link
  <1>1. /\ id \in D /\ n \in D /\ n # id /\ D \subseteq Id /\ t \in Maps(D) /\ SameNodes(ns, t)
        /\ Others(ns, t)
    BY <1>a DEF Ready, LinkedWith, Live
  <1>2. l \in DOMAIN t[id].connections /\ c \in Seq(Id)
    <2>1. l \in DOMAIN t[id].connections
      BY <1>1, <1>a DEF Ready, SameNodes
    <2>2. PICK h \in Layer : /\ t[id].connections \in [0 .. h -> Seq(Id)]
                             /\ DOMAIN t[id].connections = 0 .. h
      BY <1>1, NodeHeight
    <2> QED BY <1>a, <2>1, <2>2
  <1>3. t1 = SetConnections(t, id, l, Append(c, n))
    <2>1. ~Contains(c, n)
      BY <1>2, <1>a DEF Contains, ToSet
    <2> QED BY <1>2, <1>a, <2>1 DEF AddConnection
  <1>4. Append(c, n) \in Seq(Id)
    BY <1>1, <1>2
  <1>5. /\ t1 \in Maps(D) /\ SameNodes(t, t1) /\ t1[id].connections[l] = Append(c, n)
        /\ \A j \in D : \A x \in DOMAIN t[j].connections :
              j # id \/ x # l => t1[j].connections[x] = t[j].connections[x]
    <2> DEFINE e == Append(c, n)
    <2>1. e \in Seq(Id) /\ t1 = SetConnections(t, id, l, e)
      BY <1>3, <1>4
    <2> HIDE DEF e, t1, D
    <2>2. /\ t1 \in Maps(D) /\ SameNodes(t, t1) /\ t1[id].connections[l] = e
          /\ \A j \in D : \A x \in DOMAIN t[j].connections :
                j # id \/ x # l => t1[j].connections[x] = t[j].connections[x]
      BY <1>1, <1>2, <2>1, SetConnectionsOf
    <2> QED BY <2>2 DEF e
  <1> HIDE DEF t1
  <1>6. SameNodes(ns, t1)
    BY <1>1, <1>5, SameNodesTransitive
  <1>7. DOMAIN t = D /\ DOMAIN t1 = D
        /\ \A j \in D : /\ DOMAIN t[j].connections = DOMAIN ns[j].connections
                        /\ DOMAIN t1[j].connections = DOMAIN ns[j].connections
    BY <1>1, <1>6 DEF SameNodes
  <1>8. Others(ns, t1)
    BY <1>1, <1>5, <1>7
  <1>9. CASE l \notin DOMAIN ns[n].connections
    <2>1. t2 = t1
      BY <1>1, <1>7, <1>9 DEF AddConnection
    <2>2. GetConnections(t1[n], l) = <<>>
      BY <1>1, <1>7, <1>9 DEF GetConnections
    <2>3. u = t1
      <3>1. Len(<<>>) <= MaxConnections(l)
        BY Widths
      <3> QED BY <2>1, <2>2, <3>1 DEF PruneConnections
    <2>4. LinkedWith(ns, id, l, done \cup {n}, t1)
      <3> SUFFICES ASSUME NEW i \in D \ {id}, l \in DOMAIN ns[i].connections
                   PROVE  /\ i \in done \cup {n} => LinksBack(ns, id, l, i, t1[i].connections[l])
                          /\ i \notin done \cup {n} => t1[i].connections[l] = ns[i].connections[l]
        BY <1>5, <1>6, <1>8 DEF LinkedWith
      <3>1. i # n /\ t1[i].connections[l] = t[i].connections[l]
        BY <1>5, <1>7, <1>9
      <3> QED BY <1>a, <3>1 DEF LinkedWith
    <2> QED BY <1>0, <1>5, <2>3, <2>4 DEF IsLinked
  <1>10. CASE l \in DOMAIN ns[n].connections
    <2>1. /\ old \in Seq(D \ {n, id}) /\ IsInjective(old) /\ Len(old) <= MaxConnections(l)
      BY <1>1, <1>10, <1>a DEF Ready
    <2>2. t1[n].connections[l] = old
      BY <1>1, <1>5, <1>7, <1>10, <1>a DEF LinkedWith
    <2>3. id \notin ToSet(old) /\ ToSet(old) \subseteq D
      <3>1. \A k \in DOMAIN old : old[k] \in D \ {n, id}
        BY <2>1
      <3> QED BY <3>1 DEF ToSet
    <2> HIDE DEF old
    <2> DEFINE new == Append(old, id)
    <2>4. /\ new \in Seq(D \ {n}) /\ new \in Seq(Id) /\ IsInjective(new)
          /\ ToSet(new) = ToSet(old) \cup {id} /\ Len(new) = Len(old) + 1
      <3>1. old \in Seq(D \ {n}) /\ id \in D \ {n} /\ Len(old) \in Nat /\ DOMAIN old = 1 .. Len(old)
        <4>1. \A k \in 1 .. Len(old) : old[k] \in D \ {n}
          BY <2>1
        <4> QED BY <1>1, <2>1, <4>1
      <3>2. /\ new \in Seq(D \ {n}) /\ Len(new) = Len(old) + 1 /\ new[Len(old) + 1] = id
            /\ \A k \in 1 .. Len(old) : new[k] = old[k]
        BY <3>1
      <3>3. DOMAIN new = 1 .. Len(old) + 1
        BY <3>2
      <3> HIDE DEF new
      <3>4. new \in Seq(Id)
        <4>1. \A k \in 1 .. Len(new) : new[k] \in Id
          BY <1>1, <3>1, <3>2, <3>3
        <4> QED BY <3>2, <4>1
      <3>5. \A k \in DOMAIN new : k \in DOMAIN old \/ k = Len(old) + 1
        BY <3>1, <3>3
      <3>6. \A k \in DOMAIN old : k \in DOMAIN new /\ new[k] = old[k] /\ old[k] # id
        BY <2>3, <3>1, <3>2, <3>3 DEF ToSet
      <3>7. ToSet(new) = ToSet(old) \cup {id}
        <4>1. Len(old) + 1 \in DOMAIN new
          BY <3>1, <3>3
        <4> QED BY <3>2, <3>5, <3>6, <4>1 DEF ToSet
      <3>8. IsInjective(new)
        BY <2>1, <3>2, <3>5, <3>6 DEF IsInjective
      <3> QED BY <3>2, <3>4, <3>7, <3>8
    <2> HIDE DEF new
    <2>5. t2 = SetConnections(t1, n, l, new)
      <3>1. ~Contains(old, id)
        BY <2>1, <2>3 DEF Contains, ToSet
      <3> QED BY <1>1, <1>7, <1>10, <2>2, <3>1 DEF AddConnection, new
    <2>6. /\ t2 \in Maps(D) /\ SameNodes(t1, t2) /\ t2[n].connections[l] = new
          /\ \A j \in D : \A x \in DOMAIN t1[j].connections :
                j # n \/ x # l => t2[j].connections[x] = t1[j].connections[x]
      <3> HIDE DEF D, t2
      <3>1. t1 \in Maps(D) /\ n \in D /\ l \in DOMAIN t1[n].connections /\ new \in Seq(Id)
        BY <1>1, <1>5, <1>7, <1>10, <2>4
      <3> QED BY ONLY <2>5, <3>1, SetConnectionsOf
    <2> HIDE DEF t2
    <2>7. SameNodes(ns, t2)
      BY <1>6, <2>6, SameNodesTransitive
    <2>8. DOMAIN t2 = D
          /\ \A j \in D : DOMAIN t2[j].connections = DOMAIN ns[j].connections
      BY <2>7 DEF SameNodes
    <2>9. Live(t2) = Live(ns) /\ PointsOf(t2)
      <3>1. Live(t2) = Live(ns)
        BY <2>7, SameNodesLive
      <3>2. PointsOf(t2)
        BY <1>1, <2>6, <2>8, NodeHeight DEF PointsOf
      <3> QED BY <3>1, <3>2
    <2>10. GetConnections(t2[n], l) = new
      BY <1>1, <1>10, <2>6, <2>8 DEF GetConnections
    <2> DEFINE Good(v) == /\ v \in Maps(D) /\ SameNodes(ns, v)
                          /\ \A j \in D : \A x \in DOMAIN ns[j].connections :
                                j # n \/ x # l => v[j].connections[x] = t2[j].connections[x]
                          /\ LinksBack(ns, id, l, n, v[n].connections[l])
    <2>11. Good(u)
      <3>1. CASE Len(new) <= MaxConnections(l)
        <4>1. u = t2
          BY <2>10, <3>1 DEF PruneConnections
        <4>2. LinksBack(ns, id, l, n, new)
          BY <2>4, <3>1 DEF LinksBack, old
        <4> QED BY <2>6, <2>7, <4>1, <4>2
      <3>2. CASE ~(Len(new) <= MaxConnections(l))
        <4> DEFINE r == Pruned(t2, n, l)
        <4>1. u = SetConnections(t2, n, l, r)
          BY <2>10, <3>2 DEF PruneConnections
        <4>2. /\ r \in Seq(D \ {n}) /\ IsInjective(r) /\ Len(r) <= MaxConnections(l)
              /\ ToSet(r) \subseteq ToSet(new)
              /\ Cardinality(Live(ns)) <= MaxConnections(l) + 1 => ToSet(r) = ToSet(new) \cap Live(ns)
          <5>1. /\ n \in DOMAIN t2 /\ new \in Seq(DOMAIN t2 \ {n}) /\ n \in Live(t2)
                /\ l \in DOMAIN t2[n].connections /\ t2[n].connections[l] = new
            BY <1>1, <1>10, <1>a, <2>4, <2>6, <2>8, <2>9
          <5> HIDE DEF r
          <5>2. IsPruned(t2, n, l, new, r)
            <6> USE DEF r
            <6>1. IsInjective(new) /\ PointsOf(t2)
              BY <2>4, <2>9
            <6> QED BY ONLY <5>1, <6>1, PrunedLinks
          <5> QED BY <2>8, <2>9, <5>2 DEF IsPruned
        <4> HIDE DEF r
        <4>3. r \in Seq(Id)
          <5>1. \A k \in 1 .. Len(r) : r[k] \in Id
            BY <1>1, <4>2
          <5> QED BY <4>2, <5>1
        <4>4. /\ u \in Maps(D) /\ SameNodes(t2, u) /\ u[n].connections[l] = r
              /\ \A j \in D : \A x \in DOMAIN t2[j].connections :
                    j # n \/ x # l => u[j].connections[x] = t2[j].connections[x]
          BY <1>1, <1>10, <2>6, <2>8, <4>1, <4>3, SetConnectionsOf
        <4> HIDE DEF u
        <4>5. SameNodes(ns, u)
          BY <2>7, <4>4, SameNodesTransitive
        <4>6. id \in Live(ns)
          BY <1>a DEF Ready
        <4>7. LinksBack(ns, id, l, n, r)
          BY <2>4, <4>2, <4>6 DEF LinksBack, old
        <4> QED BY <2>8, <4>4, <4>5, <4>7
      <3> QED BY <3>1, <3>2
    <2> HIDE DEF u
    <2>12. u[id].connections[l] = Append(c, n)
      BY <1>1, <1>2, <1>5, <1>7, <2>6, <2>11
    <2>13. Others(ns, u)
      BY <1>7, <1>8, <2>6, <2>11
    <2>14. LinkedWith(ns, id, l, done \cup {n}, u)
      <3> SUFFICES ASSUME NEW i \in D \ {id}, l \in DOMAIN ns[i].connections
                   PROVE  /\ i \in done \cup {n} => LinksBack(ns, id, l, i, u[i].connections[l])
                          /\ i \notin done \cup {n} => u[i].connections[l] = ns[i].connections[l]
        BY <2>11, <2>13 DEF LinkedWith
      <3>1. CASE i = n
        BY <2>11, <3>1
      <3>2. CASE i # n
        <4>1. u[i].connections[l] = t[i].connections[l]
          BY <1>5, <1>7, <2>6, <2>11, <3>2
        <4> QED BY <1>a, <3>2, <4>1 DEF LinkedWith
      <3> QED BY <3>1, <3>2
    <2> QED BY <1>0, <2>12, <2>14 DEF IsLinked
  <1> QED BY <1>9, <1>10

\* All neighbours selected at a layer.
LEMMA LinkAllOf ==
    ASSUME NEW ns, NEW id, NEW l, Ready(ns, id, l), NEW s \in EntryPoints(Live(ns) \ {id})
    PROVE  LET t == LinkAll(ns, id, l, s) IN
           LinkedWith(ns, id, l, ToSet(s), t) /\ t[id].connections[l] = s
  <1> DEFINE m == Len(s)
             Step(t, k) == Link(t, id, l, s[k])
             Body(f) == [k \in 0 .. m |-> IF k = 0 THEN ns ELSE Step(f[k - 1], k)]
             after == CHOOSE f : f = Body(f)
             W == Maps(DOMAIN ns)
             Done(k) == {s[j] : j \in 1 .. k}
             T == [k \in 0 .. m |-> {t \in W : /\ LinkedWith(ns, id, l, Done(k), t)
                                              /\ t[id].connections[l] = SubSeq(s, 1, k)}]
             g == [p \in W \X (1 .. m) |-> Step(p[1], p[2])]
  <1>s. s \in Seq(Live(ns) \ {id}) /\ IsInjective(s)
    BY DEF EntryPoints
  <1>0. m \in Nat /\ DOMAIN s = 1 .. m /\ \A k \in 1 .. m : s[k] \in Live(ns) \ {id}
    BY <1>s
  <1>c. \A k \in 0 .. m : /\ SubSeq(s, 1, k) \in Seq(Live(ns) \ {id}) /\ Len(SubSeq(s, 1, k)) = k
                          /\ \A j \in 1 .. k : SubSeq(s, 1, k)[j] = s[j]
    BY <1>s
  <1> HIDE DEF m
  <1>1. LinkAll(ns, id, l, s) = after[m]
    BY DEF LinkAll, m
  <1>2. ns \in T[0]
    <2>1. Done(0) = {} /\ SubSeq(s, 1, 0) = <<>>
      BY <1>0, <1>c
    <2>2. LinkedWith(ns, id, l, {}, ns)
      BY DEF LinkedWith, Ready, SameNodes
    <2>3. ns[id].connections[l] = <<>> /\ ns \in W
      BY DEF Ready
    <2> HIDE DEF Done, W
    <2>4. LinkedWith(ns, id, l, Done(0), ns) /\ ns[id].connections[l] = SubSeq(s, 1, 0)
      BY <2>1, <2>2, <2>3
    <2>5. 0 \in 0 .. m
      BY <1>0
    <2> QED BY <2>3, <2>4, <2>5
  <1>3. ASSUME NEW k \in 1 .. m, NEW t \in T[k - 1]
        PROVE  Step(t, k) \in T[k]
    <2>0. k \in 0 .. m /\ k - 1 \in 0 .. m
      BY <1>0
    <2>1. /\ t \in W /\ LinkedWith(ns, id, l, Done(k - 1), t)
          /\ t[id].connections[l] = SubSeq(s, 1, k - 1)
      BY <2>0
    <2>2. Done(k) = Done(k - 1) \cup {s[k]}
      <3>1. \A j : j \in 1 .. k <=> j \in 1 .. k - 1 \/ j = k
        BY <1>0
      <3> QED BY <3>1
    <2>3. s[k] \notin Done(k - 1)
      <3>1. \A j \in 1 .. k - 1 : j \in 1 .. m /\ j # k
        BY <1>0
      <3> QED BY <1>0, <1>s, <3>1 DEF IsInjective
    <2>4. s[k] \notin ToSet(SubSeq(s, 1, k - 1))
      <3>1. DOMAIN SubSeq(s, 1, k - 1) = 1 .. k - 1
        BY <1>c, <2>0
      <3>2. \A j \in 1 .. k - 1 : SubSeq(s, 1, k - 1)[j] = s[j]
        BY <1>c, <2>0
      <3> QED BY <2>3, <3>1, <3>2 DEF ToSet
    <2>5. Append(SubSeq(s, 1, k - 1), s[k]) = SubSeq(s, 1, k)
      <3> DEFINE a == SubSeq(s, 1, k - 1)
                 b == SubSeq(s, 1, k)
                 S == Live(ns) \ {id}
      <3>1. /\ a \in Seq(S) /\ Len(a) = k - 1 /\ \A j \in 1 .. k - 1 : a[j] = s[j]
            /\ b \in Seq(S) /\ Len(b) = k /\ \A j \in 1 .. k : b[j] = s[j]
        BY <1>c, <2>0
      <3>2. s[k] \in S /\ k \in Nat
        BY <1>0
      <3> HIDE DEF a, b, S
      <3>3. /\ Append(a, s[k]) \in Seq(S) /\ Len(Append(a, s[k])) = k
            /\ \A j \in 1 .. k : Append(a, s[k])[j] = s[j]
        BY <3>1, <3>2
      <3>4. Append(a, s[k]) = b
        BY <3>1, <3>3, SeqEqual
      <3> QED BY <3>4 DEF a, b
    <2> HIDE DEF Done
    <2> DEFINE c == SubSeq(s, 1, k - 1)
               n == s[k]
               done == Done(k - 1)
    <2>6. IsNext(ns, id, l, done, t, c, n) /\ Step(t, k) = Link(t, id, l, n)
      BY <1>0, <2>1, <2>3, <2>4 DEF IsNext
    <2> HIDE DEF c, n, done, Step, T, W
    <2>a. IsLinked(ns, id, l, done, c, n, Link(t, id, l, n))
      BY ONLY <2>6, LinkOne
    <2>7. /\ LinkedWith(ns, id, l, done \cup {n}, Step(t, k))
          /\ Step(t, k)[id].connections[l] = Append(c, n)
      BY <2>6, <2>a DEF IsLinked
    <2> USE DEF done, n, T, W
    <2>8. Step(t, k) \in W
      BY <2>7 DEF LinkedWith
    <2> QED BY <2>0, <2>2, <2>5, <2>7, <2>8 DEF c
  <1>4. \A k \in 0 .. m : \A t \in T[k] : t \in W
    OBVIOUS
  <1> HIDE DEF Step, W, T
  <1>5. \A k \in 1 .. m : \A t \in T[k - 1] : g[<<t, k>>] = Step(t, k)
    <2>1. \A k \in 1 .. m : k - 1 \in 0 .. m
      BY <1>0
    <2> QED BY <1>4, <2>1
  <1> HIDE DEF g
  <1>6. Carries(m, g, T)
    <2> SUFFICES ASSUME NEW k \in 1 .. m, NEW t \in T[k - 1]
                 PROVE  g[<<t, k>>] \in T[k]
      BY DEF Carries
    <2> QED BY <1>3, <1>5
  <1>7. PICK f : Iterates(f, m, ns, g, T)
    BY <1>0, <1>2, <1>6, Iteration
  <1>8. f = Body(f)
    <2>1. \A k \in 1 .. m : k \in 0 .. m /\ k - 1 \in 0 .. m
      BY <1>0
    <2>2. \A k \in 1 .. m : f[k] = Step(f[k - 1], k)
      BY <1>5, <1>7, <2>1 DEF Iterates
    <2>3. \A k \in 0 .. m : k # 0 => k \in 1 .. m
      BY <1>0
    <2>4. \A k \in 0 .. m : f[k] = Body(f)[k]
      BY <1>7, <2>2, <2>3 DEF Iterates
    <2> QED BY <1>7, <2>4 DEF Iterates
  <1>9. after = Body(after)
    BY <1>8
  <1> HIDE DEF after
  <1>10. after[0] = ns /\ \A k \in 1 .. m : after[k] = Step(after[k - 1], k)
    <2>1. \A k \in 1 .. m : k \in 0 .. m /\ k # 0
      BY <1>0
    <2>2. 0 \in 0 .. m
      BY <1>0
    <2>3. after[0] = Body(after)[0] /\ \A k \in 1 .. m : after[k] = Body(after)[k]
      BY <1>9
    <2> QED BY <2>1, <2>2, <2>3
  <1>11. \A k \in 1 .. m : after[k - 1] \in T[k - 1] => after[k] \in T[k]
    BY <1>3, <1>10
  <1>12. \A k \in 0 .. m : after[k] \in T[k]
    BY <1>0, <1>2, <1>10, <1>11, Stays
  <1>13. after[m] \in T[m] /\ m \in 0 .. m
    BY <1>0, <1>12
  <1>14. LinkedWith(ns, id, l, Done(m), after[m]) /\ after[m][id].connections[l] = SubSeq(s, 1, m)
    BY <1>13 DEF T
  <1>15. Done(m) = ToSet(s) /\ SubSeq(s, 1, m) = s
    BY <1>0, <1>s DEF ToSet, m
  <1> QED BY <1>1, <1>14, <1>15

-----------------------------------------------------------------------------
(* An insertion, layer by layer: ns is the map with the new node id in it, *)
(* not linked yet.                                                         *)

Fresh(ns, id) ==
    /\ ns \in Maps(DOMAIN ns) /\ DOMAIN ns \subseteq Id /\ id \in Live(ns)
    /\ \A l \in DOMAIN ns[id].connections : ns[id].connections[l] = <<>>
    /\ \A i \in DOMAIN ns \ {id} : \A l \in DOMAIN ns[i].connections :
          /\ ns[i].connections[l] \in Seq(DOMAIN ns \ {i, id})
          /\ IsInjective(ns[i].connections[l])
          /\ Len(ns[i].connections[l]) <= MaxConnections(l)

\* The nodes that id can have for neighbours.
Others(ns, id) == Live(ns) \ {id}

\* t is ns after layer l has been linked: id has live neighbours there, all of them while
\* they are few and linked to each other, and each of its neighbours has linked back.
LinkedAt(ns, id, l, t) ==
    LET c == t[id].connections[l] IN
    /\ c \in EntryPoints(Others(ns, id)) /\ Len(c) <= MaxConnections(l)
    /\ Complete(ns, Others(ns, id), l) /\ Cardinality(Others(ns, id)) <= EfConstruction
          /\ Cardinality(Others(ns, id)) <= MaxConnections(l) => ToSet(c) = Others(ns, id)
    /\ \A i \in DOMAIN ns \ {id} : l \in DOMAIN ns[i].connections =>
          /\ i \in ToSet(c) => LinksBack(ns, id, l, i, t[i].connections[l])
          /\ i \notin ToSet(c) => t[i].connections[l] = ns[i].connections[l]

\* t is ns after the layers l and above have been linked.
Built(ns, id, l, t) ==
    /\ t \in Maps(DOMAIN ns) /\ SameNodes(ns, t)
    /\ \A i \in DOMAIN ns : \A x \in DOMAIN ns[i].connections :
          x < l \/ x \notin DOMAIN ns[id].connections => t[i].connections[x] = ns[i].connections[x]
    /\ \A x \in DOMAIN ns[id].connections : x >= l => LinkedAt(ns, id, x, t)

\* A layer that has not been linked: walks among the other nodes stay there.
LEMMA OthersClosed ==
    ASSUME NEW ns, NEW id, Fresh(ns, id), NEW l
    PROVE  Closed(ns, Others(ns, id), l)
  <1> SUFFICES ASSUME NEW i \in Others(ns, id)
               PROVE  /\ GetConnections(ns[i], l) \in Seq(DOMAIN ns)
                      /\ ToSet(GetConnections(ns[i], l)) \cap Live(ns) \subseteq Others(ns, id)
    BY DEF Closed
  <1>1. i \in DOMAIN ns \ {id}
    BY DEF Others, Live
  <1>2. CASE l \in DOMAIN ns[i].connections
    <2> DEFINE c == ns[i].connections[l]
    <2>1. GetConnections(ns[i], l) = c
      BY <1>2 DEF GetConnections
    <2>2. c \in Seq(DOMAIN ns \ {i, id})
      BY <1>1, <1>2 DEF Fresh
    <2> HIDE DEF c
    <2>3. \A k \in 1 .. Len(c) : c[k] \in DOMAIN ns /\ c[k] # id
      BY <2>2
    <2>4. c \in Seq(DOMAIN ns)
      BY <2>2, <2>3
    <2>5. id \notin ToSet(c)
      BY <2>2, <2>3 DEF ToSet
    <2> QED BY <2>1, <2>4, <2>5 DEF Others
  <1>3. CASE l \notin DOMAIN ns[i].connections
    <2>1. GetConnections(ns[i], l) = <<>>
      BY <1>3 DEF GetConnections
    <2> QED BY <2>1 DEF ToSet
  <1> QED BY <1>2, <1>3

\* What the walk sees of a layer is the same in two maps that agree on it.
LEMMA SameLayer ==
    ASSUME NEW t, NEW u, SameNodes(t, u), NEW A \in SUBSET DOMAIN t, NEW l,
           \A i \in DOMAIN t : l \in DOMAIN t[i].connections =>
              u[i].connections[l] = t[i].connections[l]
    PROVE  /\ \A i \in DOMAIN t : GetConnections(u[i], l) = GetConnections(t[i], l)
           /\ Closed(t, A, l) => Closed(u, A, l)
           /\ Complete(t, A, l) => Complete(u, A, l)
  <1>1. \A i \in DOMAIN t : GetConnections(u[i], l) = GetConnections(t[i], l)
    BY DEF GetConnections, SameNodes
  <1>2. DOMAIN u = DOMAIN t /\ Live(u) = Live(t)
    BY SameNodesLive DEF SameNodes
  <1>3. ASSUME Closed(t, A, l)
        PROVE  Closed(u, A, l)
    BY <1>1, <1>2, <1>3 DEF Closed
  <1>4. ASSUME Complete(t, A, l)
        PROVE  Complete(u, A, l)
    BY <1>1, <1>4 DEF Complete
  <1> QED BY <1>1, <1>3, <1>4

\* An injective sequence over a set is no longer than the set is large.
LEMMA InjectiveBound ==
    ASSUME NEW A \in SUBSET Id, NEW s \in Seq(A), IsInjective(s)
    PROVE  Len(s) <= Cardinality(A) /\ ToSet(s) \subseteq A
  <1>1. ToSet(s) \subseteq A
    BY DEF ToSet
  <1>2. s \in Seq(Id)
    <2>1. \A k \in 1 .. Len(s) : s[k] \in Id
      OBVIOUS
    <2> QED BY <2>1
  <1>3. Cardinality(ToSet(s)) = Len(s)
    BY <1>2, InjectiveCount
  <1> QED BY <1>1, <1>3, NodesAreFinite, FS_Subset

\* The neighbours that an insertion chooses at a layer that has not been linked.
Chosen(ns, id, l, c) ==
    /\ c \in EntryPoints(Others(ns, id)) /\ Len(c) <= MaxConnections(l)
    /\ Complete(ns, Others(ns, id), l) /\ Cardinality(Others(ns, id)) <= EfConstruction
          /\ Cardinality(Others(ns, id)) <= MaxConnections(l) => ToSet(c) = Others(ns, id)

\* The search and the selection of insertVector choose such neighbours.
LEMMA NeighborsChosen ==
    ASSUME NEW t, PointsOf(t), NEW id \in Live(t), NEW l, Closed(t, Others(t, id), l),
           NEW eps \in EntryPoints(Others(t, id))
    PROVE  LET q == t[id].vector
               candidates == SearchLayer(t, q, eps, EfConstruction, l)
           IN  Chosen(t, id, l, SelectNeighbors(t, q, candidates, MaxConnections(l)))
  <1> DEFINE A == Others(t, id)
             q == t[id].vector
             cands == SearchLayer(t, q, eps, EfConstruction, l)
             n == MaxConnections(l)
             c == SelectNeighbors(t, q, cands, n)
  <1>1. /\ A \in SUBSET Live(t) /\ A \in SUBSET DOMAIN t /\ A \in SUBSET Id
        /\ q \in Point /\ eps \in Seq(A) /\ IsInjective(eps) /\ eps # <<>>
    BY DEF Others, Live, PointsOf, EntryPoints
  <1>2. EfConstruction \in Nat \ {0} /\ n \in Nat \ {0}
    BY Widths, ParamsAssumption
  <1> HIDE DEF A, q, n
  <1>3. Finishes(t, q, EfConstruction, l, A, cands)
    BY <1>1, <1>2, SearchLayerFinds DEF A
  <1> HIDE DEF cands
  <1>4. cands \in Seq(A) /\ IsInjective(cands) /\ cands \in EntryPoints(A)
    BY <1>3 DEF Finishes, EntryPoints
  <1>5. /\ c \in EntryPoints(A) /\ Len(c) <= n
        /\ Len(cands) <= n => c = cands
    BY <1>1, <1>2, <1>4, SelectNeighborsOf
  <1> HIDE DEF c
  <1>6. ASSUME Complete(t, A, l), Cardinality(A) <= EfConstruction, Cardinality(A) <= n
        PROVE  ToSet(c) = A
    <2>1. ToSet(cands) = A
      BY <1>3, <1>6 DEF Finishes
    <2>2. Len(cands) <= Cardinality(A) /\ Cardinality(A) \in Nat /\ Len(cands) \in Nat
      BY <1>1, <1>4, InjectiveBound, NodesAreFinite
    <2> QED BY <1>2, <1>5, <1>6, <2>1, <2>2
  <1> QED BY <1>5, <1>6 DEF Chosen, A, c, cands, q, n

\* One layer more.
Layered(ns, id, l, s) ==
    /\ Built(ns, id, l, s.nodes) /\ s.entryPoints \in EntryPoints(Others(ns, id))

\* Linking a layer leaves the layers above as they were linked, those below unlinked.
LEMMA ConnectLayerOf ==
    ASSUME NEW ns, NEW id, Fresh(ns, id), NEW l \in DOMAIN ns[id].connections, l \in Int,
           NEW s, Layered(ns, id, l + 1, s)
    PROVE  Layered(ns, id, l, ConnectLayer(id, s, l))
  <1> DEFINE t == s.nodes
             eps == s.entryPoints
             A == Others(ns, id)
             q == t[id].vector
             c == SelectNeighbors(t, q, SearchLayer(t, q, eps, EfConstruction, l), MaxConnections(l))
             u == LinkAll(t, id, l, c)
             D == DOMAIN ns
  <1>1. ConnectLayer(id, s, l) = [nodes |-> u, entryPoints |-> c]
    BY DEF ConnectLayer
  <1>2. /\ t \in Maps(D) /\ SameNodes(ns, t) /\ DOMAIN t = D
        /\ \A i \in D : DOMAIN t[i].connections = DOMAIN ns[i].connections
        /\ eps \in EntryPoints(A) /\ D \subseteq Id
    BY DEF Layered, Built, SameNodes, Fresh
  <1> HIDE DEF t, eps
  <1>3. \A i \in D : l \in DOMAIN ns[i].connections =>
            t[i].connections[l] = ns[i].connections[l]
    <2>1. l < l + 1
      OBVIOUS
    <2> QED BY <2>1 DEF Layered, Built, t
  <1>4. /\ Live(t) = Live(ns) /\ PointsOf(t) /\ id \in Live(t) /\ id \in D
        /\ A = Others(t, id) /\ A \in SUBSET D
    <2>1. Live(t) = Live(ns)
      BY <1>2, SameNodesLive
    <2>2. PointsOf(t)
      BY <1>2, NodeHeight DEF PointsOf
    <2> QED BY <2>1, <2>2 DEF Fresh, Others, Live
  <1>5. Closed(t, A, l) /\ (Complete(ns, A, l) => Complete(t, A, l))
    <2>1. Closed(ns, A, l)
      BY OthersClosed
    <2> HIDE DEF A
    <2> QED BY <1>2, <1>3, <1>4, <2>1, SameLayer
  <1>6. Chosen(t, id, l, c)
    <2> HIDE DEF A, q
    <2> QED BY <1>2, <1>4, <1>5, NeighborsChosen DEF A, q
  <1> HIDE DEF c
  <1>7. Ready(t, id, l)
    <2> SUFFICES ASSUME NEW i \in D \ {id}, l \in DOMAIN ns[i].connections
                 PROVE  /\ t[i].connections[l] \in Seq(D \ {i, id})
                        /\ IsInjective(t[i].connections[l])
                        /\ Len(t[i].connections[l]) <= MaxConnections(l)
      BY <1>2, <1>3, <1>4 DEF Ready, Fresh
    <2> QED BY <1>3 DEF Fresh
  <1>8. LinkedWith(t, id, l, ToSet(c), u) /\ u[id].connections[l] = c
    <2>1. c \in EntryPoints(Live(t) \ {id})
      BY <1>6 DEF Chosen, Others
    <2> QED BY <1>7, <2>1, LinkAllOf
  <1> HIDE DEF u
  <1>9. /\ u \in Maps(D) /\ SameNodes(ns, u)
        /\ \A i \in D : \A x \in DOMAIN ns[i].connections :
              x # l => u[i].connections[x] = t[i].connections[x]
    BY <1>2, <1>8, SameNodesTransitive DEF LinkedWith
  <1>10. LinkedAt(ns, id, l, u)
    <2>1. /\ c \in EntryPoints(A) /\ Len(c) <= MaxConnections(l)
          /\ Complete(ns, A, l) /\ Cardinality(A) <= EfConstruction
                /\ Cardinality(A) <= MaxConnections(l) => ToSet(c) = A
      BY <1>4, <1>5, <1>6 DEF Chosen
    <2>2. ASSUME NEW i \in D \ {id}, l \in DOMAIN ns[i].connections
          PROVE  /\ i \in ToSet(c) => LinksBack(ns, id, l, i, u[i].connections[l])
                 /\ i \notin ToSet(c) => u[i].connections[l] = ns[i].connections[l]
      <3>1. /\ i \in ToSet(c) => LinksBack(t, id, l, i, u[i].connections[l])
            /\ i \notin ToSet(c) => u[i].connections[l] = t[i].connections[l]
        BY <1>2, <1>8, <2>2 DEF LinkedWith
      <3>2. t[i].connections[l] = ns[i].connections[l]
        BY <1>3, <2>2
      <3> QED BY <1>2, <1>4, <3>1, <3>2 DEF LinksBack
    <2> QED BY <1>8, <2>1, <2>2 DEF LinkedAt
  <1>11. \A i \in D : \A x \in DOMAIN ns[i].connections :
             x < l \/ x \notin DOMAIN ns[id].connections => u[i].connections[x] = ns[i].connections[x]
    <2> SUFFICES ASSUME NEW i \in D, NEW x \in DOMAIN ns[i].connections,
                        x < l \/ x \notin DOMAIN ns[id].connections
                 PROVE  u[i].connections[x] = ns[i].connections[x]
      OBVIOUS
    <2>1. x # l /\ x \in Int
      <3>1. PICK h \in Layer : DOMAIN ns[i].connections = 0 .. h
        BY NodeHeight DEF Fresh
      <3> QED BY <3>1
    <2>2. x < l + 1 \/ x \notin DOMAIN ns[id].connections
      BY <2>1
    <2>3. t[i].connections[x] = ns[i].connections[x]
      BY <2>2 DEF Layered, Built, t
    <2> QED BY <1>9, <2>1, <2>3
  <1>12. ASSUME NEW x \in DOMAIN ns[id].connections, x >= l
         PROVE  LinkedAt(ns, id, x, u)
    <2>1. CASE x = l
      BY <1>10, <2>1
    <2>2. CASE x # l
      <3>1. x >= l + 1
        <4>1. PICK h \in Layer : DOMAIN ns[id].connections = 0 .. h
          BY <1>4, NodeHeight DEF Fresh
        <4> QED BY <1>12, <2>2, <4>1
      <3>2. LinkedAt(ns, id, x, t)
        BY <3>1 DEF Layered, Built, t
      <3>3. \A i \in D : x \in DOMAIN ns[i].connections =>
                u[i].connections[x] = t[i].connections[x]
        BY <1>9, <2>2
      <3> QED BY <1>4, <3>2, <3>3 DEF LinkedAt
    <2> QED BY <2>1, <2>2
  <1>13. Built(ns, id, l, u)
    BY <1>9, <1>11, <1>12 DEF Built
  <1> QED BY <1>1, <1>4, <1>6, <1>13 DEF Layered, Chosen

\* All layers of the new node: it is linked at each of them.
LEMMA ConnectedOf ==
    ASSUME NEW ns, NEW id, Fresh(ns, id), NEW layer \in Layer,
           DOMAIN ns[id].connections = 0 .. layer,
           entrypoint \in Others(ns, id), maxLayer \in Int
    PROVE  Built(ns, id, 0, Connected(ns, id, layer))
  <1> DEFINE m == layer + 1
             top == Larger(maxLayer, layer)
             first == [nodes |-> ns,
                       entryPoints |-> Descend(ns, ns[id].vector, entrypoint, top, layer)]
             Step(s, k) == ConnectLayer(id, s, layer + 1 - k)
             Body(f) == [k \in 0 .. m |-> IF k = 0 THEN first ELSE Step(f[k - 1], k)]
             after == CHOOSE f : f = Body(f)
             W == [nodes : Maps(DOMAIN ns), entryPoints : EntryPoints(Others(ns, id))]
             T == [k \in 0 .. m |-> {s \in W : Layered(ns, id, layer + 1 - k, s)}]
             g == [p \in W \X (1 .. m) |-> Step(p[1], p[2])]
  <1>0. m \in Nat /\ layer \in Nat
    BY DEF Layer
  <1>1. Connected(ns, id, layer) = after[m].nodes
    BY DEF Connected
  <1>2. first \in T[0]
    <2>1. /\ Others(ns, id) \in SUBSET Live(ns) /\ PointsOf(ns) /\ id \in DOMAIN ns
          /\ ns[id].vector \in Point
      BY NodeHeight DEF Others, PointsOf, Fresh, Live
    <2>2. top \in Int /\ layer \in Int /\ layer <= top
      BY <1>0 DEF Larger
    <2>3. \A l \in layer + 1 .. top : Closed(ns, Others(ns, id), l)
      BY OthersClosed
    <2> HIDE DEF top
    <2>4. Descend(ns, ns[id].vector, entrypoint, top, layer) \in EntryPoints(Others(ns, id))
      BY <2>1, <2>2, <2>3, DescendFinds
    <2>5. Built(ns, id, layer + 1, ns)
      <3>1. \A x \in DOMAIN ns[id].connections : ~(x >= layer + 1)
        BY <1>0
      <3> QED BY <3>1 DEF Built, Fresh, SameNodes
    <2>6. first.nodes = ns /\ first.entryPoints \in EntryPoints(Others(ns, id)) /\ first \in W
      BY <2>4 DEF Fresh
    <2> HIDE DEF first, W
    <2>7. layer + 1 - 0 = layer + 1 /\ 0 \in 0 .. m
      BY <1>0
    <2>8. Layered(ns, id, layer + 1, first)
      BY <2>5, <2>6 DEF Layered
    <2> QED BY <2>6, <2>7, <2>8
  <1>3. ASSUME NEW k \in 1 .. m, NEW s \in T[k - 1]
        PROVE  Step(s, k) \in T[k]
    <2> DEFINE l == layer + 1 - k
    <2>0. /\ k \in 0 .. m /\ k - 1 \in 0 .. m /\ l \in 0 .. layer /\ l \in Int
          /\ layer + 1 - (k - 1) = l + 1
      BY <1>0
    <2>1. Layered(ns, id, l + 1, s)
      BY <2>0
    <2>2. Step(s, k) = ConnectLayer(id, s, l)
      OBVIOUS
    <2> HIDE DEF l, Step
    <2>3. Layered(ns, id, l, Step(s, k))
      BY <2>0, <2>1, <2>2, ConnectLayerOf
    <2>4. Step(s, k) \in W
      BY <2>2, <2>3 DEF Layered, Built, ConnectLayer
    <2> QED BY <2>0, <2>3, <2>4 DEF l
  <1>4. \A k \in 0 .. m : \A s \in T[k] : s \in W
    OBVIOUS
  <1> HIDE DEF m, Step, W, T, first
  <1>5. \A k \in 1 .. m : \A s \in T[k - 1] : g[<<s, k>>] = Step(s, k)
    <2>1. \A k \in 1 .. m : k - 1 \in 0 .. m
      BY <1>0
    <2> QED BY <1>4, <2>1
  <1> HIDE DEF g
  <1>6. Carries(m, g, T)
    <2> SUFFICES ASSUME NEW k \in 1 .. m, NEW s \in T[k - 1]
                 PROVE  g[<<s, k>>] \in T[k]
      BY DEF Carries
    <2> QED BY <1>3, <1>5
  <1>7. PICK f : Iterates(f, m, first, g, T)
    BY <1>0, <1>2, <1>6, Iteration
  <1>8. f = Body(f)
    <2>1. \A k \in 1 .. m : k \in 0 .. m /\ k - 1 \in 0 .. m
      BY <1>0
    <2>2. \A k \in 1 .. m : f[k] = Step(f[k - 1], k)
      BY <1>5, <1>7, <2>1 DEF Iterates
    <2>3. \A k \in 0 .. m : k # 0 => k \in 1 .. m
      BY <1>0
    <2>4. \A k \in 0 .. m : f[k] = Body(f)[k]
      BY <1>7, <2>2, <2>3 DEF Iterates
    <2> QED BY <1>7, <2>4 DEF Iterates
  <1>9. after = Body(after)
    BY <1>8
  <1> HIDE DEF after
  <1>10. after[0] = first /\ \A k \in 1 .. m : after[k] = Step(after[k - 1], k)
    <2>1. \A k \in 1 .. m : k \in 0 .. m /\ k # 0
      BY <1>0
    <2>2. 0 \in 0 .. m
      BY <1>0
    <2>3. after[0] = Body(after)[0] /\ \A k \in 1 .. m : after[k] = Body(after)[k]
      BY <1>9
    <2> QED BY <2>1, <2>2, <2>3
  <1>11. \A k \in 1 .. m : after[k - 1] \in T[k - 1] => after[k] \in T[k]
    BY <1>3, <1>10
  <1>12. \A k \in 0 .. m : after[k] \in T[k]
    BY <1>0, <1>2, <1>10, <1>11, Stays
  <1>13. after[m] \in T[m] /\ m \in 0 .. m
    BY <1>0, <1>12
  <1>14. Layered(ns, id, layer + 1 - m, after[m])
    BY <1>13 DEF T
  <1> QED BY <1>0, <1>1, <1>14 DEF m, Layered

-----------------------------------------------------------------------------
(* The inductive invariant: what a walk needs of the graph, and that the   *)
(* graph is complete at layer 0 as long as the index has stayed small.     *)

WellLinked(ns) ==
    \A i \in DOMAIN ns : \A l \in DOMAIN ns[i].connections :
        /\ ns[i].connections[l] \in Seq(DOMAIN ns \ {i})
        /\ IsInjective(ns[i].connections[l])
        /\ Len(ns[i].connections[l]) <= MaxConnections(l)

\* The identifiers have been handed out in turn.
InTurn(D) == \E n \in 0 .. MaxId : D = 1 .. n

\* Entry point and top layer: none without a live node, else a live one, and a layer
\* above which no live node has links.
Entered(ns, entry, top) ==
    \/ entry = NoNode /\ top = -1 /\ Live(ns) = {}
    \/ /\ entry \in Live(ns) /\ top \in Layer
       /\ \A i \in Live(ns) : \A l \in DOMAIN ns[i].connections :
             ns[i].connections[l] # <<>> => l <= top

HInv ==
    /\ InTurn(DOMAIN nodes) /\ nodes = [i \in DOMAIN nodes |-> nodes[i]]
    /\ \A i \in DOMAIN nodes : \E layer \in Layer : nodes[i] \in Node(layer)
    /\ WellLinked(nodes)
    /\ Entered(nodes, entrypoint, maxLayer)
    /\ size = Cardinality(Live(nodes))
    /\ peak \in size .. MaxId
    /\ Small => Complete(nodes, Live(nodes), 0)

LEMMA InvMaps == HInv => nodes \in Maps(DOMAIN nodes)
  <1> SUFFICES ASSUME HInv PROVE nodes \in Maps(DOMAIN nodes)
    OBVIOUS
  <1>1. \A i \in DOMAIN nodes : nodes[i] \in AnyNode
    BY DEF HInv, AnyNode
  <1>2. nodes = [i \in DOMAIN nodes |-> nodes[i]]
    BY DEF HInv
  <1> QED BY <1>1, <1>2 DEF Maps

\* The same of the nodes after a step, from Maps.
LEMMA MapsInv ==
    ASSUME NEW D, NEW ns \in Maps(D)
    PROVE  /\ ns = [i \in DOMAIN ns |-> ns[i]] /\ DOMAIN ns = D
           /\ \A i \in DOMAIN ns : \E layer \in Layer : ns[i] \in Node(layer)
BY NodeHeight DEF Maps

LEMMA LiveCount ==
    HInv => /\ DOMAIN nodes \subseteq Id /\ Live(nodes) \in SUBSET Id /\ size \in Nat
            /\ (size = 0 <=> Live(nodes) = {})
  <1> SUFFICES ASSUME HInv
               PROVE  /\ DOMAIN nodes \subseteq Id /\ Live(nodes) \in SUBSET Id /\ size \in Nat
                      /\ (size = 0 <=> Live(nodes) = {})
    OBVIOUS
  <1>1. DOMAIN nodes \subseteq Id
    BY GraphAssumption DEF HInv, InTurn, Id
  <1>2. Live(nodes) \in SUBSET Id
    BY <1>1 DEF Live
  <1> QED BY <1>1, <1>2, NodesAreFinite, FS_EmptySet DEF HInv

\* The next identifier is new.
LEMMA NextInTurn ==
    ASSUME NEW D, InTurn(D), NEW id \in Id, id = Cardinality(D) + 1
    PROVE  id \notin D /\ InTurn(D \cup {id})
  <1>1. PICK n \in 0 .. MaxId : D = 1 .. n
    BY DEF InTurn
  <1>2. Cardinality(D) = n
    <2>1. Cardinality(1 .. n) = IF 1 > n THEN 0 ELSE n - 1 + 1
      BY <1>1, FS_Interval
    <2> QED BY <1>1, <2>1
  <1>3. id = n + 1 /\ n + 1 \in 0 .. MaxId
    BY <1>2, GraphAssumption DEF Id
  <1>4. D \cup {id} = 1 .. n + 1 /\ id \notin D
    BY <1>1, <1>3
  <1> QED BY <1>3, <1>4 DEF InTurn

\* The node that an insertion puts in.
NewIn(ns, id, v, layer) ==
    /\ Fresh(ns, id) /\ Others(ns, id) = Live(nodes) /\ id \notin DOMAIN nodes
    /\ Live(ns) = Live(nodes) \cup {id} /\ InTurn(DOMAIN ns)
    /\ DOMAIN ns = DOMAIN nodes \cup {id} /\ ns[id] = NewNode(v, layer)
    /\ DOMAIN ns[id].connections = 0 .. layer
    /\ \A i \in DOMAIN nodes : ns[i] = nodes[i]

\* The nodes with the new one in, before it is linked.
LEMMA WithNodeOf ==
    ASSUME HInv, NEW id \in Id, id = Cardinality(DOMAIN nodes) + 1, NEW v \in Point,
           NEW layer \in Layer
    PROVE  NewIn(WithNode(nodes, id, NewNode(v, layer)), id, v, layer)
  <1> DEFINE D == DOMAIN nodes
             E == D \cup {id}
             new == NewNode(v, layer)
             ns == WithNode(nodes, id, new)
  <1>1. /\ nodes \in Maps(D) /\ InTurn(D) /\ WellLinked(nodes) /\ D \subseteq Id
    BY InvMaps, LiveCount DEF HInv
  <1>2. id \notin D /\ InTurn(E) /\ E \subseteq Id
    BY <1>1, NextInTurn
  <1>3. /\ new \in Node(layer) /\ new.deleted = FALSE /\ DOMAIN new.connections = 0 .. layer
        /\ \A l \in 0 .. layer : new.connections[l] = <<>>
    BY DEF NewNode, Node
  <1> HIDE DEF new
  <1>4. DOMAIN ns = E /\ ns[id] = new /\ \A i \in D : ns[i] = nodes[i]
    BY <1>2 DEF WithNode
  <1>5. ns \in Maps(E)
    <2>1. new \in AnyNode /\ \A i \in D : nodes[i] \in AnyNode
      BY <1>1, <1>3 DEF AnyNode, Maps
    <2> QED BY <2>1 DEF WithNode, Maps
  <1> HIDE DEF ns
  <1>6. Live(ns) = Live(nodes) \cup {id} /\ Others(ns, id) = Live(nodes)
    BY <1>2, <1>3, <1>4 DEF Live, Others
  <1>7. ASSUME NEW i \in E \ {id}, NEW l \in DOMAIN ns[i].connections
        PROVE  /\ ns[i].connections[l] \in Seq(E \ {i, id})
               /\ IsInjective(ns[i].connections[l])
               /\ Len(ns[i].connections[l]) <= MaxConnections(l)
    <2>1. i \in D /\ ns[i] = nodes[i]
      BY <1>4
    <2>2. /\ nodes[i].connections[l] \in Seq(D \ {i})
          /\ IsInjective(nodes[i].connections[l])
          /\ Len(nodes[i].connections[l]) <= MaxConnections(l)
      BY <1>1, <1>7, <2>1 DEF WellLinked
    <2>3. D \ {i} = E \ {i, id}
      BY <1>2
    <2> QED BY <2>1, <2>2, <2>3
  <1>8. Fresh(ns, id)
    <2>1. id \in Live(ns) /\ \A l \in DOMAIN ns[id].connections : ns[id].connections[l] = <<>>
      BY <1>3, <1>4, <1>6
    <2> QED BY <1>2, <1>4, <1>5, <1>7, <2>1 DEF Fresh
  <1> QED BY <1>2, <1>3, <1>4, <1>6, <1>8 DEF NewIn, ns, new

\* Counting one node more and one less.
LEMMA Counts ==
    ASSUME NEW S \in SUBSET Id, NEW i \in Id
    PROVE  /\ i \notin S => Cardinality(S \cup {i}) = Cardinality(S) + 1
           /\ i \in S => Cardinality(S \ {i}) = Cardinality(S) - 1
           /\ Cardinality(S) \in 0 .. MaxId
  <1>1. IsFiniteSet(Id) /\ Cardinality(Id) = MaxId
    BY GraphAssumption, FS_Interval DEF Id
  <1>2. IsFiniteSet(S) /\ Cardinality(S) \in Nat /\ Cardinality(S) <= MaxId
    BY <1>1, NodesAreFinite, FS_Subset
  <1>3. i \notin S => Cardinality(S \cup {i}) = Cardinality(S) + 1
    BY <1>2, FS_AddElement
  <1>4. i \in S => Cardinality(S \ {i}) = Cardinality(S) - 1
    BY <1>2, FS_RemoveElement
  <1> QED BY <1>2, <1>3, <1>4, GraphAssumption

\* The highest layer with links exists, and is what getNodeLayer answers.
LEMMA NodeLayerOf ==
    ASSUME NEW D, NEW ns \in Maps(D), NEW i \in D
    PROVE  LET h == NodeLayer(ns, i)
               links == ns[i].connections
           IN  /\ h \in Layer /\ h \in DOMAIN links
               /\ h # 0 => links[h] # <<>>
               /\ \A l \in DOMAIN links : links[l] # <<>> => l <= h
  <1> DEFINE links == ns[i].connections
             S == {l \in DOMAIN links : links[l] # <<>>}
             Top(h) == h \in S \cup {0} /\ \A k \in S : k <= h
  <1>1. PICK top \in Layer : DOMAIN links = 0 .. top
    BY NodeHeight
  <1>2. top \in Nat /\ S \subseteq 0 .. top
    BY <1>1 DEF Layer
  <1> DEFINE P == {n \in 0 .. top : \E h \in S \cup {0} : \A k \in S : k <= n => k <= h}
  <1> HIDE DEF S
  <1>3. 0 \in P
    BY <1>2
  <1>4. ASSUME NEW n \in 0 .. top - 1, n \in P
        PROVE  n + 1 \in P
    <2>1. PICK h \in S \cup {0} : \A k \in S : k <= n => k <= h
      BY <1>4
    <2>2. n + 1 \in 0 .. top
      BY <1>2
    <2>3. CASE n + 1 \in S
      BY <2>2, <2>3
    <2>4. CASE n + 1 \notin S
      <3>1. \A k \in S : k <= n + 1 => k <= n
        BY <1>2, <2>4
      <3> QED BY <2>1, <2>2, <3>1
    <2> QED BY <2>3, <2>4
  <1>5. top \in P
    <2> HIDE DEF P
    <2>1. \A n \in 0 .. top : n \in P
      BY <1>2, <1>3, <1>4, UpTo
    <2> QED BY <1>2, <2>1
  <1>6. \E h : Top(h)
    BY <1>2, <1>5
  <1>7. NodeLayer(ns, i) = CHOOSE h \in S \cup {0} : \A k \in S : k <= h
    BY DEF NodeLayer, S
  <1>8. Top(NodeLayer(ns, i))
    BY <1>6, <1>7
  <1>9. NodeLayer(ns, i) \in 0 .. top /\ \A l \in 0 .. top : l \in Layer
    <2>1. \A l \in 0 .. top : l \in Layer
      BY <1>1, <1>2, GraphAssumption DEF Layer
    <2> HIDE DEF Top
    <2>2. NodeLayer(ns, i) \in S \cup {0}
      BY <1>8 DEF Top
    <2>3. S \cup {0} \subseteq 0 .. top
      <3>1. 0 \in 0 .. top
        BY <1>2
      <3> QED BY <1>2, <3>1
    <2>4. NodeLayer(ns, i) \in 0 .. top
      BY ONLY <2>2, <2>3
    <2> QED BY <2>1, <2>4
  <1> QED BY <1>1, <1>8, <1>9 DEF S

\* What an insertion makes of the nodes.
Inserted(id, layer, t) ==
    /\ t \in Maps(DOMAIN t) /\ InTurn(DOMAIN t) /\ WellLinked(t)
    /\ DOMAIN t = DOMAIN nodes \cup {id} /\ Live(t) = Live(nodes) \cup {id} /\ id \notin Live(nodes)
    /\ \A i \in Live(t) : \A l \in DOMAIN t[i].connections :
          t[i].connections[l] # <<>> => l <= Larger(maxLayer, layer)
    /\ Complete(nodes, Live(nodes), 0) /\ Cardinality(Live(nodes)) <= EfConstruction
          /\ Cardinality(Live(nodes)) <= 2 * M => Complete(t, Live(t), 0)

\* The top layer after an insertion.
LEMMA LayersCompared ==
    ASSUME HInv, NEW layer \in Layer
    PROVE  /\ maxLayer \in Int /\ layer \in Int /\ Larger(maxLayer, layer) \in Layer
           /\ Larger(maxLayer, layer) \in Int
           /\ maxLayer <= Larger(maxLayer, layer) /\ layer <= Larger(maxLayer, layer)
           /\ Live(nodes) # {} => /\ entrypoint \in Live(nodes)
                                  /\ \A i \in Live(nodes) : \A l \in DOMAIN nodes[i].connections :
                                        nodes[i].connections[l] # <<>> => l <= maxLayer
BY GraphAssumption DEF HInv, Entered, Layer, Larger

\* The first node of an index, or the first after all others were deleted.
LEMMA InsertedFirst ==
    ASSUME HInv, NEW id \in Id, NEW v \in Point, NEW layer \in Layer,
           NEW ns, NewIn(ns, id, v, layer), entrypoint = NoNode
    PROVE  Inserted(id, layer, ns)
  <1>1. Live(nodes) = {} /\ Live(ns) = {id}
    <2>1. entrypoint \notin Live(nodes)
      BY LiveCount DEF NoNode, Id
    <2> QED BY <2>1 DEF HInv, Entered, NewIn
  <1>2. /\ Fresh(ns, id) /\ ns \in Maps(DOMAIN ns) /\ InTurn(DOMAIN ns)
        /\ DOMAIN ns = DOMAIN nodes \cup {id} /\ id \notin Live(nodes)
    BY DEF NewIn, Fresh, Live
  <1>3. WellLinked(ns)
    <2> SUFFICES ASSUME NEW i \in DOMAIN ns, NEW l \in DOMAIN ns[i].connections
                 PROVE  /\ ns[i].connections[l] \in Seq(DOMAIN ns \ {i})
                        /\ IsInjective(ns[i].connections[l])
                        /\ Len(ns[i].connections[l]) <= MaxConnections(l)
      BY DEF WellLinked
    <2>1. CASE i = id
      <3>1. ns[i].connections[l] = <<>>
        BY <1>2, <2>1 DEF Fresh
      <3>2. Len(<<>>) <= MaxConnections(l) /\ IsInjective(<<>>) /\ <<>> \in Seq(DOMAIN ns \ {i})
        BY Widths DEF IsInjective
      <3> QED BY <3>1, <3>2
    <2>2. CASE i # id
      <3> DEFINE c == ns[i].connections[l]
      <3>1. c \in Seq(DOMAIN ns \ {i, id}) /\ IsInjective(c) /\ Len(c) <= MaxConnections(l)
        BY <1>2, <2>2 DEF Fresh
      <3> HIDE DEF c
      <3>2. c \in Seq(DOMAIN ns \ {i})
        <4>1. \A k \in 1 .. Len(c) : c[k] \in DOMAIN ns \ {i}
          BY <3>1
        <4> QED BY <3>1, <4>1
      <3> QED BY <3>1, <3>2 DEF c
    <2> QED BY <2>1, <2>2
  <1>4. \A i \in Live(ns) : \A l \in DOMAIN ns[i].connections :
            ns[i].connections[l] # <<>> => l <= Larger(maxLayer, layer)
    BY <1>1, <1>2 DEF Fresh
  <1>5. Complete(ns, Live(ns), 0)
    BY <1>1 DEF Complete
  <1> QED BY <1>1, <1>2, <1>3, <1>4, <1>5 DEF Inserted

\* Any other: the links it makes and drops keep the graph in order.
LEMMA InsertedNext ==
    ASSUME HInv, NEW id \in Id, NEW v \in Point, NEW layer \in Layer,
           NEW ns, NewIn(ns, id, v, layer), NEW t, Built(ns, id, 0, t)
    PROVE  Inserted(id, layer, t)
  <1> DEFINE D == DOMAIN nodes
             E == D \cup {id}
             A == Live(nodes)
  <1>1. /\ Fresh(ns, id) /\ Others(ns, id) = A /\ id \notin D /\ InTurn(E) /\ DOMAIN ns = E
        /\ Live(ns) = A \cup {id} /\ A \subseteq D /\ DOMAIN ns[id].connections = 0 .. layer
        /\ \A i \in D : ns[i] = nodes[i]
    BY DEF NewIn, Live
  <1>2. /\ t \in Maps(E) /\ SameNodes(ns, t) /\ DOMAIN t = E /\ Live(t) = A \cup {id}
        /\ \A i \in E : DOMAIN t[i].connections = DOMAIN ns[i].connections
    <2>1. t \in Maps(E) /\ SameNodes(ns, t)
      BY <1>1 DEF Built
    <2> QED BY <1>1, <2>1, SameNodesLive DEF SameNodes
  <1>3. ASSUME NEW x \in 0 .. layer
        PROVE  LinkedAt(ns, id, x, t)
    BY <1>1, <1>3 DEF Built
  <1>4. ASSUME NEW i \in D, NEW x \in DOMAIN ns[i].connections, x \notin 0 .. layer
        PROVE  t[i].connections[x] = ns[i].connections[x]
    BY <1>1, <1>4 DEF Built
  <1>5. WellLinked(t)
    <2> SUFFICES ASSUME NEW i \in E, NEW l \in DOMAIN ns[i].connections
                 PROVE  /\ t[i].connections[l] \in Seq(E \ {i})
                        /\ IsInjective(t[i].connections[l])
                        /\ Len(t[i].connections[l]) <= MaxConnections(l)
      BY <1>2 DEF WellLinked
    <2>1. CASE i = id
      <3> DEFINE c == t[id].connections[l]
      <3>1. c \in EntryPoints(A) /\ Len(c) <= MaxConnections(l)
        BY <1>1, <1>3, <2>1 DEF LinkedAt
      <3> HIDE DEF c
      <3>2. c \in Seq(E \ {id})
        <4>1. c \in Seq(A) /\ \A k \in 1 .. Len(c) : c[k] \in E \ {id}
          BY <1>1, <3>1 DEF EntryPoints
        <4> QED BY <4>1
      <3> QED BY <2>1, <3>1, <3>2 DEF EntryPoints, c
    <2>2. ASSUME i # id, t[i].connections[l] = ns[i].connections[l]
          PROVE  /\ t[i].connections[l] \in Seq(E \ {i})
                 /\ IsInjective(t[i].connections[l])
                 /\ Len(t[i].connections[l]) <= MaxConnections(l)
      <3>1. i \in D /\ ns[i] = nodes[i]
        BY <1>1, <2>2
      <3> DEFINE c == nodes[i].connections[l]
      <3>2. c \in Seq(D \ {i}) /\ IsInjective(c) /\ Len(c) <= MaxConnections(l)
        BY <3>1 DEF HInv, WellLinked
      <3> HIDE DEF c
      <3>3. c \in Seq(E \ {i})
        <4>1. \A k \in 1 .. Len(c) : c[k] \in E \ {i}
          BY <3>2
        <4> QED BY <3>2, <4>1
      <3> QED BY <2>2, <3>1, <3>2, <3>3 DEF c
    <2>3. CASE i # id /\ l \notin 0 .. layer
      BY <1>4, <2>2, <2>3
    <2>4. CASE i # id /\ l \in 0 .. layer
      <3>1. \/ t[i].connections[l] = ns[i].connections[l]
            \/ LinksBack(ns, id, l, i, t[i].connections[l])
        BY <1>1, <1>3, <2>4 DEF LinkedAt
      <3>2. CASE LinksBack(ns, id, l, i, t[i].connections[l])
        BY <1>1, <3>2 DEF LinksBack
      <3> QED BY <2>2, <2>4, <3>1, <3>2
    <2> QED BY <2>1, <2>3, <2>4
  <1>6. ASSUME NEW i \in Live(t), NEW l \in DOMAIN t[i].connections,
               t[i].connections[l] # <<>>
        PROVE  l <= Larger(maxLayer, layer)
    <2>1. CASE l \in 0 .. layer
      BY <2>1, LayersCompared
    <2>2. CASE l \notin 0 .. layer
      <3>1. i \in A /\ i \in D /\ A # {}
        BY <1>1, <1>2, <1>6, <2>2
      <3>2. l \in DOMAIN nodes[i].connections /\ t[i].connections[l] = nodes[i].connections[l]
        BY <1>1, <1>2, <1>4, <2>2, <3>1
      <3>3. l <= maxLayer
        BY <1>6, <3>1, <3>2, LayersCompared
      <3>4. l \in Int
        <4>1. nodes \in Maps(D)
          BY InvMaps
        <4>2. PICK h \in Layer : DOMAIN nodes[i].connections = 0 .. h
          BY <3>1, <4>1, NodeHeight
        <4> QED BY <3>2, <4>2
      <3> QED BY <3>3, <3>4, LayersCompared
    <2> QED BY <2>1, <2>2
  <1>7. ASSUME Complete(nodes, A, 0), Cardinality(A) <= EfConstruction, Cardinality(A) <= 2 * M
        PROVE  Complete(t, Live(t), 0)
    <2> DEFINE c == t[id].connections[0]
    <2>1. MaxConnections(0) = 2 * M /\ 0 \in 0 .. layer
      BY LayersCompared DEF MaxConnections, Layer
    <2>2. Complete(ns, A, 0)
      BY <1>1, <1>7 DEF Complete
    <2>3. ToSet(c) = A
      BY <1>1, <1>3, <1>7, <2>1, <2>2 DEF LinkedAt
    <2>4. Cardinality(Live(ns)) <= MaxConnections(0) + 1
      <3>1. Cardinality(A \cup {id}) = Cardinality(A) + 1
        BY <1>1, LiveCount, Counts
      <3>2. Cardinality(A) \in Nat /\ M \in Nat
        <4>1. A \in SUBSET Id
          BY LiveCount
        <4> QED BY <4>1, NodesAreFinite, GraphAssumption
      <3> QED BY <1>1, <1>7, <2>1, <3>1, <3>2
    <2>5. \A i \in E : 0 \in DOMAIN t[i].connections
      <3> SUFFICES ASSUME NEW i \in E
                   PROVE  0 \in DOMAIN t[i].connections
        OBVIOUS
      <3>1. PICK h \in Layer : DOMAIN t[i].connections = 0 .. h
        BY <1>2, NodeHeight
      <3> QED BY <3>1 DEF Layer
    <2>6. \A i \in A : (ToSet(ns[i].connections[0]) \cap Live(ns)) \cup {id}
                            \subseteq ToSet(t[i].connections[0])
      <3> SUFFICES ASSUME NEW i \in A
                   PROVE  (ToSet(ns[i].connections[0]) \cap Live(ns)) \cup {id}
                              \subseteq ToSet(t[i].connections[0])
        OBVIOUS
      <3>1. i \in DOMAIN ns \ {id} /\ 0 \in DOMAIN ns[i].connections
        BY <1>1, <1>2, <2>5
      <3>2. LinksBack(ns, id, 0, i, t[i].connections[0])
        BY <1>3, <2>1, <2>3, <3>1 DEF LinkedAt
      <3> QED BY <2>4, <3>2 DEF LinksBack
    <2>7. \A i \in E : GetConnections(t[i], 0) = t[i].connections[0]
                       /\ GetConnections(ns[i], 0) = ns[i].connections[0]
      BY <1>2, <2>5 DEF GetConnections
    <2> SUFFICES ASSUME NEW i \in A \cup {id}, NEW j \in A \cup {id}, i # j
                 PROVE  j \in ToSet(t[i].connections[0])
      BY <1>1, <1>2, <2>7 DEF Complete
    <2>8. CASE i = id
      BY <2>3, <2>8
    <2>9. CASE i # id
      <3>1. CASE j = id
        BY <2>6, <2>9, <3>1
      <3>2. CASE j # id
        <4>1. j \in ToSet(ns[i].connections[0])
          BY <1>1, <2>2, <2>7, <2>9, <3>2 DEF Complete
        <4> QED BY <1>1, <2>6, <2>9, <3>2, <4>1
      <3> QED BY <3>1, <3>2
    <2> QED BY <2>8, <2>9
  <1>8. id \notin A
    BY <1>1
  <1> QED BY <1>1, <1>2, <1>5, <1>6, <1>7, <1>8 DEF Inserted

\* An insertion into an index with an entry point links the node at all its layers.
LEMMA NextBuilt ==
    ASSUME HInv, NEW id \in Id, NEW v \in Point, NEW layer \in Layer,
           NEW ns, NewIn(ns, id, v, layer), entrypoint # NoNode
    PROVE  Built(ns, id, 0, Connected(ns, id, layer))
  <1>1. entrypoint \in Others(ns, id)
    BY DEF HInv, Entered, NewIn
  <1>2. maxLayer \in Int
    BY LayersCompared
  <1>3. Fresh(ns, id) /\ DOMAIN ns[id].connections = 0 .. layer
    BY DEF NewIn
  <1> QED BY <1>1, <1>2, <1>3, ConnectedOf

\* Either form of an insertion leaves the nodes in order.
LEMMA InsertNodes ==
    ASSUME HInv, NEW id \in Id, NEW v \in Point, NEW layer \in Layer,
           id = Cardinality(DOMAIN nodes) + 1,
           InsertFirst(id, v, layer) \/ InsertNext(id, v, layer)
    PROVE  Inserted(id, layer, nodes')
  <1> DEFINE ns == WithNode(nodes, id, NewNode(v, layer))
  <1>1. NewIn(ns, id, v, layer)
    BY WithNodeOf
  <1> HIDE DEF ns
  <1>2. CASE InsertFirst(id, v, layer)
    <2>1. Inserted(id, layer, ns)
      BY <1>1, <1>2, InsertedFirst DEF InsertFirst
    <2> QED BY <1>2, <2>1 DEF InsertFirst, ns
  <1>3. CASE InsertNext(id, v, layer)
    <2>1. entrypoint # NoNode /\ nodes' = Connected(ns, id, layer)
      BY <1>3 DEF InsertNext, ns
    <2>2. Built(ns, id, 0, Connected(ns, id, layer))
      BY <1>1, <2>1, NextBuilt
    <2>3. Inserted(id, layer, Connected(ns, id, layer))
      BY <1>1, <2>2, InsertedNext
    <2> QED BY <2>1, <2>3
  <1> QED BY <1>2, <1>3

LEMMA InsertInv ==
    ASSUME HInv, NEW id \in Id, NEW v \in Point, Insert(id, v)
    PROVE  HInv'
  <1>1. PICK layer \in Layer : InsertFirst(id, v, layer) \/ InsertNext(id, v, layer)
    BY DEF Insert
  <1>2. PICK t : t = nodes'
    OBVIOUS
  <1>3. Inserted(id, layer, t)
    BY <1>1, <1>2, InsertNodes DEF Insert
  <1>4. /\ t = [i \in DOMAIN t |-> t[i]] /\ InTurn(DOMAIN t) /\ WellLinked(t)
        /\ \A i \in DOMAIN t : \E h \in Layer : t[i] \in Node(h)
    BY <1>3, MapsInv DEF Inserted
  <1>5. /\ size' = size + 1 /\ peak' = Larger(peak, Cardinality(Live(t)))
        /\ maxLayer' = Larger(maxLayer, layer)
        /\ entrypoint' # id => entrypoint' = entrypoint /\ entrypoint # NoNode
    <2>1. CASE InsertFirst(id, v, layer)
      BY <1>2, <2>1 DEF InsertFirst, Counted
    <2>2. CASE InsertNext(id, v, layer)
      <3>1. entrypoint' \in {entrypoint, id} /\ entrypoint # NoNode
        BY <2>2 DEF InsertNext
      <3>2. Counted(t) /\ maxLayer' = Larger(maxLayer, layer)
        BY <1>2, <2>2 DEF InsertNext
      <3> QED BY <3>1, <3>2 DEF Counted
    <2> QED BY <1>1, <2>1, <2>2
  <1>6. Cardinality(Live(t)) = size + 1 /\ Cardinality(Live(t)) \in 0 .. MaxId /\ size \in Nat
    <2>1. Live(nodes) \in SUBSET Id /\ Live(t) \in SUBSET Id /\ size \in Nat
      BY <1>3, LiveCount DEF Inserted
    <2> QED BY <1>3, <2>1, Counts DEF Inserted, HInv
  <1>7. Entered(t, entrypoint', maxLayer')
    <2>1. entrypoint' \in Live(t)
      BY <1>3, <1>5 DEF Inserted, HInv, Entered
    <2>2. maxLayer' \in Layer
      BY <1>5, LayersCompared
    <2> QED BY <1>3, <1>5, <2>1, <2>2 DEF Inserted, Entered
  <1>8. /\ peak \in size .. MaxId /\ peak \in Int
        /\ peak' \in Int /\ peak' >= peak /\ peak' >= size + 1 /\ peak' <= MaxId
    BY <1>5, <1>6, GraphAssumption DEF HInv, Larger
  <1>9. ASSUME Small'
        PROVE  Complete(t, Live(t), 0)
    <2>1. /\ peak' <= 2 * M + 1 /\ peak' <= EfConstruction + 1 /\ peak' <= EfSearch
          /\ EfConstruction \in Int /\ EfSearch \in Int /\ 2 * M \in Int
      BY <1>9, GraphAssumption, ParamsAssumption DEF Small
    <2>2. peak <= 2 * M + 1 /\ peak <= EfConstruction + 1 /\ peak <= EfSearch
          /\ size <= EfConstruction /\ size <= 2 * M
      BY <1>6, <1>8, <2>1
    <2>3. Small
      BY <2>2 DEF Small
    <2>4. Complete(nodes, Live(nodes), 0) /\ size = Cardinality(Live(nodes))
      BY <2>3 DEF HInv
    <2> QED BY <1>3, <2>2, <2>4 DEF Inserted
  <1>10. size' = Cardinality(Live(t)) /\ peak' \in size' .. MaxId
    BY <1>5, <1>6, <1>8, GraphAssumption
  <1> QED BY <1>2, <1>4, <1>7, <1>9, <1>10 DEF HInv

\* What a deletion makes of the nodes: one is marked.
Marked(id, t) ==
    /\ t \in Maps(DOMAIN nodes) /\ Live(t) = Live(nodes) \ {id}
    /\ \A i \in DOMAIN nodes : /\ t[i].connections = nodes[i].connections
                               /\ t[i].vector = nodes[i].vector

LEMMA DeleteNodes ==
    ASSUME HInv, NEW id \in DOMAIN nodes
    PROVE  Marked(id, [nodes EXCEPT ![id].deleted = TRUE])
  <1> DEFINE t == [nodes EXCEPT ![id].deleted = TRUE]
             D == DOMAIN nodes
             node == [nodes[id] EXCEPT !.deleted = TRUE]
  <1>1. nodes \in Maps(D)
    BY InvMaps
  <1>2. PICK h \in Layer : nodes[id] \in Node(h)
    BY <1>1, NodeHeight
  <1>3. /\ node \in Node(h) /\ node.deleted = TRUE /\ node.vector = nodes[id].vector
        /\ node.connections = nodes[id].connections
    BY <1>2 DEF Node
  <1>4. t = [nodes EXCEPT ![id] = node]
    OBVIOUS
  <1> HIDE DEF node, t
  <1>5. node \in AnyNode
    BY <1>3 DEF AnyNode
  <1>6. t \in Maps(D) /\ DOMAIN t = D /\ t[id] = node /\ \A i \in D : i # id => t[i] = nodes[i]
    BY <1>1, <1>4, <1>5 DEF Maps
  <1>7. Live(t) = Live(nodes) \ {id}
    BY <1>3, <1>6 DEF Live
  <1>8. \A i \in D : t[i].connections = nodes[i].connections /\ t[i].vector = nodes[i].vector
    BY <1>3, <1>6
  <1> QED BY <1>6, <1>7, <1>8 DEF Marked, t

LEMMA DeleteInv ==
    ASSUME HInv, NEW id \in DOMAIN nodes, Delete(id)
    PROVE  HInv'
  <1>1. PICK t : t = nodes'
    OBVIOUS
  <1>2. Marked(id, t) /\ id \in Live(nodes)
    BY <1>1, DeleteNodes DEF Delete
  <1>3. /\ DOMAIN t = DOMAIN nodes /\ t = [i \in DOMAIN t |-> t[i]]
        /\ \A i \in DOMAIN t : \E h \in Layer : t[i] \in Node(h)
    BY <1>2, MapsInv DEF Marked
  <1>4. WellLinked(t) /\ InTurn(DOMAIN t)
    BY <1>2, <1>3 DEF HInv, WellLinked, Marked
  <1>5. /\ Live(t) = Live(nodes) \ {id} /\ size' = size - 1 /\ size' = Cardinality(Live(t))
        /\ size \in Nat /\ size' \in Nat /\ (size' = 0 <=> Live(t) = {})
    <2>1. /\ Live(nodes) \in SUBSET Id /\ size \in Nat /\ size = Cardinality(Live(nodes))
          /\ id \in Id /\ Live(t) = Live(nodes) \ {id} /\ Live(t) \in SUBSET Id
      BY <1>2, LiveCount DEF HInv, Marked
    <2>2. size' = size - 1
      BY DEF Delete
    <2>3. Cardinality(Live(t)) = size - 1 /\ Cardinality(Live(t)) \in Nat
      BY <1>2, <2>1, Counts, NodesAreFinite
    <2>4. Cardinality(Live(t)) = 0 <=> Live(t) = {}
      BY <2>1, NodesAreFinite, FS_EmptySet
    <2> QED BY <2>1, <2>2, <2>3, <2>4
  <1>6. Entered(t, entrypoint', maxLayer')
    <2>1. CASE entrypoint = id /\ Live(t) = {}
      BY <1>1, <2>1 DEF Delete, FindNewEntrypoint, Entered
    <2>2. CASE entrypoint = id /\ Live(t) # {}
      <3>1. PICK i \in Live(t) : /\ \A j \in Live(t) : NodeLayer(t, j) <= NodeLayer(t, i)
                                 /\ entrypoint' = i /\ maxLayer' = NodeLayer(t, i)
        BY <1>1, <2>2 DEF Delete, FindNewEntrypoint
      <3>2. NodeLayer(t, i) \in Layer
        BY <1>2, <1>3, NodeLayerOf DEF Marked, Live
      <3>3. ASSUME NEW j \in Live(t), NEW l \in DOMAIN t[j].connections,
                   t[j].connections[l] # <<>>
            PROVE  l <= NodeLayer(t, i)
        <4>1. j \in DOMAIN nodes /\ t \in Maps(DOMAIN nodes)
          BY <1>2, <1>3 DEF Live, Marked
        <4>2. l <= NodeLayer(t, j) /\ NodeLayer(t, j) \in Layer
          BY <3>3, <4>1, NodeLayerOf
        <4>3. NodeLayer(t, j) <= NodeLayer(t, i)
          BY <3>1
        <4>4. PICK h \in Layer : DOMAIN t[j].connections = 0 .. h
          BY <4>1, NodeHeight
        <4>5. l \in Int
          BY <4>4
        <4> QED BY <3>2, <4>2, <4>3, <4>5 DEF Layer
      <3> QED BY <3>1, <3>2, <3>3 DEF Entered
    <2>3. CASE entrypoint # id
      <3>1. entrypoint' = entrypoint /\ maxLayer' = maxLayer
        BY <2>3 DEF Delete
      <3>2. entrypoint \in Live(t)
        BY <1>2, <1>5, <2>3 DEF HInv, Entered
      <3> QED BY <1>2, <1>3, <1>5, <3>1, <3>2 DEF HInv, Entered, Marked, Live
    <2> QED BY <2>1, <2>2, <2>3
  <1>7. peak' = IF size' = 0 THEN 0 ELSE peak
    BY DEF Delete
  <1>8. peak' \in size' .. MaxId
    BY <1>5, <1>7, GraphAssumption DEF HInv
  <1>9. ASSUME Small'
        PROVE  Complete(t, Live(t), 0)
    <2>1. CASE size' = 0
      BY <1>5, <2>1 DEF Complete
    <2>2. CASE size' # 0
      <3>1. Small
        BY <1>7, <1>9, <2>2 DEF Small
      <3>2. Complete(nodes, Live(nodes), 0)
        BY <3>1 DEF HInv
      <3>3. \A i \in Live(nodes) : GetConnections(t[i], 0) = GetConnections(nodes[i], 0)
        BY <1>2 DEF Marked, GetConnections, Live
      <3> QED BY <1>5, <3>2, <3>3 DEF Complete
    <2> QED BY <2>1, <2>2
  <1> QED BY <1>1, <1>3, <1>4, <1>5, <1>6, <1>8, <1>9 DEF HInv

-----------------------------------------------------------------------------
(* Save and load.                                                          *)

\* What FromSnapshot makes of one node.
Restored(s) ==
    [vector |-> s.vector, deleted |-> s.deleted,
     connections |-> [l \in 0 .. s.maxLayer |->
        IF \E p \in s.layers : p[1] = l THEN (CHOOSE p \in s.layers : p[1] = l)[2] ELSE <<>>]]

\* No layer is lost: those without an entry in the snapshot come back empty.
LEMMA RestoredNode ==
    ASSUME NEW h \in Layer, NEW node \in Node(h)
    PROVE  Restored(NodeSnapshot(node)) = node
  <1> DEFINE links == node.connections
             S == {<<l, links[l]>> : l \in {k \in DOMAIN links : links[k] # <<>>}}
             s == NodeSnapshot(node)
             entry(l) == CHOOSE p \in S : p[1] = l
  <1>1. /\ links \in [0 .. h -> Seq(Id)] /\ DOMAIN links = 0 .. h /\ h \in Nat
        /\ node = [vector |-> node.vector, deleted |-> node.deleted, connections |-> links]
    BY DEF Node, Layer
  <1>2. Cardinality(0 .. h) = h + 1
    <2> HIDE DEF links, S, s, entry
    <2>1. PICK k \in Int : k = 0
      OBVIOUS
    <2>2. Cardinality(k .. h) = IF k > h THEN 0 ELSE h - k + 1
      BY <1>1, FS_Interval
    <2> QED BY <1>1, <2>1, <2>2
  <1>3. /\ s.vector = node.vector /\ s.deleted = node.deleted /\ s.maxLayer = h /\ s.layers = S
    BY <1>1, <1>2 DEF NodeSnapshot
  <1> HIDE DEF s, links
  <1>4. ASSUME NEW l \in 0 .. h
        PROVE  (IF \E p \in S : p[1] = l THEN entry(l)[2] ELSE <<>>) = links[l]
    <2>1. CASE links[l] # <<>>
      <3> DEFINE p == <<l, links[l]>>
      <3>1. p \in S /\ p[1] = l
        BY <1>1, <2>1
      <3> HIDE DEF p, S
      <3>2. entry(l) \in S /\ entry(l)[1] = l
        BY <3>1
      <3> HIDE DEF entry
      <3>3. \A e \in S : e[2] = links[e[1]]
        BY DEF S
      <3>4. entry(l)[2] = links[l]
        BY <3>2, <3>3
      <3> QED BY <3>1, <3>4
    <2>2. CASE links[l] = <<>>
      <3>1. ~\E p \in S : p[1] = l
        BY <2>2
      <3> HIDE DEF S
      <3> QED BY <2>2, <3>1
    <2> QED BY <2>1, <2>2
  <1> DEFINE new == [l \in 0 .. h |-> IF \E p \in S : p[1] = l THEN entry(l)[2] ELSE <<>>]
  <1>5. Restored(s) = [vector |-> node.vector, deleted |-> node.deleted, connections |-> new]
    BY <1>3 DEF Restored
  <1>6. new = links
    <2>1. \A l \in 0 .. h : new[l] = links[l]
      BY <1>4
    <2>2. new = [l \in 0 .. h |-> new[l]] /\ links = [l \in 0 .. h |-> links[l]]
      BY <1>1
    <2> HIDE DEF new
    <2> QED BY <2>1, <2>2
  <1> HIDE DEF new
  <1> QED BY <1>1, <1>5, <1>6 DEF s

LEMMA ReloadSame == HInv => FromSnapshot(ToSnapshot) = nodes
  <1> SUFFICES ASSUME HInv PROVE FromSnapshot(ToSnapshot) = nodes
    OBVIOUS
  <1> DEFINE g == ToSnapshot
             D == DOMAIN nodes
  <1>1. nodes \in Maps(D) /\ nodes = [i \in D |-> nodes[i]]
    BY InvMaps DEF HInv
  <1>2. DOMAIN g.nodes = D /\ \A i \in D : g.nodes[i] = NodeSnapshot(nodes[i])
    BY DEF ToSnapshot
  <1> HIDE DEF g
  <1>3. FromSnapshot(g) = [i \in D |-> Restored(g.nodes[i])]
    BY <1>2 DEF FromSnapshot, Restored
  <1>4. \A i \in D : Restored(g.nodes[i]) = nodes[i]
    <2> SUFFICES ASSUME NEW i \in D
                 PROVE  Restored(g.nodes[i]) = nodes[i]
      OBVIOUS
    <2>1. PICK h \in Layer : nodes[i] \in Node(h)
      BY <1>1, NodeHeight
    <2> QED BY <1>2, <2>1, RestoredNode
  <1> QED BY <1>1, <1>3, <1>4 DEF g

\* A restart on a snapshot taken just before changes nothing.
LEMMA ReloadStutters == HInv /\ Reload => UNCHANGED vars
  <1> SUFFICES ASSUME HInv, Reload PROVE UNCHANGED vars
    OBVIOUS
  <1>1. FromSnapshot(ToSnapshot) = nodes
    BY ReloadSame
  <1> QED BY <1>1 DEF Reload, ToSnapshot, vars

LEMMA InitInv == Init => HInv
  <1> SUFFICES ASSUME Init PROVE HInv
    OBVIOUS
  <1>1. DOMAIN nodes = {} /\ nodes = [i \in DOMAIN nodes |-> nodes[i]]
    BY DEF Init
  <1>2. Live(nodes) = {} /\ InTurn({}) /\ WellLinked(nodes) /\ Complete(nodes, {}, 0)
    BY <1>1, GraphAssumption DEF Live, InTurn, WellLinked, Complete
  <1>3. Cardinality({}) = 0
    BY FS_EmptySet
  <1> QED BY <1>1, <1>2, <1>3, GraphAssumption DEF Init, HInv, Entered

LEMMA StepInv == HInv /\ [Next]_vars => HInv'
  <1> SUFFICES ASSUME HInv, [Next]_vars PROVE HInv'
    OBVIOUS
  <1>1. CASE \E id \in Id, v \in Point : Insert(id, v)
    BY <1>1, InsertInv
  <1>2. CASE \E id \in DOMAIN nodes : Delete(id)
    BY <1>2, DeleteInv
  <1>3. ASSUME UNCHANGED vars
        PROVE  HInv'
    <2>1. PICK ns : ns = nodes /\ ns = nodes'
      BY <1>3 DEF vars
    <2>2. entrypoint' = entrypoint /\ maxLayer' = maxLayer /\ size' = size /\ peak' = peak
      BY <1>3 DEF vars
    <2> QED BY <2>1, <2>2 DEF HInv, Small
  <1>4. CASE Reload
    BY <1>3, <1>4, ReloadStutters
  <1> QED BY <1>1, <1>2, <1>3, <1>4 DEF Next

\* The inductive invariant holds in every state of the specification.
THEOREM Invariance == Spec => []HInv
  <1>1. Init => HInv
    BY InitInv
  <1>2. HInv /\ [Next]_vars => HInv'
    BY StepInv
  <1> QED BY <1>1, <1>2, PTL DEF Spec

\* A graph that is saved and loaded is the same graph, layers without links and deleted
\* nodes included (ExportGraphState, ImportGraphState and the RDB's form of the graph).
THEOREM LoadedIsSaved == Spec => []ReloadExact
  <1>1. HInv => ReloadExact
    BY ReloadSame DEF ReloadExact, HInv, ToSnapshot
  <1> QED BY <1>1, Invariance, PTL

-----------------------------------------------------------------------------
(* Searches.                                                               *)

\* Walks among the live nodes stay there.
LEMMA LiveClosed == HInv => \A l : Closed(nodes, Live(nodes), l)
  <1> SUFFICES ASSUME HInv, NEW l, NEW i \in Live(nodes)
               PROVE  /\ GetConnections(nodes[i], l) \in Seq(DOMAIN nodes)
                      /\ ToSet(GetConnections(nodes[i], l)) \cap Live(nodes) \subseteq Live(nodes)
    BY DEF Closed
  <1>1. CASE l \in DOMAIN nodes[i].connections
    <2> DEFINE c == nodes[i].connections[l]
    <2>1. GetConnections(nodes[i], l) = c /\ c \in Seq(DOMAIN nodes \ {i})
      BY <1>1 DEF HInv, WellLinked, GetConnections, Live
    <2> HIDE DEF c
    <2>2. \A k \in 1 .. Len(c) : c[k] \in DOMAIN nodes
      BY <2>1
    <2> QED BY <2>1, <2>2
  <1>2. CASE l \notin DOMAIN nodes[i].connections
    BY <1>2 DEF GetConnections
  <1> QED BY <1>1, <1>2

\* What Search finds.
LEMMA FoundOf ==
    ASSUME HInv, NEW q \in Point
    PROVE  /\ Live(nodes) = {} => Found(q) = <<>>
           /\ Live(nodes) # {} => Finishes(nodes, q, EfSearch, 0, Live(nodes), Found(q))
  <1> DEFINE A == Live(nodes)
             eps == Descend(nodes, q, entrypoint, maxLayer, 0)
  <1>1. CASE A = {}
    BY <1>1, LiveCount DEF Found
  <1>2. CASE A # {}
    <2>1. entrypoint \in A /\ maxLayer \in Layer /\ entrypoint # NoNode /\ size # 0
      BY <1>2, LiveCount DEF HInv, Entered, NoNode, Id
    <2>2. Found(q) = SearchLayer(nodes, q, eps, EfSearch, 0)
      BY <2>1 DEF Found
    <2>3. PointsOf(nodes) /\ A \in SUBSET Live(nodes)
      BY InvMaps, LiveCount, NodeHeight DEF PointsOf
    <2>4. EfSearch \in Nat \ {0} /\ maxLayer \in Int /\ 0 \in Int /\ 0 <= maxLayer
      BY <2>1, ParamsAssumption DEF Layer
    <2>5. \A l : Closed(nodes, A, l)
      BY LiveClosed
    <2> HIDE DEF A
    <2>6. eps \in EntryPoints(A)
      <3>1. \A l \in 0 + 1 .. maxLayer : Closed(nodes, A, l)
        BY <2>5
      <3> QED BY <2>1, <2>3, <2>4, <3>1, DescendFinds
    <2> HIDE DEF eps
    <2>7. eps \in Seq(A) /\ IsInjective(eps) /\ eps # <<>>
      BY <2>6 DEF EntryPoints
    <2>8. Finishes(nodes, q, EfSearch, 0, A, SearchLayer(nodes, q, eps, EfSearch, 0))
      BY <2>3, <2>4, <2>5, <2>7, SearchLayerFinds
    <2> QED BY <1>2, <2>2, <2>8 DEF A
  <1> QED BY <1>1, <1>2

\* Search finds distinct live vectors, nearest first, and at least one when there is any.
THEOREM AnswersSound == Spec => []ResultsSound
  <1>1. ASSUME HInv
        PROVE  ResultsSound
    <2> SUFFICES ASSUME NEW q \in Point
                 PROVE  /\ IsInjective(Found(q)) /\ ToSet(Found(q)) \subseteq Live(nodes)
                        /\ Live(nodes) # {} => Found(q) # <<>>
                        /\ \A k \in 2 .. Len(Found(q)) :
                              Distance(q, nodes[Found(q)[k - 1]].vector)
                                  <= Distance(q, nodes[Found(q)[k]].vector)
      BY DEF ResultsSound
    <2> DEFINE r == Found(q)
    <2>1. CASE Live(nodes) = {}
      <3>1. r = <<>>
        BY <1>1, <2>1, FoundOf
      <3>2. IsInjective(<<>>) /\ ToSet(<<>>) = {} /\ Len(<<>>) = 0
        BY DEF IsInjective, ToSet
      <3> HIDE DEF r
      <3>3. /\ IsInjective(r) /\ ToSet(r) \subseteq Live(nodes) /\ \A k \in 2 .. Len(r) : FALSE
        BY <3>1, <3>2
      <3> QED BY <2>1, <3>3 DEF r
    <2>2. CASE Live(nodes) # {}
      <3>1. Finishes(nodes, q, EfSearch, 0, Live(nodes), r)
        BY <1>1, <2>2, FoundOf
      <3> HIDE DEF r
      <3>2. /\ r \in Seq(Live(nodes)) /\ IsInjective(r) /\ r # <<>>
            /\ \A j, k \in DOMAIN r : j <= k => Far(nodes, q, r[j]) <= Far(nodes, q, r[k])
        BY <3>1 DEF Finishes
      <3>3. ToSet(r) \subseteq Live(nodes)
        BY <3>2 DEF ToSet
      <3>4. \A k \in 2 .. Len(r) : k - 1 \in DOMAIN r /\ k \in DOMAIN r /\ k - 1 <= k
        BY <3>2
      <3>5. \A k \in 2 .. Len(r) : Far(nodes, q, r[k - 1]) <= Far(nodes, q, r[k])
        BY <3>2, <3>4
      <3> QED BY <3>2, <3>3, <3>5 DEF Far, r
    <2> QED BY <2>1, <2>2
  <1> QED BY <1>1, Invariance, PTL

\* The best answer of a search is at least as near as every live neighbour it has at
\* layer 0: the walk of searchLayer does not stop early.
THEOREM BestIsLocalOptimum == Spec => []NearestIsLocalOptimum
  <1>1. ASSUME HInv
        PROVE  NearestIsLocalOptimum
    <2> SUFFICES ASSUME Live(nodes) # {}, NEW q \in Point,
                        NEW n \in ToSet(GetConnections(nodes[Found(q)[1]], 0)) \cap Live(nodes)
                 PROVE  Distance(q, nodes[Found(q)[1]].vector) <= Distance(q, nodes[n].vector)
      BY DEF NearestIsLocalOptimum
    <2>1. Finishes(nodes, q, EfSearch, 0, Live(nodes), Found(q))
      BY <1>1, FoundOf
    <2> QED BY <2>1 DEF Finishes, Far
  <1> QED BY <1>1, Invariance, PTL

\* As long as no more vectors have been live at once than a node may have neighbours,
\* and no more than the searches keep, a search finds all that are live.
THEOREM SmallIsExact == Spec => []ExactWhileSmall
  <1>1. ASSUME HInv
        PROVE  ExactWhileSmall
    <2> SUFFICES ASSUME Small, NEW q \in Point
                 PROVE  ToSet(Found(q)) = Live(nodes)
      BY DEF ExactWhileSmall
    <2>1. CASE Live(nodes) = {}
      <3>1. Found(q) = <<>>
        BY <1>1, <2>1, FoundOf
      <3> QED BY <2>1, <3>1 DEF ToSet
    <2>2. CASE Live(nodes) # {}
      <3>1. Finishes(nodes, q, EfSearch, 0, Live(nodes), Found(q))
        BY <1>1, <2>2, FoundOf
      <3>2. Cardinality(Live(nodes)) <= EfSearch
        BY <1>1, LiveCount, ParamsAssumption, GraphAssumption DEF HInv, Small
      <3>3. Complete(nodes, Live(nodes), 0)
        BY <1>1 DEF HInv
      <3> QED BY <3>1, <3>2, <3>3 DEF Finishes
    <2> QED BY <2>1, <2>2
  <1> QED BY <1>1, Invariance, PTL

-----------------------------------------------------------------------------
(* The graph as HNSWGraph sees it.                                         *)

\* HNSWGraph's names for what both modules know.
LEMMA GraphNames ==
    /\ Graph!Id = Id /\ Graph!Layer = Layer /\ Graph!NoNode = NoNode
    /\ \A l : Graph!Width(l) = MaxConnections(l)
    /\ \A a, b : Graph!Higher(a, b) = Larger(a, b)
    /\ \A S : Graph!Cardinality(S) = Cardinality(S)
  <1>1. Graph!Id = Id /\ Graph!Layer = Layer /\ Graph!NoNode = NoNode
    BY DEF Graph!Id, Id, Graph!Layer, Layer, Graph!NoNode, NoNode
  <1>2. \A l : Graph!Width(l) = MaxConnections(l)
    BY DEF Graph!Width, MaxConnections
  <1>3. \A a, b : Graph!Higher(a, b) = Larger(a, b)
    BY DEF Graph!Higher, Larger
  <1>4. \A S : Graph!Cardinality(S) = Cardinality(S)
    BY DEF Graph!Cardinality, Cardinality
  <1> QED BY <1>1, <1>2, <1>3, <1>4

LinkSets(ns) ==
    [i \in Id |-> [l \in Layer |->
        IF i \in DOMAIN ns THEN ToSet(GetConnections(ns[i], l)) ELSE {}]]
Heights(ns) ==
    [i \in Id |-> IF i \in DOMAIN ns THEN Cardinality(DOMAIN ns[i].connections) ELSE 0]

\* The links of a node at a layer, as a set.
LEMMA LinkSetsOf ==
    ASSUME NEW ns, ns \in Maps(DOMAIN ns), WellLinked(ns), DOMAIN ns \subseteq Id,
           NEW i \in Id, NEW l \in Layer
    PROVE  /\ LinkSets(ns)[i][l] \subseteq DOMAIN ns \ {i}
           /\ Cardinality(LinkSets(ns)[i][l]) <= MaxConnections(l)
           /\ i \in DOMAIN ns /\ l \in DOMAIN ns[i].connections =>
                 /\ LinkSets(ns)[i][l] = ToSet(ns[i].connections[l])
                 /\ LinkSets(ns)[i][l] # {} <=> ns[i].connections[l] # <<>>
           /\ ~(i \in DOMAIN ns /\ l \in DOMAIN ns[i].connections) => LinkSets(ns)[i][l] = {}
  <1> DEFINE set == LinkSets(ns)[i][l]
  <1>1. set = IF i \in DOMAIN ns THEN ToSet(GetConnections(ns[i], l)) ELSE {}
    BY DEF LinkSets
  <1> HIDE DEF set
  <1>2. CASE i \in DOMAIN ns /\ l \in DOMAIN ns[i].connections
    <2> DEFINE c == ns[i].connections[l]
    <2>1. set = ToSet(c) /\ c \in Seq(DOMAIN ns \ {i}) /\ IsInjective(c) /\ Len(c) <= MaxConnections(l)
      BY <1>1, <1>2 DEF GetConnections, WellLinked
    <2> HIDE DEF c
    <2>2. set \subseteq DOMAIN ns \ {i}
      BY <2>1 DEF ToSet
    <2>3. c \in Seq(Id)
      <3>1. \A k \in 1 .. Len(c) : c[k] \in Id
        BY <2>1
      <3> QED BY <2>1, <3>1
    <2>4. Cardinality(set) = Len(c)
      BY <2>1, <2>3, InjectiveCount
    <2>5. set # {} <=> c # <<>>
      <3>1. c # <<>> => 1 \in DOMAIN c
        BY <2>1
      <3>2. c = <<>> => DOMAIN c = {}
        OBVIOUS
      <3> QED BY <2>1, <3>1, <3>2 DEF ToSet
    <2> QED BY <1>2, <2>1, <2>2, <2>4, <2>5 DEF set, c
  <1>3. CASE ~(i \in DOMAIN ns /\ l \in DOMAIN ns[i].connections)
    <2>1. set = {}
      BY <1>1, <1>3 DEF GetConnections, ToSet
    <2>2. Cardinality({}) = 0
      BY FS_EmptySet
    <2> QED BY <1>3, <2>1, <2>2, Widths DEF set
  <1> QED BY <1>2, <1>3

\* The layers of a node, as a number.
LEMMA HeightsOf ==
    ASSUME NEW ns, ns \in Maps(DOMAIN ns), NEW i \in DOMAIN ns, i \in Id
    PROVE  /\ Heights(ns)[i] \in 1 .. MaxLayers
           /\ DOMAIN ns[i].connections = 0 .. Heights(ns)[i] - 1
           /\ \A l \in Layer : l < Heights(ns)[i] <=> l \in DOMAIN ns[i].connections
  <1>1. PICK h \in Layer : DOMAIN ns[i].connections = 0 .. h
    BY NodeHeight
  <1>2. Cardinality(0 .. h) = h + 1 /\ h \in Nat /\ h + 1 \in 1 .. MaxLayers
    <2>1. h \in Nat /\ h + 1 \in 1 .. MaxLayers
      BY GraphAssumption DEF Layer
    <2>2. PICK k \in Int : k = 0
      OBVIOUS
    <2>3. Cardinality(k .. h) = IF k > h THEN 0 ELSE h - k + 1
      BY <2>1, FS_Interval
    <2> QED BY <2>1, <2>2, <2>3
  <1>3. Heights(ns)[i] = h + 1
    BY <1>1, <1>2 DEF Heights
  <1> HIDE DEF Heights
  <1> QED BY <1>1, <1>2, <1>3 DEF Layer

LEMMA InvGraph ==
    ASSUME HInv
    PROVE  /\ nodes \in Maps(DOMAIN nodes) /\ WellLinked(nodes) /\ DOMAIN nodes \subseteq Id
           /\ Graph!Alive = Live(nodes)
  <1>1. Graph!Alive = DOMAIN nodes \ (DOMAIN nodes \ Live(nodes))
    BY DEF Graph!Alive
  <1>2. DOMAIN nodes \ (DOMAIN nodes \ Live(nodes)) = Live(nodes)
    BY DEF Live
  <1> QED BY <1>1, <1>2, InvMaps, LiveCount DEF HInv

\* Links lead to other nodes that exist, none twice; degrees are bounded; entry point, top
\* layer and size agree with the live nodes: what every walk of the code takes for granted.
THEOREM GraphIsSound == Spec => []GraphSound
  <1>1. ASSUME HInv
        PROVE  GraphSound
    <2> DEFINE ls == LinkSets(nodes)
               hs == Heights(nodes)
               D == DOMAIN nodes
    <2>1. nodes \in Maps(D) /\ WellLinked(nodes) /\ D \subseteq Id /\ Graph!Alive = Live(nodes)
      BY <1>1, InvGraph
    <2>2. TypeOK
      <3>1. entrypoint \in Id \cup {NoNode} /\ maxLayer \in -1 .. MaxLayers - 1
        BY <1>1, LiveCount, GraphAssumption DEF HInv, Entered, Layer
      <3>2. peak \in size .. MaxId /\ size \in 0 .. MaxId
        BY <1>1, LiveCount, GraphAssumption DEF HInv
      <3> QED BY <1>1, <2>1, <3>1, <3>2 DEF TypeOK, HInv
    <2>3. \A i \in D : \A l \in DOMAIN nodes[i].connections : IsInjective(nodes[i].connections[l])
      BY <2>1 DEF WellLinked
    <2>4. \A i \in Id, l \in Layer :
              /\ ls[i][l] \subseteq D \ {i} /\ Cardinality(ls[i][l]) <= MaxConnections(l)
              /\ ls[i][l] # {} => /\ i \in D /\ l \in DOMAIN nodes[i].connections
                                  /\ nodes[i].connections[l] # <<>>
      BY <2>1, LinkSetsOf
    <2>5. \A i \in D, l \in Layer : l \in DOMAIN nodes[i].connections => l < hs[i]
      BY <2>1, HeightsOf
    <2>6. Graph!LinksSound
      <3>1. \A i \in Id, l \in Layer : /\ ls[i][l] \subseteq D \ {i}
                                       /\ ls[i][l] # {} => i \in D /\ l < hs[i]
        BY <2>4, <2>5
      <3> QED BY <3>1, GraphNames DEF Graph!LinksSound, LinkSets, Heights
    <2>7. Graph!DegreeBounded
      <3>1. \A i \in Id, l \in Layer : Cardinality(ls[i][l]) <= MaxConnections(l)
        BY <2>4
      <3> QED BY <3>1, GraphNames DEF Graph!DegreeBounded, LinkSets
    <2>8. Graph!EntryIsLive
      <3>1. /\ entrypoint = NoNode <=> Live(nodes) = {}
            /\ entrypoint # NoNode => entrypoint \in Live(nodes)
            /\ size = Cardinality(Live(nodes))
        BY <1>1, LiveCount DEF HInv, Entered, NoNode, Id
      <3> QED BY <2>1, <3>1, GraphNames DEF Graph!EntryIsLive
    <2>9. Graph!LayersCovered
      <3>1. maxLayer = -1 <=> Live(nodes) = {}
        BY <1>1 DEF HInv, Entered, Layer
      <3>2. \A i \in Live(nodes), l \in Layer : ls[i][l] # {} => l <= maxLayer
        <4>1. \A i \in Live(nodes) : i \in Id
          BY <2>1 DEF Live
        <4> QED BY <1>1, <2>4, <4>1 DEF HInv, Entered
      <3> QED BY <2>1, <3>1, <3>2, GraphNames DEF Graph!LayersCovered, LinkSets
    <2> QED BY <2>2, <2>3, <2>6, <2>7, <2>8, <2>9 DEF GraphSound, Graph!GraphSound
  <1> QED BY <1>1, Invariance, PTL

\* The code's highest layer is HNSWGraph's.
LEMMA NodeLayerSets ==
    ASSUME NEW ns, ns \in Maps(DOMAIN ns), WellLinked(ns), DOMAIN ns \subseteq Id,
           NEW i \in DOMAIN ns
    PROVE  /\ Graph!IsNodeLayer(NodeLayer(ns, i), LinkSets(ns)[i])
           /\ NodeLayer(ns, i) \in Layer
  <1> DEFINE h == NodeLayer(ns, i)
             ls == LinkSets(ns)[i]
             links == ns[i].connections
  <1>1. /\ h \in Layer /\ h \in DOMAIN links /\ (h # 0 => links[h] # <<>>)
        /\ \A l \in DOMAIN links : links[l] # <<>> => l <= h
    BY NodeLayerOf
  <1>2. i \in Id
    OBVIOUS
  <1>3. \A l \in Layer : IF l \in DOMAIN links THEN ls[l] # {} <=> links[l] # <<>> ELSE ls[l] = {}
    BY <1>2, LinkSetsOf
  <1> HIDE DEF h, ls, links
  <1>4. (h # 0 => ls[h] # {}) /\ \A l \in Layer : ls[l] # {} => l <= h
    BY <1>1, <1>3
  <1>5. Graph!IsNodeLayer(h, ls)
    BY <1>1, <1>4, GraphNames DEF Graph!IsNodeLayer
  <1> QED BY <1>1, <1>5 DEF h, ls

LEMMA GraphSetsTyped ==
    ASSUME NEW ns, ns \in Maps(DOMAIN ns), WellLinked(ns), DOMAIN ns \subseteq Id
    PROVE  LinkSets(ns) \in [Id -> [Layer -> SUBSET Id]]
  <1>1. \A i \in Id, l \in Layer : LinkSets(ns)[i][l] \subseteq Id
    BY LinkSetsOf
  <1> DEFINE f == LinkSets(ns)
  <1>2. f = [i \in Id |-> f[i]] /\ \A i \in Id : f[i] = [l \in Layer |-> f[i][l]]
    BY DEF LinkSets
  <1> HIDE DEF f
  <1>3. \A i \in Id : f[i] \in [Layer -> SUBSET Id]
    BY <1>1, <1>2 DEF f
  <1>4. f \in [Id -> [Layer -> SUBSET Id]]
    BY <1>2, <1>3
  <1> QED BY <1>4 DEF f

\* The parts of the graph that both forms of an insertion change alike.
LEMMA EnterStep ==
    ASSUME HInv, NEW id \in Id, NEW v \in Point, NEW layer \in Layer,
           NEW ns, NewIn(ns, id, v, layer), NEW t, nodes' = t,
           t \in Maps(DOMAIN ns), SameNodes(ns, t),
           maxLayer' = Larger(maxLayer, layer), size' = size + 1
    PROVE  Graph!Enter(id, layer)
  <1> DEFINE D == DOMAIN nodes
  <1>1. /\ D \subseteq Id /\ nodes \in Maps(D) /\ Live(nodes) \subseteq D
    BY InvGraph DEF Live
  <1>2. /\ id \notin D /\ DOMAIN ns = D \cup {id} /\ Live(ns) = Live(nodes) \cup {id}
        /\ DOMAIN ns[id].connections = 0 .. layer /\ \A i \in D : ns[i] = nodes[i]
    BY DEF NewIn
  <1>3. DOMAIN t = D \cup {id} /\ Live(t) = Live(nodes) \cup {id}
        /\ \A i \in D \cup {id} : DOMAIN t[i].connections = DOMAIN ns[i].connections
    BY <1>2, SameNodesLive DEF SameNodes
  <1>4. DOMAIN t \ Live(t) = D \ Live(nodes)
    BY <1>1, <1>2, <1>3
  <1>5. Heights(t) = [Heights(nodes) EXCEPT ![id] = layer + 1]
    <2>1. Heights(t)[id] = layer + 1
      <3>1. layer \in Nat
        BY DEF Layer
      <3>2. PICK k \in Int : k = 0
        OBVIOUS
      <3>3. Cardinality(k .. layer) = IF k > layer THEN 0 ELSE layer - k + 1
        BY <3>1, FS_Interval
      <3>4. Cardinality(0 .. layer) = layer + 1
        BY <3>1, <3>2, <3>3
      <3> QED BY <1>2, <1>3, <3>4 DEF Heights
    <2>2. \A i \in Id : i # id => Heights(t)[i] = Heights(nodes)[i]
      BY <1>2, <1>3 DEF Heights
    <2>3. Heights(t) = [i \in Id |-> Heights(t)[i]] /\ Heights(nodes) = [i \in Id |-> Heights(nodes)[i]]
      BY DEF Heights
    <2> DEFINE f == Heights(t)
               g == Heights(nodes)
    <2> HIDE DEF f, g
    <2>4. f = [i \in Id |-> f[i]] /\ g = [i \in Id |-> g[i]] /\ f[id] = layer + 1
          /\ \A i \in Id : i # id => f[i] = g[i]
      BY <2>1, <2>2, <2>3 DEF f, g
    <2>5. f = [g EXCEPT ![id] = layer + 1]
      BY <2>4
    <2> QED BY <2>5 DEF f, g
  <1>6. /\ id \in Id \ DOMAIN nodes /\ DOMAIN nodes' = DOMAIN nodes \cup {id}
        /\ DOMAIN nodes' \ Live(nodes') = DOMAIN nodes \ Live(nodes)
        /\ Heights(nodes') = [Heights(nodes) EXCEPT ![id] = layer + 1]
        /\ maxLayer' = Larger(maxLayer, layer) /\ size' = size + 1
    BY <1>2, <1>3, <1>4, <1>5
  <1> QED BY <1>6, GraphNames DEF Graph!Enter, Heights

\* Each operation is the step of HNSWGraph that has its name.
LEMMA FirstStep ==
    ASSUME HInv, NEW id \in Id, NEW v \in Point, NEW layer \in Layer,
           id = Cardinality(DOMAIN nodes) + 1, InsertFirst(id, v, layer)
    PROVE  Graph!GInsertFirst(id, layer)
  <1>1. PICK ns : ns = WithNode(nodes, id, NewNode(v, layer))
    OBVIOUS
  <1>2. NewIn(ns, id, v, layer) /\ nodes' = ns
    BY <1>1, WithNodeOf DEF InsertFirst
  <1>3. ns \in Maps(DOMAIN ns) /\ SameNodes(ns, ns)
    BY <1>2 DEF NewIn, Fresh, SameNodes
  <1>4. Graph!Enter(id, layer)
    BY <1>2, <1>3, EnterStep DEF InsertFirst, Counted
  <1>5. LinkSets(ns) = [LinkSets(nodes) EXCEPT ![id] = [l \in Layer |-> {}]]
    <2>1. LinkSets(ns)[id] = [l \in Layer |-> {}]
      <3>1. id \in DOMAIN ns /\ \A l \in Layer : GetConnections(ns[id], l) = <<>>
        BY <1>2 DEF NewIn, Fresh, GetConnections
      <3>2. ToSet(<<>>) = {}
        BY DEF ToSet
      <3> QED BY <3>1, <3>2 DEF LinkSets
    <2>2. \A i \in Id : i # id => LinkSets(ns)[i] = LinkSets(nodes)[i]
      BY <1>2 DEF NewIn, LinkSets
    <2> DEFINE f == LinkSets(ns)
               g == LinkSets(nodes)
               e == [l \in Layer |-> {}]
    <2>3. f = [i \in Id |-> f[i]] /\ g = [i \in Id |-> g[i]]
      BY DEF LinkSets
    <2> HIDE DEF f, g, e
    <2>4. f[id] = e /\ \A i \in Id : i # id => f[i] = g[i]
      BY <2>1, <2>2 DEF f, g, e
    <2>5. f = [g EXCEPT ![id] = e]
      BY <2>3, <2>4
    <2> QED BY <2>5 DEF f, g, e
  <1>6. LinkSets(nodes') = [LinkSets(nodes) EXCEPT ![id] = Graph!Unlinked]
    BY <1>2, <1>5, GraphNames DEF Graph!Unlinked
  <1>7. entrypoint = Graph!NoNode /\ entrypoint' = id
    BY GraphNames DEF InsertFirst
  <1> QED BY <1>4, <1>6, <1>7, GraphNames DEF Graph!GInsertFirst, LinkSets

LEMMA NextStep ==
    ASSUME HInv, NEW id \in Id, NEW v \in Point, NEW layer \in Layer,
           id = Cardinality(DOMAIN nodes) + 1, InsertNext(id, v, layer)
    PROVE  Graph!GInsertNext(id, layer)
  <1>1. PICK ns : ns = WithNode(nodes, id, NewNode(v, layer))
    OBVIOUS
  <1>2. PICK t : t = Connected(ns, id, layer)
    OBVIOUS
  <1>3. /\ NewIn(ns, id, v, layer) /\ nodes' = t /\ entrypoint # NoNode
        /\ maxLayer' = Larger(maxLayer, layer) /\ size' = size + 1
        /\ entrypoint' = IF layer > NodeLayer(t, entrypoint) THEN id ELSE entrypoint
    BY <1>1, <1>2, WithNodeOf DEF InsertNext, Counted
  <1>4. Built(ns, id, 0, t)
    BY <1>2, <1>3, NextBuilt
  <1>5. Inserted(id, layer, t)
    BY <1>3, <1>4, InsertedNext
  <1> DEFINE D == DOMAIN nodes
             A == Live(nodes)
             E == D \cup {id}
             old == LinkSets(nodes)
             new == LinkSets(t)
  <1>6. /\ t \in Maps(E) /\ DOMAIN t = E /\ WellLinked(t) /\ E \subseteq Id /\ SameNodes(ns, t)
        /\ nodes \in Maps(D) /\ WellLinked(nodes) /\ D \subseteq Id /\ id \notin D /\ A \subseteq D
        /\ Fresh(ns, id) /\ Others(ns, id) = A /\ DOMAIN ns = E
        /\ DOMAIN ns[id].connections = 0 .. layer /\ DOMAIN t[id].connections = 0 .. layer
        /\ \A i \in D : ns[i] = nodes[i] /\ DOMAIN t[i].connections = DOMAIN nodes[i].connections
    BY <1>3, <1>4, <1>5, InvGraph DEF Inserted, NewIn, Built, SameNodes, Live
  <1>7. Graph!Enter(id, layer)
    BY <1>3, <1>6, EnterStep
  <1>8. new \in [Id -> [Layer -> SUBSET Id]]
    BY <1>6, GraphSetsTyped
  <1>9. \A l \in 0 .. layer : l \in Layer
    BY GraphAssumption DEF Layer
  <1>10. \A l \in 0 .. layer : LinkedAt(ns, id, l, t)
    BY <1>4, <1>6 DEF Built
  <1>11. ASSUME NEW l \in 0 .. layer
         PROVE  /\ new[id][l] = ToSet(t[id].connections[l])
                /\ new[id][l] # {} /\ new[id][l] \subseteq A
                /\ Cardinality(new[id][l]) <= MaxConnections(l)
    <2> DEFINE c == t[id].connections[l]
    <2>1. c \in Seq(A) /\ c # <<>>
      BY <1>6, <1>10 DEF LinkedAt, EntryPoints
    <2>2. /\ new[id][l] = ToSet(c) /\ (new[id][l] # {} <=> c # <<>>)
          /\ Cardinality(new[id][l]) <= MaxConnections(l)
      <3>1. l \in Layer /\ id \in E /\ l \in DOMAIN t[id].connections
        BY <1>6, <1>9
      <3>2. /\ t \in Maps(DOMAIN t) /\ WellLinked(t) /\ DOMAIN t \subseteq Id
            /\ id \in DOMAIN t
        BY <1>6
      <3> QED BY ONLY <3>1, <3>2, id \in Id, LinkSetsOf DEF new
    <2>3. ToSet(c) \subseteq A
      BY <2>1 DEF ToSet
    <2> QED BY <2>1, <2>2, <2>3
  <1>12. \A l \in Layer : l > layer => new[id][l] = {}
    <2> SUFFICES ASSUME NEW l \in Layer, l > layer
                 PROVE  new[id][l] = {}
      OBVIOUS
    <2>1. l \notin DOMAIN t[id].connections
      BY <1>6 DEF Layer
    <2>2. /\ t \in Maps(DOMAIN t) /\ WellLinked(t) /\ DOMAIN t \subseteq Id
          /\ ~(id \in DOMAIN t /\ l \in DOMAIN t[id].connections)
      BY <1>6, <2>1
    <2> QED BY ONLY <2>2, id \in Id, l \in Layer, LinkSetsOf DEF new
  <1>13. ASSUME NEW n \in Id \ {id}, NEW l \in Layer
         PROVE  \/ new[n][l] = old[n][l]
                \/ /\ n \in new[id][l] /\ l < Heights(nodes)[n]
                   /\ new[n][l] \subseteq old[n][l] \cup {id}
                   /\ Cardinality(new[n][l]) <= MaxConnections(l)
    <2>1. CASE ~(n \in D /\ l \in DOMAIN nodes[n].connections)
      <3>1. ~(n \in E /\ l \in DOMAIN t[n].connections)
        BY <1>6, <2>1
      <3>2. new[n][l] = {} /\ old[n][l] = {}
        BY <1>6, <2>1, <3>1, LinkSetsOf
      <3> QED BY <3>2
    <2>2. CASE n \in D /\ l \in DOMAIN nodes[n].connections
      <3>1. n \in E /\ l \in DOMAIN t[n].connections /\ l \in DOMAIN ns[n].connections /\ ns[n] = nodes[n]
        BY <1>6, <2>2
      <3>2. /\ new[n][l] = ToSet(t[n].connections[l]) /\ old[n][l] = ToSet(nodes[n].connections[l])
            /\ Cardinality(new[n][l]) <= MaxConnections(l)
        BY <1>6, <2>2, <3>1, LinkSetsOf
      <3>3. l < Heights(nodes)[n]
        BY <1>6, <2>2, HeightsOf
      <3>4. CASE l \notin 0 .. layer
        <4>1. t[n].connections[l] = ns[n].connections[l]
          BY <1>4, <1>6, <3>1, <3>4 DEF Built
        <4> QED BY <3>1, <3>2, <4>1
      <3>5. CASE l \in 0 .. layer
        <4>1. n \in DOMAIN ns \ {id}
          BY <1>6, <2>2
        <4>2. /\ n \in ToSet(t[id].connections[l]) => LinksBack(ns, id, l, n, t[n].connections[l])
              /\ n \notin ToSet(t[id].connections[l]) =>
                    t[n].connections[l] = ns[n].connections[l]
          BY <1>10, <3>1, <3>5, <4>1 DEF LinkedAt
        <4>3. new[id][l] = ToSet(t[id].connections[l])
          BY <1>11, <3>5
        <4>4. CASE n \in ToSet(t[id].connections[l])
          <5>1. new[n][l] \subseteq old[n][l] \cup {id}
            BY <3>1, <3>2, <4>2, <4>4 DEF LinksBack
          <5> QED BY <3>2, <3>3, <4>3, <4>4, <5>1
        <4>5. CASE n \notin ToSet(t[id].connections[l])
          BY <3>1, <3>2, <4>2, <4>5
        <4> QED BY <4>4, <4>5
      <3> QED BY <3>4, <3>5
    <2> QED BY <2>1, <2>2
  <1>14. entrypoint \in E /\ Graph!IsNodeLayer(NodeLayer(t, entrypoint), new[entrypoint])
         /\ NodeLayer(t, entrypoint) \in Layer
    <2>1. entrypoint \in A
      BY <1>3 DEF HInv, Entered
    <2>2. entrypoint \in E
      BY <1>6, <2>1
    <2> QED BY <1>6, <2>2, NodeLayerSets
  <1> HIDE DEF new, old
  <1>15. Graph!NewLinks(id, layer, new)
    BY <1>11, <1>12, GraphNames, InvGraph DEF Graph!NewLinks
  <1>16. Graph!BackLinks(id, new)
    BY <1>13, GraphNames DEF Graph!BackLinks, old, LinkSets, Heights
  <1>17. /\ LinkSets(nodes') = new
         /\ \E h \in Layer : /\ Graph!IsNodeLayer(h, new[entrypoint])
                             /\ entrypoint' = IF layer > h THEN id ELSE entrypoint
    BY <1>3, <1>14 DEF new
  <1>18. new \in [Graph!Id -> [Graph!Layer -> SUBSET Graph!Id]] /\ entrypoint # Graph!NoNode
    BY <1>3, <1>8, GraphNames
  <1> QED BY <1>7, <1>15, <1>16, <1>17, <1>18, GraphNames DEF Graph!GInsertNext, LinkSets

LEMMA DeleteStep ==
    ASSUME HInv, NEW id \in DOMAIN nodes, Delete(id)
    PROVE  Graph!GDelete(id)
  <1>1. PICK t : t = nodes'
    OBVIOUS
  <1> DEFINE D == DOMAIN nodes
             A == Live(nodes)
             ls == LinkSets(nodes)
  <1>2. Marked(id, t) /\ id \in A
    BY <1>1, DeleteNodes DEF Delete
  <1>3. /\ nodes \in Maps(D) /\ WellLinked(nodes) /\ D \subseteq Id /\ A \subseteq D
        /\ t \in Maps(D) /\ DOMAIN t = D /\ WellLinked(t) /\ Live(t) = A \ {id}
        /\ \A i \in D : t[i].connections = nodes[i].connections
    <2>1. /\ nodes \in Maps(D) /\ WellLinked(nodes) /\ D \subseteq Id /\ A \subseteq D
          /\ t \in Maps(D) /\ DOMAIN t = D /\ Live(t) = A \ {id}
          /\ \A i \in D : t[i].connections = nodes[i].connections
      BY <1>2, InvGraph, MapsInv DEF Marked, Live
    <2>2. WellLinked(t)
      BY <2>1 DEF WellLinked
    <2> QED BY <2>1, <2>2
  <1>4. LinkSets(t) = ls /\ Heights(t) = Heights(nodes)
    BY <1>3 DEF LinkSets, Heights, GetConnections
  <1>5. DOMAIN t \ Live(t) = (D \ A) \cup {id}
    BY <1>2, <1>3
  <1>6. \A i \in D : Graph!IsNodeLayer(NodeLayer(t, i), ls[i]) /\ NodeLayer(t, i) \in Layer
    BY <1>3, <1>4, NodeLayerSets
  <1>7. ASSUME entrypoint = id
        PROVE  Graph!Elect(A \ {id})
    <2>1. FindNewEntrypoint(t)
      BY <1>1, <1>7 DEF Delete
    <2>2. CASE Live(t) = {}
      BY <1>3, <2>1, <2>2, GraphNames DEF FindNewEntrypoint, Graph!Elect
    <2>3. CASE Live(t) # {}
      <3>1. PICK i \in Live(t) : /\ \A j \in Live(t) : NodeLayer(t, j) <= NodeLayer(t, i)
                                 /\ entrypoint' = i /\ maxLayer' = NodeLayer(t, i)
        BY <2>1, <2>3 DEF FindNewEntrypoint
      <3> DEFINE h == NodeLayer(t, i)
      <3>2. i \in D /\ h \in Layer /\ Graph!IsNodeLayer(h, ls[i])
        BY <1>3, <1>6, <3>1
      <3>3. ASSUME NEW j \in A \ {id}, NEW l \in Layer, ls[j][l] # {}
            PROVE  l <= h
        <4>1. j \in D /\ NodeLayer(t, j) \in Layer /\ Graph!IsNodeLayer(NodeLayer(t, j), ls[j])
          BY <1>3, <1>6
        <4>2. l <= NodeLayer(t, j)
          BY <3>3, <4>1, GraphNames DEF Graph!IsNodeLayer
        <4>3. NodeLayer(t, j) <= h
          BY <1>3, <3>1
        <4> QED BY <3>2, <4>1, <4>2, <4>3 DEF Layer
      <3> HIDE DEF h, ls
      <3>4. /\ i \in A \ {id} /\ h \in Layer /\ Graph!IsNodeLayer(h, ls[i])
            /\ entrypoint' = i /\ maxLayer' = h
            /\ \A j \in A \ {id}, l \in Layer : ls[j][l] # {} => l <= h
        BY <1>3, <3>1, <3>2, <3>3 DEF h
      <3> QED BY <3>4, GraphNames DEF Graph!Elect, ls, LinkSets
    <2> QED BY <2>2, <2>3
  <1>8. /\ id \in Graph!Alive /\ Graph!Alive \ {id} = A \ {id}
        /\ DOMAIN nodes' \ Live(nodes') = (DOMAIN nodes \ Live(nodes)) \cup {id}
        /\ size' = size - 1 /\ DOMAIN nodes' = DOMAIN nodes
        /\ LinkSets(nodes') = LinkSets(nodes) /\ Heights(nodes') = Heights(nodes)
        /\ entrypoint # id => entrypoint' = entrypoint /\ maxLayer' = maxLayer
    BY <1>1, <1>2, <1>3, <1>4, <1>5, InvGraph DEF Delete
  <1> QED BY <1>7, <1>8, GraphNames DEF Graph!GDelete, LinkSets, Heights

\* The algorithm of insertVector, pruneConnections, Delete and findNewEntrypoint makes,
\* drops and keeps links as the abstract graph says; a reload changes nothing of it.
THEOREM Implements == Spec => ImplementsGraph
  <1>1. Init => Graph!GInit
    <2> SUFFICES ASSUME Init PROVE Graph!GInit
      OBVIOUS
    <2>1. DOMAIN nodes = {} /\ DOMAIN nodes \ Live(nodes) = {}
      BY DEF Init
    <2>2. Heights(nodes) = [i \in Id |-> 0] /\ LinkSets(nodes) = [i \in Id |-> [l \in Layer |-> {}]]
      BY <2>1 DEF Heights, LinkSets
    <2>3. Graph!Unlinked = [l \in Layer |-> {}]
      BY GraphNames DEF Graph!Unlinked
    <2> QED BY <2>1, <2>2, <2>3, GraphNames DEF Graph!GInit, Init, Heights, LinkSets
  <1>2. ASSUME HInv, Next
        PROVE  Graph!GNext \/ UNCHANGED Graph!gvars
    <2>1. ASSUME NEW id \in Id, NEW v \in Point, Insert(id, v)
          PROVE  Graph!GNext
      <3>1. PICK layer \in Layer : InsertFirst(id, v, layer) \/ InsertNext(id, v, layer)
        BY <2>1 DEF Insert
      <3>2. id = Cardinality(DOMAIN nodes) + 1
        BY <2>1 DEF Insert
      <3>3. Graph!GInsertFirst(id, layer) \/ Graph!GInsertNext(id, layer)
        BY <1>2, <3>1, <3>2, FirstStep, NextStep
      <3> QED BY <3>3, GraphNames DEF Graph!GNext
    <2>2. ASSUME NEW id \in DOMAIN nodes, Delete(id)
          PROVE  Graph!GNext
      <3>1. Graph!GDelete(id) /\ id \in Id
        BY <1>2, <2>2, DeleteStep, InvGraph
      <3> QED BY <3>1, GraphNames DEF Graph!GNext
    <2>3. ASSUME Reload
          PROVE  UNCHANGED Graph!gvars
      <3>1. UNCHANGED vars
        BY <1>2, <2>3, ReloadStutters
      <3> QED BY <3>1 DEF vars, Graph!gvars
    <2> QED BY <1>2, <2>1, <2>2, <2>3 DEF Next
  <1>3. UNCHANGED vars => UNCHANGED Graph!gvars
    BY DEF vars, Graph!gvars
  <1> QED BY <1>1, <1>2, <1>3, Invariance, PTL DEF Spec, ImplementsGraph, Graph!GSpec
=============================================================================
