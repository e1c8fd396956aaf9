------------------------------ MODULE SongProofs ------------------------------
(***************************************************************************)
(* Proofs about Song, for files of any number of tracks, channels, notes   *)
(* and pitches: the trees agree, the usage counts, what the channels may   *)
(* hold, what is heard of an edit, and what an update brings back.  The    *)
(* first part is about files that are edited, flattened and committed, the *)
(* second about those that are updated to other revisions too.             *)
(*                                                                         *)
(* The invariant is stated of the fields of a song apart: N is its notes,  *)
(* C its channels' lists, U the usage, T the temporary channels, and X the *)
(* notes that are in the trees.                                            *)
(***************************************************************************)
EXTENDS Song, NumberFacts, FiniteSetTheorems, SequenceTheorems

-----------------------------------------------------------------------------
(* Lists that hold each element of a set once.                             *)
ListOf(l, X) ==
    /\ l \in Seq(X)
    /\ \A i, j \in 1 .. Len(l) : l[i] = l[j] => i = j
    /\ \A x \in X : \E i \in 1 .. Len(l) : l[i] = x

IsInserted(k, l, X, p, x) ==
    /\ k \in Seq(X \cup {x}) /\ Len(k) = Len(l) + 1
    /\ \A i \in 1 .. (Len(l) + 1) :
          /\ i < p => k[i] = l[i]
          /\ i = p => k[i] = x
          /\ i > p => k[i] = l[i - 1]

IsRemoved(k, l, X, p) ==
    /\ k \in Seq(X) /\ Len(k) = Len(l) - 1
    /\ \A i \in 1 .. (Len(l) - 1) : k[i] = IF i < p THEN l[i] ELSE l[i + 1]

LEMMA InsertAtIs ==
    ASSUME NEW X, NEW l \in Seq(X), NEW x, NEW p \in 1 .. (Len(l) + 1)
    PROVE  IsInserted(InsertAt(l, p, x), l, X, p, x)
  <1> DEFINE a == SubSeq(l, 1, p - 1)
             b == SubSeq(l, p, Len(l))
             Y == X \cup {x}
  <1>1. /\ a \in Seq(Y) /\ Len(a) = p - 1
        /\ \A i \in 1 .. (p - 1) : a[i] = l[i]
    OBVIOUS
  <1>2. /\ b \in Seq(Y) /\ Len(b) = Len(l) - p + 1
        /\ \A i \in 1 .. (Len(l) - p + 1) : b[i] = l[p + i - 1]
    OBVIOUS
  <1> HIDE DEF a, b
  <1>3. /\ a \o <<x>> \in Seq(Y) /\ Len(a \o <<x>>) = p
        /\ \A i \in 1 .. p : (a \o <<x>>)[i] = IF i = p THEN x ELSE l[i]
    BY <1>1
  <1> DEFINE c == a \o <<x>>
  <1> HIDE DEF c
  <1>4. c \in Seq(Y) /\ Len(c) = p /\ \A i \in 1 .. p : c[i] = IF i = p THEN x ELSE l[i]
    BY <1>3 DEF c
  <1>5. /\ c \o b \in Seq(Y) /\ Len(c \o b) = Len(l) + 1
        /\ \A i \in 1 .. (Len(l) + 1) : (c \o b)[i] = IF i <= p THEN c[i] ELSE b[i - p]
    <2>1. Len(c) + Len(b) = Len(l) + 1
      BY <1>2, <1>4
    <2>2. /\ c \o b \in Seq(Y) /\ Len(c \o b) = Len(c) + Len(b)
          /\ \A i \in 1 .. (Len(c) + Len(b)) :
                (c \o b)[i] = IF i <= Len(c) THEN c[i] ELSE b[i - Len(c)]
      BY <1>2, <1>4, ConcatProperties
    <2> QED
      BY <1>4, <2>1, <2>2
  <1>6. InsertAt(l, p, x) = c \o b
    BY DEF InsertAt, a, b, c
  <1>7. \A i \in 1 .. (Len(l) + 1) : i > p => b[i - p] = l[i - 1]
    BY <1>2
  <1> QED
    BY <1>4, <1>5, <1>6, <1>7 DEF IsInserted

LEMMA RemoveAtIs ==
    ASSUME NEW X, NEW l \in Seq(X), NEW p \in 1 .. Len(l)
    PROVE  IsRemoved(RemoveAt(l, p), l, X, p)
  <1> DEFINE a == SubSeq(l, 1, p - 1)
             b == SubSeq(l, p + 1, Len(l))
  <1>1. /\ a \in Seq(X) /\ Len(a) = p - 1
        /\ \A i \in 1 .. (p - 1) : a[i] = l[i]
    OBVIOUS
  <1>2. /\ b \in Seq(X) /\ Len(b) = Len(l) - p
        /\ \A i \in 1 .. (Len(l) - p) : b[i] = l[p + i]
    OBVIOUS
  <1> HIDE DEF a, b
  <1>3. /\ a \o b \in Seq(X) /\ Len(a \o b) = Len(l) - 1
        /\ \A i \in 1 .. (Len(l) - 1) : (a \o b)[i] = IF i < p THEN a[i] ELSE b[i - (p - 1)]
    <2>1. Len(a) + Len(b) = Len(l) - 1
      BY <1>1, <1>2
    <2>2. /\ a \o b \in Seq(X) /\ Len(a \o b) = Len(a) + Len(b)
          /\ \A i \in 1 .. (Len(a) + Len(b)) :
                (a \o b)[i] = IF i <= Len(a) THEN a[i] ELSE b[i - Len(a)]
      BY <1>1, <1>2, ConcatProperties
    <2> QED
      BY <1>1, <2>1, <2>2
  <1>4. RemoveAt(l, p) = a \o b
    BY DEF RemoveAt, a, b
  <1>5. \A i \in 1 .. (Len(l) - 1) : i >= p => b[i - (p - 1)] = l[i + 1]
    BY <1>2
  <1> QED
    BY <1>1, <1>3, <1>4, <1>5 DEF IsRemoved

LEMMA InsertedList ==
    ASSUME NEW X, NEW l, ListOf(l, X), NEW x, x \notin X, NEW p \in 1 .. (Len(l) + 1)
    PROVE  ListOf(InsertAt(l, p, x), X \cup {x})
  <1> DEFINE k == InsertAt(l, p, x)
  <1>1. l \in Seq(X)
    BY DEF ListOf
  <1>2. /\ k \in Seq(X \cup {x}) /\ Len(k) = Len(l) + 1
        /\ \A i \in 1 .. (Len(l) + 1) :
              /\ i < p => k[i] = l[i]
              /\ i = p => k[i] = x
              /\ i > p => k[i] = l[i - 1]
    <2>1. IsInserted(k, l, X, p, x)
      BY <1>1, InsertAtIs
    <2> HIDE DEF k
    <2> QED
      BY <2>1 DEF IsInserted
  <1>3. \A i \in 1 .. Len(l) : l[i] \in X
    BY <1>1
  <1> HIDE DEF k
  <1>4. ASSUME NEW i \in 1 .. Len(k), NEW j \in 1 .. Len(k), k[i] = k[j]
        PROVE  i = j
    <2>1. /\ \A h \in 1 .. Len(k) : h # p => k[h] # x
          /\ k[p] = x
      <3>1. ASSUME NEW h \in 1 .. Len(k), h # p
            PROVE  k[h] \in X
        <4>1. CASE h < p
          BY <1>1, <1>2, <1>3, <4>1
        <4>2. CASE h > p
          <5>1. k[h] = l[h - 1] /\ h - 1 \in 1 .. Len(l)
            BY <1>1, <1>2, <4>2
          <5> QED
            BY <1>3, <5>1
        <4> QED
          BY <3>1, <4>1, <4>2
      <3> QED
        BY <1>1, <1>2, <3>1
    <2>2. CASE i = p \/ j = p
      BY <1>4, <2>1, <2>2
    <2>3. CASE i < p /\ j < p
      <3>1. l[i] = l[j] /\ i \in 1 .. Len(l) /\ j \in 1 .. Len(l)
        BY <1>1, <1>2, <1>4, <2>3
      <3> QED
        BY <3>1 DEF ListOf
    <2>4. CASE i < p /\ j > p
      <3>1. l[i] = l[j - 1] /\ i \in 1 .. Len(l) /\ j - 1 \in 1 .. Len(l)
        BY <1>1, <1>2, <1>4, <2>4
      <3> QED
        BY <2>4, <3>1 DEF ListOf
    <2>5. CASE i > p /\ j < p
      <3>1. l[i - 1] = l[j] /\ i - 1 \in 1 .. Len(l) /\ j \in 1 .. Len(l)
        BY <1>1, <1>2, <1>4, <2>5
      <3> QED
        BY <2>5, <3>1 DEF ListOf
    <2>6. CASE i > p /\ j > p
      <3>1. l[i - 1] = l[j - 1] /\ i - 1 \in 1 .. Len(l) /\ j - 1 \in 1 .. Len(l)
        BY <1>1, <1>2, <1>4, <2>6
      <3>2. i - 1 = j - 1
        BY <3>1 DEF ListOf
      <3> QED
        BY <3>2
    <2> QED
      BY <2>2, <2>3, <2>4, <2>5, <2>6
  <1>5. ASSUME NEW y \in X \cup {x}
        PROVE  \E i \in 1 .. Len(k) : k[i] = y
    <2>1. CASE y = x
      BY <1>1, <1>2, <2>1
    <2>2. CASE y \in X
      <3>1. PICK i \in 1 .. Len(l) : l[i] = y
        BY <2>2 DEF ListOf
      <3>2. CASE i < p
        BY <1>1, <1>2, <3>1, <3>2
      <3>3. CASE i >= p
        <4>1. i + 1 \in 1 .. Len(k) /\ k[i + 1] = y
          BY <1>1, <1>2, <3>1, <3>3
        <4> QED
          BY <4>1
      <3> QED
        BY <3>2, <3>3
    <2> QED
      BY <2>1, <2>2
  <1> QED
    BY <1>2, <1>4, <1>5 DEF ListOf, k

LEMMA RemovedList ==
    ASSUME NEW X, NEW l, ListOf(l, X), NEW p \in 1 .. Len(l)
    PROVE  ListOf(RemoveAt(l, p), X \ {l[p]})
  <1> DEFINE k == RemoveAt(l, p)
  <1>1. l \in Seq(X)
    BY DEF ListOf
  <1>2. /\ k \in Seq(X) /\ Len(k) = Len(l) - 1
        /\ \A i \in 1 .. (Len(l) - 1) : k[i] = IF i < p THEN l[i] ELSE l[i + 1]
    BY <1>1, RemoveAtIs DEF IsRemoved
  <1> HIDE DEF k
  <1>3. ASSUME NEW i \in 1 .. Len(k), NEW j \in 1 .. Len(k), k[i] = k[j]
        PROVE  i = j
    <2> DEFINE f == IF i < p THEN i ELSE i + 1
               g == IF j < p THEN j ELSE j + 1
    <2>1. f \in 1 .. Len(l) /\ g \in 1 .. Len(l) /\ l[f] = l[g]
      BY <1>1, <1>2, <1>3
    <2>2. f = g
      <3> HIDE DEF f, g
      <3> QED
        BY <2>1 DEF ListOf
    <2> QED
      BY <2>2
  <1>4. ASSUME NEW i \in 1 .. Len(k)
        PROVE  k[i] \in X \ {l[p]}
    <2> DEFINE f == IF i < p THEN i ELSE i + 1
    <2>1. f \in 1 .. Len(l) /\ f # p /\ k[i] = l[f]
      BY <1>1, <1>2
    <2> HIDE DEF f
    <2>2. \A a, b \in 1 .. Len(l) : l[a] = l[b] => a = b
      BY DEF ListOf
    <2>3. l[f] \in X
      BY <1>1, <2>1
    <2> QED
      BY <2>1, <2>2, <2>3
  <1>5. ASSUME NEW y \in X \ {l[p]}
        PROVE  \E i \in 1 .. Len(k) : k[i] = y
    <2>1. PICK i \in 1 .. Len(l) : l[i] = y
      BY DEF ListOf
    <2>2. CASE i < p
      BY <1>1, <1>2, <2>1, <2>2
    <2>3. CASE i > p
      <3>1. i - 1 \in 1 .. Len(k) /\ k[i - 1] = y
        BY <1>1, <1>2, <2>1, <2>3
      <3> QED
        BY <3>1
    <2> QED
      BY <1>1, <2>1, <2>2, <2>3
  <1>6. k \in Seq(X \ {l[p]})
    BY <1>2, <1>4
  <1> QED
    BY <1>3, <1>5, <1>6 DEF ListOf, k
-----------------------------------------------------------------------------
(* The order of notes.                                                     *)
Sooner(N, m, n) ==
    \/ N[m].on < N[n].on
    \/ N[m].on = N[n].on /\ N[m].off < N[n].off
    \/ N[m].on = N[n].on /\ N[m].off = N[n].off /\ Midi[N[m].pitch] < Midi[N[n].pitch]

Keyed(N, n) == N[n].on \in Nat /\ N[n].off \in Nat /\ Midi[N[n].pitch] \in Nat

Sorted(N, l) == \A i, j \in 1 .. Len(l) : i < j => ~Sooner(N, l[j], l[i])

NotAfter(N, l, n) == {i \in 1 .. Len(l) : ~Sooner(N, n, l[i])}

LEMMA SameKeyClash ==
    ASSUME NEW N, NEW a, NEW b, Keyed(N, a), Keyed(N, b), N[a].on < N[a].off,
           ~Sooner(N, a, b), ~Sooner(N, b, a)
    PROVE  /\ N[a].on < N[b].off /\ N[b].on < N[a].off
           /\ Midi[N[a].pitch] = Midi[N[b].pitch]
  BY DEF Sooner, Keyed

LEMMA SoonerFacts ==
    ASSUME NEW N, NEW a, NEW b, NEW c, Keyed(N, a), Keyed(N, b), Keyed(N, c)
    PROVE  /\ Sooner(N, a, b) => ~Sooner(N, b, a)
           /\ Sooner(N, a, b) /\ ~Sooner(N, c, b) => Sooner(N, a, c)
  BY DEF Sooner, Keyed

(* Where filing puts a note: behind those it does not come before.         *)
LEMMA FilingPlace ==
    ASSUME NEW N, NEW X, NEW l, ListOf(l, X), Sorted(N, l), \A m \in X : Keyed(N, m),
           NEW n, Keyed(N, n)
    PROVE  LET p == Cardinality(NotAfter(N, l, n)) + 1 IN
           /\ p \in 1 .. (Len(l) + 1)
           /\ \A i \in 1 .. Len(l) : i < p <=> ~Sooner(N, n, l[i])
  <1> DEFINE S == NotAfter(N, l, n)
  <1>1. l \in Seq(X) /\ Len(l) \in Nat /\ \A i \in 1 .. Len(l) : Keyed(N, l[i])
    BY DEF ListOf
  <1>2. S \in SUBSET (1 .. Len(l)) /\ S \in SUBSET Nat
    BY DEF NotAfter
  <1>3. \A i \in 1 .. Len(l), j \in S : i < j => i \in S
    BY <1>1, SoonerFacts DEF NotAfter, Sorted
  <1> HIDE DEF S
  <1>4. \E k \in 0 .. Len(l) : S = 1 .. k
    <2>1. CASE S = {}
      BY <1>1, <2>1
    <2>2. CASE S # {}
      <3>1. \A x \in S : x <= Len(l)
        BY <1>1, <1>2
      <3>2. Max(S) \in S /\ \A x \in S : x <= Max(S)
        BY <1>1, <1>2, <2>2, <3>1, MaxFacts
      <3>3. Max(S) \in 1 .. Len(l)
        BY <1>2, <3>2
      <3>4. \A x \in 1 .. Max(S) : x \in S
        BY <1>1, <1>3, <3>2, <3>3
      <3>5. \A x \in S : x \in 1 .. Max(S)
        BY <1>2, <3>2, <3>3
      <3>6. Max(S) \in 0 .. Len(l) /\ S = 1 .. Max(S)
        <4> DEFINE k == Max(S)
        <4>1. k \in 0 .. Len(l)
          BY <3>3
        <4>2. S \subseteq 1 .. k /\ 1 .. k \subseteq S
          BY <3>4, <3>5
        <4> HIDE DEF k
        <4>3. S = 1 .. k
          BY <4>2
        <4> QED
          BY <4>1, <4>3 DEF k
      <3> QED
        BY <3>6
    <2> QED
      BY <2>1, <2>2
  <1>5. PICK k \in 0 .. Len(l) : S = 1 .. k
    BY <1>4
  <1>6. Cardinality(S) = k
    BY <1>1, <1>5, FS_Interval
  <1>7. \A i \in 1 .. Len(l) : i \in S <=> ~Sooner(N, n, l[i])
    BY DEF S, NotAfter
  <1> QED
    BY <1>1, <1>5, <1>6, <1>7 DEF S

LEMMA FiledSorted ==
    ASSUME NEW N, NEW X, NEW l, ListOf(l, X), Sorted(N, l), \A m \in X : Keyed(N, m),
           NEW n, Keyed(N, n), n \notin X
    PROVE  LET k == InsertAt(l, Cardinality(NotAfter(N, l, n)) + 1, n) IN
           ListOf(k, X \cup {n}) /\ Sorted(N, k)
  <1> DEFINE p == Cardinality(NotAfter(N, l, n)) + 1
             k == InsertAt(l, p, n)
  <1>1. p \in 1 .. (Len(l) + 1) /\ \A i \in 1 .. Len(l) : i < p <=> ~Sooner(N, n, l[i])
    BY FilingPlace
  <1> HIDE DEF p
  <1>2. l \in Seq(X) /\ Len(l) \in Nat /\ \A i \in 1 .. Len(l) : Keyed(N, l[i])
    BY DEF ListOf
  <1>3. ListOf(k, X \cup {n})
    BY <1>1, InsertedList
  <1>4. IsInserted(k, l, X, p, n)
    BY <1>1, <1>2, InsertAtIs
  <1> HIDE DEF k
  <1>5. ASSUME NEW i \in 1 .. Len(k), NEW j \in 1 .. Len(k), i < j
        PROVE  ~Sooner(N, k[j], k[i])
    <2>1. CASE j < p
      <3>1. k[i] = l[i] /\ k[j] = l[j] /\ i \in 1 .. Len(l) /\ j \in 1 .. Len(l)
        BY <1>1, <1>2, <1>4, <1>5, <2>1 DEF IsInserted
      <3> QED
        BY <1>5, <3>1 DEF Sorted
    <2>2. CASE j = p
      <3>1. k[i] = l[i] /\ k[j] = n /\ i \in 1 .. Len(l) /\ i < p
        BY <1>1, <1>2, <1>4, <1>5, <2>2 DEF IsInserted
      <3> QED
        BY <1>1, <3>1
    <2>3. CASE i = p
      <3>1. k[i] = n /\ k[j] = l[j - 1] /\ j - 1 \in 1 .. Len(l) /\ ~(j - 1 < p)
        BY <1>1, <1>2, <1>4, <1>5, <2>3 DEF IsInserted
      <3>2. Sooner(N, n, l[j - 1])
        BY <1>1, <3>1
      <3> QED
        BY <1>2, <3>1, <3>2, SoonerFacts
    <2>4. CASE i < p /\ p < j
      <3>1. /\ k[i] = l[i] /\ k[j] = l[j - 1] /\ i \in 1 .. Len(l) /\ j - 1 \in 1 .. Len(l)
            /\ i < j - 1 \/ i = j - 1
        BY <1>1, <1>2, <1>4, <1>5, <2>4 DEF IsInserted
      <3>2. CASE i < j - 1
        BY <3>1, <3>2 DEF Sorted
      <3>3. CASE i = j - 1
        BY <1>2, <3>1, <3>3, SoonerFacts
      <3> QED
        BY <3>1, <3>2, <3>3
    <2>5. CASE p < i
      <3>1. k[i] = l[i - 1] /\ k[j] = l[j - 1] /\ i - 1 \in 1 .. Len(l) /\ j - 1 \in 1 .. Len(l)
            /\ i - 1 < j - 1
        BY <1>1, <1>2, <1>4, <1>5, <2>5 DEF IsInserted
      <3> QED
        BY <3>1 DEF Sorted
    <2> QED
      BY <1>1, <1>2, <1>4, <1>5, <2>1, <2>2, <2>3, <2>4, <2>5 DEF IsInserted
  <1> QED
    BY <1>3, <1>5 DEF Sorted, k, p

LEMMA RemovedSorted ==
    ASSUME NEW N, NEW X, NEW l, ListOf(l, X), Sorted(N, l), NEW p \in 1 .. Len(l)
    PROVE  Sorted(N, RemoveAt(l, p))
  <1> DEFINE k == RemoveAt(l, p)
  <1>1. l \in Seq(X) /\ Len(l) \in Nat
    BY DEF ListOf
  <1>2. IsRemoved(k, l, X, p)
    BY <1>1, RemoveAtIs
  <1> HIDE DEF k
  <1>3. ASSUME NEW i \in 1 .. Len(k), NEW j \in 1 .. Len(k), i < j
        PROVE  ~Sooner(N, k[j], k[i])
    <2> DEFINE f == IF i < p THEN i ELSE i + 1
               g == IF j < p THEN j ELSE j + 1
    <2>1. f \in 1 .. Len(l) /\ g \in 1 .. Len(l) /\ f < g /\ k[i] = l[f] /\ k[j] = l[g]
      BY <1>1, <1>2, <1>3 DEF IsRemoved
    <2> HIDE DEF f, g
    <2> QED
      BY <2>1 DEF Sorted
  <1> QED
    BY <1>3 DEF Sorted, k

(* Lists of notes that keep their keys keep their order.                   *)
SameKeys(N, M, X) ==
    \A n \in X : N[n].on = M[n].on /\ N[n].off = M[n].off /\ N[n].pitch = M[n].pitch

LEMMA SameSooner ==
    ASSUME NEW N, NEW M, NEW X, SameKeys(N, M, X), NEW m \in X, NEW n \in X
    PROVE  Sooner(N, m, n) <=> Sooner(M, m, n)
  BY DEF SameKeys, Sooner

LEMMA StaysSorted ==
    ASSUME NEW N, NEW M, NEW X, SameKeys(N, M, X), NEW l, ListOf(l, X), Sorted(N, l)
    PROVE  Sorted(M, l)
  <1>1. \A i \in 1 .. Len(l) : l[i] \in X
    BY DEF ListOf
  <1> QED
    BY <1>1, SameSooner DEF Sorted

LEMMA SamePlace ==
    ASSUME NEW N, NEW M, NEW X, NEW n, SameKeys(N, M, X \cup {n}), NEW l, ListOf(l, X)
    PROVE  NotAfter(N, l, n) = NotAfter(M, l, n)
  <1>1. \A i \in 1 .. Len(l) : l[i] \in X \cup {n}
    BY DEF ListOf
  <1>2. \A i \in 1 .. Len(l) : Sooner(N, n, l[i]) <=> Sooner(M, n, l[i])
    BY <1>1, SameSooner
  <1> QED
    BY <1>2 DEF NotAfter
-----------------------------------------------------------------------------
(* What is true of the notes X, which are in the trees.                    *)
In(N, X, ch) == {n \in X : N[n].ch = ch}

IsFun(f) == f = [x \in DOMAIN f |-> f[x]]

Trees(N, C, X) ==
    /\ DOMAIN C = Channel /\ IsFun(C)
    /\ \A ch \in Channel : ListOf(C[ch], In(N, X, ch)) /\ Sorted(N, C[ch])

OfTrackIn(N, X, tr, ch) == {n \in X : N[n].track = tr /\ N[n].ch = ch}

Counts(N, U, X) ==
    /\ DOMAIN U = Track /\ IsFun(U)
    /\ \A tr \in Track :
          /\ DOMAIN U[tr] = FileChannel /\ IsFun(U[tr])
          /\ \A ch \in FileChannel : U[tr][ch] = Cardinality(OfTrackIn(N, X, tr, ch))

Known(N, X) ==
    /\ DOMAIN N = Note /\ X \subseteq Note
    /\ \A n \in X : N[n] \in Notes /\ N[n].on < N[n].off

Temps(N, T, X) ==
    /\ DOMAIN T = Track /\ IsFun(T)
    /\ \A tr \in Track : T[tr] \in 0 .. Cardinality(Note)
    /\ \A n \in X : N[n].ch \in TempChannel => N[n].ch[2] <= T[N[n].ch[1]]

Clash(N, m, n) == N[m].on < N[n].off /\ N[n].on < N[m].off

Fit(N, m, n) == N[m].track = N[n].track /\ Midi[N[m].pitch] # Midi[N[n].pitch]

(* Note n may be in channel ch, as far as the other notes of X go.         *)
Room(N, X, n, ch) ==
    \A m \in X \ {n} :
        N[m].ch = ch /\ Clash(N, m, n) => ch \in FileChannel /\ Fit(N, m, n)

Apart(N, X) == \A n \in X : Room(N, X, n, N[n].ch)

LEMMA ChannelKinds ==
    /\ \A ch \in FileChannel : ch \in Channel /\ ch \notin TempChannel
    /\ \A ch \in TempChannel : ch \in Channel /\ ch \notin FileChannel
    /\ \A ch \in Channel : ch \in FileChannel \/ ch \in TempChannel
    /\ \A tr \in Track, k \in 1 .. Cardinality(Note) : <<tr, k>> \in TempChannel
    /\ \A ch \in TempChannel : ch[1] \in Track /\ ch[2] \in Nat /\ ch = <<ch[1], ch[2]>>
  <1>1. \A ch \in TempChannel : ch[1] \in Track /\ ch[2] \in 1 .. Cardinality(Note) /\ ch = <<ch[1], ch[2]>>
    BY DEF TempChannel
  <1>2. \A ch \in FileChannel : ch[1] = 0
    BY DEF FileChannel
  <1>3. 0 \notin Track
    BY DEF Track
  <1> QED
    BY <1>1, <1>2, <1>3 DEF Channel, TempChannel

LEMMA KnownIs ==
    ASSUME NEW N, NEW X, Known(N, X), NEW n \in X
    PROVE  /\ n \in Note /\ N[n].track \in Track /\ N[n].ch \in Channel /\ N[n].pitch \in Pitch
           /\ N[n].on \in Nat /\ N[n].off \in Nat /\ N[n].on < N[n].off
           /\ Keyed(N, n)
  <1>1. N[n] \in Notes /\ N[n].on < N[n].off /\ n \in Note
    BY DEF Known
  <1>2. /\ N[n].track \in Track /\ N[n].ch \in Channel /\ N[n].pitch \in Pitch
        /\ N[n].on \in Nat /\ N[n].off \in Nat
    BY <1>1 DEF Notes, Time
  <1>3. Midi[N[n].pitch] \in Nat
    BY <1>2, SongAssumption
  <1> QED
    BY <1>1, <1>2, <1>3 DEF Keyed

(* In a tree a note is found, and none but itself.                         *)
LEMMA FoundIs ==
    ASSUME NEW s, NEW X, Known(s.notes, X), Apart(s.notes, X), Trees(s.notes, s.chan, X),
           NEW n \in X, NEW ch, s.notes[n].ch = ch
    PROVE  Found(s, ch, n) \in 1 .. Len(s.chan[ch]) /\ s.chan[ch][Found(s, ch, n)] = n
  <1> DEFINE N == s.notes
             l == s.chan[ch]
             S == {i \in DOMAIN l : ~Before(s, n, l[i]) /\ ~Before(s, l[i], n)}
  <1>1. ch \in Channel /\ Keyed(N, n) /\ N[n].on < N[n].off
    BY KnownIs
  <1>2. ListOf(l, In(N, X, ch))
    BY <1>1 DEF Trees
  <1>3. /\ DOMAIN l = 1 .. Len(l) /\ Len(l) \in Nat
        /\ \A i \in 1 .. Len(l) : l[i] \in X /\ N[l[i]].ch = ch
    <2> HIDE DEF l, N
    <2>1. l \in Seq(In(N, X, ch)) /\ DOMAIN l = 1 .. Len(l) /\ Len(l) \in Nat
      BY <1>2 DEF ListOf
    <2>2. \A i \in 1 .. Len(l) : l[i] \in In(N, X, ch)
      BY <2>1
    <2> QED
      BY <2>1, <2>2 DEF In
  <1>4. PICK i \in 1 .. Len(l) : l[i] = n
    BY <1>2 DEF ListOf, In
  <1>5. ASSUME NEW j \in S
        PROVE  j = i
    <2>1. /\ j \in 1 .. Len(l) /\ l[j] \in X /\ N[l[j]].ch = ch
          /\ Keyed(N, l[j]) /\ N[l[j]].on < N[l[j]].off
      <3>1. j \in 1 .. Len(l) /\ l[j] \in X /\ N[l[j]].ch = ch
        BY <1>3
      <3> HIDE DEF N, l, S
      <3> QED
        BY <3>1, KnownIs DEF N
    <2>2. ~Sooner(N, n, l[j]) /\ ~Sooner(N, l[j], n)
      BY DEF Before, Sooner
    <2>3. Clash(N, l[j], n) /\ ~Fit(N, l[j], n)
      BY <1>1, <2>1, <2>2, SameKeyClash DEF Clash, Fit
    <2>4. Room(N, X, n, ch)
      BY DEF Apart
    <2>5. l[j] = n
      BY <2>1, <2>3, <2>4 DEF Room
    <2>6. \A a, b \in 1 .. Len(l) : l[a] = l[b] => a = b
      BY <1>2 DEF ListOf
    <2> QED
      BY <1>4, <2>1, <2>5, <2>6
  <1>6. i \in S
    BY <1>1, <1>3, <1>4 DEF Before, Keyed
  <1> HIDE DEF S
  <1>7. S \in SUBSET Nat /\ \A j \in S : i <= j
    BY <1>3, <1>4, <1>5
  <1>8. Min(S) = i
    BY <1>6, <1>7, MinIs
  <1> QED
    BY <1>4, <1>8 DEF Found, S

LEMMA TakenOut ==
    ASSUME NEW N, NEW C, NEW X, Trees(N, C, X), NEW n \in X, NEW ch \in Channel, N[n].ch = ch,
           NEW i \in 1 .. Len(C[ch]), C[ch][i] = n
    PROVE  Trees(N, [C EXCEPT ![ch] = RemoveAt(C[ch], i)], X \ {n})
  <1> DEFINE D == [C EXCEPT ![ch] = RemoveAt(C[ch], i)]
  <1>1. DOMAIN D = Channel /\ IsFun(D)
    BY DEF Trees, IsFun
  <1>2. ASSUME NEW c \in Channel, c # ch
        PROVE  ListOf(D[c], In(N, X \ {n}, c)) /\ Sorted(N, D[c])
    <2>1. In(N, X \ {n}, c) = In(N, X, c)
      BY <1>2 DEF In
    <2> QED
      BY <1>2, <2>1 DEF Trees
  <1>3. ListOf(D[ch], In(N, X \ {n}, ch)) /\ Sorted(N, D[ch])
    <2>1. In(N, X \ {n}, ch) = In(N, X, ch) \ {n}
      BY DEF In
    <2>2. ListOf(C[ch], In(N, X, ch)) /\ Sorted(N, C[ch])
      BY DEF Trees
    <2>3. ListOf(RemoveAt(C[ch], i), In(N, X, ch) \ {n}) /\ Sorted(N, RemoveAt(C[ch], i))
      BY <2>2, RemovedList, RemovedSorted
    <2>4. D[ch] = RemoveAt(C[ch], i)
      BY DEF Trees
    <2> QED
      BY <2>1, <2>3, <2>4
  <1> HIDE DEF D
  <1>4. Trees(N, D, X \ {n})
    BY <1>1, <1>2, <1>3 DEF Trees
  <1> QED
    BY <1>4 DEF D

AgreeOn(N, M, X) == \A m \in X : M[m] = N[m]

LEMMA AgreeingTrees ==
    ASSUME NEW N, NEW M, NEW C, NEW X, AgreeOn(N, M, X), Trees(N, C, X)
    PROVE  Trees(M, C, X)
  <1>1. \A ch \in Channel : In(M, X, ch) = In(N, X, ch)
    BY DEF In, AgreeOn
  <1>2. \A ch \in Channel : SameKeys(N, M, In(N, X, ch))
    BY DEF In, AgreeOn, SameKeys
  <1>3. \A ch \in Channel : ListOf(C[ch], In(M, X, ch)) /\ Sorted(M, C[ch])
    BY <1>1, <1>2, StaysSorted DEF Trees
  <1> QED
    BY <1>3 DEF Trees

LEMMA PutIn ==
    ASSUME NEW M, NEW C, NEW X, NEW n, n \notin X, Trees(M, C, X), Known(M, X \cup {n}),
           NEW ch \in Channel, M[n].ch = ch
    PROVE  Trees(M, [C EXCEPT ![ch] = InsertAt(C[ch], Cardinality(NotAfter(M, C[ch], n)) + 1, n)],
                 X \cup {n})
  <1> DEFINE l == InsertAt(C[ch], Cardinality(NotAfter(M, C[ch], n)) + 1, n)
             D == [C EXCEPT ![ch] = l]
  <1>1. /\ ListOf(C[ch], In(M, X, ch)) /\ Sorted(M, C[ch]) /\ DOMAIN C = Channel
        /\ Keyed(M, n) /\ \A m \in In(M, X, ch) : Keyed(M, m)
        /\ n \notin In(M, X, ch)
    <2>1. \A m \in X \cup {n} : Keyed(M, m)
      BY KnownIs
    <2> QED
      BY <2>1 DEF Trees, In
  <1>2. ListOf(l, In(M, X, ch) \cup {n}) /\ Sorted(M, l)
    BY <1>1, FiledSorted
  <1> HIDE DEF l
  <1>3. In(M, X \cup {n}, ch) = In(M, X, ch) \cup {n}
    BY DEF In
  <1>4. \A c \in Channel : c # ch => In(M, X \cup {n}, c) = In(M, X, c)
    BY DEF In
  <1>5. /\ DOMAIN D = Channel /\ D[ch] = l /\ \A c \in Channel : c # ch => D[c] = C[c]
        /\ IsFun(D)
    BY <1>1 DEF IsFun
  <1> HIDE DEF D
  <1>6. \A c \in Channel : ListOf(D[c], In(M, X \cup {n}, c)) /\ Sorted(M, D[c])
    BY <1>2, <1>3, <1>4, <1>5 DEF Trees
  <1>7. Trees(M, D, X \cup {n})
    BY <1>5, <1>6 DEF Trees
  <1> QED
    BY <1>7 DEF D, l
(* The usage, counted.                                                     *)
Tallied(U, tr, ch, d) ==
    IF ch \in FileChannel THEN [U EXCEPT ![tr][ch] = @ + d] ELSE U

LEMMA TalliedIs ==
    ASSUME NEW U, DOMAIN U = Track, \A tr \in Track : DOMAIN U[tr] = FileChannel,
           IsFun(U), \A tr \in Track : IsFun(U[tr]),
           NEW tr \in Track, NEW ch, NEW d
    PROVE  LET V == Tallied(U, tr, ch, d) IN
           /\ DOMAIN V = Track /\ IsFun(V)
           /\ \A r \in Track : DOMAIN V[r] = FileChannel /\ IsFun(V[r])
           /\ \A r \in Track, c \in FileChannel :
                 V[r][c] = IF r = tr /\ c = ch THEN U[r][c] + d ELSE U[r][c]
  <1>1. CASE ch \notin FileChannel
    BY <1>1 DEF Tallied
  <1>2. CASE ch \in FileChannel
    <2> DEFINE u == [U[tr] EXCEPT ![ch] = U[tr][ch] + d]
               V == [U EXCEPT ![tr] = u]
    <2>1. V = Tallied(U, tr, ch, d)
      BY <1>2 DEF Tallied
    <2>2. /\ DOMAIN u = FileChannel /\ IsFun(u)
          /\ \A c \in FileChannel : u[c] = IF c = ch THEN U[tr][c] + d ELSE U[tr][c]
      BY <1>2 DEF IsFun
    <2> HIDE DEF u
    <2>3. /\ DOMAIN V = Track /\ IsFun(V) /\ V[tr] = u
          /\ \A r \in Track : r # tr => V[r] = U[r]
      BY DEF IsFun
    <2> HIDE DEF V
    <2> QED
      BY <2>1, <2>2, <2>3
  <1> QED
    BY <1>1, <1>2

LEMMA CountOut ==
    ASSUME NEW N, NEW U, NEW X, Known(N, X), Counts(N, U, X), NEW n \in X,
           NEW tr, NEW ch, N[n].track = tr, N[n].ch = ch
    PROVE  Counts(N, Tallied(U, tr, ch, -1), X \ {n})
  <1> DEFINE V == Tallied(U, tr, ch, -1)
  <1>1. tr \in Track /\ IsFiniteSet(X)
    BY KnownIs, FS_Subset, SongAssumption DEF Known
  <1>2. /\ DOMAIN V = Track /\ IsFun(V)
        /\ \A r \in Track : DOMAIN V[r] = FileChannel /\ IsFun(V[r])
        /\ \A r \in Track, c \in FileChannel :
              V[r][c] = IF r = tr /\ c = ch THEN U[r][c] + -1 ELSE U[r][c]
    BY <1>1, TalliedIs DEF Counts
  <1> HIDE DEF V
  <1>3. ASSUME NEW r \in Track, NEW c \in FileChannel
        PROVE  V[r][c] = Cardinality(OfTrackIn(N, X \ {n}, r, c))
    <2> DEFINE O == OfTrackIn(N, X, r, c)
    <2>1. U[r][c] = Cardinality(O)
      BY DEF Counts
    <2>2. IsFiniteSet(O)
      BY <1>1, FS_Subset DEF OfTrackIn
    <2>3. OfTrackIn(N, X \ {n}, r, c) = O \ {n}
      BY DEF OfTrackIn
    <2>4. n \in O <=> r = tr /\ c = ch
      BY DEF OfTrackIn
    <2> HIDE DEF O
    <2>5. Cardinality(O) \in Nat
      BY <2>2, FS_CardinalityType
    <2>6. Cardinality(O \ {n}) = IF n \in O THEN Cardinality(O) - 1 ELSE Cardinality(O)
      BY <2>2, FS_RemoveElement
    <2>7. CASE r = tr /\ c = ch
      <3>1. V[r][c] = Cardinality(O) + -1 /\ Cardinality(O \ {n}) = Cardinality(O) - 1
        BY <1>2, <2>1, <2>4, <2>6, <2>7
      <3> QED
        BY <2>3, <2>5, <3>1
    <2>8. CASE ~(r = tr /\ c = ch)
      BY <1>2, <2>1, <2>3, <2>4, <2>6, <2>8
    <2> QED
      BY <2>7, <2>8
  <1>4. Counts(N, V, X \ {n})
    BY <1>2, <1>3 DEF Counts
  <1> QED
    BY <1>4 DEF V

LEMMA CountIn ==
    ASSUME NEW M, NEW U, NEW X, NEW n, n \notin X, Known(M, X \cup {n}), Counts(M, U, X),
           NEW tr, NEW ch, M[n].track = tr, M[n].ch = ch
    PROVE  Counts(M, Tallied(U, tr, ch, 1), X \cup {n})
  <1> DEFINE V == Tallied(U, tr, ch, 1)
  <1>1. tr \in Track /\ IsFiniteSet(X)
    BY KnownIs, FS_Subset, SongAssumption DEF Known
  <1>2. /\ DOMAIN V = Track /\ IsFun(V)
        /\ \A r \in Track : DOMAIN V[r] = FileChannel /\ IsFun(V[r])
        /\ \A r \in Track, c \in FileChannel :
              V[r][c] = IF r = tr /\ c = ch THEN U[r][c] + 1 ELSE U[r][c]
    BY <1>1, TalliedIs DEF Counts
  <1> HIDE DEF V
  <1>3. ASSUME NEW r \in Track, NEW c \in FileChannel
        PROVE  V[r][c] = Cardinality(OfTrackIn(M, X \cup {n}, r, c))
    <2> DEFINE O == OfTrackIn(M, X, r, c)
    <2>1. U[r][c] = Cardinality(O)
      BY DEF Counts
    <2>2. IsFiniteSet(O) /\ n \notin O
      BY <1>1, FS_Subset DEF OfTrackIn
    <2>3. OfTrackIn(M, X \cup {n}, r, c) = IF r = tr /\ c = ch THEN O \cup {n} ELSE O
      BY DEF OfTrackIn
    <2> HIDE DEF O
    <2>4. Cardinality(O) \in Nat
      BY <2>2, FS_CardinalityType
    <2>5. Cardinality(O \cup {n}) = Cardinality(O) + 1
      BY <2>2, FS_AddElement
    <2> QED
      BY <1>2, <2>1, <2>3, <2>4, <2>5
  <1>4. Counts(M, V, X \cup {n})
    BY <1>2, <1>3 DEF Counts
  <1> QED
    BY <1>4 DEF V

LEMMA AgreeingCounts ==
    ASSUME NEW N, NEW M, NEW U, NEW X, AgreeOn(N, M, X), Counts(N, U, X)
    PROVE  Counts(M, U, X)
  <1>1. \A tr, ch : OfTrackIn(M, X, tr, ch) = OfTrackIn(N, X, tr, ch)
    BY DEF OfTrackIn, AgreeOn
  <1> QED
    BY <1>1 DEF Counts

LEMMA RoomBack ==
    ASSUME NEW N, NEW X, Known(N, X), NEW m \in X, NEW n \in X, m # n, N[m].ch = N[n].ch,
           Room(N, X, n, N[n].ch), Clash(N, n, m)
    PROVE  N[m].ch \in FileChannel /\ Fit(N, n, m)
  BY KnownIs DEF Room, Clash, Fit

LEMMA AgreeingApart ==
    ASSUME NEW N, NEW M, NEW X, AgreeOn(N, M, X), Apart(N, X)
    PROVE  Apart(M, X)
  BY DEF AgreeOn, Apart, Room, Clash, Fit

LEMMA ApartWith ==
    ASSUME NEW M, NEW X, NEW n, Known(M, X \cup {n}), Apart(M, X), Room(M, X, n, M[n].ch)
    PROVE  Apart(M, X \cup {n})
  <1> SUFFICES ASSUME NEW m \in X \cup {n}, NEW k \in X \cup {n}, k # m,
                      M[k].ch = M[m].ch, Clash(M, k, m)
               PROVE  M[m].ch \in FileChannel /\ Fit(M, k, m)
    BY DEF Apart, Room
  <1>1. CASE m = n
    BY <1>1 DEF Room
  <1>2. CASE m # n /\ k = n
    <2>1. Room(M, X \cup {n}, n, M[n].ch)
      BY DEF Room
    <2> QED
      BY <1>2, <2>1, RoomBack
  <1>3. CASE m # n /\ k # n
    BY <1>3 DEF Apart, Room
  <1> QED
    BY <1>1, <1>2, <1>3
-----------------------------------------------------------------------------
(* What is true of a song of which the notes X are in the trees.           *)
IsSong(s) ==
    /\ DOMAIN s = {"notes", "chan", "usage", "temps", "wheel", "revs", "tip"}
    /\ \E S : s.revs \in Seq(S)

Core(s, X) ==
    /\ IsSong(s) /\ Known(s.notes, X)
    /\ Trees(s.notes, s.chan, X) /\ Counts(s.notes, s.usage, X)
    /\ Temps(s.notes, s.temps, X) /\ Apart(s.notes, X)

Sound(s) == Core(s, Used(s))

LEMMA UnfiledFields ==
    ASSUME NEW s, IsSong(s), NEW ch, NEW n
    PROVE  LET t == Unfiled(s, ch, n) IN
           /\ IsSong(t) /\ t.notes = s.notes /\ t.usage = s.usage /\ t.temps = s.temps
           /\ t.revs = s.revs /\ t.tip = s.tip /\ t.wheel = s.wheel
           /\ t.chan = [s.chan EXCEPT ![ch] = RemoveAt(s.chan[ch], Found(s, ch, n))]
  BY DEF Unfiled, IsSong

LEMMA FiledFields ==
    ASSUME NEW s, IsSong(s), NEW ch, NEW n, DOMAIN s.chan[ch] = 1 .. Len(s.chan[ch])
    PROVE  LET t == Filed(s, ch, n)
               p == Cardinality(NotAfter(s.notes, s.chan[ch], n)) + 1
           IN  /\ IsSong(t) /\ t.notes = s.notes /\ t.usage = s.usage /\ t.temps = s.temps
               /\ t.revs = s.revs /\ t.tip = s.tip /\ t.wheel = s.wheel
               /\ t.chan = [s.chan EXCEPT ![ch] = InsertAt(s.chan[ch], p, n)]
  <1>1. {i \in DOMAIN s.chan[ch] : ~Before(s, n, s.chan[ch][i])} = NotAfter(s.notes, s.chan[ch], n)
    BY DEF NotAfter, Before, Sooner
  <1> QED
    BY <1>1 DEF Filed, IsSong

LEMMA CountedFields ==
    ASSUME NEW s, IsSong(s), NEW tr, NEW ch, NEW d
    PROVE  LET t == Counted(s, tr, ch, d) IN
           /\ IsSong(t) /\ t.notes = s.notes /\ t.chan = s.chan /\ t.temps = s.temps
           /\ t.revs = s.revs /\ t.tip = s.tip /\ t.usage = Tallied(s.usage, tr, ch, d)
           /\ t.wheel = s.wheel
  BY DEF Counted, Tallied, IsSong

LEMMA WheelFields ==
    ASSUME NEW s, IsSong(s), NEW from, NEW to, NEW beg, NEW end
    PROVE  LET t == WheelCopied(s, from, to, beg, end) IN
           /\ IsSong(t) /\ t.notes = s.notes /\ t.chan = s.chan /\ t.temps = s.temps
           /\ t.revs = s.revs /\ t.tip = s.tip /\ t.usage = s.usage
           /\ t.wheel = Maps!Copy(s.wheel, from, beg, end, to, beg)
  BY DEF WheelCopied, IsSong

LEMMA CoreTree ==
    ASSUME NEW s, NEW X, Core(s, X), NEW ch \in Channel
    PROVE  DOMAIN s.chan[ch] = 1 .. Len(s.chan[ch])
  BY DEF Core, Trees, ListOf

(* note_set_channel and erase_note first take the note out.                *)
LEMMA DetachedIs ==
    ASSUME NEW s, NEW X, Core(s, X), NEW n \in X
    PROVE  LET t == Detached(s, n) IN
           /\ Core(t, X \ {n}) /\ t.notes = s.notes /\ t.temps = s.temps /\ t.revs = s.revs
           /\ t.tip = s.tip
           /\ t.wheel = s.wheel
  <1> DEFINE ch == s.notes[n].ch
             tr == s.notes[n].track
             u == Unfiled(s, ch, n)
             t == Detached(s, n)
             i == Found(s, ch, n)
  <1>1. /\ IsSong(u) /\ u.notes = s.notes /\ u.usage = s.usage /\ u.temps = s.temps
        /\ u.revs = s.revs /\ u.tip = s.tip
        /\ u.chan = [s.chan EXCEPT ![ch] = RemoveAt(s.chan[ch], i)]
        /\ u.wheel = s.wheel
    <2>1. IsSong(s)
      BY DEF Core
    <2> HIDE DEF ch
    <2> QED
      BY <2>1, UnfiledFields
  <1>2. t = Counted(u, tr, ch, -1)
    BY DEF Detached
  <1> HIDE DEF u, t
  <1>3. /\ IsSong(t) /\ t.notes = u.notes /\ t.chan = u.chan /\ t.temps = u.temps
        /\ t.revs = u.revs /\ t.tip = u.tip /\ t.usage = Tallied(u.usage, tr, ch, -1)
        /\ t.wheel = u.wheel
    BY <1>1, <1>2, CountedFields
  <1>4. ch \in Channel
    BY KnownIs DEF Core
  <1>5. i \in 1 .. Len(s.chan[ch]) /\ s.chan[ch][i] = n
    BY FoundIs DEF Core
  <1> HIDE DEF i
  <1>6. Trees(s.notes, t.chan, X \ {n})
    BY <1>1, <1>3, <1>4, <1>5, TakenOut DEF Core
  <1>7. Counts(s.notes, t.usage, X \ {n})
    BY <1>1, <1>3, CountOut DEF Core
  <1>8. /\ Known(s.notes, X \ {n}) /\ Temps(s.notes, s.temps, X \ {n})
        /\ Apart(s.notes, X \ {n})
    BY DEF Core, Known, Temps, Apart, Room
  <1> QED
    BY <1>1, <1>3, <1>6, <1>7, <1>8 DEF Core, t

(* Putting a note in, or back, where there is room.                        *)
LEMMA Settled ==
    ASSUME NEW d, NEW Y, Core(d, Y), NEW n \in Note, n \notin Y, NEW t, IsSong(t),
           AgreeOn(d.notes, t.notes, Y), DOMAIN t.notes = Note,
           t.notes[n] \in Notes, t.notes[n].on < t.notes[n].off,
           NEW ch, t.notes[n].ch = ch, ch \in TempChannel => ch[2] <= d.temps[ch[1]],
           Room(t.notes, Y, n, ch),
           t.chan = [d.chan EXCEPT ![ch] =
                        InsertAt(d.chan[ch], Cardinality(NotAfter(t.notes, d.chan[ch], n)) + 1, n)],
           t.usage = Tallied(d.usage, t.notes[n].track, ch, 1), t.temps = d.temps
    PROVE  Core(t, Y \cup {n})
  <1> DEFINE N == d.notes
             M == t.notes
  <1>1. Known(N, Y) /\ Trees(N, d.chan, Y) /\ Counts(N, d.usage, Y)
        /\ Temps(N, d.temps, Y) /\ Apart(N, Y)
    BY DEF Core
  <1> HIDE DEF M, N
  <1>2. AgreeOn(N, M, Y) /\ DOMAIN M = Note /\ M[n] \in Notes /\ M[n].on < M[n].off
        /\ M[n].ch = ch /\ Room(M, Y, n, ch)
    BY DEF M, N
  <1>3. Known(M, Y \cup {n})
    BY <1>1, <1>2 DEF Known, AgreeOn
  <1>4. ch \in Channel
    BY <1>2, <1>3, KnownIs
  <1>5. Trees(M, d.chan, Y) /\ Counts(M, d.usage, Y) /\ Apart(M, Y)
    BY <1>1, <1>2, AgreeingTrees, AgreeingCounts, AgreeingApart
  <1>6. Trees(M, t.chan, Y \cup {n})
    BY <1>2, <1>3, <1>4, <1>5, PutIn DEF M
  <1>7. Counts(M, t.usage, Y \cup {n})
    <2>1. Counts(M, Tallied(d.usage, M[n].track, ch, 1), Y \cup {n})
      BY <1>2, <1>3, <1>5, CountIn
    <2> QED
      BY <2>1 DEF M
  <1>8. Temps(M, t.temps, Y \cup {n})
    BY <1>1, <1>2 DEF Temps, AgreeOn
  <1>9. Apart(M, Y \cup {n})
    BY <1>2, <1>3, <1>5, ApartWith
  <1> QED
    BY <1>3, <1>6, <1>7, <1>8, <1>9 DEF Core, M
-----------------------------------------------------------------------------
(* The operations on one note.                                             *)
Kept(s, t) ==
    /\ Used(t) = Used(s) /\ t.revs = s.revs /\ t.tip = s.tip
    /\ \A m \in Used(s) : /\ t.notes[m].track = s.notes[m].track
                          /\ t.notes[m].on = s.notes[m].on
                          /\ t.notes[m].off = s.notes[m].off

RoomIn(s, n, ch) ==
    /\ ch \in Channel /\ Room(s.notes, Used(s), n, ch)
    /\ ch \in TempChannel => ch[2] <= s.temps[ch[1]]

LEMMA Revisions ==
    ASSUME NEW s, IsSong(s)
    PROVE  Len(s.revs) \in Nat
  BY DEF IsSong

LEMMA SetChannelIs ==
    ASSUME NEW s, Sound(s), NEW n \in Used(s), NEW ch, RoomIn(s, n, ch)
    PROVE  LET t == SetChannel(s, n, ch) IN
           /\ Sound(t) /\ Kept(s, t) /\ t.temps = s.temps /\ t.notes[n].ch = ch
           /\ \A m \in Used(s) : t.notes[m].pitch = s.notes[m].pitch
           /\ \A m \in Used(s) \ {n} : t.notes[m] = s.notes[m]
           /\ t.wheel = IF ch = s.notes[n].ch THEN s.wheel
                        ELSE Maps!Copy(s.wheel, s.notes[n].ch, s.notes[n].on, s.notes[n].off,
                                       ch, s.notes[n].on)
  <1> DEFINE X == Used(s)
             N == s.notes
             r == N[n]
             t == SetChannel(s, n, ch)
  <1>1. CASE ch = r.ch
    BY <1>1 DEF SetChannel, Kept
  <1>2. CASE ch # r.ch
    <2> DEFINE d == Detached(s, n)
               f == Filed(d, ch, n)
               c == Counted(f, r.track, ch, 1)
               w == WheelCopied(c, r.ch, ch, r.on, r.off)
               Y == X \ {n}
               p == Cardinality(NotAfter(N, d.chan[ch], n)) + 1
    <2>1. t = [w EXCEPT !.notes[n].ch = ch, !.notes[n].since = Len(s.revs)]
      BY <1>2 DEF SetChannel
    <2>2. /\ Core(d, Y) /\ d.notes = N /\ d.temps = s.temps /\ d.revs = s.revs /\ d.tip = s.tip
          /\ d.wheel = s.wheel
      BY DetachedIs DEF Sound
    <2> HIDE DEF d, t
    <2>3. ch \in Channel /\ IsSong(d) /\ DOMAIN d.chan[ch] = 1 .. Len(d.chan[ch])
      BY <2>2, CoreTree DEF RoomIn, Core
    <2>4. /\ IsSong(f) /\ f.notes = N /\ f.usage = d.usage /\ f.temps = s.temps
          /\ f.revs = s.revs /\ f.tip = s.tip
          /\ f.chan = [d.chan EXCEPT ![ch] = InsertAt(d.chan[ch], p, n)]
          /\ f.wheel = s.wheel
      BY <2>2, <2>3, FiledFields
    <2> HIDE DEF f
    <2>5. /\ IsSong(c) /\ c.notes = N /\ c.chan = f.chan /\ c.temps = s.temps
          /\ c.revs = s.revs /\ c.tip = s.tip /\ c.usage = Tallied(d.usage, r.track, ch, 1)
          /\ c.wheel = s.wheel
      BY <2>4, CountedFields
    <2> HIDE DEF c
    <2>6. /\ IsSong(w) /\ w.notes = N /\ w.chan = f.chan /\ w.temps = s.temps
          /\ w.revs = s.revs /\ w.tip = s.tip /\ w.usage = c.usage
          /\ w.wheel = Maps!Copy(s.wheel, r.ch, r.on, r.off, ch, r.on)
      BY <2>5, WheelFields
    <2> HIDE DEF w, p
    <2>7. /\ n \in Note /\ DOMAIN N = Note /\ r \in Notes /\ r.on < r.off /\ NULL \notin Notes
          /\ Len(s.revs) \in Nat
      BY SongAssumption, Revisions DEF Sound, Core, Known
    <2> DEFINE q == [r EXCEPT !.ch = ch, !.since = Len(s.revs)]
    <2>8. /\ q \in Notes /\ q.track = r.track /\ q.on = r.on /\ q.off = r.off
          /\ q.pitch = r.pitch /\ q.ch = ch
      BY <2>3, <2>7 DEF Notes
    <2>9. /\ IsSong(t) /\ t.notes = [N EXCEPT ![n] = q] /\ t.chan = f.chan /\ t.temps = s.temps
          /\ t.revs = s.revs /\ t.tip = s.tip /\ t.usage = c.usage /\ t.wheel = w.wheel
      BY <2>1, <2>6, <2>7 DEF IsSong
    <2> HIDE DEF q
    <2> DEFINE M == t.notes
    <2>10. /\ M[n] = q /\ DOMAIN M = Note /\ \A m \in Note : m # n => M[m] = N[m]
      BY <2>7, <2>9
    <2> HIDE DEF M, r
    <2>11. Used(t) = X
      BY <2>7, <2>8, <2>10 DEF Used, M
    <2>12. p = Cardinality(NotAfter(M, d.chan[ch], n)) + 1
      <3>1. ListOf(d.chan[ch], In(N, Y, ch))
        BY <2>2, <2>3 DEF Core, Trees
      <3>2. SameKeys(N, M, In(N, Y, ch) \cup {n})
        BY <2>8, <2>10 DEF SameKeys, In, r, Used
      <3> QED
        BY <3>1, <3>2, SamePlace DEF p
    <2>13. Room(M, Y, n, ch)
      BY <2>8, <2>10 DEF RoomIn, Room, Clash, Fit, r, Used
    <2>14. AgreeOn(d.notes, M, Y)
      BY <2>2, <2>10 DEF AgreeOn, Used
    <2>15. ch \in TempChannel => ch[2] <= d.temps[ch[1]]
      BY <2>2 DEF RoomIn
    <2>16. n \notin Y /\ Y \cup {n} = X
      OBVIOUS
    <2>17. /\ M[n] \in Notes /\ M[n].on < M[n].off /\ M[n].ch = ch /\ M[n].track = r.track
      BY <2>7, <2>8, <2>10
    <2>18. Core(t, Y \cup {n})
      <3>1. t.chan = [d.chan EXCEPT ![ch] =
                  InsertAt(d.chan[ch], Cardinality(NotAfter(t.notes, d.chan[ch], n)) + 1, n)]
        BY <2>4, <2>9, <2>12 DEF M
      <3>2. t.usage = Tallied(d.usage, t.notes[n].track, ch, 1) /\ t.temps = d.temps
        BY <2>2, <2>5, <2>9, <2>17 DEF M
      <3>3. /\ IsSong(t) /\ AgreeOn(d.notes, t.notes, Y) /\ DOMAIN t.notes = Note
            /\ t.notes[n] \in Notes /\ t.notes[n].on < t.notes[n].off /\ t.notes[n].ch = ch
            /\ Room(t.notes, Y, n, ch)
        BY <2>9, <2>10, <2>13, <2>14, <2>17 DEF M
      <3> HIDE DEF Y
      <3> QED
        BY <2>2, <2>7, <2>15, <2>16, <3>1, <3>2, <3>3, Settled
    <2>19. Kept(s, t)
      BY <2>8, <2>9, <2>10, <2>11 DEF Kept, M, r, Used
    <2>20. \A m \in X : t.notes[m].pitch = s.notes[m].pitch
      BY <2>8, <2>10 DEF M, r, Used
    <2>21. \A m \in X \ {n} : t.notes[m] = s.notes[m]
      BY <2>10 DEF M, Used
    <2>22. t.wheel = Maps!Copy(s.wheel, s.notes[n].ch, s.notes[n].on, s.notes[n].off,
                               ch, s.notes[n].on)
      BY <2>6, <2>9 DEF r
    <2> QED
      BY <1>2, <2>8, <2>9, <2>10, <2>11, <2>16, <2>18, <2>19, <2>20, <2>21, <2>22
         DEF Sound, M, t, r
  <1> QED
    BY <1>1, <1>2

(* What can_move and track_temp_channel look up.                           *)
LEMMA InRangeIs ==
    ASSUME NEW s, Sound(s), NEW ch \in Channel, NEW beg, NEW end
    PROVE  InRange(s, ch, beg, end) =
              {m \in Used(s) : s.notes[m].ch = ch /\ beg < s.notes[m].off /\ s.notes[m].on < end}
  <1>1. ListOf(s.chan[ch], In(s.notes, Used(s), ch)) /\ DOMAIN s.chan[ch] = 1 .. Len(s.chan[ch])
    BY CoreTree DEF Sound, Core, Trees
  <1>2. Range(s.chan[ch]) = In(s.notes, Used(s), ch)
    <2> DEFINE l == s.chan[ch]
               X == In(s.notes, Used(s), ch)
    <2>1. DOMAIN l = 1 .. Len(l) /\ l \in Seq(X) /\ \A x \in X : \E i \in 1 .. Len(l) : l[i] = x
      BY <1>1 DEF ListOf
    <2> HIDE DEF l, X
    <2>2. \A i \in DOMAIN l : l[i] \in X
      BY <2>1
    <2>3. \A x \in X : \E i \in DOMAIN l : l[i] = x
      BY <2>1
    <2>4. Range(l) = X
      BY <2>2, <2>3 DEF Range
    <2> QED
      BY <2>4 DEF l, X
  <1> QED
    BY <1>2 DEF InRange, In

(* There are temporary channels for all notes, since one more is needed    *)
(* only if each of those there are has another note.                       *)
LEMMA EnoughTemps ==
    ASSUME NEW s, Sound(s), NEW tr \in Track, NEW spare \in Note, NEW O \in SUBSET Used(s),
           spare \notin O,
           \A k \in 1 .. s.temps[tr] : \E m \in O : s.notes[m].ch = <<tr, k>>
    PROVE  s.temps[tr] + 1 \in 1 .. Cardinality(Note)
  <1> DEFINE T == s.temps[tr]
             f == [k \in 1 .. T |-> CHOOSE m \in O : s.notes[m].ch = <<tr, k>>]
             R == Note \ {spare}
  <1>1. T \in Nat /\ O \in SUBSET Note
    <2>1. Temps(s.notes, s.temps, Used(s)) /\ Used(s) \subseteq Note
      BY DEF Sound, Core, Used
    <2> QED
      BY <2>1 DEF Temps
  <1>2. \A k \in 1 .. T : f[k] \in O /\ s.notes[f[k]].ch = <<tr, k>>
    OBVIOUS
  <1>3. IsFiniteSet(Note) /\ Cardinality(Note) \in Nat
    BY SongAssumption, FS_CardinalityType
  <1>4. IsFiniteSet(R) /\ Cardinality(R) = Cardinality(Note) - 1
    BY <1>3, FS_RemoveElement
  <1>5. IsFiniteSet(1 .. T) /\ Cardinality(1 .. T) = T
    <2> HIDE DEF T
    <2>1. /\ IsFiniteSet(1 .. T)
          /\ Cardinality(1 .. T) = IF 1 > T THEN 0 ELSE T - 1 + 1
      BY <1>1, FS_Interval
    <2> QED
      BY <1>1, <2>1
  <1>6. f \in [1 .. T -> R]
    BY <1>1, <1>2
  <1>7. ~(Cardinality(R) < T)
    <2> SUFFICES ASSUME Cardinality(R) < T PROVE FALSE
      OBVIOUS
    <2> HIDE DEF f, R
    <2>1. \E x, y \in 1 .. T : x # y /\ f[x] = f[y]
      <3>1. Cardinality(R) < Cardinality(1 .. T)
        BY <1>5
      <3> DEFINE K == 1 .. T
      <3>2. IsFiniteSet(K) /\ Cardinality(R) < Cardinality(K) /\ f \in [K -> R]
        BY <1>5, <1>6, <3>1
      <3> HIDE DEF K
      <3>3. \E x, y \in K : x # y /\ f[x] = f[y]
        BY <1>4, <3>2, FS_PigeonHole
      <3> QED
        BY <3>3 DEF K
    <2>2. PICK x \in 1 .. T, y \in 1 .. T : x # y /\ f[x] = f[y]
      BY <2>1
    <2>3. <<tr, x>> = <<tr, y>>
      BY <1>2, <2>2
    <2> QED
      BY <2>2, <2>3
  <1> HIDE DEF T, R
  <1>8. T + 1 \in 1 .. Cardinality(Note)
    BY <1>1, <1>3, <1>4, <1>7
  <1> QED
    BY <1>8 DEF T

(* track_temp_channel finds a channel where nothing but the ignored note   *)
(* sounds meanwhile.                                                       *)
LEMMA FreeTempIs ==
    ASSUME NEW s, Sound(s), NEW tr \in Track, NEW beg, NEW end,
           NEW spare \in Note, NEW ignored \in SUBSET {spare},
           spare \in Used(s) => spare \in ignored
    PROVE  LET k == FreeTemp(s, tr, beg, end, ignored) IN
           /\ k \in 1 .. Cardinality(Note) /\ k <= s.temps[tr] + 1
           /\ \A m \in Used(s) \ {spare} :
                 ~(s.notes[m].ch = <<tr, k>> /\ beg < s.notes[m].off /\ s.notes[m].on < end)
  <1> DEFINE T == s.temps[tr]
             free == {k \in 1 .. T : InRange(s, <<tr, k>>, beg, end) \subseteq ignored}
             F == FreeTemp(s, tr, beg, end, ignored)
             sounds(m, k) == s.notes[m].ch = <<tr, k>> /\ beg < s.notes[m].off /\ s.notes[m].on < end
  <1>1. T \in 0 .. Cardinality(Note) /\ Cardinality(Note) \in Nat
    BY SongAssumption, FS_CardinalityType DEF Sound, Core, Temps
  <1>2. \A k \in 1 .. T : InRange(s, <<tr, k>>, beg, end) = {m \in Used(s) : sounds(m, k)}
    <2>1. \A k \in 1 .. T : <<tr, k>> \in Channel
      BY <1>1, ChannelKinds
    <2> QED
      BY <2>1, InRangeIs
  <1>3. \A k \in 1 .. T : k \in free <=> \A m \in Used(s) \ ignored : ~sounds(m, k)
    BY <1>2
  <1>4. F = IF free = {} THEN T + 1 ELSE Max(free)
    BY DEF FreeTemp
  <1>5. free \in SUBSET (1 .. T)
    OBVIOUS
  <1> HIDE DEF T, F, free
  <1>6. CASE free = {}
    <2>1. F = T + 1
      BY <1>4, <1>6
    <2>2. \A k \in 1 .. T : \E m \in Used(s) \ ignored : s.notes[m].ch = <<tr, k>>
      BY <1>3, <1>6
    <2>3. T + 1 \in 1 .. Cardinality(Note)
      <3> DEFINE O == Used(s) \ ignored
      <3>1. O \in SUBSET Used(s) /\ spare \notin O
        OBVIOUS
      <3>2. \A k \in 1 .. s.temps[tr] : \E m \in O : s.notes[m].ch = <<tr, k>>
        BY <2>2 DEF T
      <3> HIDE DEF O
      <3> QED
        BY <3>1, <3>2, EnoughTemps DEF T
    <2>4. <<tr, T + 1>> \in TempChannel
      BY <2>3, ChannelKinds
    <2>5. \A m \in Used(s) : s.notes[m].ch # <<tr, T + 1>>
      BY <1>1, <2>4 DEF Sound, Core, Temps, T
    <2> QED
      BY <1>1, <2>1, <2>3, <2>5 DEF F, T
  <1>7. CASE free # {}
    <2>1. free \in SUBSET Nat /\ \A k \in free : k <= T
      BY <1>1, <1>5
    <2>2. F \in free
      <3>1. T \in Nat
        BY <1>1
      <3>2. Max(free) \in free
        BY <1>7, <2>1, <3>1, MaxFacts
      <3> QED
        BY <1>4, <1>7, <3>2
    <2>3. F \in 1 .. T
      BY <1>5, <2>2
    <2>4. \A m \in Used(s) \ ignored : ~sounds(m, F)
      BY <1>3, <2>2, <2>3
    <2> QED
      BY <1>1, <2>3, <2>4 DEF F, T
  <1> QED
    BY <1>6, <1>7

LEMMA WithTempIs ==
    ASSUME NEW s, Sound(s), NEW tr \in Track, NEW k \in 1 .. Cardinality(Note)
    PROVE  LET t == WithTemp(s, tr, k) IN
           /\ Sound(t) /\ t.notes = s.notes /\ t.revs = s.revs /\ t.tip = s.tip
           /\ Used(t) = Used(s)
           /\ k <= t.temps[tr] /\ t.wheel = s.wheel
           /\ t.temps[tr] = IF k <= s.temps[tr] THEN s.temps[tr] ELSE k
  <1> DEFINE t == WithTemp(s, tr, k)
             x == Max({s.temps[tr], k})
  <1>1. /\ DOMAIN s.temps = Track /\ \A r \in Track : s.temps[r] \in 0 .. Cardinality(Note)
        /\ Cardinality(Note) \in Nat
    BY SongAssumption, FS_CardinalityType DEF Sound, Core, Temps
  <1>2. /\ x \in 0 .. Cardinality(Note) /\ k <= x /\ s.temps[tr] <= x
        /\ x = s.temps[tr] \/ x = k
    <2> DEFINE S == {s.temps[tr], k}
    <2>1. S \in SUBSET Nat /\ \A y \in S : y <= Cardinality(Note)
      BY <1>1
    <2>2. s.temps[tr] \in S /\ k \in S
      OBVIOUS
    <2> HIDE DEF S
    <2>3. Max(S) \in S /\ \A y \in S : y <= Max(S)
      BY <1>1, <2>1, <2>2, MaxFacts
    <2>4. Max(S) \in 0 .. Cardinality(Note)
      <3>1. Max(S) \in Nat /\ Max(S) <= Cardinality(Note)
        BY <2>1, <2>3
      <3> QED
        BY <1>1, <3>1
    <2>5. Max(S) = s.temps[tr] \/ Max(S) = k
      BY <2>3 DEF S
    <2> QED
      BY <2>2, <2>3, <2>4, <2>5 DEF S
  <1> HIDE DEF x
  <1>3. /\ IsSong(t) /\ t.notes = s.notes /\ t.chan = s.chan /\ t.usage = s.usage
        /\ t.revs = s.revs /\ t.tip = s.tip /\ t.temps = [s.temps EXCEPT ![tr] = x]
        /\ t.wheel = s.wheel
    BY DEF Sound, Core, IsSong, WithTemp, x
  <1> HIDE DEF t
  <1>4. Used(t) = Used(s)
    BY <1>3 DEF Used
  <1>5. Temps(t.notes, t.temps, Used(t))
    <2>1. \A r \in Track : t.temps[r] \in 0 .. Cardinality(Note) /\ s.temps[r] <= t.temps[r]
      BY <1>1, <1>2, <1>3
    <2>4. IsFun(t.temps)
      BY <1>3 DEF Sound, Core, Temps, IsFun
    <2>2. \A n \in Used(s) : s.notes[n].ch \in TempChannel =>
             /\ s.notes[n].ch[2] \in Nat /\ s.notes[n].ch[1] \in Track
             /\ s.notes[n].ch[2] <= s.temps[s.notes[n].ch[1]]
      BY ChannelKinds DEF Sound, Core, Temps
    <2>3. \A n \in Used(s) : s.notes[n].ch \in TempChannel =>
             s.notes[n].ch[2] <= t.temps[s.notes[n].ch[1]]
      BY <1>1, <2>1, <2>2
    <2> QED
      BY <1>1, <1>3, <1>4, <2>1, <2>3, <2>4 DEF Temps
  <1>6. Sound(t)
    BY <1>3, <1>4, <1>5 DEF Sound, Core
  <1>7. t.temps[tr] = IF k <= s.temps[tr] THEN s.temps[tr] ELSE k
    BY <1>1, <1>2, <1>3
  <1> QED
    BY <1>1, <1>2, <1>3, <1>4, <1>6, <1>7 DEF t

(* isolate_note: w is the song with one temporary channel more, if it      *)
(* takes one.                                                              *)
IsolatedBy(s, n, w, ch) ==
    /\ Isolated(s, n) = SetChannel(w, n, ch)
    /\ Sound(w) /\ w.notes = s.notes /\ w.wheel = s.wheel /\ w.revs = s.revs /\ w.tip = s.tip
    /\ Used(w) = Used(s) /\ ch \in TempChannel /\ RoomIn(w, n, ch)
    /\ ch[1] = s.notes[n].track

LEMMA Isolating ==
    ASSUME NEW s, Sound(s), NEW n \in Used(s)
    PROVE  \E w, ch : IsolatedBy(s, n, w, ch)
  <1> DEFINE r == s.notes[n]
             k == FreeTemp(s, r.track, r.on, r.off, {n})
             w == WithTemp(s, r.track, k)
             ch == <<r.track, k>>
  <1>1. Isolated(s, n) = SetChannel(w, n, ch)
    BY DEF Isolated
  <1>2. n \in Note /\ r.track \in Track
    BY KnownIs DEF Sound, Core
  <1>3. /\ k \in 1 .. Cardinality(Note)
        /\ \A m \in Used(s) \ {n} :
              ~(s.notes[m].ch = ch /\ r.on < s.notes[m].off /\ s.notes[m].on < r.off)
    BY <1>2, FreeTempIs
  <1> HIDE DEF k
  <1>4. /\ Sound(w) /\ w.notes = s.notes /\ w.revs = s.revs /\ w.tip = s.tip
        /\ Used(w) = Used(s)
        /\ k <= w.temps[r.track] /\ w.wheel = s.wheel
    BY <1>2, <1>3, WithTempIs
  <1> HIDE DEF w
  <1>5. ch \in TempChannel /\ ch \in Channel /\ ch[1] = r.track
    BY <1>2, <1>3, ChannelKinds
  <1>6. RoomIn(w, n, ch)
    BY <1>3, <1>4, <1>5 DEF RoomIn, Room, Clash
  <1> HIDE DEF ch
  <1>7. IsolatedBy(s, n, w, ch)
    BY <1>1, <1>4, <1>5, <1>6 DEF IsolatedBy
  <1> QED
    BY <1>7

LEMMA IsolatedIs ==
    ASSUME NEW s, Sound(s), NEW n \in Used(s)
    PROVE  LET t == Isolated(s, n) IN
           /\ Sound(t) /\ Kept(s, t) /\ t.notes[n].ch \in TempChannel
           /\ \A m \in Used(s) : t.notes[m].pitch = s.notes[m].pitch
           /\ \A m \in Used(s) \ {n} : t.notes[m] = s.notes[m]
  <1> DEFINE t == Isolated(s, n)
  <1>1. PICK w, ch : IsolatedBy(s, n, w, ch)
    BY Isolating
  <1>2. /\ t = SetChannel(w, n, ch) /\ Sound(w) /\ w.notes = s.notes /\ w.revs = s.revs
        /\ w.tip = s.tip
        /\ Used(w) = Used(s) /\ ch \in TempChannel /\ RoomIn(w, n, ch)
    BY <1>1 DEF IsolatedBy
  <1> HIDE DEF t
  <1>3. /\ Sound(t) /\ Kept(w, t) /\ t.notes[n].ch = ch
        /\ \A m \in Used(w) : t.notes[m].pitch = w.notes[m].pitch
        /\ \A m \in Used(w) \ {n} : t.notes[m] = w.notes[m]
    BY <1>2, SetChannelIs
  <1> QED
    BY <1>2, <1>3 DEF Kept, t
(* A note in a temporary channel may be given another pitch: its place     *)
(* there depends on its time alone.                                        *)
Repitched(N, n, p) == [N EXCEPT ![n] = [N[n] EXCEPT !.pitch = p]]

InPlace(N, M, X) ==
    \A m \in X : /\ M[m].track = N[m].track /\ M[m].ch = N[m].ch
                  /\ M[m].on = N[m].on /\ M[m].off = N[m].off

LEMMA RepitchedNotes ==
    ASSUME NEW N, NEW X, Known(N, X), Apart(N, X), NEW n \in X, N[n].ch \in TempChannel,
           NEW p \in Pitch
    PROVE  /\ Known(Repitched(N, n, p), X) /\ Apart(Repitched(N, n, p), X)
           /\ AgreeOn(N, Repitched(N, n, p), X \ {n})
           /\ InPlace(N, Repitched(N, n, p), X)
  <1> DEFINE M == Repitched(N, n, p)
             q == [N[n] EXCEPT !.pitch = p]
  <1>1. n \in Note /\ DOMAIN N = Note /\ N[n] \in Notes
    BY DEF Known
  <1>2. /\ q \in Notes /\ q.track = N[n].track /\ q.on = N[n].on /\ q.off = N[n].off
        /\ q.ch = N[n].ch /\ q.pitch = p
    BY <1>1 DEF Notes
  <1>3. M = [N EXCEPT ![n] = q]
    BY DEF Repitched
  <1> HIDE DEF q, M
  <1>4. /\ M[n] = q /\ DOMAIN M = Note
        /\ \A m \in Note : m # n => M[m] = N[m]
    BY <1>1, <1>3
  <1>5. \A m \in X : /\ M[m].track = N[m].track /\ M[m].ch = N[m].ch
                     /\ M[m].on = N[m].on /\ M[m].off = N[m].off
    BY <1>2, <1>4 DEF Known
  <1>6. Known(M, X)
    BY <1>2, <1>4 DEF Known
  <1>7. AgreeOn(N, M, X \ {n})
    BY <1>4 DEF Known, AgreeOn
  <1>8. Apart(M, X)
    <2> SUFFICES ASSUME NEW m \in X, NEW k \in X, k # m, M[k].ch = M[m].ch, Clash(M, k, m)
                 PROVE  M[m].ch \in FileChannel /\ Fit(M, k, m)
      BY DEF Apart, Room
    <2>1. N[k].ch = N[m].ch /\ Clash(N, k, m)
      BY <1>5 DEF Clash
    <2>2. N[m].ch \in FileChannel /\ Fit(N, k, m)
      BY <2>1 DEF Apart, Room
    <2>3. k # n /\ m # n
      BY <2>1, <2>2, ChannelKinds
    <2>4. M[k] = N[k] /\ M[m] = N[m]
      BY <2>3, <1>7 DEF AgreeOn
    <2> QED
      BY <2>2, <2>4 DEF Fit
  <1> QED
    BY <1>5, <1>6, <1>7, <1>8 DEF M, InPlace

LEMMA SoonerByTime ==
    ASSUME NEW N, NEW M, NEW a, NEW b, Keyed(N, a), Keyed(N, b),
           N[a].on < N[a].off, N[b].on < N[b].off, ~Clash(N, a, b),
           M[a].on = N[a].on, M[b].on = N[b].on, M[a].off = N[a].off, M[b].off = N[b].off
    PROVE  Sooner(M, a, b) <=> Sooner(N, a, b)
  BY DEF Sooner, Keyed, Clash

LEMMA RepitchedInPlace ==
    ASSUME NEW N, NEW C, NEW X, Known(N, X), Apart(N, X), Trees(N, C, X), NEW n \in X,
           N[n].ch \in TempChannel, NEW p \in Pitch
    PROVE  Trees(Repitched(N, n, p), C, X)
  <1> DEFINE M == Repitched(N, n, p)
  <1>1. /\ AgreeOn(N, M, X \ {n})
        /\ \A m \in X : M[m].ch = N[m].ch /\ M[m].on = N[m].on /\ M[m].off = N[m].off
    BY RepitchedNotes DEF InPlace
  <1> HIDE DEF M
  <1>2. \A ch \in Channel : In(M, X, ch) = In(N, X, ch)
    BY <1>1 DEF In
  <1>3. ASSUME NEW ch \in Channel
        PROVE  ListOf(C[ch], In(N, X, ch)) /\ Sorted(M, C[ch])
    <2>1. ListOf(C[ch], In(N, X, ch)) /\ Sorted(N, C[ch])
      BY DEF Trees
    <2>2. CASE ch # N[n].ch
      <3>1. SameKeys(N, M, In(N, X, ch))
        BY <1>1, <2>2 DEF SameKeys, In, AgreeOn
      <3> QED
        BY <2>1, <3>1, StaysSorted
    <2>3. CASE ch = N[n].ch
      <3> DEFINE l == C[ch]
      <3>1. \A i \in 1 .. Len(l) : l[i] \in X /\ N[l[i]].ch = ch
        BY <2>1 DEF ListOf, In
      <3>2. l \in Seq(In(N, X, ch)) /\ \A i, j \in 1 .. Len(l) : l[i] = l[j] => i = j
        BY <2>1 DEF ListOf
      <3> HIDE DEF l
      <3>3. ASSUME NEW i \in 1 .. Len(l), NEW j \in 1 .. Len(l), i < j
            PROVE  ~Sooner(M, l[j], l[i])
        <4>1. PICK a \in X, b \in X : a = l[i] /\ b = l[j]
          BY <3>1
        <4>2. a # b /\ N[a].ch = ch /\ N[b].ch = ch
          BY <3>1, <3>2, <3>3, <4>1
        <4>3. ~Clash(N, b, a)
          BY <2>3, <4>2, ChannelKinds DEF Apart, Room
        <4>4. Sooner(M, b, a) <=> Sooner(N, b, a)
          BY <1>1, <4>3, KnownIs, SoonerByTime
        <4> QED
          BY <2>1, <3>3, <4>1, <4>4 DEF Sorted, l
      <3> QED
        BY <2>1, <3>3 DEF Sorted, l
    <2> QED
      BY <2>2, <2>3
  <1> QED
    BY <1>2, <1>3 DEF Trees, M

LEMMA RepitchedRest ==
    ASSUME NEW N, NEW U, NEW T, NEW X, Known(N, X), Apart(N, X), NEW n \in X,
           N[n].ch \in TempChannel, NEW p \in Pitch, Counts(N, U, X), Temps(N, T, X)
    PROVE  Counts(Repitched(N, n, p), U, X) /\ Temps(Repitched(N, n, p), T, X)
  <1> DEFINE M == Repitched(N, n, p)
  <1>1. \A m \in X : M[m].track = N[m].track /\ M[m].ch = N[m].ch
    <2>1. InPlace(N, M, X)
      BY RepitchedNotes
    <2> QED
      BY <2>1 DEF InPlace
  <1> HIDE DEF M
  <1>2. \A tr, ch : OfTrackIn(M, X, tr, ch) = OfTrackIn(N, X, tr, ch)
    BY <1>1 DEF OfTrackIn
  <1>3. Counts(M, U, X) /\ Temps(M, T, X)
    BY <1>1, <1>2 DEF Counts, Temps
  <1> QED
    BY <1>3 DEF M

(* note_reset_pitch                                                        *)
LEMMA PitchResetIs ==
    ASSUME NEW s, Sound(s), NEW n \in Used(s), NEW p \in Pitch
    PROVE  LET t == PitchReset(s, n, p) IN
           /\ Sound(t) /\ Kept(s, t) /\ t.notes[n].ch \in TempChannel
           /\ t.notes = Repitched(Isolated(s, n).notes, n, p)
           /\ t.wheel = [Isolated(s, n).wheel EXCEPT ![t.notes[n].ch] =
                            Maps!SetRange(Isolated(s, n).wheel[t.notes[n].ch], 0,
                                          t.notes[n].on, t.notes[n].off, Wheel[p])]
  <1> DEFINE i == Isolated(s, n)
             X == Used(i)
             N == i.notes
             ch == N[n].ch
             u == Unfiled(i, ch, n)
             c == [u EXCEPT !.notes[n].pitch = p]
             f == Filed(c, ch, n)
             t == PitchReset(s, n, p)
             M == Repitched(N, n, p)
             k == Found(i, ch, n)
  <1>1. Sound(i) /\ Kept(s, i) /\ ch \in TempChannel
    BY IsolatedIs
  <1>2. t = [f EXCEPT !.wheel[ch] = Maps!SetRange(@, 0, N[n].on, N[n].off, Wheel[p])]
    BY DEF PitchReset
  <1> HIDE DEF i, t
  <1>3. n \in X /\ n \in Note /\ ch \in Channel /\ IsSong(i) /\ DOMAIN N = Note /\ NULL \notin Notes
    BY <1>1, ChannelKinds, SongAssumption DEF Kept, Sound, Core, Known
  <1>4. /\ IsSong(u) /\ u.notes = N /\ u.usage = i.usage /\ u.temps = i.temps
        /\ u.revs = i.revs /\ u.tip = i.tip
        /\ u.chan = [i.chan EXCEPT ![ch] = RemoveAt(i.chan[ch], k)]
        /\ u.wheel = i.wheel
    BY <1>3, UnfiledFields
  <1> HIDE DEF u
  <1>5. /\ IsSong(c) /\ c.notes = M /\ c.usage = i.usage /\ c.temps = i.temps
        /\ c.revs = i.revs /\ c.tip = i.tip /\ c.chan = u.chan /\ c.wheel = i.wheel
    BY <1>3, <1>4 DEF IsSong, Repitched
  <1> HIDE DEF c
  <1>6. Trees(N, c.chan, X \ {n})
    <2>1. k \in 1 .. Len(i.chan[ch]) /\ i.chan[ch][k] = n
      BY <1>1, <1>3, FoundIs DEF Sound, Core
    <2> HIDE DEF k, ch
    <2>2. N[n].ch = ch /\ Trees(N, i.chan, X)
      BY <1>1 DEF Sound, Core, ch
    <2> QED
      BY <1>3, <1>4, <1>5, <2>1, <2>2, TakenOut
  <1>7. /\ Known(M, X) /\ Apart(M, X) /\ AgreeOn(N, M, X \ {n}) /\ InPlace(N, M, X)
        /\ Counts(M, i.usage, X) /\ Temps(M, i.temps, X)
    <2>1. /\ Known(N, X) /\ Apart(N, X) /\ Counts(N, i.usage, X) /\ Temps(N, i.temps, X)
          /\ N[n].ch \in TempChannel
      BY <1>1 DEF Sound, Core
    <2> HIDE DEF N, X, M
    <2>2. /\ Known(M, X) /\ Apart(M, X) /\ AgreeOn(N, M, X \ {n}) /\ InPlace(N, M, X)
      BY <1>3, <2>1, RepitchedNotes DEF M
    <2>3. Counts(M, i.usage, X) /\ Temps(M, i.temps, X)
      BY <1>3, <2>1, RepitchedRest DEF M
    <2> QED
      BY <2>2, <2>3
  <1> HIDE DEF M, k
  <1>8. Trees(M, c.chan, X \ {n})
    BY <1>6, <1>7, AgreeingTrees
  <1>9. DOMAIN c.chan[ch] = 1 .. Len(c.chan[ch])
    BY <1>3, <1>8 DEF Trees, ListOf
  <1> DEFINE q == Cardinality(NotAfter(M, c.chan[ch], n)) + 1
  <1>10. /\ IsSong(f) /\ f.notes = M /\ f.usage = i.usage /\ f.temps = i.temps
         /\ f.revs = i.revs /\ f.tip = i.tip
         /\ f.chan = [c.chan EXCEPT ![ch] = InsertAt(c.chan[ch], q, n)]
         /\ f.wheel = i.wheel
    <2> HIDE DEF ch
    <2>1. /\ IsSong(f) /\ f.notes = c.notes /\ f.usage = c.usage /\ f.temps = c.temps
          /\ f.revs = c.revs /\ f.tip = c.tip /\ f.wheel = c.wheel
          /\ f.chan = [c.chan EXCEPT ![ch] =
                InsertAt(c.chan[ch], Cardinality(NotAfter(c.notes, c.chan[ch], n)) + 1, n)]
      BY <1>5, <1>9, FiledFields
    <2> QED
      BY <1>5, <2>1
  <1>11. Trees(M, f.chan, X)
    <2>1. n \notin X \ {n} /\ (X \ {n}) \cup {n} = X /\ M[n].ch = ch
      BY <1>3, <1>7 DEF InPlace
    <2>2. Trees(M, [c.chan EXCEPT ![ch] = InsertAt(c.chan[ch], q, n)], (X \ {n}) \cup {n})
      BY <1>3, <1>7, <1>8, <2>1, PutIn
    <2> QED
      BY <1>10, <2>1, <2>2
  <1> HIDE DEF f
  <1>12. /\ IsSong(t) /\ t.notes = M /\ t.usage = i.usage /\ t.temps = i.temps
         /\ t.revs = i.revs /\ t.tip = i.tip /\ t.chan = f.chan
         /\ t.wheel = [i.wheel EXCEPT ![ch] =
                          Maps!SetRange(i.wheel[ch], 0, N[n].on, N[n].off, Wheel[p])]
    BY <1>2, <1>10 DEF IsSong
  <1>13. Used(t) = X
    <2>1. \A m \in Note : m # n => M[m] = N[m]
      BY <1>3 DEF M, Repitched
    <2>2. M[n] # NULL
      BY <1>3, <1>7 DEF Known
    <2> QED
      BY <1>3, <1>12, <2>1, <2>2 DEF Used
  <1>14. Sound(t)
    BY <1>7, <1>11, <1>12, <1>13 DEF Sound, Core
  <1>15. Kept(s, t) /\ t.notes[n].ch \in TempChannel
    BY <1>1, <1>3, <1>7, <1>12, <1>13 DEF Kept, InPlace
  <1>16. t.notes[n].ch = ch /\ t.notes[n].on = N[n].on /\ t.notes[n].off = N[n].off
    BY <1>3, <1>7, <1>12 DEF InPlace
  <1>17. t.notes = Repitched(i.notes, n, p)
    BY <1>12 DEF M
  <1> QED
    BY <1>12, <1>14, <1>15, <1>16, <1>17 DEF t, i

(* note_set_pitch                                                          *)
LEMMA PitchSetIs ==
    ASSUME NEW s, Sound(s), NEW n \in Used(s), NEW p \in Pitch
    PROVE  LET t == PitchSet(s, n, p) IN
           /\ Sound(t) /\ Kept(s, t) /\ t.notes[n].ch \in TempChannel
           /\ t.notes = Repitched(Isolated(s, n).notes, n, p)
           /\ \E dvalue \in Int :
                 t.wheel = [Isolated(s, n).wheel EXCEPT ![t.notes[n].ch] =
                              Maps!Add(Isolated(s, n).wheel[t.notes[n].ch], 0,
                                       t.notes[n].on, t.notes[n].off, dvalue)]
  <1> DEFINE i == Isolated(s, n)
             X == Used(i)
             N == i.notes
             ch == N[n].ch
             t == PitchSet(s, n, p)
             M == Repitched(N, n, p)
  <1>1. Sound(i) /\ Kept(s, i) /\ ch \in TempChannel
    BY IsolatedIs
  <1>2. PICK dvalue \in Int :
               t = [i EXCEPT !.notes[n].pitch = p,
                             !.wheel[ch] = Maps!Add(@, 0, N[n].on, N[n].off, dvalue)]
    <2>1. n \in X /\ Known(N, X)
      BY <1>1 DEF Kept, Sound, Core
    <2>2. N[n].pitch \in Pitch
      BY <2>1, KnownIs
    <2>3. Wheel[p] - Wheel[N[n].pitch] \in Int
      BY <2>2, SongAssumption
    <2> HIDE DEF i
    <2> QED
      BY <2>3 DEF PitchSet, i
  <1> HIDE DEF i, t
  <1>3. n \in X /\ n \in Note /\ ch \in Channel /\ IsSong(i) /\ DOMAIN N = Note /\ NULL \notin Notes
    BY <1>1, ChannelKinds, SongAssumption DEF Kept, Sound, Core, Known
  <1>4. /\ IsSong(t) /\ t.notes = M /\ t.usage = i.usage /\ t.temps = i.temps
        /\ t.revs = i.revs /\ t.tip = i.tip /\ t.chan = i.chan
        /\ t.wheel = [i.wheel EXCEPT ![ch] =
                         Maps!Add(i.wheel[ch], 0, N[n].on, N[n].off, dvalue)]
    BY <1>2, <1>3 DEF IsSong, Repitched
  <1>5. /\ Known(M, X) /\ Apart(M, X) /\ InPlace(N, M, X)
        /\ Counts(M, i.usage, X) /\ Temps(M, i.temps, X)
    <2>1. /\ Known(N, X) /\ Apart(N, X) /\ Counts(N, i.usage, X) /\ Temps(N, i.temps, X)
          /\ N[n].ch \in TempChannel
      BY <1>1 DEF Sound, Core
    <2> HIDE DEF N, X, M
    <2>2. /\ Known(M, X) /\ Apart(M, X) /\ InPlace(N, M, X)
      BY <1>3, <2>1, RepitchedNotes DEF M
    <2>3. Counts(M, i.usage, X) /\ Temps(M, i.temps, X)
      BY <1>3, <2>1, RepitchedRest DEF M
    <2> QED
      BY <2>2, <2>3
  <1>6. Trees(M, i.chan, X)
    BY <1>1, <1>3, RepitchedInPlace DEF Sound, Core
  <1>7. Used(t) = X
    <2>1. \A m \in Note : m # n => M[m] = N[m]
      BY <1>3 DEF Repitched
    <2> HIDE DEF M
    <2>2. M[n] # NULL
      BY <1>3, <1>5 DEF Known
    <2> QED
      BY <1>3, <1>4, <2>1, <2>2 DEF Used
  <1> HIDE DEF M
  <1>8. Sound(t)
    BY <1>4, <1>5, <1>6, <1>7 DEF Sound, Core
  <1>9. Kept(s, t) /\ t.notes[n].ch \in TempChannel
    BY <1>1, <1>3, <1>4, <1>5, <1>7 DEF Kept, InPlace
  <1>10. t.notes[n].ch = ch /\ t.notes[n].on = N[n].on /\ t.notes[n].off = N[n].off
    BY <1>3, <1>4, <1>5 DEF InPlace
  <1>11. t.notes = Repitched(i.notes, n, p)
    BY <1>4 DEF M
  <1> QED
    BY <1>4, <1>8, <1>9, <1>10, <1>11 DEF t, i
-----------------------------------------------------------------------------
(* insert_note, where there is room.                                       *)
LEMMA InsertedIs ==
    ASSUME NEW s, Sound(s), NEW n \in Note, n \notin Used(s), NEW r \in Notes, r.on < r.off,
           r.ch \in TempChannel => r.ch[2] <= s.temps[r.ch[1]],
           Room([s.notes EXCEPT ![n] = r], Used(s), n, r.ch)
    PROVE  LET t == Inserted(s, n, r) IN
           /\ Sound(t) /\ Used(t) = Used(s) \cup {n} /\ t.revs = s.revs /\ t.tip = s.tip
           /\ t.notes = [s.notes EXCEPT ![n] = r] /\ t.wheel = s.wheel /\ t.temps = s.temps
  <1> DEFINE M == [s.notes EXCEPT ![n] = r]
             ch == r.ch
             Y == Used(s)
             a == [s EXCEPT !.notes[n] = r]
             f == Filed(a, ch, n)
             t == Inserted(s, n, r)
  <1>1. /\ Core(s, Y) /\ IsSong(s) /\ DOMAIN s.notes = Note /\ NULL \notin Notes
        /\ ch \in Channel /\ r.track \in Track
    BY SongAssumption DEF Sound, Core, Known, Notes
  <1>2. t = Counted(f, r.track, ch, 1)
    BY DEF Inserted
  <1>3. /\ IsSong(a) /\ a.notes = M /\ a.chan = s.chan /\ a.usage = s.usage
        /\ a.temps = s.temps /\ a.revs = s.revs /\ a.tip = s.tip /\ a.wheel = s.wheel
    BY <1>1 DEF IsSong
  <1>4. DOMAIN M = Note /\ M[n] = r /\ \A m \in Note : m # n => M[m] = s.notes[m]
    BY <1>1
  <1>5. Room(M, Y, n, ch)
    OBVIOUS
  <1> HIDE DEF a, t, M, ch
  <1>6. DOMAIN a.chan[ch] = 1 .. Len(a.chan[ch])
    BY <1>1, <1>3, CoreTree
  <1>7. /\ IsSong(f) /\ f.notes = a.notes /\ f.usage = a.usage /\ f.temps = a.temps
        /\ f.revs = a.revs /\ f.tip = a.tip /\ f.wheel = a.wheel
        /\ f.chan = [a.chan EXCEPT ![ch] =
              InsertAt(a.chan[ch], Cardinality(NotAfter(a.notes, a.chan[ch], n)) + 1, n)]
    BY <1>3, <1>6, FiledFields
  <1> HIDE DEF f
  <1>8. /\ IsSong(t) /\ t.notes = f.notes /\ t.chan = f.chan /\ t.temps = f.temps
        /\ t.revs = f.revs /\ t.tip = f.tip /\ t.usage = Tallied(f.usage, r.track, ch, 1)
        /\ t.wheel = f.wheel
    BY <1>2, <1>7, CountedFields
  <1>9. n \notin Y /\ Used(t) = Y \cup {n}
    BY <1>1, <1>3, <1>4, <1>7, <1>8 DEF Used
  <1>10. AgreeOn(s.notes, t.notes, Y)
    BY <1>3, <1>4, <1>7, <1>8 DEF AgreeOn, Used
  <1> HIDE DEF Y
  <1>11. Core(t, Y \cup {n})
    <2>1. /\ t.notes[n] = r /\ DOMAIN t.notes = Note /\ Room(t.notes, Y, n, ch)
      BY <1>3, <1>4, <1>5, <1>7, <1>8
    <2>2. t.notes[n] \in Notes /\ t.notes[n].on < t.notes[n].off /\ t.notes[n].ch = ch
      BY <2>1 DEF ch
    <2>3. t.chan = [s.chan EXCEPT ![ch] =
              InsertAt(s.chan[ch], Cardinality(NotAfter(t.notes, s.chan[ch], n)) + 1, n)]
      BY <1>3, <1>7, <1>8
    <2>4. t.usage = Tallied(s.usage, t.notes[n].track, ch, 1) /\ t.temps = s.temps
      BY <1>3, <1>7, <1>8, <2>1
    <2>5. ch \in TempChannel => ch[2] <= s.temps[ch[1]]
      BY DEF ch
    <2> QED
      BY <1>1, <1>8, <1>9, <1>10, <2>1, <2>2, <2>3, <2>4, <2>5, Settled
  <1> QED
    BY <1>3, <1>7, <1>8, <1>9, <1>11 DEF Sound, M, Y, t

(* track_insert                                                            *)
LEMMA TrackInsertedIs ==
    ASSUME NEW s, Sound(s), NEW n \in Note, n \notin Used(s), NEW tr \in Track,
           NEW beg \in Nat, NEW end \in Nat, beg < end, NEW p \in Pitch
    PROVE  LET t == TrackInserted(s, n, tr, beg, end, p) IN
           /\ Sound(t) /\ Used(t) = Used(s) \cup {n} /\ t.revs = s.revs /\ t.tip = s.tip
           /\ t.notes[n].track = tr /\ t.notes[n].on = beg /\ t.notes[n].off = end
           /\ \A m \in Used(s) : t.notes[m].track = s.notes[m].track
  <1> DEFINE k == FreeTemp(s, tr, beg, end, {})
             r == [track |-> tr, on |-> beg, off |-> end, pitch |-> p, ch |-> <<tr, k>>,
                   since |-> Len(s.revs)]
             w == WithTemp(s, tr, k)
             i == Inserted(w, n, r)
             t == TrackInserted(s, n, tr, beg, end, p)
  <1>1. t = PitchReset(i, n, p)
    BY DEF TrackInserted
  <1>2. /\ k \in 1 .. Cardinality(Note)
        /\ \A m \in Used(s) \ {n} :
              ~(s.notes[m].ch = <<tr, k>> /\ beg < s.notes[m].off /\ s.notes[m].on < end)
    BY FreeTempIs
  <1>3. Len(s.revs) \in Nat /\ DOMAIN s.notes = Note
    BY Revisions DEF Sound, Core, Known
  <1> HIDE DEF k, t
  <1>4. /\ Sound(w) /\ w.notes = s.notes /\ w.revs = s.revs /\ w.tip = s.tip
        /\ Used(w) = Used(s)
        /\ k <= w.temps[tr]
    BY <1>2, WithTempIs
  <1> HIDE DEF w
  <1>5. <<tr, k>> \in Channel
    BY <1>2, ChannelKinds
  <1>6. /\ r \in Notes /\ r.on = beg /\ r.off = end /\ r.track = tr /\ r.ch = <<tr, k>>
        /\ r.on < r.off
    BY <1>3, <1>5 DEF Notes, Time
  <1> HIDE DEF r
  <1>7. Room([w.notes EXCEPT ![n] = r], Used(w), n, r.ch)
    <2> DEFINE M == [w.notes EXCEPT ![n] = r]
    <2>1. M[n] = r /\ \A m \in Note : m # n => M[m] = s.notes[m]
      BY <1>3, <1>4
    <2> HIDE DEF M
    <2>2. \A m \in Used(w) \ {n} : ~(M[m].ch = r.ch /\ Clash(M, m, n))
      BY <1>2, <1>4, <1>6, <2>1 DEF Clash, Used
    <2>3. Room(M, Used(w), n, r.ch)
      BY <2>2 DEF Room
    <2> QED
      BY <2>3 DEF M
  <1>8. r.ch \in TempChannel => r.ch[2] <= w.temps[r.ch[1]]
    BY <1>4, <1>6
  <1>9. /\ Sound(i) /\ Used(i) = Used(s) \cup {n} /\ i.revs = s.revs /\ i.tip = s.tip
        /\ i.notes = [s.notes EXCEPT ![n] = r]
    BY <1>4, <1>6, <1>7, <1>8, InsertedIs
  <1> HIDE DEF i
  <1>10. n \in Used(i) /\ i.notes[n] = r
    BY <1>3, <1>9
  <1>11. Sound(t) /\ Kept(i, t)
    BY <1>1, <1>9, <1>10, PitchResetIs
  <1>12. \A m \in Used(s) : m \in Used(i) /\ i.notes[m] = s.notes[m]
    BY <1>3, <1>9 DEF Used
  <1> QED
    BY <1>6, <1>9, <1>10, <1>11, <1>12 DEF Kept, t

(* copy_note                                                               *)
LEMMA CopiedIs ==
    ASSUME NEW s, Sound(s), NEW n \in Used(s), NEW d \in Note, d \notin Used(s),
           NEW tr \in Track, NEW dt, NEW p \in Pitch,
           s.notes[n].on + dt \in Nat, s.notes[n].off + dt \in Nat,
           s.notes[n].on + dt < s.notes[n].off + dt
    PROVE  LET t == Copied(s, n, d, tr, dt, p) IN
           /\ Sound(t) /\ Used(t) = Used(s) \cup {d} /\ t.revs = s.revs /\ t.tip = s.tip
           /\ t.notes[d].track = tr
           /\ \A m \in Used(s) : t.notes[m].track = s.notes[m].track
  <1> DEFINE r == s.notes[n]
             beg == r.on + dt
             end == r.off + dt
             q == r.pitch
             i == TrackInserted(s, d, tr, beg, end, q)
             w == [i EXCEPT !.wheel =
                     Maps!Copy(@, r.ch, r.on, r.off, i.notes[d].ch, r.on + dt)]
             t == Copied(s, n, d, tr, dt, p)
  <1>1. t = PitchSet(w, d, p)
    BY DEF Copied
  <1>2. r.pitch \in Pitch
    BY KnownIs DEF Sound, Core
  <1>3. /\ Sound(i) /\ Used(i) = Used(s) \cup {d} /\ i.revs = s.revs /\ i.tip = s.tip
        /\ i.notes[d].track = tr
        /\ \A m \in Used(s) : i.notes[m].track = s.notes[m].track
    <2>1. beg \in Nat /\ end \in Nat /\ beg < end /\ q \in Pitch
      BY <1>2
    <2> HIDE DEF r, beg, end, q, w, t
    <2>2. /\ Sound(i) /\ Used(i) = Used(s) \cup {d} /\ i.revs = s.revs /\ i.tip = s.tip
          /\ i.notes[d].track = tr
      BY <2>1, TrackInsertedIs
    <2>3. \A m \in Used(s) : i.notes[m].track = s.notes[m].track
      BY <2>1, TrackInsertedIs
    <2> QED
      BY <2>2, <2>3
  <1> HIDE DEF i, t
  <1>4. \E x : w = [i EXCEPT !.wheel = x]
    OBVIOUS
  <1> HIDE DEF w
  <1>5. /\ IsSong(w) /\ w.notes = i.notes /\ w.chan = i.chan /\ w.temps = i.temps
        /\ w.revs = i.revs /\ w.tip = i.tip /\ w.usage = i.usage
    BY <1>3, <1>4 DEF Sound, Core, IsSong
  <1>6. Used(w) = Used(i) /\ Sound(w)
    BY <1>3, <1>5 DEF Sound, Core, Used
  <1>7. Sound(t) /\ Kept(w, t)
    BY <1>1, <1>3, <1>6, PitchSetIs
  <1> QED
    BY <1>3, <1>5, <1>6, <1>7 DEF Kept, t

(* erase_note                                                              *)
LEMMA ErasedIs ==
    ASSUME NEW s, Sound(s), NEW n \in Used(s)
    PROVE  LET t == Erased(s, n) IN
           /\ Sound(t) /\ Used(t) = Used(s) \ {n} /\ t.revs = s.revs /\ t.tip = s.tip
           /\ t.wheel = s.wheel
           /\ \A m \in Used(t) : t.notes[m] = s.notes[m]
  <1> DEFINE d == Detached(s, n)
             t == Erased(s, n)
             X == Used(s)
  <1>1. /\ Core(d, X \ {n}) /\ d.notes = s.notes /\ d.temps = s.temps /\ d.revs = s.revs
        /\ d.tip = s.tip
        /\ d.wheel = s.wheel
    BY DetachedIs DEF Sound
  <1>2. t = [d EXCEPT !.notes[n] = NULL]
    BY DEF Erased
  <1> HIDE DEF d, t
  <1>3. DOMAIN d.notes = Note /\ n \in Note
    BY <1>1 DEF Core, Known, Used
  <1>4. /\ IsSong(t) /\ t.notes = [d.notes EXCEPT ![n] = NULL] /\ t.chan = d.chan
        /\ t.temps = d.temps /\ t.usage = d.usage /\ t.revs = d.revs /\ t.tip = d.tip
        /\ t.wheel = d.wheel
    BY <1>1, <1>2 DEF Core, IsSong
  <1>5. /\ t.notes[n] = NULL /\ DOMAIN t.notes = Note
        /\ \A m \in Note : m # n => t.notes[m] = d.notes[m]
    BY <1>3, <1>4
  <1>6. Used(t) = X \ {n}
    BY <1>1, <1>5 DEF Used
  <1>7. AgreeOn(d.notes, t.notes, X \ {n})
    BY <1>5 DEF AgreeOn, Used
  <1> DEFINE Y == X \ {n}
  <1> HIDE DEF Y
  <1>8. Known(t.notes, Y) /\ Temps(t.notes, t.temps, Y)
    BY <1>1, <1>4, <1>5, <1>7 DEF Core, Known, Temps, AgreeOn, Y
  <1>9. Trees(t.notes, t.chan, Y) /\ Counts(t.notes, t.usage, Y) /\ Apart(t.notes, Y)
    BY <1>1, <1>4, <1>7, AgreeingTrees, AgreeingCounts, AgreeingApart DEF Core, Y
  <1>10. Core(t, Y)
    BY <1>4, <1>8, <1>9 DEF Core
  <1>11. \A m \in X \ {n} : t.notes[m] = s.notes[m]
    BY <1>1, <1>5 DEF Used
  <1> QED
    BY <1>1, <1>4, <1>6, <1>10, <1>11 DEF Sound, Y, t
----------------------------------------------------------------------------
(* The wheels are maps of module ControlMap, whose default value is 0.     *)
MapFacts == INSTANCE ControlMapProofs
                WITH maps <- song.wheel, Map <- Channel, Time <- Nat, Value <- Int,
                     MaxChanges <- 0

LEMMA WheelsAreMaps ==
    /\ Nat \subseteq Nat /\ 0 \in Nat /\ \A s, t \in Nat : s .. t \subseteq Nat
    /\ 0 \in Nat /\ Nat \subseteq Int /\ Int \subseteq Int /\ Default \in [Channel -> Int]
    /\ \A ch \in Channel : Default[ch] = 0
  BY DEF Default

LEMMA SameGet ==
    ASSUME NEW c, NEW d, NEW t
    PROVE  Maps!Get(c, d, t) = MapFacts!Get(c, d, t)
  BY DEF Maps!Get, MapFacts!Get, Maps!Max, MapFacts!Max

LEMMA SameSet ==
    ASSUME NEW c, NEW d, NEW t, NEW v
    PROVE  Maps!Set(c, d, t, v) = MapFacts!Set(c, d, t, v)
  BY SameGet DEF Maps!Set, MapFacts!Set, Maps!Keeping, MapFacts!Keeping, Maps!Inserted,
                 MapFacts!Inserted

LEMMA SameEmptied ==
    ASSUME NEW c, NEW beg, NEW end
    PROVE  Maps!Emptied(c, beg, end) = MapFacts!Emptied(c, beg, end)
  BY DEF Maps!Emptied, MapFacts!Emptied, Maps!Keeping, MapFacts!Keeping, Maps!Inside,
         MapFacts!Inside

LEMMA SameSetRange ==
    ASSUME NEW c, NEW d, NEW beg, NEW end, NEW v
    PROVE  Maps!SetRange(c, d, beg, end, v) = MapFacts!SetRange(c, d, beg, end, v)
  BY SameGet, SameSet, SameEmptied DEF Maps!SetRange, MapFacts!SetRange

LEMMA SameCopy ==
    ASSUME NEW ms, NEW a, NEW beg1, NEW end1, NEW b, NEW beg2
    PROVE  Maps!Copy(ms, a, beg1, end1, b, beg2) = MapFacts!Copy(ms, a, beg1, end1, b, beg2)
  <1>1. \A end2 : Maps!CopyEmptied(ms, b, beg2, end2) = MapFacts!CopyEmptied(ms, b, beg2, end2)
    BY SameEmptied DEF Maps!CopyEmptied, MapFacts!CopyEmptied
  <1>2. \A end2 : Maps!CopyBegun(ms, a, beg1, b, beg2, end2)
                     = MapFacts!CopyBegun(ms, a, beg1, b, beg2, end2)
    BY <1>1, SameGet, SameSet DEF Maps!CopyBegun, MapFacts!CopyBegun
  <1>3. \A end2 : Maps!CopyEnded(ms, a, beg1, b, beg2, end2)
                     = MapFacts!CopyEnded(ms, a, beg1, b, beg2, end2)
    BY <1>2, SameGet, SameSet DEF Maps!CopyEnded, MapFacts!CopyEnded
  <1>4. \A dest, src, beg, end, shift : Maps!WithCopied(dest, src, beg, end, shift)
                                           = MapFacts!WithCopied(dest, src, beg, end, shift)
    BY DEF Maps!WithCopied, MapFacts!WithCopied, Maps!Inside, MapFacts!Inside
  <1>5. Maps!TargetEnd(beg1, end1, beg2) = MapFacts!TargetEnd(beg1, end1, beg2)
    BY DEF Maps!TargetEnd, MapFacts!TargetEnd
  <1> QED
    BY <1>3, <1>4, <1>5 DEF Maps!Copy, MapFacts!Copy

LEMMA SameAdd ==
    ASSUME NEW c, NEW d, NEW beg, NEW end, NEW dvalue
    PROVE  Maps!Add(c, d, beg, end, dvalue) = MapFacts!Add(c, d, beg, end, dvalue)
  BY DEF Maps!Add, MapFacts!Add, Maps!AddedTo, MapFacts!AddedTo, Maps!AddedAt,
         MapFacts!AddedAt, Maps!Inside, MapFacts!Inside, Maps!Set, MapFacts!Set, Maps!Get,
         MapFacts!Get, Maps!Keeping, MapFacts!Keeping, Maps!Inserted, MapFacts!Inserted,
         Maps!MapThenFoldSet, MapFacts!MapThenFoldSet, Maps!Max, MapFacts!Max

IsWheel(c) == DOMAIN c \subseteq Nat /\ \A t \in DOMAIN c : c[t] \in Int

Wheels(W) == DOMAIN W = Channel /\ \A ch \in Channel : IsWheel(W[ch])

LEMMA WheelValues ==
    ASSUME NEW c, DOMAIN c \subseteq Nat, NEW t \in Nat
    PROVE  /\ IsWheel(c) => MapFacts!Get(c, 0, t) \in Int
           /\ t \in DOMAIN c => MapFacts!Get(c, 0, t) = c[t]
  <1>1. ASSUME NEW s \in DOMAIN c, MapFacts!HoldsAt(c, t, s)
        PROVE  MapFacts!Get(c, 0, t) = c[s]
    BY <1>1, WheelsAreMaps, MapFacts!GetHolds
  <1>2. CASE \E s \in DOMAIN c : s <= t
    <2>1. PICK s0 \in DOMAIN c : s0 <= t
      BY <1>2
    <2>2. PICK s \in DOMAIN c : MapFacts!HoldsAt(c, t, s) /\ s0 <= s
      BY <2>1, WheelsAreMaps, MapFacts!SomeHolds
    <2>3. t \in DOMAIN c => MapFacts!HoldsAt(c, t, t)
      BY DEF MapFacts!HoldsAt
    <2> QED
      BY <1>1, <2>2, <2>3 DEF IsWheel
  <1>3. CASE ~\E s \in DOMAIN c : s <= t
    <2>1. MapFacts!Get(c, 0, t) = 0
      BY <1>3, WheelsAreMaps, MapFacts!GetNone
    <2>2. t \notin DOMAIN c
      BY <1>3
    <2> QED
      BY <2>1, <2>2
  <1> QED
    BY <1>2, <1>3

(* No change of its channel's wheel is inside of note r.                   *)
Level(W, r) == \A t \in DOMAIN W[r.ch] : ~(r.on < t /\ t < r.off)

Tone(W, r) == Maps!Get(W[r.ch], 0, r.on)

Timed(r) == r.ch \in Channel /\ r.on \in Nat /\ r.off \in Nat /\ r.on < r.off

LEMMA ToneIs ==
    ASSUME NEW W, Wheels(W), NEW r, Timed(r)
    PROVE  Tone(W, r) \in Int
  <1> DEFINE c == W[r.ch]
             on == r.on
  <1>1. IsWheel(c) /\ DOMAIN c \subseteq Nat /\ on \in Nat
    BY DEF Wheels, Timed, IsWheel
  <1> HIDE DEF c, on
  <1>2. MapFacts!Get(c, 0, on) \in Int
    BY <1>1, WheelValues
  <1> QED
    BY <1>2, SameGet DEF Tone, c, on

LEMMA ToneHolds ==
    ASSUME NEW W, Wheels(W), NEW r, Timed(r), Level(W, r), NEW t \in Nat, r.on <= t, t < r.off
    PROVE  Maps!Get(W[r.ch], 0, t) = Tone(W, r)
  <1> DEFINE c == W[r.ch]
             on == r.on
             off == r.off
  <1>1. /\ DOMAIN c \subseteq Nat /\ on \in Nat /\ off \in Nat /\ MapFacts!Level(c, on, off)
        /\ on <= t /\ t < off
    BY DEF Wheels, IsWheel, Timed, Level, MapFacts!Level
  <1> HIDE DEF c, on, off
  <1>2. MapFacts!Get(c, 0, t) = MapFacts!Get(c, 0, on)
    BY <1>1, WheelsAreMaps, MapFacts!LevelStays
  <1> QED
    BY <1>2, SameGet DEF Tone, c, on, off

(* The wheel of channel ch set to v in a range: a note keeps its tone if   *)
(* it is on another channel, or elsewhere, or has that tone.               *)
WheelSet(W, ch, beg, end, v) == [W EXCEPT ![ch] = Maps!SetRange(W[ch], 0, beg, end, v)]

LEMMA WheelSetIs ==
    ASSUME NEW W, Wheels(W), NEW ch \in Channel, NEW beg \in Nat, NEW end \in Nat, beg < end,
           NEW v \in Int
    PROVE  Wheels(WheelSet(W, ch, beg, end, v))
  <1> DEFINE c == W[ch]
             e == MapFacts!SetRange(c, 0, beg, end, v)
  <1>1. IsWheel(c) /\ DOMAIN c \subseteq Nat /\ DOMAIN W = Channel
    BY DEF Wheels, IsWheel
  <1> HIDE DEF c
  <1>2. DOMAIN e \subseteq Nat
    BY <1>1, WheelsAreMaps, MapFacts!SetRangeChanges
  <1>3. IsWheel(Maps!SetRange(c, 0, beg, end, v))
    <2>1. ASSUME NEW t \in DOMAIN e PROVE e[t] \in Int
      <3>1. t \in Nat
        BY <1>2
      <3>2. MapFacts!Get(e, 0, t) = IF t \in beg .. (end - 1) THEN v ELSE MapFacts!Get(c, 0, t)
        BY <1>1, <3>1, WheelsAreMaps, MapFacts!SetRangeIs
      <3>3. MapFacts!Get(c, 0, t) \in Int
        BY <1>1, <3>1, WheelValues
      <3> HIDE DEF e
      <3>4. MapFacts!Get(e, 0, t) = e[t]
        BY <1>2, <3>1, WheelValues
      <3> QED
        BY <3>2, <3>3, <3>4
    <2>2. IsWheel(e)
      BY <1>2, <2>1 DEF IsWheel
    <2> QED
      BY <2>2, SameSetRange
  <1> QED
    BY <1>1, <1>3 DEF WheelSet, Wheels, c

LEMMA ToneKept ==
    ASSUME NEW W, Wheels(W), NEW ch \in Channel, NEW beg \in Nat, NEW end \in Nat, beg < end,
           NEW v, NEW r, Timed(r), Level(W, r),
           r.ch = ch /\ r.on < end /\ beg < r.off => Tone(W, r) = v
    PROVE  /\ Level(WheelSet(W, ch, beg, end, v), r)
           /\ Tone(WheelSet(W, ch, beg, end, v), r) = Tone(W, r)
  <1> DEFINE V == WheelSet(W, ch, beg, end, v)
  <1>1. CASE r.ch # ch
    <2>1. V[r.ch] = W[r.ch]
      BY <1>1 DEF WheelSet, Wheels, Timed
    <2> QED
      BY <2>1 DEF Level, Tone
  <1>2. CASE r.ch = ch
    <2> DEFINE c == W[ch]
               e == MapFacts!SetRange(c, 0, beg, end, v)
               on == r.on
               off == r.off
    <2>1. V[r.ch] = e
      BY <1>2, SameSetRange DEF WheelSet, Wheels
    <2>2. /\ DOMAIN c \subseteq Nat /\ on \in Nat /\ off \in Nat /\ on < off
          /\ MapFacts!Level(c, on, off)
      BY <1>2 DEF Wheels, IsWheel, Timed, Level, MapFacts!Level
    <2>3. on < end /\ beg < off => MapFacts!Get(c, 0, on) = v
      BY <1>2, SameGet DEF Tone
    <2> HIDE DEF c, on, off
    <2>4. MapFacts!Level(e, on, off)
      BY <2>2, <2>3, WheelsAreMaps, MapFacts!SetRangeLevel
    <2>5. MapFacts!Get(e, 0, on)
             = IF on \in beg .. (end - 1) THEN v ELSE MapFacts!Get(c, 0, on)
      BY <2>2, WheelsAreMaps, MapFacts!SetRangeIs
    <2> HIDE DEF e, V
    <2>6. MapFacts!Get(e, 0, on) = MapFacts!Get(c, 0, on)
      BY <2>2, <2>3, <2>5
    <2>7. Tone(V, r) = Tone(W, r)
      BY <1>2, <2>1, <2>6, SameGet DEF Tone, c, on
    <2>8. Level(V, r)
      BY <2>1, <2>4 DEF Level, MapFacts!Level, on, off
    <2> QED
      BY <2>7, <2>8 DEF V
  <1> QED
    BY <1>1, <1>2

LEMMA ToneGiven ==
    ASSUME NEW W, Wheels(W), NEW v, NEW r, Timed(r)
    PROVE  LET V == WheelSet(W, r.ch, r.on, r.off, v) IN Level(V, r) /\ Tone(V, r) = v
  <1> DEFINE V == WheelSet(W, r.ch, r.on, r.off, v)
             c == W[r.ch]
             on == r.on
             off == r.off
             e == MapFacts!SetRange(c, 0, on, off, v)
  <1>1. V[r.ch] = e
    BY SameSetRange DEF WheelSet, Wheels, Timed
  <1>2. DOMAIN c \subseteq Nat /\ on \in Nat /\ off \in Nat /\ on < off
    BY DEF Wheels, IsWheel, Timed
  <1> HIDE DEF c, on, off, V
  <1>3. MapFacts!Get(e, 0, on) = IF on \in on .. (off - 1) THEN v ELSE MapFacts!Get(c, 0, on)
    BY <1>2, WheelsAreMaps, MapFacts!SetRangeIs
  <1>4. MapFacts!Get(e, 0, on) = v
    BY <1>2, <1>3
  <1>5. \A t \in DOMAIN e : t = on \/ t = off \/ (t \in DOMAIN c /\ ~(on < t /\ t < off))
    BY <1>2, WheelsAreMaps, MapFacts!SetRangeChanges
  <1> HIDE DEF e
  <1>6. Tone(V, r) = v
    BY <1>1, <1>4, SameGet DEF Tone, on
  <1>7. Level(V, r)
    BY <1>1, <1>2, <1>5 DEF Level, on, off
  <1> QED
    BY <1>6, <1>7 DEF V

(* map_copy of a level note's wheel sets the range to the note's tone.     *)
LEMMA LevelCopy ==
    ASSUME NEW W, Wheels(W), NEW r, Timed(r), Level(W, r), NEW ch \in Channel, NEW beg \in Nat,
           NEW end \in Nat, end = beg + (r.off - r.on),
           ch = r.ch => /\ \A t \in DOMAIN W[ch] : ~(beg < t /\ t < end)
                        /\ ~(r.on < beg /\ beg < r.off) /\ ~(r.on < end /\ end < r.off)
    PROVE  Maps!Copy(W, r.ch, r.on, r.off, ch, beg) = WheelSet(W, ch, beg, end, Tone(W, r))
  <1> DEFINE a == r.ch
             on == r.on
             off == r.off
  <1>1. /\ a \in Channel /\ on \in Nat /\ off \in Nat /\ on < off
        /\ DOMAIN W[a] \subseteq Nat /\ DOMAIN W[ch] \subseteq Nat /\ DOMAIN W = Channel
        /\ MapFacts!Level(W[a], on, off) /\ end = MapFacts!TargetEnd(on, off, beg)
        /\ a = ch => /\ MapFacts!Level(W[ch], beg, end)
                     /\ ~(on < beg /\ beg < off) /\ ~(on < end /\ end < off)
    BY DEF Wheels, IsWheel, Timed, Level, MapFacts!Level, MapFacts!TargetEnd
  <1> HIDE DEF a, on, off
  <1>2. MapFacts!Copy(W, a, on, off, ch, beg)
           = [W EXCEPT ![ch] = MapFacts!SetRange(W[ch], Default[ch], beg, end,
                                                 MapFacts!Get(W[a], Default[a], on))]
    BY <1>1, WheelsAreMaps, MapFacts!LevelCopyIs
  <1>3. Default[ch] = 0 /\ Default[a] = 0
    BY <1>1, WheelsAreMaps
  <1>4. Tone(W, r) = MapFacts!Get(W[a], 0, on)
    BY SameGet DEF Tone, a, on
  <1>5. Maps!Copy(W, a, on, off, ch, beg)
           = [W EXCEPT ![ch] = Maps!SetRange(W[ch], 0, beg, end, Tone(W, r))]
    BY <1>2, <1>3, <1>4, SameCopy, SameSetRange
  <1> QED
    BY <1>5 DEF WheelSet, a, on, off

(* map_add on a note's range: the changes there are after it, if any.      *)
WheelAdded(W, ch, beg, end, dvalue) == [W EXCEPT ![ch] = Maps!Add(W[ch], 0, beg, end, dvalue)]

LEMMA WheelAddedIs ==
    ASSUME NEW W, Wheels(W), NEW r, Timed(r), Level(W, r), NEW dvalue \in Int
    PROVE  LET V == WheelAdded(W, r.ch, r.on, r.off, dvalue) IN
           /\ Wheels(V)
           /\ \A q : Timed(q) /\ Level(W, q) /\ (q.ch = r.ch => ~(q.on < r.on /\ r.on < q.off)) =>
                 /\ Level(V, q)
                 /\ q.ch # r.ch \/ q.on < r.on => Tone(V, q) = Tone(W, q)
  <1> DEFINE V == WheelAdded(W, r.ch, r.on, r.off, dvalue)
             ch == r.ch
             on == r.on
             off == r.off
             c == W[ch]
             e == MapFacts!Add(c, 0, on, off, dvalue)
  <1>1. /\ DOMAIN V = Channel /\ V[ch] = e /\ \A x \in Channel : x # ch => V[x] = W[x]
    BY SameAdd DEF WheelAdded, Wheels, Timed
  <1>2. /\ ch \in Channel /\ on \in Nat /\ off \in Nat /\ on < off /\ DOMAIN c \subseteq Nat
        /\ \A x \in Channel : IsWheel(W[x])
        /\ IsWheel(c)
    BY DEF Wheels, IsWheel, Timed
  <1> HIDE DEF V, c, on, off
  <1>3. DOMAIN e \subseteq DOMAIN c \cup {on}
    BY <1>2, WheelsAreMaps, MapFacts!AddIs
  <1>4. \A t \in Nat : t < on => MapFacts!Get(e, 0, t) = MapFacts!Get(c, 0, t)
    <2> SUFFICES ASSUME NEW t \in Nat, t < on
                 PROVE  MapFacts!Get(e, 0, t) = MapFacts!Get(c, 0, t)
      OBVIOUS
    <2>1. /\ t >= on /\ MapFacts!ReachOfAdd(c, off, t) =>
                MapFacts!Get(e, 0, t) = MapFacts!Get(c, 0, t) + dvalue
          /\ ~(t >= on /\ MapFacts!ReachOfAdd(c, off, t)) =>
                MapFacts!Get(e, 0, t) = MapFacts!Get(c, 0, t)
          /\ DOMAIN e \subseteq DOMAIN c \cup {on}
      BY <1>2, WheelsAreMaps, MapFacts!AddIs
    <2>2. ~(t >= on)
      BY <1>2
    <2> QED
      BY <2>1, <2>2
  <1>5. Wheels(V)
    <2>1. ASSUME NEW t \in DOMAIN e PROVE e[t] \in Int
      <3>1. t \in Nat /\ DOMAIN e \subseteq Nat
        BY <1>2, <1>3
      <3>2. \/ MapFacts!Get(e, 0, t) = MapFacts!Get(c, 0, t) + dvalue
            \/ MapFacts!Get(e, 0, t) = MapFacts!Get(c, 0, t)
        BY <1>2, <3>1, WheelsAreMaps, MapFacts!AddIs
      <3>3. MapFacts!Get(c, 0, t) \in Int
        BY <1>2, <3>1, WheelValues
      <3> HIDE DEF e
      <3>4. MapFacts!Get(e, 0, t) = e[t]
        BY <3>1, WheelValues
      <3> QED
        BY <3>2, <3>3, <3>4
    <2>2. IsWheel(e)
      BY <1>2, <1>3, <2>1 DEF IsWheel
    <2> HIDE DEF e, ch
    <2> QED
      BY <1>1, <1>2, <2>2 DEF Wheels
  <1> HIDE DEF e, ch
  <1>6. ASSUME NEW q, Timed(q), Level(W, q), q.ch = ch => ~(q.on < on /\ on < q.off)
        PROVE  Level(V, q) /\ (q.ch # ch \/ q.on < on => Tone(V, q) = Tone(W, q))
    <2>1. CASE q.ch # ch
      BY <1>1, <1>6, <2>1 DEF Level, Tone, Timed
    <2>2. CASE q.ch = ch
      <3>1. Level(V, q)
        BY <1>1, <1>3, <1>6, <2>2 DEF Level, c
      <3>2. q.on < on => Tone(V, q) = Tone(W, q)
        BY <1>1, <1>4, <1>6, <2>2, SameGet DEF Tone, c, Timed
      <3> QED
        BY <2>2, <3>1, <3>2
    <2> QED
      BY <2>1, <2>2
  <1> QED
    BY <1>5, <1>6 DEF V, ch, on, off

-----------------------------------------------------------------------------
(* A steady song: no wheel changes inside a note, and a temporary channel  *)
(* has notes of its track only.                                            *)
Steady(s) ==
    /\ Wheels(s.wheel)
    /\ \A n \in Used(s) :
          /\ Level(s.wheel, s.notes[n])
          /\ s.notes[n].ch \in TempChannel => s.notes[n].ch[1] = s.notes[n].track

Same(s, t, n) ==
    /\ t.notes[n].on = s.notes[n].on /\ t.notes[n].off = s.notes[n].off
    /\ Midi[t.notes[n].pitch] = Midi[s.notes[n].pitch]
    /\ Tone(t.wheel, t.notes[n]) = Tone(s.wheel, s.notes[n])

LEMMA NotesAreTimed ==
    ASSUME NEW s, Sound(s), NEW n \in Used(s)
    PROVE  Timed(s.notes[n])
  BY KnownIs DEF Sound, Core, Timed

LEMMA SameHeard ==
    ASSUME NEW s, Sound(s), Steady(s), NEW t, Sound(t), Steady(t), NEW n \in Used(s),
           n \in Used(t), Same(s, t, n)
    PROVE  Heard(t, n) = Heard(s, n)
  <1> DEFINE r == s.notes[n]
             q == t.notes[n]
  <1>1. /\ Timed(r) /\ Timed(q) /\ Level(s.wheel, r) /\ Level(t.wheel, q)
        /\ Wheels(s.wheel) /\ Wheels(t.wheel)
    BY NotesAreTimed DEF Steady
  <1>2. /\ q.on = r.on /\ q.off = r.off /\ Midi[q.pitch] = Midi[r.pitch]
        /\ Tone(t.wheel, q) = Tone(s.wheel, r)
    BY DEF Same
  <1>3. Heard(s, n) = <<Midi[r.pitch], [i \in r.on .. (r.off - 1) |-> Maps!Get(s.wheel[r.ch], 0, i)]>>
    BY DEF Heard
  <1>4. Heard(t, n) = <<Midi[q.pitch], [i \in q.on .. (q.off - 1) |-> Maps!Get(t.wheel[q.ch], 0, i)]>>
    BY DEF Heard
  <1> HIDE DEF r, q
  <1>5. \A i \in r.on .. (r.off - 1) :
            Maps!Get(t.wheel[q.ch], 0, i) = Maps!Get(s.wheel[r.ch], 0, i)
    <2> SUFFICES ASSUME NEW i \in r.on .. (r.off - 1)
                 PROVE  Maps!Get(t.wheel[q.ch], 0, i) = Maps!Get(s.wheel[r.ch], 0, i)
      OBVIOUS
    <2>1. i \in Nat /\ r.on <= i /\ i < r.off
      BY <1>1 DEF Timed
    <2>2. Maps!Get(s.wheel[r.ch], 0, i) = Tone(s.wheel, r)
      BY <1>1, <2>1, ToneHolds
    <2>3. Maps!Get(t.wheel[q.ch], 0, i) = Tone(t.wheel, q)
      BY <1>1, <1>2, <2>1, ToneHolds
    <2> QED
      BY <1>2, <2>2, <2>3
  <1> QED
    BY <1>2, <1>3, <1>4, <1>5

LEMMA SameOn ==
    ASSUME NEW s, NEW t, NEW u, NEW n, Same(s, t, n), Same(t, u, n)
    PROVE  Same(s, u, n)
  BY DEF Same

(* Songs that differ in what does not concern notes and wheels.            *)
LEMMA SteadyToo ==
    ASSUME NEW s, Steady(s), NEW t, t.notes = s.notes, t.wheel = s.wheel
    PROVE  Steady(t) /\ \A n \in Used(s) : Same(s, t, n)
  <1>1. Used(t) = Used(s)
    BY DEF Used
  <1> QED
    BY <1>1 DEF Steady, Same

(* The notes keep their tones if one of them moves to where the others     *)
(* that sound meanwhile have its tone.                                     *)
Agrees(s, n, ch) ==
    \A m \in Used(s) \ {n} :
        s.notes[m].ch = ch /\ Clash(s.notes, m, n)
            => Tone(s.wheel, s.notes[m]) = Tone(s.wheel, s.notes[n])

OwnChannel(s, n, ch) == ch \in TempChannel => ch[1] = s.notes[n].track

LEMMA SetChannelSteady ==
    ASSUME NEW s, Sound(s), Steady(s), NEW n \in Used(s), NEW ch, RoomIn(s, n, ch),
           OwnChannel(s, n, ch), Agrees(s, n, ch)
    PROVE  LET t == SetChannel(s, n, ch) IN
           Steady(t) /\ \A m \in Used(s) : Same(s, t, m)
  <1> DEFINE r == s.notes[n]
             t == SetChannel(s, n, ch)
             q == t.notes[n]
             v == Tone(s.wheel, r)
  <1>1. /\ Sound(t) /\ Kept(s, t) /\ q.ch = ch
        /\ \A m \in Used(s) : t.notes[m].pitch = s.notes[m].pitch
        /\ \A m \in Used(s) \ {n} : t.notes[m] = s.notes[m]
        /\ t.wheel = IF ch = r.ch THEN s.wheel
                     ELSE Maps!Copy(s.wheel, r.ch, r.on, r.off, ch, r.on)
    BY SetChannelIs
  <1>2. CASE ch = r.ch
    BY <1>2, SteadyToo DEF SetChannel, Same
  <1>3. CASE ch # r.ch
    <2> HIDE DEF t
    <2>1. Timed(r) /\ Timed(q) /\ Level(s.wheel, r) /\ Wheels(s.wheel) /\ ch \in Channel
      BY <1>1, NotesAreTimed DEF Kept, Steady, RoomIn
    <2>2. q.on = r.on /\ q.off = r.off /\ q.track = r.track
      BY <1>1 DEF Kept
    <2>3. t.wheel = WheelSet(s.wheel, ch, r.on, r.off, v)
      <3> DEFINE on == r.on
                 off == r.off
      <3>1. on \in Nat /\ off \in Nat /\ off = on + (r.off - r.on)
        BY <2>1 DEF Timed
      <3> HIDE DEF on, off, r
      <3>2. Maps!Copy(s.wheel, r.ch, r.on, r.off, ch, on) = WheelSet(s.wheel, ch, on, off, v)
        BY <1>3, <2>1, <3>1, LevelCopy
      <3> QED
        BY <1>1, <1>3, <3>2 DEF on, off
    <2>4. r.on \in Nat /\ r.off \in Nat /\ r.on < r.off
      BY <2>1 DEF Timed
    <2>5. Wheels(t.wheel)
      BY <2>1, <2>3, <2>4, ToneIs, WheelSetIs
    <2>6. Level(t.wheel, q) /\ Tone(t.wheel, q) = v
      BY <1>1, <2>1, <2>2, <2>3, ToneGiven
    <2>7. ASSUME NEW m \in Used(s) \ {n}
          PROVE  /\ Level(t.wheel, t.notes[m])
                 /\ Tone(t.wheel, t.notes[m]) = Tone(s.wheel, s.notes[m])
      <3> DEFINE p == s.notes[m]
      <3>1. Timed(p) /\ Level(s.wheel, p)
        BY NotesAreTimed DEF Steady
      <3>2. p.ch = ch /\ p.on < r.off /\ r.on < p.off => Tone(s.wheel, p) = v
        BY DEF Agrees, Clash
      <3>3. t.notes[m] = p
        BY <1>1
      <3> HIDE DEF p, v, r
      <3> QED
        BY <2>1, <2>3, <2>4, <3>1, <3>2, <3>3, ToneKept DEF p
    <2>8. \A m \in Used(s) : Same(s, t, m)
      BY <1>1, <2>6, <2>7 DEF Same, Kept
    <2>9. \A m \in Used(s) : Level(t.wheel, t.notes[m])
      BY <2>6, <2>7
    <2>10. ASSUME NEW m \in Used(s), t.notes[m].ch \in TempChannel
           PROVE  t.notes[m].ch[1] = t.notes[m].track
      <3>1. CASE m = n
        BY <1>1, <2>2, <2>10, <3>1 DEF OwnChannel
      <3>2. CASE m # n
        BY <1>1, <2>10, <3>2 DEF Steady
      <3> QED
        BY <3>1, <3>2
    <2>11. Used(t) = Used(s)
      BY <1>1 DEF Kept
    <2> QED
      BY <2>5, <2>8, <2>9, <2>10, <2>11 DEF Steady, t
  <1> QED
    BY <1>2, <1>3

(* isolate_note: nothing else sounds where the note goes.                  *)
LEMMA TempAgrees ==
    ASSUME NEW s, NEW n, NEW ch \in TempChannel, RoomIn(s, n, ch)
    PROVE  Agrees(s, n, ch)
  BY ChannelKinds DEF RoomIn, Room, Agrees

LEMMA IsolatedSteady ==
    ASSUME NEW s, Sound(s), Steady(s), NEW n \in Used(s)
    PROVE  LET t == Isolated(s, n) IN
           Steady(t) /\ \A m \in Used(s) : Same(s, t, m)
  <1> DEFINE t == Isolated(s, n)
  <1>1. PICK w, ch : IsolatedBy(s, n, w, ch)
    BY Isolating
  <1>2. /\ t = SetChannel(w, n, ch) /\ Sound(w) /\ w.notes = s.notes /\ w.wheel = s.wheel
        /\ Used(w) = Used(s) /\ ch \in TempChannel /\ RoomIn(w, n, ch)
        /\ ch[1] = s.notes[n].track
    BY <1>1 DEF IsolatedBy
  <1> HIDE DEF t
  <1>3. Steady(w) /\ \A m \in Used(s) : Same(s, w, m)
    BY <1>2, SteadyToo
  <1>4. OwnChannel(w, n, ch) /\ Agrees(w, n, ch)
    BY <1>2, TempAgrees DEF OwnChannel
  <1>5. Steady(t) /\ \A m \in Used(w) : Same(w, t, m)
    BY <1>2, <1>3, <1>4, SetChannelSteady
  <1> QED
    BY <1>2, <1>3, <1>5, SameOn DEF t

(* note_set_pitch: only notes of the channel that come later change.       *)
LaterOn(t, n, m) ==
    t.notes[m].ch = t.notes[n].ch /\ t.notes[n].on <= t.notes[m].on

LEMMA PitchSetSteady ==
    ASSUME NEW s, Sound(s), Steady(s), NEW n \in Used(s), NEW p \in Pitch
    PROVE  LET t == PitchSet(s, n, p) IN
           Steady(t) /\ \A m \in Used(s) : Same(s, t, m) \/ LaterOn(t, n, m)
  <1> DEFINE i == Isolated(s, n)
             t == PitchSet(s, n, p)
             r == t.notes[n]
  <1>1. /\ Sound(t) /\ Kept(s, t) /\ r.ch \in TempChannel
        /\ t.notes = Repitched(i.notes, n, p)
        /\ \E dvalue \in Int : t.wheel = WheelAdded(i.wheel, r.ch, r.on, r.off, dvalue)
    BY PitchSetIs DEF WheelAdded
  <1>2. /\ Sound(i) /\ Kept(s, i) /\ Steady(i) /\ \A m \in Used(s) : Same(s, i, m)
        /\ i.notes[n].ch \in TempChannel
    BY IsolatedIs, IsolatedSteady
  <1> HIDE DEF i, t
  <1>3. PICK dvalue \in Int : t.wheel = WheelAdded(i.wheel, r.ch, r.on, r.off, dvalue)
    BY <1>1
  <1>4. /\ Used(i) = Used(s) /\ Used(t) = Used(s) /\ Known(i.notes, Used(s))
        /\ Apart(i.notes, Used(s))
    BY <1>1, <1>2 DEF Kept, Sound, Core
  <1>5. /\ \A m \in Used(s) \ {n} : t.notes[m] = i.notes[m]
        /\ InPlace(i.notes, t.notes, Used(s))
    <2> DEFINE N == i.notes
               X == Used(s)
    <2>1. Known(N, X) /\ Apart(N, X) /\ N[n].ch \in TempChannel /\ t.notes = Repitched(N, n, p)
      BY <1>1, <1>2, <1>4
    <2> HIDE DEF N, X
    <2>2. n \in X
      BY DEF X
    <2>3. AgreeOn(N, t.notes, X \ {n}) /\ InPlace(N, t.notes, X)
      BY <2>1, <2>2, RepitchedNotes
    <2> QED
      BY <2>3 DEF AgreeOn, N, X
  <1> DEFINE q == i.notes[n]
  <1>6. r.ch = q.ch /\ r.on = q.on /\ r.off = q.off /\ r.track = q.track
    BY <1>5 DEF InPlace
  <1>7. Timed(q) /\ Level(i.wheel, q) /\ Wheels(i.wheel)
    BY <1>2, <1>4, NotesAreTimed DEF Steady
  <1> DEFINE V == WheelAdded(i.wheel, q.ch, q.on, q.off, dvalue)
  <1>8. t.wheel = V
    BY <1>3, <1>6
  <1>9. /\ Wheels(V)
        /\ \A x : Timed(x) /\ Level(i.wheel, x) /\ (x.ch = q.ch => ~(x.on < q.on /\ q.on < x.off)) =>
              /\ Level(V, x)
              /\ x.ch # q.ch \/ x.on < q.on => Tone(V, x) = Tone(i.wheel, x)
    <2> HIDE DEF q
    <2> QED
      BY <1>7, WheelAddedIs
  <1> HIDE DEF V
  <1>10. ASSUME NEW m \in Used(s)
         PROVE  /\ Level(V, i.notes[m])
                /\ i.notes[m].ch # q.ch \/ i.notes[m].on < q.on
                      => Tone(V, i.notes[m]) = Tone(i.wheel, i.notes[m])
    <2> DEFINE x == i.notes[m]
    <2>1. Timed(x) /\ Level(i.wheel, x)
      BY <1>2, <1>4, NotesAreTimed DEF Steady
    <2>2. x.ch = q.ch => ~(x.on < q.on /\ q.on < x.off)
      <3>1. CASE m = n
        BY <1>7, <3>1 DEF Timed
      <3>2. CASE m # n
        <4> SUFFICES ASSUME x.ch = q.ch, x.on < q.on, q.on < x.off PROVE FALSE
          OBVIOUS
        <4>1. x.on < q.off
          BY <1>7, <2>1 DEF Timed
        <4>2. Clash(i.notes, m, n)
          BY <4>1 DEF Clash
        <4>3. q.ch \in FileChannel
          BY <1>4, <3>2, <4>2 DEF Apart, Room
        <4> QED
          BY <1>2, <4>3, ChannelKinds
      <3> QED
        BY <3>1, <3>2
    <2> HIDE DEF x, q
    <2>3. Level(V, x) /\ (x.ch # q.ch \/ x.on < q.on => Tone(V, x) = Tone(i.wheel, x))
      BY <1>9, <2>1, <2>2
    <2> QED
      BY <2>3 DEF x
  <1>11. ASSUME NEW m \in Used(s)
         PROVE  Level(V, t.notes[m])
    <2>1. t.notes[m].ch = i.notes[m].ch /\ t.notes[m].on = i.notes[m].on /\ t.notes[m].off = i.notes[m].off
      BY <1>5 DEF InPlace
    <2> QED
      BY <1>10, <2>1 DEF Level
  <1>12. Steady(t)
    BY <1>2, <1>4, <1>5, <1>8, <1>9, <1>11 DEF Steady, InPlace
  <1>13. ASSUME NEW m \in Used(s), ~LaterOn(t, n, m)
         PROVE  Same(s, t, m)
    <2>1. Timed(i.notes[m]) /\ Timed(q)
      BY <1>2, <1>4, NotesAreTimed
    <2>2. t.notes[m].ch = i.notes[m].ch /\ t.notes[m].on = i.notes[m].on
      BY <1>5 DEF InPlace
    <2>3. i.notes[m].ch # q.ch \/ i.notes[m].on < q.on
      BY <1>6, <1>13, <2>1, <2>2 DEF LaterOn, Timed
    <2>4. Tone(V, i.notes[m]) = Tone(i.wheel, i.notes[m]) /\ m # n
      BY <1>10, <2>1, <2>3 DEF Timed
    <2>5. t.notes[m] = i.notes[m]
      BY <1>5, <2>4
    <2> QED
      BY <1>2, <1>8, <2>4, <2>5 DEF Same
  <1> QED
    BY <1>12, <1>13 DEF t

(* track_insert: note_reset_pitch, which isolates the note once more,      *)
(* finds the temporary channel that the note was put in.                   *)
LEMMA FreeTempAgain ==
    ASSUME NEW s, Sound(s), NEW tr \in Track, NEW beg, NEW end, NEW n \in Note, n \notin Used(s),
           NEW i, Sound(i), Used(i) = Used(s) \cup {n},
           \A m \in Used(s) : i.notes[m] = s.notes[m],
           NEW k, k = FreeTemp(s, tr, beg, end, {}),
           i.temps[tr] = IF k <= s.temps[tr] THEN s.temps[tr] ELSE k
    PROVE  FreeTemp(i, tr, beg, end, {n}) = k
  <1> DEFINE T == s.temps[tr]
             U == i.temps[tr]
             sounds(m, j) == s.notes[m].ch = <<tr, j>> /\ beg < s.notes[m].off /\ s.notes[m].on < end
             old == {j \in 1 .. T : InRange(s, <<tr, j>>, beg, end) \subseteq {}}
             new == {j \in 1 .. U : InRange(i, <<tr, j>>, beg, end) \subseteq {n}}
  <1>1. T \in 0 .. Cardinality(Note) /\ U \in 0 .. Cardinality(Note) /\ Cardinality(Note) \in Nat
    BY SongAssumption, FS_CardinalityType DEF Sound, Core, Temps
  <1>2. /\ k \in 1 .. Cardinality(Note) /\ k <= T + 1
        /\ \A m \in Used(s) : ~sounds(m, k)
    BY FreeTempIs
  <1>3. U = IF k <= T THEN T ELSE k
    OBVIOUS
  <1>4. k = IF old = {} THEN T + 1 ELSE Max(old)
    BY DEF FreeTemp
  <1>5. FreeTemp(i, tr, beg, end, {n}) = IF new = {} THEN U + 1 ELSE Max(new)
    BY DEF FreeTemp
  <1> HIDE DEF T, U
  <1>6. \A j \in 1 .. Cardinality(Note) :
           /\ InRange(s, <<tr, j>>, beg, end) \subseteq {} <=> \A m \in Used(s) : ~sounds(m, j)
           /\ InRange(i, <<tr, j>>, beg, end) \subseteq {n} <=> \A m \in Used(s) : ~sounds(m, j)
    <2> SUFFICES ASSUME NEW j \in 1 .. Cardinality(Note)
                 PROVE  /\ InRange(s, <<tr, j>>, beg, end) \subseteq {}
                              <=> \A m \in Used(s) : ~sounds(m, j)
                        /\ InRange(i, <<tr, j>>, beg, end) \subseteq {n}
                              <=> \A m \in Used(s) : ~sounds(m, j)
      OBVIOUS
    <2>1. <<tr, j>> \in Channel
      BY ChannelKinds
    <2>2. InRange(s, <<tr, j>>, beg, end) = {m \in Used(s) : sounds(m, j)}
      BY <2>1, InRangeIs
    <2>3. InRange(i, <<tr, j>>, beg, end) =
             {m \in Used(i) : i.notes[m].ch = <<tr, j>> /\ beg < i.notes[m].off /\ i.notes[m].on < end}
      BY <2>1, InRangeIs
    <2> QED
      BY <2>2, <2>3
  <1>7. \A j \in 1 .. T : j \in old <=> \A m \in Used(s) : ~sounds(m, j)
    BY <1>1, <1>6
  <1>8. \A j \in 1 .. U : j \in new <=> \A m \in Used(s) : ~sounds(m, j)
    BY <1>1, <1>6
  <1>9. old \in SUBSET (1 .. T) /\ new \in SUBSET (1 .. U)
    OBVIOUS
  <1> HIDE DEF old, new, sounds
  <1>10. k \in new
    BY <1>1, <1>2, <1>3, <1>8
  <1>11. ASSUME NEW j \in new PROVE j <= k
    <2>1. CASE j \in 1 .. T
      <3>1. j \in old
        BY <1>7, <1>8, <1>9, <2>1
      <3>2. old \in SUBSET Nat /\ \A x \in old : x <= T
        BY <1>1, <1>9
      <3>3. T \in Nat
        BY <1>1
      <3>4. Max(old) \in old /\ \A x \in old : x <= Max(old)
        BY <3>1, <3>2, <3>3, MaxFacts
      <3> QED
        BY <1>4, <3>1, <3>4
    <2>2. CASE j \notin 1 .. T
      BY <1>1, <1>2, <1>3, <1>9, <2>2
    <2> QED
      BY <2>1, <2>2
  <1>12. Max(new) = k
    <2>1. new \in SUBSET Nat
      BY <1>1, <1>9
    <2> QED
      BY <1>10, <1>11, <2>1, MaxIs
  <1> QED
    BY <1>5, <1>10, <1>12

LEMMA TrackInsertedSteady ==
    ASSUME NEW s, Sound(s), Steady(s), NEW n \in Note, n \notin Used(s), NEW tr \in Track,
           NEW beg \in Nat, NEW end \in Nat, beg < end, NEW p \in Pitch
    PROVE  LET t == TrackInserted(s, n, tr, beg, end, p) IN
           /\ Steady(t) /\ t.notes[n].ch \in TempChannel
           /\ \A m \in Used(s) : t.notes[m] = s.notes[m] /\ Same(s, t, m)
  <1> DEFINE k == FreeTemp(s, tr, beg, end, {})
             r == [track |-> tr, on |-> beg, off |-> end, pitch |-> p, ch |-> <<tr, k>>,
                   since |-> Len(s.revs)]
             w == WithTemp(s, tr, k)
             i == Inserted(w, n, r)
             t == TrackInserted(s, n, tr, beg, end, p)
             a == Isolated(i, n)
             ch == <<tr, k>>
  <1>1. t = PitchReset(i, n, p)
    BY DEF TrackInserted
  <1>2. /\ k \in 1 .. Cardinality(Note)
        /\ \A m \in Used(s) \ {n} :
              ~(s.notes[m].ch = ch /\ beg < s.notes[m].off /\ s.notes[m].on < end)
    BY FreeTempIs
  <1>3. Len(s.revs) \in Nat /\ DOMAIN s.notes = Note
    BY Revisions DEF Sound, Core, Known
  <1> HIDE DEF t
  <1>4. k = FreeTemp(s, tr, beg, end, {})
    OBVIOUS
  <1> HIDE DEF k
  <1>5. /\ Sound(w) /\ w.notes = s.notes /\ w.revs = s.revs /\ w.tip = s.tip
        /\ Used(w) = Used(s)
        /\ k <= w.temps[tr] /\ w.wheel = s.wheel
        /\ w.temps[tr] = IF k <= s.temps[tr] THEN s.temps[tr] ELSE k
    BY <1>2, WithTempIs
  <1> HIDE DEF w
  <1>6. ch \in Channel /\ ch \in TempChannel /\ ch[1] = tr
    BY <1>2, ChannelKinds
  <1>7. /\ r \in Notes /\ r.on = beg /\ r.off = end /\ r.track = tr /\ r.ch = ch
        /\ r.on < r.off
    BY <1>3, <1>6 DEF Notes, Time
  <1> HIDE DEF r
  <1>8. Room([w.notes EXCEPT ![n] = r], Used(w), n, r.ch)
    <2> DEFINE M == [w.notes EXCEPT ![n] = r]
    <2>1. M[n] = r /\ \A m \in Note : m # n => M[m] = s.notes[m]
      BY <1>3, <1>5
    <2> HIDE DEF M
    <2>2. \A m \in Used(w) \ {n} : ~(M[m].ch = r.ch /\ Clash(M, m, n))
      BY <1>2, <1>5, <1>7, <2>1 DEF Clash, Used
    <2>3. Room(M, Used(w), n, r.ch)
      BY <2>2 DEF Room
    <2> QED
      BY <2>3 DEF M
  <1>9. r.ch \in TempChannel => r.ch[2] <= w.temps[r.ch[1]]
    BY <1>5, <1>7
  <1>10. /\ Sound(i) /\ Used(i) = Used(s) \cup {n} /\ i.notes = [s.notes EXCEPT ![n] = r]
         /\ i.wheel = s.wheel /\ i.temps = w.temps
    BY <1>5, <1>7, <1>8, <1>9, InsertedIs
  <1> HIDE DEF i
  <1>11. /\ n \in Used(i) /\ i.notes[n] = r
         /\ \A m \in Used(s) : i.notes[m] = s.notes[m]
    BY <1>3, <1>10 DEF Used
  <1>12. FreeTemp(i, tr, beg, end, {n}) = k
    <2>1. i.temps[tr] = IF k <= s.temps[tr] THEN s.temps[tr] ELSE k
      BY <1>5, <1>10
    <2>2. Sound(i) /\ Used(i) = Used(s) \cup {n} /\ \A m \in Used(s) : i.notes[m] = s.notes[m]
      BY <1>10, <1>11
    <2> QED
      BY <1>4, <2>1, <2>2, FreeTempAgain
  <1>13. a.notes = i.notes /\ a.wheel = i.wheel
    <2>1. a = SetChannel(WithTemp(i, tr, k), n, ch)
      BY <1>7, <1>11, <1>12 DEF Isolated
    <2> DEFINE b == WithTemp(i, tr, k)
    <2>2. b.notes = i.notes /\ b.wheel = i.wheel
      BY <1>2, <1>10, WithTempIs
    <2> HIDE DEF b
    <2>3. SetChannel(b, n, ch) = b
      BY <1>7, <1>11, <2>2 DEF SetChannel
    <2> QED
      BY <2>1, <2>2, <2>3 DEF b
  <1> HIDE DEF ch
  <1>14. /\ Sound(t) /\ Kept(i, t) /\ t.notes = Repitched(i.notes, n, p)
         /\ t.wheel = WheelSet(i.wheel, t.notes[n].ch, t.notes[n].on, t.notes[n].off, Wheel[p])
    <2> HIDE DEF a
    <2>1. /\ Sound(t) /\ Kept(i, t) /\ t.notes = Repitched(a.notes, n, p)
          /\ t.wheel = [a.wheel EXCEPT ![t.notes[n].ch] =
                            Maps!SetRange(a.wheel[t.notes[n].ch], 0,
                                          t.notes[n].on, t.notes[n].off, Wheel[p])]
      BY <1>1, <1>10, <1>11, PitchResetIs DEF a
    <2> QED
      BY <1>13, <2>1 DEF WheelSet
  <1>15. /\ \A m \in Used(s) : t.notes[m] = s.notes[m]
         /\ t.notes[n].ch = ch /\ t.notes[n].on = beg /\ t.notes[n].off = end
         /\ t.notes[n].track = tr
    <2> DEFINE N == i.notes
               X == Used(i)
    <2>1. Known(N, X) /\ Apart(N, X) /\ n \in X /\ N[n].ch \in TempChannel
      BY <1>6, <1>7, <1>10, <1>11 DEF Sound, Core
    <2> HIDE DEF N, X
    <2>2. AgreeOn(N, t.notes, X \ {n}) /\ InPlace(N, t.notes, X)
      BY <1>14, <2>1, RepitchedNotes DEF N
    <2> QED
      BY <1>7, <1>10, <1>11, <2>1, <2>2 DEF AgreeOn, InPlace, N, X
  <1>16. Used(t) = Used(s) \cup {n}
    BY <1>10, <1>14 DEF Kept
  <1>17. t.wheel = WheelSet(s.wheel, ch, beg, end, Wheel[p]) /\ Wheels(s.wheel)
    BY <1>10, <1>14, <1>15 DEF Steady
  <1>18. Wheels(t.wheel)
    BY <1>6, <1>17, WheelSetIs, SongAssumption
  <1>19. Level(t.wheel, t.notes[n])
    <2> DEFINE q == t.notes[n]
    <2>1. Timed(q) /\ q.ch = ch /\ q.on = beg /\ q.off = end
      BY <1>6, <1>15 DEF Timed
    <2> HIDE DEF q
    <2>2. Level(t.wheel, q)
      BY <1>17, <2>1, ToneGiven
    <2> QED
      BY <2>2 DEF q
  <1>20. ASSUME NEW m \in Used(s)
         PROVE  Level(t.wheel, t.notes[m]) /\ Tone(t.wheel, t.notes[m]) = Tone(s.wheel, s.notes[m])
    <2> DEFINE x == s.notes[m]
    <2>1. Timed(x) /\ Level(s.wheel, x)
      BY NotesAreTimed DEF Steady
    <2>2. ~(x.ch = ch /\ x.on < end /\ beg < x.off)
      BY <1>2
    <2>3. t.notes[m] = x
      BY <1>15
    <2> HIDE DEF x
    <2> QED
      BY <1>6, <1>17, <2>1, <2>2, <2>3, ToneKept DEF x
  <1>21. Steady(t)
    <2>1. \A m \in Used(t) : t.notes[m].ch \in TempChannel => t.notes[m].ch[1] = t.notes[m].track
      BY <1>6, <1>15, <1>16 DEF Steady
    <2> QED
      BY <1>16, <1>18, <1>19, <1>20, <2>1 DEF Steady
  <1>22. \A m \in Used(s) : t.notes[m] = s.notes[m] /\ Same(s, t, m)
    BY <1>15, <1>20 DEF Same
  <1> QED
    BY <1>6, <1>15, <1>21, <1>22 DEF t

(* copy_note: the note is inserted before it gets the wheel of the other,  *)
(* which it does not overlap if they have one channel.                     *)
LEMMA CopiedSteady ==
    ASSUME NEW s, Sound(s), Steady(s), NEW n \in Used(s), NEW d \in Note, d \notin Used(s),
           NEW tr \in Track, NEW dt \in Int, NEW p \in Pitch,
           s.notes[n].on + dt \in Nat, s.notes[n].off + dt \in Nat,
           s.notes[n].on + dt < s.notes[n].off + dt
    PROVE  LET t == Copied(s, n, d, tr, dt, p) IN
           /\ Steady(t) /\ d \in Used(t)
           /\ \A m \in Used(s) : Same(s, t, m) \/ LaterOn(t, d, m)
  <1> DEFINE r == s.notes[n]
             beg == r.on + dt
             end == r.off + dt
             q == r.pitch
             i == TrackInserted(s, d, tr, beg, end, q)
             w == [i EXCEPT !.wheel =
                     Maps!Copy(@, r.ch, r.on, r.off, i.notes[d].ch, r.on + dt)]
             t == Copied(s, n, d, tr, dt, p)
             ch == i.notes[d].ch
  <1>1. t = PitchSet(w, d, p)
    BY DEF Copied
  <1>2. /\ r.pitch \in Pitch /\ Timed(r)
        /\ beg \in Nat /\ end \in Nat /\ beg < end /\ q \in Pitch /\ end = beg + (r.off - r.on)
    <2>1. r.pitch \in Pitch /\ Timed(r)
      BY KnownIs, NotesAreTimed DEF Sound, Core
    <2> QED
      BY <2>1 DEF Timed
  <1>3. /\ Sound(i) /\ Used(i) = Used(s) \cup {d} /\ Steady(i) /\ ch \in TempChannel
        /\ i.notes[d].on = beg /\ i.notes[d].off = end
        /\ \A m \in Used(s) : i.notes[m] = s.notes[m] /\ Same(s, i, m)
    <2> HIDE DEF beg, end, q
    <2> QED
      BY <1>2, TrackInsertedIs, TrackInsertedSteady
  <1> HIDE DEF i, t, q
  <1> DEFINE copied == Maps!Copy(i.wheel, r.ch, r.on, r.off, ch, beg)
  <1>4. w = [i EXCEPT !.wheel = copied]
    OBVIOUS
  <1> HIDE DEF copied, w
  <1>5. /\ IsSong(w) /\ w.notes = i.notes /\ w.chan = i.chan /\ w.temps = i.temps
        /\ w.revs = i.revs /\ w.tip = i.tip /\ w.usage = i.usage /\ w.wheel = copied
    BY <1>3, <1>4 DEF Sound, Core, IsSong
  <1>6. Used(w) = Used(i) /\ Sound(w)
    BY <1>3, <1>5 DEF Sound, Core, Used
  <1> DEFINE v == Tone(i.wheel, r)
             x == i.notes[d]
  <1>7. /\ Timed(x) /\ Level(i.wheel, x) /\ Level(i.wheel, r) /\ Wheels(i.wheel)
        /\ ch \in Channel /\ x.ch = ch /\ x.on = beg /\ x.off = end
    BY <1>3, NotesAreTimed DEF Steady, Timed
  <1>8. \A m \in Used(s) : ~(s.notes[m].ch = ch /\ s.notes[m].on < end /\ beg < s.notes[m].off)
    <2> SUFFICES ASSUME NEW m \in Used(s), s.notes[m].ch = ch,
                        s.notes[m].on < end, beg < s.notes[m].off
                 PROVE  FALSE
      OBVIOUS
    <2>1. m # d /\ m \in Used(i) /\ i.notes[m] = s.notes[m] /\ d \in Used(i)
      BY <1>3
    <2>2. Clash(i.notes, m, d)
      BY <1>3, <2>1 DEF Clash
    <2>3. ch \in FileChannel
      BY <1>3, <2>1, <2>2 DEF Sound, Core, Apart, Room
    <2> QED
      BY <1>3, <2>3, ChannelKinds
  <1>9. copied = WheelSet(i.wheel, ch, beg, end, v)
    <2>1. ch = r.ch => /\ \A z \in DOMAIN i.wheel[ch] : ~(beg < z /\ z < end)
                       /\ ~(r.on < beg /\ beg < r.off) /\ ~(r.on < end /\ end < r.off)
      <3> SUFFICES ASSUME ch = r.ch
                   PROVE  /\ \A z \in DOMAIN i.wheel[ch] : ~(beg < z /\ z < end)
                          /\ ~(r.on < beg /\ beg < r.off) /\ ~(r.on < end /\ end < r.off)
        OBVIOUS
      <3>1. \A z \in DOMAIN i.wheel[ch] : ~(beg < z /\ z < end)
        BY <1>7 DEF Level
      <3>2. ~(r.on < end /\ beg < r.off)
        BY <1>8
      <3> HIDE DEF r, beg, end
      <3>3. beg < end /\ beg \in Nat /\ end \in Nat /\ r.on \in Nat /\ r.off \in Nat
        BY <1>2 DEF Timed
      <3> QED
        BY <3>1, <3>2, <3>3
    <2> HIDE DEF r, beg, end, ch
    <2> QED
      BY <1>2, <1>7, <2>1, LevelCopy DEF copied
  <1> HIDE DEF v, ch
  <1>10. Wheels(w.wheel)
    <2>1. v \in Int
      BY <1>2, <1>7, ToneIs DEF v
    <2> QED
      BY <1>2, <1>5, <1>7, <1>9, <2>1, WheelSetIs
  <1>11. Level(w.wheel, w.notes[d])
    <2>1. Level(WheelSet(i.wheel, x.ch, x.on, x.off, v), x)
      <3> HIDE DEF x
      <3> QED
        BY <1>7, ToneGiven
    <2> QED
      BY <1>5, <1>7, <1>9, <2>1
  <1>12. ASSUME NEW m \in Used(s)
         PROVE  Level(w.wheel, w.notes[m]) /\ Tone(w.wheel, w.notes[m]) = Tone(i.wheel, i.notes[m])
    <2> DEFINE y == i.notes[m]
    <2>1. Timed(y) /\ Level(i.wheel, y)
      BY <1>3, NotesAreTimed DEF Steady
    <2>2. ~(y.ch = ch /\ y.on < end /\ beg < y.off)
      BY <1>3, <1>8
    <2> HIDE DEF y, beg, end
    <2>3. Level(WheelSet(i.wheel, ch, beg, end, v), y)
          /\ Tone(WheelSet(i.wheel, ch, beg, end, v), y) = Tone(i.wheel, y)
      BY <1>2, <1>7, <2>1, <2>2, ToneKept
    <2> QED
      BY <1>5, <1>9, <2>3 DEF y
  <1>13. Steady(w)
    <2>1. \A m \in Used(w) : w.notes[m].ch \in TempChannel => w.notes[m].ch[1] = w.notes[m].track
      BY <1>3, <1>5, <1>6 DEF Steady
    <2> QED
      BY <1>3, <1>6, <1>10, <1>11, <1>12, <2>1 DEF Steady
  <1>14. \A m \in Used(s) : Same(s, w, m)
    BY <1>3, <1>5, <1>12 DEF Same
  <1>15. /\ Steady(t) /\ Kept(w, t) /\ d \in Used(w)
         /\ \A m \in Used(w) : Same(w, t, m) \/ LaterOn(t, d, m)
    BY <1>1, <1>3, <1>6, <1>13, PitchSetIs, PitchSetSteady
  <1>16. \A m \in Used(s) : Same(s, t, m) \/ LaterOn(t, d, m)
    BY <1>3, <1>6, <1>14, <1>15, SameOn
  <1> QED
    BY <1>15, <1>16 DEF t, Kept

(* What leaves the notes that stay as they are heard.                      *)
Quiet(s, t) == Steady(s) => Steady(t) /\ \A n \in Used(t) : Same(s, t, n)

LEMMA QuietOn ==
    ASSUME NEW s, NEW t, NEW u, Quiet(s, t), Quiet(t, u), Used(u) \subseteq Used(t)
    PROVE  Quiet(s, u)
  BY SameOn DEF Quiet

(* erase_note leaves the wheels alone.                                     *)
LEMMA ErasedQuiet ==
    ASSUME NEW s, Sound(s), NEW n \in Used(s)
    PROVE  Quiet(s, Erased(s, n))
  <1> DEFINE t == Erased(s, n)
  <1>1. /\ Used(t) = Used(s) \ {n} /\ t.wheel = s.wheel
        /\ \A m \in Used(t) : t.notes[m] = s.notes[m]
    BY ErasedIs
  <1> HIDE DEF t
  <1>2. Quiet(s, t)
    BY <1>1 DEF Quiet, Steady, Same
  <1> QED
    BY <1>2 DEF t
-----------------------------------------------------------------------------
(* track_clear: the notes of the track are erased one after the other.     *)
ClearStep(a, t, i) == Erased(t, a.list[i])

ClearGood(a, E, t) ==
    /\ Sound(t) /\ Used(t) = Used(a.song) \ {a.list[i] : i \in E} /\ Quiet(a.song, t)
    /\ t.revs = a.song.revs /\ t.tip = a.song.tip /\ t.wheel = a.song.wheel
    /\ \A m \in Used(t) : t.notes[m] = a.song.notes[m]

ClearFold == INSTANCE FoldFacts WITH Step <- ClearStep, Sel <- ByMax, Good <- ClearGood

LEMMA SetToSeqIs ==
    ASSUME NEW S, IsFiniteSet(S)
    PROVE  /\ Cardinality(S) \in Nat /\ SetToSeq(S) \in [1 .. Cardinality(S) -> S]
           /\ \A i, j \in 1 .. Cardinality(S) : SetToSeq(S)[i] = SetToSeq(S)[j] => i = j
           /\ S = {SetToSeq(S)[i] : i \in 1 .. Cardinality(S)}
  <1> DEFINE D == 1 .. Cardinality(S)
  <1>1. Cardinality(S) \in Nat /\ ExistsBijection(D, S)
    BY FS_CardinalityType
  <1>2. \E f \in [D -> S] : IsInjective(f)
    BY <1>1 DEF ExistsBijection, Bijection, Injection
  <1> HIDE DEF D
  <1>3. SetToSeq(S) \in [D -> S] /\ IsInjective(SetToSeq(S))
    BY <1>2 DEF SetToSeq, D
  <1>4. \A i, j \in D : SetToSeq(S)[i] = SetToSeq(S)[j] => i = j
    BY <1>3 DEF IsInjective
  <1>5. S = {SetToSeq(S)[i] : i \in D}
    <2>1. Cardinality(D) = Cardinality(S)
      BY <1>1, FS_Interval DEF D
    <2>2. SetToSeq(S) \in Injection(D, S)
      BY <1>3 DEF Injection
    <2>3. SetToSeq(S) \in Surjection(D, S)
      BY <2>1, <2>2, FS_Injection
    <2> QED
      BY <1>3, <2>3 DEF Surjection
  <1> QED
    BY <1>1, <1>3, <1>4, <1>5 DEF D

LEMMA LastIndex ==
    ASSUME NEW T \in Nat, NEW E \in SUBSET (1 .. T), E # {}, NEW a
    PROVE  ByMax(a, E) \in E /\ ByMin(a, E) \in E
  <1>1. E \in SUBSET Nat /\ \A x \in E : x <= T
    OBVIOUS
  <1> QED
    BY <1>1, MaxFacts, MinFacts DEF ByMax, ByMin

LEMMA ClearedIs ==
    ASSUME NEW s, Sound(s), NEW S \in SUBSET Used(s)
    PROVE  LET t == FoldLeft(Erased, s, SetToSeq(S)) IN
           /\ Sound(t) /\ Used(t) = Used(s) \ S /\ Quiet(s, t)
           /\ t.revs = s.revs /\ t.tip = s.tip /\ t.wheel = s.wheel
           /\ \A m \in Used(t) : t.notes[m] = s.notes[m]
  <1> DEFINE q == SetToSeq(S)
             a == [song |-> s, list |-> q]
             T == Cardinality(S)
             D == 1 .. T
  <1>1. /\ T \in Nat /\ q \in [D -> S] /\ \A i, j \in D : q[i] = q[j] => i = j
        /\ S = {q[i] : i \in D}
    <2>1. IsFiniteSet(S)
      BY SongAssumption, FS_Subset DEF Used
    <2> QED
      BY <2>1, SetToSeqIs
  <1>2. a.song = s /\ a.list = q /\ DOMAIN q = D
    BY <1>1
  <1> HIDE DEF a, q, T
  <1>3. FoldLeft(Erased, s, q) = ClearFold!Fold(a, s, D)
    BY <1>2 DEF FoldLeft, MapThenFoldSet, ClearFold!Fold, ClearFold!IsFold, ClearStep,
                ByMax
  <1>4. ClearGood(a, {}, s)
    BY <1>2 DEF ClearGood, Quiet, Same
  <1>5. \A E \in SUBSET D : E # {} => ByMax(a, E) \in E
    BY <1>1, LastIndex
  <1>6. ASSUME NEW E \in SUBSET D, NEW t, E # {}, ClearGood(a, E \ {ByMax(a, E)}, t)
        PROVE  ClearGood(a, E, ClearStep(a, t, ByMax(a, E)))
    <2> DEFINE m == ByMax(a, E)
               e == Erased(t, q[m])
    <2>1. m \in E
      BY <1>5, <1>6
    <2>2. /\ Sound(t) /\ Used(t) = Used(s) \ {q[i] : i \in E \ {m}} /\ Quiet(s, t)
          /\ t.revs = s.revs /\ t.tip = s.tip /\ t.wheel = s.wheel
          /\ \A j \in Used(t) : t.notes[j] = s.notes[j]
      BY <1>2, <1>6 DEF ClearGood
    <2> HIDE DEF m, e
    <2>3. q[m] \in Used(s) /\ q[m] \notin {q[i] : i \in E \ {m}}
      BY <1>1, <2>1
    <2>4. q[m] \in Used(t)
      BY <2>2, <2>3
    <2>5. /\ Sound(e) /\ Used(e) = Used(t) \ {q[m]} /\ Quiet(t, e)
          /\ e.revs = t.revs /\ e.tip = t.tip /\ e.wheel = t.wheel
          /\ \A j \in Used(e) : e.notes[j] = t.notes[j]
      BY <2>2, <2>4, ErasedIs, ErasedQuiet DEF e
    <2>6. Used(e) = Used(s) \ {q[i] : i \in E}
      BY <2>1, <2>2, <2>5
    <2>7. Quiet(s, e)
      BY <2>2, <2>5, QuietOn
    <2>8. \A j \in Used(e) : e.notes[j] = s.notes[j]
      BY <2>2, <2>5
    <2> QED
      BY <1>2, <2>2, <2>5, <2>6, <2>7, <2>8 DEF ClearGood, ClearStep, m, e
  <1>7. ClearGood(a, D, ClearFold!Fold(a, s, D))
    <2>1. ClearFold!IsFiniteSet(D)
      <3>1. IsFiniteSet(D)
        BY <1>1, FS_Interval
      <3> QED
        BY <3>1 DEF IsFiniteSet, ClearFold!IsFiniteSet
    <2> HIDE DEF D
    <2>2. \A E \in SUBSET D : \A t :
             E # {} /\ ClearGood(a, E \ {ByMax(a, E)}, t)
                => ClearGood(a, E, ClearStep(a, t, ByMax(a, E)))
      BY <1>6
    <2> QED
      BY <1>4, <1>5, <2>1, <2>2, ClearFold!FoldGood
  <1> DEFINE u == FoldLeft(Erased, s, q)
  <1>8. ClearGood(a, D, u)
    BY <1>3, <1>7
  <1> HIDE DEF u
  <1>9. /\ Sound(u) /\ Used(u) = Used(s) \ {q[i] : i \in D} /\ Quiet(s, u)
        /\ u.revs = s.revs /\ u.tip = s.tip /\ u.wheel = s.wheel
        /\ \A m \in Used(u) : u.notes[m] = s.notes[m]
    BY <1>2, <1>8 DEF ClearGood
  <1> HIDE DEF D
  <1>10. Used(u) = Used(s) \ S
    BY <1>1, <1>9
  <1> QED
    BY <1>9, <1>10 DEF u, q
-----------------------------------------------------------------------------
(* The order in which flattening tries the channels: some channel of any   *)
(* is the last, since what the others count are numbers.                   *)
AnyOf(a, S) == CHOOSE x \in S : TRUE
SumStep(a, t, i) == a[i] + t
SumGood(a, E, t) == t \in Nat

SumFold == INSTANCE FoldFacts WITH Step <- SumStep, Sel <- AnyOf, Good <- SumGood

LEMMA SumIsNat ==
    ASSUME NEW D, IsFiniteSet(D), NEW a \in [D -> Nat]
    PROVE  SumFunction(a) \in Nat
  <1>1. SumFunction(a) = SumFold!Fold(a, 0, D)
    BY DEF SumFunction, SumFunctionOnSet, FoldFunctionOnSet, MapThenFoldSet, SumFold!Fold,
           SumFold!IsFold, SumStep, AnyOf
  <1>2. SumFold!IsFiniteSet(D)
    BY DEF IsFiniteSet, SumFold!IsFiniteSet
  <1>3. \A E \in SUBSET D : E # {} => AnyOf(a, E) \in E
    BY DEF AnyOf
  <1>4. \A E \in SUBSET D : \A t :
           E # {} /\ SumGood(a, E \ {AnyOf(a, E)}, t) => SumGood(a, E, SumStep(a, t, AnyOf(a, E)))
    BY <1>3 DEF SumGood, SumStep
  <1>5. SumGood(a, {}, 0)
    BY DEF SumGood
  <1>6. SumGood(a, D, SumFold!Fold(a, 0, D))
    BY <1>2, <1>3, <1>4, <1>5, SumFold!FoldGood
  <1> QED
    BY <1>1, <1>6 DEF SumGood

(* Channel c is tried before d, if O says how often the other tracks use   *)
(* them and U how often the track does.                                    *)
Ahead(O, U, c, d) ==
    O[c] < O[d] \/ (O[c] = O[d] /\ (U[d] < U[c] \/ (U[d] = U[c] /\ c < d)))

Rated(O, U, S) == S \subseteq Nat /\ \A c \in S : O[c] \in Nat /\ U[c] \in Nat

LEMMA AheadIsTotal ==
    ASSUME NEW O, NEW U, NEW S, Rated(O, U, S), NEW c \in S, NEW d \in S, NEW e \in S
    PROVE  /\ c # d => Ahead(O, U, c, d) \/ Ahead(O, U, d, c)
           /\ Ahead(O, U, c, d) /\ Ahead(O, U, d, e) => Ahead(O, U, c, e)
  BY DEF Ahead, Rated

IsLast(O, U, T, c) == \A d \in T \ {c} : Ahead(O, U, d, c)

LEMMA LastExists ==
    ASSUME NEW O, NEW U, NEW S, Rated(O, U, S), IsFiniteSet(S), S # {}
    PROVE  \E c \in S : IsLast(O, U, S, c)
  <1> DEFINE Bad == {k \in Nat : \E T \in SUBSET S :
                        /\ Cardinality(T) = k /\ T # {}
                        /\ \A c \in T : ~IsLast(O, U, T, c)}
  <1>1. Bad = {}
    <2> SUFFICES ASSUME Bad # {} PROVE FALSE
      OBVIOUS
    <2>1. PICK k \in Bad : \A j \in Bad : k <= j
      BY LeastNat
    <2>2. PICK T \in SUBSET S :
             Cardinality(T) = k /\ T # {} /\ \A c \in T : ~IsLast(O, U, T, c)
      BY <2>1
    <2>3. PICK x \in T : TRUE
      BY <2>2
    <2>4. IsFiniteSet(T) /\ IsFiniteSet(T \ {x}) /\ Cardinality(T \ {x}) = k - 1
      BY <2>2, FS_Subset, FS_RemoveElement
    <2>5. k - 1 \in Nat /\ k \in Nat
      BY <2>4, FS_CardinalityType
    <2>6. k - 1 \notin Bad
      BY <2>1, <2>5
    <2>7. CASE T \ {x} = {}
      BY <2>2, <2>7 DEF IsLast
    <2>8. CASE T \ {x} # {}
      <3>1. PICK c \in T \ {x} : IsLast(O, U, T \ {x}, c)
        BY <2>4, <2>5, <2>6, <2>8
      <3>2. Ahead(O, U, x, c) \/ Ahead(O, U, c, x)
        BY <3>1, AheadIsTotal
      <3>3. Ahead(O, U, x, c) => IsLast(O, U, T, c)
        BY <3>1 DEF IsLast
      <3>4. ASSUME Ahead(O, U, c, x) PROVE IsLast(O, U, T, x)
        <4> SUFFICES ASSUME NEW d \in T \ {x} PROVE Ahead(O, U, d, x)
          BY DEF IsLast
        <4>1. d = c \/ Ahead(O, U, d, c)
          BY <3>1 DEF IsLast
        <4> QED
          BY <2>2, <3>1, <3>4, <4>1, AheadIsTotal
      <3> QED
        BY <2>2, <3>1, <3>2, <3>3, <3>4
    <2> QED
      BY <2>7, <2>8
  <1>2. Cardinality(S) \in Nat
    BY FS_CardinalityType
  <1> QED
    BY <1>1, <1>2

LEMMA LastTriedIs ==
    ASSUME NEW s, Sound(s), NEW tr \in Track, NEW C \in SUBSET Number, C # {}
    PROVE  LastTried(s, tr, C) \in C
  <1> DEFINE O == [c \in Number |-> Others(s, tr, c)]
             U == [c \in Number |-> s.usage[tr][<<0, c>>]]
  <1>1. \A r \in Track, c \in Number : s.usage[r][<<0, c>>] \in Nat
    <2> SUFFICES ASSUME NEW r \in Track, NEW c \in Number
                 PROVE  s.usage[r][<<0, c>>] \in Nat
      OBVIOUS
    <2>1. s.usage[r][<<0, c>>] = Cardinality(OfTrackIn(s.notes, Used(s), r, <<0, c>>))
      BY DEF Sound, Core, Counts, FileChannel
    <2>2. IsFiniteSet(OfTrackIn(s.notes, Used(s), r, <<0, c>>))
      BY SongAssumption, FS_Subset DEF OfTrackIn, Used
    <2> QED
      BY <2>1, <2>2, FS_CardinalityType
  <1>2. \A c \in Number : Others(s, tr, c) \in Nat
    <2> SUFFICES ASSUME NEW c \in Number PROVE Others(s, tr, c) \in Nat
      OBVIOUS
    <2> DEFINE D == Track \ {tr}
               f == [o \in D |-> s.usage[o][<<0, c>>]]
    <2>1. IsFiniteSet(Track)
      BY SongAssumption, FS_Interval DEF Track
    <2>2. IsFiniteSet(D)
      BY <2>1, FS_Subset
    <2>3. f \in [D -> Nat]
      BY <1>1
    <2>4. Others(s, tr, c) = SumFunction(f)
      BY DEF Others
    <2> HIDE DEF D, f
    <2> QED
      BY <2>2, <2>3, <2>4, SumIsNat
  <1>3. IsFiniteSet(C) /\ C \subseteq Nat
    BY SongAssumption, FS_Subset
  <1>4. Rated(O, U, C)
    BY <1>1, <1>2, <1>3 DEF Rated
  <1>5. \A c, d \in C : ChannelBefore(s, tr, c, d) <=> Ahead(O, U, c, d)
    <2> SUFFICES ASSUME NEW c \in C, NEW d \in C
                 PROVE  ChannelBefore(s, tr, c, d) <=> Ahead(O, U, c, d)
      OBVIOUS
    <2>1. O[c] = Others(s, tr, c) /\ O[d] = Others(s, tr, d)
      OBVIOUS
    <2>2. U[c] = s.usage[tr][<<0, c>>] /\ U[d] = s.usage[tr][<<0, d>>]
      OBVIOUS
    <2>3. O[c] \in Nat /\ O[d] \in Nat /\ U[c] \in Nat /\ U[d] \in Nat
      BY <1>4 DEF Rated
    <2> HIDE DEF O, U
    <2> QED
      BY <2>1, <2>2, <2>3 DEF ChannelBefore, Ahead
  <1> HIDE DEF O, U
  <1>6. PICK c \in C : IsLast(O, U, C, c)
    BY <1>3, <1>4, LastExists
  <1>7. \A d \in C \ {c} : ChannelBefore(s, tr, d, c)
    BY <1>5, <1>6 DEF IsLast
  <1> QED
    BY <1>7 DEF LastTried
-----------------------------------------------------------------------------
(* Flattening.                                                             *)
LEMMA KeptOn ==
    ASSUME NEW s, NEW t, NEW u, Kept(s, t), Kept(t, u)
    PROVE  Kept(s, u)
  BY DEF Kept

(* What flattening promises of a steady song: the notes are heard as they  *)
(* were, and those that have moved are on channels of their track's mask.  *)
FileChannels(tr) == {<<0, c>> : c \in Mask[tr]}

MovedRight(s, t, n) ==
    t.notes[n].ch = s.notes[n].ch \/ t.notes[n].ch \in FileChannels(s.notes[n].track)

Silent(s, t) == Quiet(s, t) /\ (Steady(s) => \A n \in Used(s) : MovedRight(s, t, n))

LEMMA SilentSelf ==
    ASSUME NEW s
    PROVE  Kept(s, s) /\ Silent(s, s)
  BY DEF Kept, Silent, Quiet, Same, MovedRight

LEMMA SilentOn ==
    ASSUME NEW s, NEW t, NEW u, Kept(s, t), Kept(t, u), Silent(s, t), Silent(t, u)
    PROVE  Kept(s, u) /\ Silent(s, u)
  <1>1. Kept(s, u)
    BY KeptOn
  <1>2. Quiet(s, u)
    BY QuietOn DEF Silent, Kept
  <1>3. Steady(s) => \A n \in Used(s) : MovedRight(s, u, n)
    BY DEF Silent, Quiet, Kept, MovedRight
  <1> QED
    BY <1>1, <1>2, <1>3 DEF Silent

(* can_move() has compared the wheels where the notes overlap.             *)
LEMMA CanMoveAgrees ==
    ASSUME NEW s, Sound(s), Steady(s), NEW n \in Used(s), NEW ch \in FileChannel,
           CanMove(s, n, ch)
    PROVE  Agrees(s, n, ch)
  <1> SUFFICES ASSUME NEW m \in Used(s) \ {n}, s.notes[m].ch = ch, Clash(s.notes, m, n)
               PROVE  Tone(s.wheel, s.notes[m]) = Tone(s.wheel, s.notes[n])
    BY DEF Agrees
  <1> DEFINE a == s.notes[m]
             b == s.notes[n]
             t == Max({a.on, b.on})
  <1>1. /\ Timed(a) /\ Timed(b) /\ Level(s.wheel, a) /\ Level(s.wheel, b) /\ Wheels(s.wheel)
        /\ ch \in Channel
    BY NotesAreTimed, ChannelKinds DEF Steady
  <1>2. m \in InRange(s, ch, s.notes[n].on, s.notes[n].off)
    BY <1>1, InRangeIs DEF Clash
  <1>3. Compatible(s, m, n)
    BY <1>2 DEF CanMove
  <1>4. Maps!Get(s.wheel[a.ch], 0, t) = Maps!Get(s.wheel[b.ch], 0, t)
    BY <1>3 DEF Compatible, Maps!Eq
  <1>5. a.on < b.off /\ b.on < a.off
    BY DEF Clash
  <1> HIDE DEF a, b
  <1>6. /\ a.on \in Nat /\ b.on \in Nat /\ a.off \in Nat /\ b.off \in Nat
        /\ a.on < a.off /\ b.on < b.off
    BY <1>1 DEF Timed
  <1>7. t = IF a.on < b.on THEN b.on ELSE a.on
    <2> DEFINE S == {a.on, b.on}
               x == IF a.on < b.on THEN b.on ELSE a.on
    <2>1. S \in SUBSET Nat /\ x \in S /\ \A y \in S : y <= x
      BY <1>6
    <2> HIDE DEF S, x
    <2>2. Max(S) = x
      BY <2>1, MaxIs
    <2> QED
      BY <2>2 DEF S, x
  <1> HIDE DEF t
  <1>8. t \in Nat /\ a.on <= t /\ t < a.off /\ b.on <= t /\ t < b.off
    BY <1>5, <1>6, <1>7
  <1>9. Maps!Get(s.wheel[a.ch], 0, t) = Tone(s.wheel, a)
    BY <1>1, <1>8, ToneHolds
  <1>10. Maps!Get(s.wheel[b.ch], 0, t) = Tone(s.wheel, b)
    BY <1>1, <1>8, ToneHolds
  <1> QED
    BY <1>4, <1>9, <1>10 DEF a, b

(* Copying the wheel of a note's range onto itself changes no tone.        *)
LEMMA CopiedOnItself ==
    ASSUME NEW u, Sound(u), Steady(u), NEW n \in Used(u), NEW ch, u.notes[n].ch = ch,
           Agrees(u, n, ch), NEW t, t.notes = u.notes,
           t.wheel = Maps!Copy(u.wheel, ch, u.notes[n].on, u.notes[n].off, ch, u.notes[n].on)
    PROVE  Steady(t) /\ \A m \in Used(u) : Same(u, t, m)
  <1> DEFINE r == u.notes[n]
             v == Tone(u.wheel, r)
             beg == r.on
             end == r.off
  <1>1. /\ Timed(r) /\ Level(u.wheel, r) /\ Wheels(u.wheel) /\ r.ch = ch /\ ch \in Channel
        /\ beg \in Nat /\ end \in Nat /\ beg < end /\ end = beg + (r.off - r.on)
        /\ \A z \in DOMAIN u.wheel[ch] : ~(beg < z /\ z < end)
        /\ ~(r.on < beg /\ beg < r.off) /\ ~(r.on < end /\ end < r.off)
    <2>1. Timed(r) /\ Level(u.wheel, r) /\ Wheels(u.wheel)
      BY NotesAreTimed DEF Steady
    <2> QED
      BY <2>1 DEF Timed, Level
  <1>2. t.wheel = WheelSet(u.wheel, ch, beg, end, v)
    <2>1. t.wheel = Maps!Copy(u.wheel, r.ch, r.on, r.off, ch, beg)
      BY <1>1
    <2> HIDE DEF r, beg, end
    <2>2. Maps!Copy(u.wheel, r.ch, r.on, r.off, ch, beg) = WheelSet(u.wheel, ch, beg, end, v)
      BY <1>1, LevelCopy
    <2> QED
      BY <2>1, <2>2
  <1>3. Wheels(t.wheel)
    BY <1>1, <1>2, ToneIs, WheelSetIs
  <1>4. ASSUME NEW m \in Used(u)
        PROVE  Level(t.wheel, u.notes[m]) /\ Tone(t.wheel, u.notes[m]) = Tone(u.wheel, u.notes[m])
    <2> DEFINE x == u.notes[m]
    <2>1. Timed(x) /\ Level(u.wheel, x)
      BY NotesAreTimed DEF Steady
    <2>2. x.ch = ch /\ x.on < end /\ beg < x.off => Tone(u.wheel, x) = v
      BY DEF Agrees, Clash
    <2> HIDE DEF x, v, beg, end
    <2> QED
      BY <1>1, <1>2, <2>1, <2>2, ToneKept DEF x
  <1>5. Used(t) = Used(u)
    BY DEF Used
  <1> QED
    BY <1>3, <1>4, <1>5 DEF Steady, Same

(* move(), after can_move() has said yes                                   *)
LEMMA MovedToIs ==
    ASSUME NEW s, Sound(s), NEW n \in Used(s), NEW ch \in FileChannel, CanMove(s, n, ch)
    PROVE  LET t == MovedTo(s, n, ch) IN
           /\ Sound(t) /\ Kept(s, t)
           /\ ch \in FileChannels(s.notes[n].track) => Silent(s, t)
  <1> DEFINE u == SetChannel(s, n, ch)
             t == MovedTo(s, n, ch)
  <1>1. ch \in Channel /\ ch \notin TempChannel
    BY ChannelKinds
  <1>2. Room(s.notes, Used(s), n, ch)
    <2> SUFFICES ASSUME NEW m \in Used(s) \ {n}, s.notes[m].ch = ch, Clash(s.notes, m, n)
                 PROVE  Fit(s.notes, m, n)
      BY DEF Room
    <2>1. m \in InRange(s, ch, s.notes[n].on, s.notes[n].off)
      BY <1>1, InRangeIs DEF Clash
    <2> QED
      BY <2>1 DEF CanMove, Compatible, Fit
  <1>3. RoomIn(s, n, ch)
    BY <1>1, <1>2 DEF RoomIn
  <1>4. /\ Sound(u) /\ Kept(s, u) /\ u.notes[n].ch = ch
        /\ \A m \in Used(s) \ {n} : u.notes[m] = s.notes[m]
        /\ Steady(s) => /\ Agrees(s, n, ch) /\ Steady(u)
                        /\ \A m \in Used(s) : Same(s, u, m)
    <2>1. /\ Sound(u) /\ Kept(s, u) /\ u.notes[n].ch = ch
          /\ \A m \in Used(s) \ {n} : u.notes[m] = s.notes[m]
      BY <1>3, SetChannelIs
    <2>2. ASSUME Steady(s)
          PROVE  Agrees(s, n, ch) /\ Steady(u) /\ \A m \in Used(s) : Same(s, u, m)
      <3>1. Agrees(s, n, ch) /\ OwnChannel(s, n, ch)
        BY <1>1, <2>2, CanMoveAgrees DEF OwnChannel
      <3> QED
        BY <1>3, <2>2, <3>1, SetChannelSteady
    <2> QED
      BY <2>1, <2>2
  <1>5. t = WheelCopied(u, ch, ch, s.notes[n].on, s.notes[n].off)
    BY DEF MovedTo
  <1> HIDE DEF u, t
  <1>6. /\ IsSong(t) /\ t.notes = u.notes /\ t.chan = u.chan /\ t.temps = u.temps
        /\ t.revs = u.revs /\ t.tip = u.tip /\ t.usage = u.usage
        /\ t.wheel = Maps!Copy(u.wheel, ch, s.notes[n].on, s.notes[n].off, ch, s.notes[n].on)
    BY <1>4, <1>5, WheelFields DEF Sound, Core
  <1>7. Used(t) = Used(u)
    BY <1>6 DEF Used
  <1>8. Sound(t) /\ Kept(s, t)
    BY <1>4, <1>6, <1>7 DEF Sound, Core, Kept
  <1>9. Quiet(s, t)
    <2> SUFFICES ASSUME Steady(s) PROVE Steady(t) /\ \A m \in Used(t) : Same(s, t, m)
      BY DEF Quiet
    <2>1. Steady(u) /\ \A m \in Used(s) : Same(s, u, m)
      BY <1>4
    <2>2. Agrees(u, n, ch)
      BY <1>4, <2>1 DEF Agrees, Clash, Kept, Same
    <2>3. /\ u.notes[n].on = s.notes[n].on /\ u.notes[n].off = s.notes[n].off
          /\ n \in Used(u) /\ Used(u) = Used(s)
      BY <1>4 DEF Kept
    <2>4. Steady(t) /\ \A m \in Used(u) : Same(u, t, m)
      BY <1>4, <1>6, <2>1, <2>2, <2>3, CopiedOnItself
    <2> QED
      BY <1>7, <2>1, <2>3, <2>4, SameOn
  <1>10. ch \in FileChannels(s.notes[n].track) => \A m \in Used(s) : MovedRight(s, t, m)
    BY <1>4, <1>6 DEF MovedRight
  <1> QED
    BY <1>8, <1>9, <1>10 DEF t, Silent

(* channel_join                                                            *)
JoinStep(a, t, i) ==
    IF CanMove(t, a.list[i], a.ch) THEN MovedTo(t, a.list[i], a.ch) ELSE t

JoinGood(a, E, t) == Sound(t) /\ Kept(a.song, t) /\ Silent(a.song, t)

JoinFold == INSTANCE FoldFacts WITH Step <- JoinStep, Sel <- ByMax, Good <- JoinGood

LEMMA JoinedIs ==
    ASSUME NEW s, Sound(s), NEW ch \in FileChannel, NEW temp \in TempChannel,
           ch \in FileChannels(temp[1])
    PROVE  LET t == Joined(s, ch, temp) IN Sound(t) /\ Kept(s, t) /\ Silent(s, t)
  <1> DEFINE q == s.chan[temp]
             a == [song |-> s, list |-> q, ch |-> ch]
             T == Len(q)
             D == 1 .. T
  <1>1. /\ T \in Nat /\ DOMAIN q = D
        /\ \A i \in D : q[i] \in Used(s) /\ s.notes[q[i]].ch = temp
    <2>1. temp \in Channel
      BY ChannelKinds
    <2>2. q \in Seq(In(s.notes, Used(s), temp))
      BY <2>1 DEF Sound, Core, Trees, ListOf
    <2> QED
      BY <2>2 DEF In
  <1>2. a.song = s /\ a.list = q /\ a.ch = ch
    OBVIOUS
  <1>3. Joined(s, ch, temp)
           = FoldLeft(LAMBDA t, n : IF CanMove(t, n, ch) THEN MovedTo(t, n, ch) ELSE t, s, q)
    BY DEF Joined
  <1> HIDE DEF a, q, T
  <1>4. Joined(s, ch, temp) = JoinFold!Fold(a, s, D)
    BY <1>1, <1>2, <1>3 DEF FoldLeft, MapThenFoldSet, JoinFold!Fold, JoinFold!IsFold, JoinStep,
                            ByMax
  <1>5. JoinGood(a, {}, s)
    BY <1>2, SilentSelf DEF JoinGood
  <1>6. \A E \in SUBSET D : E # {} => ByMax(a, E) \in E
    BY <1>1, LastIndex
  <1>7. ASSUME NEW E \in SUBSET D, NEW t, E # {}, JoinGood(a, E \ {ByMax(a, E)}, t)
        PROVE  JoinGood(a, E, JoinStep(a, t, ByMax(a, E)))
    <2>1. ByMax(a, E) \in E /\ Sound(t) /\ Kept(s, t) /\ Silent(s, t)
      BY <1>2, <1>6, <1>7 DEF JoinGood
    <2> DEFINE n == q[ByMax(a, E)]
    <2>2. n \in Used(t) /\ n \in Used(s) /\ s.notes[n].ch = temp
      BY <1>1, <2>1 DEF Kept
    <2> HIDE DEF n
    <2>3. CASE CanMove(t, n, ch)
      <3> DEFINE u == MovedTo(t, n, ch)
      <3>1. /\ Sound(u) /\ Kept(t, u)
            /\ ch \in FileChannels(t.notes[n].track) => Silent(t, u)
        BY <2>1, <2>2, <2>3, MovedToIs
      <3> HIDE DEF u
      <3>2. Kept(s, u) /\ Silent(s, u)
        <4>1. CASE Steady(s)
          <5>1. t.notes[n].track = temp[1]
            BY <2>1, <2>2, <4>1 DEF Steady, Kept
          <5> QED
            BY <2>1, <3>1, <5>1, SilentOn
        <4>2. CASE ~Steady(s)
          BY <2>1, <3>1, <4>2, KeptOn DEF Silent, Quiet
        <4> QED
          BY <4>1, <4>2
      <3> QED
        BY <1>2, <2>3, <3>1, <3>2 DEF JoinGood, JoinStep, n, u
    <2>4. CASE ~CanMove(t, n, ch)
      BY <1>2, <2>1, <2>4 DEF JoinGood, JoinStep, n
    <2> QED
      BY <2>3, <2>4
  <1>8. JoinGood(a, D, JoinFold!Fold(a, s, D))
    <2>1. IsFiniteSet(D)
      BY <1>1, FS_Interval
    <2>2. JoinFold!IsFiniteSet(D)
      BY <2>1 DEF IsFiniteSet, JoinFold!IsFiniteSet
    <2> HIDE DEF D
    <2>3. \A E \in SUBSET D : \A t :
             E # {} /\ JoinGood(a, E \ {ByMax(a, E)}, t) => JoinGood(a, E, JoinStep(a, t, ByMax(a, E)))
      BY <1>7
    <2> QED
      BY <1>5, <1>6, <2>2, <2>3, JoinFold!FoldGood
  <1> QED
    BY <1>2, <1>4, <1>8 DEF JoinGood

(* track_flatten: one temporary channel, which is empty if that succeeds.  *)
Vacated(s, ch) == \A n \in Used(s) : s.notes[n].ch # ch

LEMMA VacatedStays ==
    ASSUME NEW s, Sound(s), Steady(s), NEW t, Kept(s, t), Silent(s, t),
           NEW ch \in TempChannel, Vacated(s, ch)
    PROVE  Vacated(t, ch)
  <1> SUFFICES ASSUME NEW n \in Used(s) PROVE t.notes[n].ch # ch
    BY DEF Vacated, Kept
  <1>1. s.notes[n].track \in Track
    BY KnownIs DEF Sound, Core
  <1>2. FileChannels(s.notes[n].track) \subseteq FileChannel
    BY <1>1, SongAssumption DEF FileChannels, FileChannel
  <1>3. MovedRight(s, t, n)
    BY DEF Silent
  <1> QED
    BY <1>2, <1>3, ChannelKinds DEF MovedRight, Vacated

LEMMA EmptyIsVacated ==
    ASSUME NEW s, Sound(s), NEW ch \in Channel, s.chan[ch] = <<>>
    PROVE  Vacated(s, ch)
  <1>1. ListOf(<<>>, In(s.notes, Used(s), ch))
    BY DEF Sound, Core, Trees
  <1>2. In(s.notes, Used(s), ch) = {}
    BY <1>1 DEF ListOf
  <1> QED
    BY <1>2 DEF In, Vacated

LEMMA OkTells ==
    ASSUME NEW f, NEW tr, NEW temp, NEW sorted, TempFlattened(f, tr, temp, sorted).ok
    PROVE  f.ok /\ TempFlattened(f, tr, temp, sorted).song.chan[temp] = <<>>
  BY DEF TempFlattened

TryStep(a, t, c) == Joined(t, <<0, c>>, a.temp)
TryLast(a, C) == LastTried(a.sorted, a.tr, C)

TryFold == INSTANCE FoldFacts WITH Step <- TryStep, Sel <- TryLast, Good <- JoinGood

LEMMA TempFlattenedIs ==
    ASSUME NEW f, Sound(f.song), NEW tr \in Track, NEW temp \in TempChannel,
           temp[1] = tr, NEW sorted, Sound(sorted)
    PROVE  LET t == TempFlattened(f, tr, temp, sorted) IN
           /\ Sound(t.song) /\ Kept(f.song, t.song) /\ Silent(f.song, t.song)
           /\ t.ok => f.ok /\ Vacated(t.song, temp)
  <1> DEFINE s == f.song
             a == [song |-> s, temp |-> temp, sorted |-> sorted, tr |-> tr]
             D == Mask[tr]
             joined == MapThenFoldSet(LAMBDA c, t : Joined(t, <<0, c>>, temp), s, LAMBDA c : c,
                                      LAMBDA C : LastTried(sorted, tr, C), D)
             t == TempFlattened(f, tr, temp, sorted)
  <1>1. t.song = s \/ t.song = joined
    BY DEF TempFlattened
  <1>2. a.song = s /\ a.temp = temp /\ a.sorted = sorted /\ a.tr = tr
    OBVIOUS
  <1> HIDE DEF t
  <1>3. D \in SUBSET Number /\ IsFiniteSet(D)
    BY SongAssumption, FS_Subset
  <1> HIDE DEF D, a, s
  <1>4. joined = TryFold!Fold(a, s, D)
    BY <1>2 DEF MapThenFoldSet, TryFold!Fold, TryFold!IsFold, TryStep, TryLast
  <1> HIDE DEF joined
  <1>5. JoinGood(a, {}, s)
    BY <1>2, SilentSelf DEF JoinGood, s
  <1>6. \A E \in SUBSET D : E # {} => TryLast(a, E) \in E
    BY <1>2, <1>3, LastTriedIs DEF TryLast
  <1>7. ASSUME NEW E \in SUBSET D, NEW u, E # {}, JoinGood(a, E \ {TryLast(a, E)}, u)
        PROVE  JoinGood(a, E, TryStep(a, u, TryLast(a, E)))
    <2> DEFINE c == TryLast(a, E)
    <2>1. Sound(u) /\ Kept(s, u) /\ Silent(s, u)
      BY <1>2, <1>7 DEF JoinGood
    <2>2. <<0, c>> \in FileChannel /\ <<0, c>> \in FileChannels(temp[1])
      BY <1>3, <1>6, <1>7 DEF FileChannel, FileChannels, D
    <2> HIDE DEF c
    <2> DEFINE ch == <<0, c>>
    <2>3. ch \in FileChannel /\ ch \in FileChannels(temp[1])
      BY <2>2
    <2> HIDE DEF ch
    <2>4. /\ Sound(Joined(u, ch, temp)) /\ Kept(u, Joined(u, ch, temp))
          /\ Silent(u, Joined(u, ch, temp))
      BY <2>1, <2>3, JoinedIs
    <2>5. Kept(s, Joined(u, ch, temp)) /\ Silent(s, Joined(u, ch, temp))
      BY <2>1, <2>4, SilentOn
    <2> QED
      BY <1>2, <2>4, <2>5 DEF JoinGood, TryStep, ch, c
  <1>8. JoinGood(a, D, TryFold!Fold(a, s, D))
    <2>1. TryFold!IsFiniteSet(D)
      BY <1>3 DEF IsFiniteSet, TryFold!IsFiniteSet
    <2>2. \A E \in SUBSET D : \A u :
             E # {} /\ JoinGood(a, E \ {TryLast(a, E)}, u) => JoinGood(a, E, TryStep(a, u, TryLast(a, E)))
      BY <1>7
    <2> QED
      BY <1>5, <1>6, <2>1, <2>2, TryFold!FoldGood
  <1>9. Sound(t.song) /\ Kept(s, t.song) /\ Silent(s, t.song)
    BY <1>1, <1>2, <1>4, <1>8, SilentSelf DEF JoinGood, s
  <1>10. ASSUME t.ok PROVE f.ok /\ Vacated(t.song, temp)
    <2>1. f.ok /\ t.song.chan[temp] = <<>>
      BY <1>10, OkTells DEF t
    <2>2. temp \in Channel
      BY ChannelKinds
    <2> QED
      BY <1>9, <2>1, <2>2, EmptyIsVacated
  <1> QED
    BY <1>9, <1>10 DEF t, s

(* track_flatten                                                           *)
TrackStep(a, g, i) == TempFlattened(g, a.tr, <<a.tr, a.list[i]>>, a.song)

FlatGood(a, g) == Sound(g.song) /\ Kept(a.song, g.song) /\ Silent(a.song, g.song)

TrackGood(a, E, g) ==
    /\ FlatGood(a, g) /\ (g.ok => a.ok)
    /\ Steady(a.song) /\ g.ok => \A i \in E : Vacated(g.song, <<a.tr, a.list[i]>>)

TrackFold == INSTANCE FoldFacts WITH Step <- TrackStep, Sel <- ByMin, Good <- TrackGood

(* What a successful flattening of a track has emptied stays empty.        *)
LEMMA TrackGoesOn ==
    ASSUME NEW a, NEW D, Sound(a.song), a.tr \in Track,
           \A i \in D : a.list[i] = i /\ <<a.tr, i>> \in TempChannel,
           NEW E \in SUBSET D, NEW k \in E, NEW g, TrackGood(a, E \ {k}, g)
    PROVE  TrackGood(a, E, TrackStep(a, g, k))
  <1> DEFINE tr == a.tr
             temp == <<a.tr, k>>
             h == TempFlattened(g, tr, temp, a.song)
  <1>1. Sound(g.song) /\ Kept(a.song, g.song) /\ Silent(a.song, g.song) /\ (g.ok => a.ok)
    BY DEF TrackGood, FlatGood
  <1>2. temp \in TempChannel /\ temp[1] = tr /\ tr \in Track
    OBVIOUS
  <1>3. TrackStep(a, g, k) = h
    BY DEF TrackStep
  <1> HIDE DEF temp, h, tr
  <1>4. /\ Sound(h.song) /\ Kept(g.song, h.song) /\ Silent(g.song, h.song)
        /\ h.ok => g.ok /\ Vacated(h.song, temp)
    BY <1>1, <1>2, TempFlattenedIs DEF h
  <1>5. Kept(a.song, h.song) /\ Silent(a.song, h.song)
    BY <1>1, <1>4, SilentOn
  <1>6. ASSUME Steady(a.song), h.ok, NEW i \in E
        PROVE  Vacated(h.song, <<a.tr, a.list[i]>>)
    <2>1. CASE i = k
      <3>1. <<a.tr, a.list[i]>> = temp
        BY <2>1 DEF temp
      <3> QED
        BY <1>4, <1>6, <3>1
    <2>2. CASE i # k
      <3> DEFINE ch == <<a.tr, a.list[i]>>
      <3>1. Vacated(g.song, ch) /\ ch \in TempChannel
        BY <1>4, <1>6, <2>2 DEF TrackGood
      <3>2. Steady(g.song)
        BY <1>1, <1>6 DEF Silent, Quiet
      <3> HIDE DEF ch
      <3>3. Vacated(h.song, ch)
        BY <1>1, <1>4, <3>1, <3>2, VacatedStays
      <3> QED
        BY <3>3 DEF ch
    <2> QED
      BY <2>1, <2>2
  <1> QED
    BY <1>1, <1>3, <1>4, <1>5, <1>6 DEF TrackGood, FlatGood

(* No note of the song is on a temporary channel of the track.             *)
Moved(s, tr) == \A k \in 1 .. Cardinality(Note) : Vacated(s, <<tr, k>>)

LEMMA TrackFlattenedIs ==
    ASSUME NEW f, Sound(f.song), NEW tr \in Track
    PROVE  LET t == TrackFlattened(f, tr) IN
           /\ Sound(t.song) /\ Kept(f.song, t.song) /\ Silent(f.song, t.song)
           /\ t.ok => f.ok
           /\ Steady(f.song) /\ t.ok => Moved(t.song, tr)
  <1> DEFINE s == f.song
             T == s.temps[tr]
             D == 1 .. T
             q == [k \in 1 .. T |-> k]
             a == [song |-> s, list |-> q, tr |-> tr, ok |-> f.ok]
             t == TrackFlattened(f, tr)
  <1>1. T \in 0 .. Cardinality(Note) /\ T \in Nat /\ Cardinality(Note) \in Nat
    BY SongAssumption, FS_CardinalityType DEF Sound, Core, Temps
  <1>2. /\ a.song = s /\ a.list = q /\ a.tr = tr /\ a.ok = f.ok
        /\ DOMAIN q = D /\ \A k \in D : q[k] = k
    OBVIOUS
  <1>3. t = FoldRight(LAMBDA k, g : TempFlattened(g, tr, <<tr, k>>, s), q, f)
    BY DEF TrackFlattened
  <1> HIDE DEF a, q, t, T
  <1>4. t = TrackFold!Fold(a, f, D)
    BY <1>2, <1>3 DEF FoldRight, MapThenFoldSet, TrackFold!Fold, TrackFold!IsFold, TrackStep, ByMin
  <1>5. TrackGood(a, {}, f)
    BY <1>2, SilentSelf DEF TrackGood, FlatGood
  <1>6. \A E \in SUBSET D : E # {} => ByMin(a, E) \in E
    BY <1>1, LastIndex
  <1>7. \A k \in 1 .. Cardinality(Note) : <<tr, k>> \in TempChannel
    BY ChannelKinds
  <1>8. \A i \in D : i \in 1 .. Cardinality(Note)
    BY <1>1
  <1>9. \A i \in D : a.list[i] = i /\ <<a.tr, i>> \in TempChannel
    BY <1>2, <1>7, <1>8
  <1>10. TrackGood(a, D, TrackFold!Fold(a, f, D))
    <2>1. IsFiniteSet(D)
      BY <1>1, FS_Interval
    <2>2. TrackFold!IsFiniteSet(D)
      BY <2>1 DEF IsFiniteSet, TrackFold!IsFiniteSet
    <2>3. Sound(a.song) /\ a.tr \in Track
      BY <1>2
    <2> HIDE DEF D
    <2>4. \A E \in SUBSET D : \A g :
             E # {} /\ TrackGood(a, E \ {ByMin(a, E)}, g)
                => TrackGood(a, E, TrackStep(a, g, ByMin(a, E)))
      BY <1>6, <1>9, <2>3, TrackGoesOn
    <2> QED
      BY <1>5, <1>6, <2>2, <2>4, TrackFold!FoldGood
  <1>11. Sound(t.song) /\ Kept(s, t.song) /\ Silent(s, t.song) /\ (t.ok => f.ok)
    BY <1>2, <1>4, <1>10 DEF TrackGood, FlatGood
  <1>12. ASSUME Steady(s), t.ok, NEW k \in 1 .. Cardinality(Note)
         PROVE  Vacated(t.song, <<tr, k>>)
    <2>1. CASE k \in D
      BY <1>2, <1>4, <1>10, <1>12, <2>1 DEF TrackGood
    <2>2. CASE k \notin D
      <3> DEFINE ch == <<tr, k>>
      <3>1. ch \in TempChannel /\ ch[1] = tr /\ ch[2] = k
        BY <1>7, <1>12
      <3> HIDE DEF ch
      <3>2. Vacated(s, ch)
        <4> SUFFICES ASSUME NEW n \in Used(s), s.notes[n].ch = ch PROVE FALSE
          BY DEF Vacated
        <4>1. ch[1] = s.notes[n].track
          BY <1>12, <3>1 DEF Steady
        <4>2. ch[2] <= s.temps[tr]
          BY <3>1, <4>1 DEF Sound, Core, Temps
        <4> QED
          BY <1>12, <2>2, <3>1, <4>2 DEF T
      <3>3. Vacated(t.song, ch)
        BY <1>11, <1>12, <3>1, <3>2, VacatedStays
      <3> QED
        BY <3>3 DEF ch
    <2> QED
      BY <2>1, <2>2
  <1>13. Steady(s) /\ t.ok => Moved(t.song, tr)
    BY <1>12 DEF Moved
  <1> QED
    BY <1>11, <1>13 DEF t

(* file_flatten                                                            *)
FileStep(a, g, i) == TrackFlattened(g, a.list[i])

FileGood(a, E, g) == FlatGood(a, g) /\ (Steady(a.song) /\ g.ok => \A tr \in E : Moved(g.song, tr))

FileFold == INSTANCE FoldFacts WITH Step <- FileStep, Sel <- ByMax, Good <- FileGood

LEMMA FileGoesOn ==
    ASSUME NEW a, Sound(a.song), NEW D, D \subseteq Track, \A i \in D : a.list[i] = i,
           NEW E \in SUBSET D, NEW tr \in E, NEW g, FileGood(a, E \ {tr}, g)
    PROVE  FileGood(a, E, FileStep(a, g, tr))
  <1> DEFINE h == TrackFlattened(g, tr)
  <1>1. Sound(g.song) /\ Kept(a.song, g.song) /\ Silent(a.song, g.song) /\ tr \in Track
    BY DEF FileGood, FlatGood
  <1>2. FileStep(a, g, tr) = h
    BY DEF FileStep
  <1> HIDE DEF h
  <1>3. /\ Sound(h.song) /\ Kept(g.song, h.song) /\ Silent(g.song, h.song)
        /\ h.ok => g.ok
        /\ Steady(g.song) /\ h.ok => Moved(h.song, tr)
    BY <1>1, TrackFlattenedIs DEF h
  <1>4. Kept(a.song, h.song) /\ Silent(a.song, h.song)
    BY <1>1, <1>3, SilentOn
  <1>5. Steady(a.song) => Steady(g.song)
    BY <1>1 DEF Silent, Quiet
  <1>6. ASSUME Steady(a.song), h.ok, NEW o \in E, o # tr
        PROVE  Moved(h.song, o)
    <2> SUFFICES ASSUME NEW k \in 1 .. Cardinality(Note) PROVE Vacated(h.song, <<o, k>>)
      BY DEF Moved
    <2> DEFINE ch == <<o, k>>
    <2>1. ch \in TempChannel
      BY ChannelKinds
    <2>2. Vacated(g.song, ch)
      BY <1>3, <1>6 DEF FileGood, Moved
    <2> HIDE DEF ch
    <2>3. Vacated(h.song, ch)
      BY <1>1, <1>3, <1>5, <1>6, <2>1, <2>2, VacatedStays
    <2> QED
      BY <2>3 DEF ch
  <1> QED
    BY <1>2, <1>3, <1>4, <1>5, <1>6 DEF FileGood, FlatGood

LEMMA FlattenedIs ==
    ASSUME NEW s, Sound(s)
    PROVE  LET f == Flattened(s) IN
           /\ Sound(f.song) /\ Kept(s, f.song) /\ Silent(s, f.song)
           /\ Steady(s) /\ f.ok => \A n \in Used(s) : f.song.notes[n].ch \in FileChannel
  <1> DEFINE q == [tr \in Track |-> tr]
             a == [song |-> s, list |-> q]
             f == [song |-> s, ok |-> TRUE]
             D == Track
             t == Flattened(s)
  <1>1. Tracks \in Nat /\ IsFiniteSet(D)
    BY SongAssumption, FS_Interval DEF Track
  <1>2. a.song = s /\ a.list = q /\ f.song = s /\ DOMAIN q = D /\ \A k \in D : q[k] = k
    OBVIOUS
  <1>3. t = FoldLeft(TrackFlattened, f, q)
    BY DEF Flattened
  <1> HIDE DEF a, q, f, t
  <1>4. t = FileFold!Fold(a, f, D)
    BY <1>2, <1>3 DEF FoldLeft, MapThenFoldSet, FileFold!Fold, FileFold!IsFold, FileStep, ByMax
  <1>5. FileGood(a, {}, f)
    BY <1>2, SilentSelf DEF FileGood, FlatGood
  <1>6. \A E \in SUBSET D : E # {} => ByMax(a, E) \in E
    BY <1>1, LastIndex DEF Track
  <1>7. FileGood(a, D, FileFold!Fold(a, f, D))
    <2>1. FileFold!IsFiniteSet(D)
      BY <1>1 DEF IsFiniteSet, FileFold!IsFiniteSet
    <2>2. Sound(a.song) /\ D \subseteq Track /\ \A i \in D : a.list[i] = i
      BY <1>2
    <2> HIDE DEF D
    <2>3. \A E \in SUBSET D : \A g :
             E # {} /\ FileGood(a, E \ {ByMax(a, E)}, g)
                => FileGood(a, E, FileStep(a, g, ByMax(a, E)))
      BY <1>6, <2>2, FileGoesOn
    <2> QED
      BY <1>5, <1>6, <2>1, <2>3, FileFold!FoldGood
  <1>8. /\ Sound(t.song) /\ Kept(s, t.song) /\ Silent(s, t.song)
        /\ Steady(s) /\ t.ok => \A tr \in Track : Moved(t.song, tr)
    BY <1>2, <1>4, <1>7 DEF FileGood, FlatGood
  <1>9. ASSUME Steady(s), t.ok, NEW n \in Used(s)
        PROVE  t.song.notes[n].ch \in FileChannel
    <2> DEFINE ch == t.song.notes[n].ch
    <2>1. n \in Used(t.song)
      BY <1>8 DEF Kept
    <2>2. ch \in Channel
      BY <1>8, <2>1, NotesAreTimed DEF Timed
    <2>3. \A tr \in Track : \A k \in 1 .. Cardinality(Note) : ch # <<tr, k>>
      BY <1>8, <1>9, <2>1 DEF Moved, Vacated
    <2> HIDE DEF ch
    <2>4. ch \in FileChannel
      BY <2>2, <2>3 DEF Channel, TempChannel
    <2> QED
      BY <2>4 DEF ch
  <1> QED
    BY <1>8, <1>9 DEF t

(* file_commit                                                             *)
LEMMA CommittedIs ==
    ASSUME NEW s, Sound(s)
    PROVE  Sound(Committed(s)) /\ Used(Committed(s)) = Used(s) /\ Quiet(s, Committed(s))
  <1> DEFINE u == Flattened(s).song
             rev == [notes |-> u.notes, chan |-> u.chan, wheel |-> u.wheel, parent |-> s.tip]
             c == [u EXCEPT !.revs = Append(@, rev), !.tip = Len(s.revs) + 1]
             t == Committed(s)
  <1>1. Sound(u) /\ Used(u) = Used(s) /\ Quiet(s, u)
    BY FlattenedIs DEF Kept, Silent
  <1>2. t = u \/ t = c
    BY DEF Committed
  <1> HIDE DEF u, t
  <1>3. CASE t = c
    <2> HIDE DEF rev
    <2>1. /\ DOMAIN c = DOMAIN u /\ c.notes = u.notes /\ c.chan = u.chan /\ c.temps = u.temps
          /\ c.usage = u.usage /\ c.wheel = u.wheel /\ c.revs = Append(u.revs, rev)
      BY <1>1 DEF Sound, Core, IsSong
    <2>2. PICK S : u.revs \in Seq(S)
      BY <1>1 DEF Sound, Core, IsSong
    <2> HIDE DEF c
    <2>3. c.revs \in Seq(S \cup {rev})
      <3>1. u.revs \in Seq(S \cup {rev})
        BY <2>2
      <3> QED
        BY <2>1, <3>1
    <2>4. IsSong(c)
      BY <1>1, <2>1, <2>3 DEF Sound, Core, IsSong
    <2>5. Used(c) = Used(u)
      BY <2>1 DEF Used
    <2>6. Sound(c)
      BY <1>1, <2>1, <2>4, <2>5 DEF Sound, Core
    <2>7. Quiet(u, c)
      BY <2>1, <2>5, SteadyToo DEF Quiet
    <2>8. Quiet(s, c)
      BY <1>1, <2>5, <2>7, QuietOn
    <2> QED
      BY <1>1, <1>3, <2>5, <2>6, <2>8 DEF t
  <1> QED
    BY <1>1, <1>2, <1>3 DEF t
-----------------------------------------------------------------------------
(* A song without notes is sound, and so is what any edit makes of one.    *)
THEOREM EmptyIsSound == Sound(Empty)
  <1>1. /\ DOMAIN Empty.notes = Note /\ \A n \in Note : Empty.notes[n] = NULL
        /\ Used(Empty) = {}
    BY DEF Empty, Used
  <1>2. IsSong(Empty)
    <2>1. Empty.revs \in Seq({})
      BY DEF Empty
    <2> QED
      BY <2>1 DEF Empty, IsSong
  <1>3. Trees(Empty.notes, Empty.chan, {})
    <2> DEFINE C == Empty.chan
    <2>1. DOMAIN C = Channel /\ IsFun(C) /\ \A ch \in Channel : C[ch] = <<>>
      BY DEF Empty, IsFun
    <2> HIDE DEF C
    <2>2. \A ch : In(Empty.notes, {}, ch) = {}
      BY DEF In
    <2>3. ListOf(<<>>, {}) /\ Sorted(Empty.notes, <<>>)
      BY DEF ListOf, Sorted
    <2>4. Trees(Empty.notes, C, {})
      BY <2>1, <2>2, <2>3 DEF Trees
    <2> QED
      BY <2>4 DEF C
  <1>4. Counts(Empty.notes, Empty.usage, {})
    <2> DEFINE N == Empty.notes
               U == Empty.usage
    <2>1. /\ DOMAIN U = Track /\ IsFun(U)
          /\ \A tr \in Track : /\ DOMAIN U[tr] = FileChannel /\ IsFun(U[tr])
                                /\ \A ch \in FileChannel : U[tr][ch] = 0
      BY DEF Empty, IsFun
    <2> HIDE DEF N, U
    <2>2. \A tr, ch : OfTrackIn(N, {}, tr, ch) = {}
      BY DEF OfTrackIn
    <2>3. Counts(N, U, {})
      BY <2>1, <2>2, FS_EmptySet DEF Counts
    <2> QED
      BY <2>3 DEF N, U
  <1>5. Temps(Empty.notes, Empty.temps, {})
    <2>1. Cardinality(Note) \in Nat
      BY SongAssumption, FS_CardinalityType
    <2> QED
      BY <2>1 DEF Empty, Temps, IsFun
  <1>6. Known(Empty.notes, {}) /\ Apart(Empty.notes, {})
    BY <1>1 DEF Known, Apart
  <1> HIDE DEF Empty
  <1> QED
    BY <1>1, <1>2, <1>3, <1>4, <1>5, <1>6 DEF Sound, Core

(* Its wheels are at rest.                                                 *)
THEOREM EmptyIsSteady == Steady(Empty)
  <1>1. Used(Empty) = {}
    BY DEF Empty, Used
  <1>2. DOMAIN Empty.wheel = Channel /\ \A ch \in Channel : DOMAIN Empty.wheel[ch] = {}
    BY DEF Empty
  <1> HIDE DEF Empty
  <1> QED
    BY <1>1, <1>2 DEF Steady, Wheels, IsWheel

LEMMA EditIsSound ==
    ASSUME Sound(song), Edit
    PROVE  Sound(song')
  <1>1. ASSUME NEW n \in Note, NEW tr \in Track, NEW s \in Span, NEW p \in Pitch,
               TrackInsert(n, tr, s[1], s[2], p)
        PROVE  Sound(song')
    <2>1. s[1] \in Nat /\ s[2] \in Nat /\ s[1] < s[2]
      BY SongAssumption DEF Time
    <2> DEFINE beg == s[1]
               end == s[2]
    <2>2. n \notin Used(song) /\ song' = TrackInserted(song, n, tr, beg, end, p)
      BY <1>1 DEF TrackInsert, Free
    <2>3. beg \in Nat /\ end \in Nat /\ beg < end
      BY <2>1
    <2> HIDE DEF beg, end
    <2> QED
      BY <2>2, <2>3, TrackInsertedIs
  <1>2. ASSUME NEW n \in Note, EraseNote(n)
        PROVE  Sound(song')
    BY <1>2, ErasedIs DEF EraseNote
  <1>3. ASSUME NEW n \in Note, IsolateNote(n)
        PROVE  Sound(song')
    BY <1>3, IsolatedIs DEF IsolateNote
  <1>4. ASSUME NEW n \in Note, NEW p \in Pitch, NoteSetPitch(n, p)
        PROVE  Sound(song')
    BY <1>4, PitchSetIs DEF NoteSetPitch
  <1>5. ASSUME NEW n \in Note, NEW d \in Note, NEW tr \in Track, NEW dt \in Shift,
               NEW p \in Pitch, CopyNote(n, d, tr, dt, p)
        PROVE  Sound(song')
    <2>1. n \in Used(song) /\ d \notin Used(song) /\ song' = Copied(song, n, d, tr, dt, p)
      BY <1>5 DEF CopyNote, Free
    <2>2. /\ song.notes[n].on + dt \in Nat /\ song.notes[n].off + dt \in Nat
          /\ song.notes[n].on + dt < song.notes[n].off + dt
      <3> DEFINE s == <<song.notes[n].on + dt, song.notes[n].off + dt>>
      <3>1. s \in Span
        BY <1>5 DEF CopyNote
      <3>2. s[1] \in Nat /\ s[2] \in Nat /\ s[1] < s[2]
        BY <3>1, SongAssumption DEF Time
      <3> QED
        BY <3>2
    <2> QED
      BY <2>1, <2>2, CopiedIs
  <1>6. ASSUME NEW tr \in Track, TrackClear(tr)
        PROVE  Sound(song')
    <2> DEFINE S == {n \in Used(song) : song.notes[n].track = tr}
    <2>1. S \in SUBSET Used(song) /\ song' = FoldLeft(Erased, song, SetToSeq(S))
      BY <1>6 DEF TrackClear
    <2> HIDE DEF S
    <2> QED
      BY <2>1, ClearedIs
  <1>7. ASSUME FileFlatten
        PROVE  Sound(song')
    BY <1>7, FlattenedIs DEF FileFlatten
  <1>8. ASSUME FileCommit
        PROVE  Sound(song')
    BY <1>8, CommittedIs DEF FileCommit
  <1> QED
    BY <1>1, <1>2, <1>3, <1>4, <1>5, <1>6, <1>7, <1>8 DEF Edit

(* Whatever is edited, flattened and committed, the song stays sound.      *)
THEOREM StaysSound ==
    ASSUME \A s \in Songs : Sound(s)
    PROVE  EditSpec => []Sound(song)
  <1>1. Init => Sound(song)
    BY DEF Init
  <1>2. Sound(song) /\ [Edit]_song => Sound(song)'
    <2> SUFFICES ASSUME Sound(song), [Edit]_song PROVE Sound(song')
      OBVIOUS
    <2> QED
      BY EditIsSound
  <1> QED
    BY <1>1, <1>2, PTL DEF EditSpec

-----------------------------------------------------------------------------
(* A note is heard as it was, or it comes with or after the note that was  *)
(* given a pitch, on its channel.                                          *)
Unheard == \A n \in Used(song) \cap Used(song') : Same(song, song', n)

HeardAfter(m) ==
    \A n \in Used(song) \cap Used(song') : Same(song, song', n) \/ LaterOn(song', m, n)

LEMMA CopyKeepsSpan ==
    ASSUME NEW n \in Note, NEW d \in Note, NEW tr \in Track, NEW dt \in Shift,
           NEW p \in Pitch, CopyNote(n, d, tr, dt, p)
    PROVE  /\ dt \in Int
           /\ song.notes[n].on + dt \in Nat /\ song.notes[n].off + dt \in Nat
           /\ song.notes[n].on + dt < song.notes[n].off + dt
  <1> DEFINE s == <<song.notes[n].on + dt, song.notes[n].off + dt>>
  <1>1. s \in Span
    BY DEF CopyNote
  <1>2. s[1] \in Nat /\ s[2] \in Nat /\ s[1] < s[2]
    BY <1>1, SongAssumption DEF Time
  <1>3. dt \in Int
    BY SongAssumption
  <1> QED
    BY <1>2, <1>3

LEMMA EditIsSteady ==
    ASSUME Sound(song), Steady(song), Edit
    PROVE  /\ Steady(song')
           /\ Unheard \/ \E m \in Used(song') : GivesPitch(m) /\ HeardAfter(m)
  <1>1. ASSUME NEW n \in Note, NEW tr \in Track, NEW s \in Span, NEW p \in Pitch,
               TrackInsert(n, tr, s[1], s[2], p)
        PROVE  Steady(song') /\ Unheard
    <2> DEFINE beg == s[1]
               end == s[2]
    <2>1. s[1] \in Nat /\ s[2] \in Nat /\ s[1] < s[2]
      BY SongAssumption DEF Time
    <2>2. n \notin Used(song) /\ song' = TrackInserted(song, n, tr, beg, end, p)
      BY <1>1 DEF TrackInsert, Free
    <2>3. beg \in Nat /\ end \in Nat /\ beg < end
      BY <2>1
    <2> HIDE DEF beg, end
    <2>4. Steady(song') /\ \A m \in Used(song) : Same(song, song', m)
      BY <2>2, <2>3, TrackInsertedSteady
    <2> QED
      BY <2>4 DEF Unheard
  <1>2. ASSUME NEW n \in Note, EraseNote(n)
        PROVE  Steady(song') /\ Unheard
    <2>1. n \in Used(song) /\ song' = Erased(song, n)
      BY <1>2 DEF EraseNote
    <2>2. Quiet(song, song')
      BY <2>1, ErasedQuiet
    <2> QED
      BY <2>2 DEF Quiet, Unheard
  <1>3. ASSUME NEW n \in Note, IsolateNote(n)
        PROVE  Steady(song') /\ Unheard
    <2>1. n \in Used(song) /\ song' = Isolated(song, n)
      BY <1>3 DEF IsolateNote
    <2>2. Steady(song') /\ \A m \in Used(song) : Same(song, song', m)
      BY <2>1, IsolatedSteady
    <2> QED
      BY <2>2 DEF Unheard
  <1>4. ASSUME NEW n \in Note, NEW p \in Pitch, NoteSetPitch(n, p)
        PROVE  /\ Steady(song')
               /\ \E m \in Used(song') : GivesPitch(m) /\ HeardAfter(m)
    <2>1. n \in Used(song) /\ song' = PitchSet(song, n, p)
      BY <1>4 DEF NoteSetPitch
    <2>2. /\ Steady(song')
          /\ \A m \in Used(song) : Same(song, song', m) \/ LaterOn(song', n, m)
      BY <2>1, PitchSetSteady
    <2>3. n \in Used(song')
      BY <2>1, PitchSetIs DEF Kept
    <2>4. GivesPitch(n)
      BY <1>4 DEF GivesPitch
    <2>5. HeardAfter(n)
      BY <2>2 DEF HeardAfter
    <2> QED
      BY <2>2, <2>3, <2>4, <2>5
  <1>5. ASSUME NEW n \in Note, NEW d \in Note, NEW tr \in Track, NEW dt \in Shift,
               NEW p \in Pitch, CopyNote(n, d, tr, dt, p)
        PROVE  /\ Steady(song')
               /\ \E m \in Used(song') : GivesPitch(m) /\ HeardAfter(m)
    <2>1. n \in Used(song) /\ d \notin Used(song) /\ song' = Copied(song, n, d, tr, dt, p)
      BY <1>5 DEF CopyNote, Free
    <2>2. /\ dt \in Int
          /\ song.notes[n].on + dt \in Nat /\ song.notes[n].off + dt \in Nat
          /\ song.notes[n].on + dt < song.notes[n].off + dt
      BY <1>5, CopyKeepsSpan
    <2>3. /\ Steady(song') /\ d \in Used(song')
          /\ \A m \in Used(song) : Same(song, song', m) \/ LaterOn(song', d, m)
      BY <2>1, <2>2, CopiedSteady
    <2>4. GivesPitch(d)
      BY <1>5 DEF GivesPitch
    <2>5. HeardAfter(d)
      BY <2>3 DEF HeardAfter
    <2> QED
      BY <2>3, <2>4, <2>5
  <1>6. ASSUME NEW tr \in Track, TrackClear(tr)
        PROVE  Steady(song') /\ Unheard
    <2> DEFINE S == {n \in Used(song) : song.notes[n].track = tr}
    <2>1. S \in SUBSET Used(song) /\ song' = FoldLeft(Erased, song, SetToSeq(S))
      BY <1>6 DEF TrackClear
    <2> HIDE DEF S
    <2>2. Quiet(song, song')
      BY <2>1, ClearedIs
    <2> QED
      BY <2>2 DEF Quiet, Unheard
  <1>7. ASSUME FileFlatten
        PROVE  Steady(song') /\ Unheard
    <2>1. Quiet(song, song')
      BY <1>7, FlattenedIs DEF FileFlatten, Silent
    <2> QED
      BY <2>1 DEF Quiet, Unheard
  <1>8. ASSUME FileCommit
        PROVE  Steady(song') /\ Unheard
    <2>1. Quiet(song, song')
      BY <1>8, CommittedIs DEF FileCommit
    <2> QED
      BY <2>1 DEF Quiet, Unheard
  <1> QED
    BY <1>1, <1>2, <1>3, <1>4, <1>5, <1>6, <1>7, <1>8 DEF Edit

(* Songs whose wheels are at rest during the notes stay so: in a track's   *)
(* temporary channels every change of the wheel is where a note begins or  *)
(* ends.                                                                   *)
THEOREM StaysSteady ==
    ASSUME \A s \in Songs : Sound(s) /\ Steady(s)
    PROVE  EditSpec => [](Sound(song) /\ Steady(song))
  <1>1. Init => Sound(song) /\ Steady(song)
    BY DEF Init
  <1>2. Sound(song) /\ Steady(song) /\ [Edit]_song => (Sound(song) /\ Steady(song))'
    <2> SUFFICES ASSUME Sound(song), Steady(song), [Edit]_song
                 PROVE  Sound(song') /\ Steady(song')
      OBVIOUS
    <2> QED
      BY EditIsSound, EditIsSteady
  <1> QED
    BY <1>1, <1>2, PTL DEF EditSpec

-----------------------------------------------------------------------------
(* What a sound song promises.                                             *)
LEMMA OnceInList ==
    ASSUME NEW l, NEW X, ListOf(l, X), NEW n
    PROVE  Cardinality({i \in DOMAIN l : l[i] = n}) = IF n \in X THEN 1 ELSE 0
  <1> DEFINE S == {i \in DOMAIN l : l[i] = n}
  <1>1. l \in Seq(X) /\ DOMAIN l = 1 .. Len(l)
    BY DEF ListOf
  <1>2. CASE n \in X
    <2>1. PICK i \in 1 .. Len(l) : l[i] = n
      BY <1>2 DEF ListOf
    <2>2. S = {i}
      BY <1>1, <2>1 DEF ListOf
    <2> QED
      BY <1>2, <2>2, FS_Singleton
  <1>3. CASE n \notin X
    <2>1. S = {}
      BY <1>1, <1>3
    <2> QED
      BY <1>3, <2>1, FS_EmptySet
  <1> QED
    BY <1>2, <1>3

LEMMA InOrderIsSorted ==
    ASSUME NEW s, NEW ch, DOMAIN s.chan[ch] = 1 .. Len(s.chan[ch])
    PROVE  InOrder(s, ch) <=> Sorted(s.notes, s.chan[ch])
  <1>1. \A m, n : Before(s, m, n) <=> Sooner(s.notes, m, n)
    BY DEF Before, Sooner
  <1> QED
    BY <1>1 DEF InOrder, Sorted

LEMMA SoundTrees ==
    ASSUME Sound(song)
    PROVE  TreesAgree
  <1> SUFFICES ASSUME NEW ch \in Channel
               PROVE  /\ \A n \in Used(song) :
                            Cardinality({i \in DOMAIN song.chan[ch] : song.chan[ch][i] = n})
                               = IF song.notes[n].ch = ch THEN 1 ELSE 0
                      /\ InOrder(song, ch)
    BY DEF TreesAgree
  <1>1. /\ ListOf(song.chan[ch], In(song.notes, Used(song), ch))
        /\ Sorted(song.notes, song.chan[ch]) /\ DOMAIN song.chan[ch] = 1 .. Len(song.chan[ch])
    BY CoreTree DEF Sound, Core, Trees
  <1>2. \A n \in Used(song) : n \in In(song.notes, Used(song), ch) <=> song.notes[n].ch = ch
    BY DEF In
  <1>3. ASSUME NEW n \in Used(song)
        PROVE  Cardinality({i \in DOMAIN song.chan[ch] : song.chan[ch][i] = n})
                  = IF song.notes[n].ch = ch THEN 1 ELSE 0
    <2> DEFINE count == Cardinality({i \in DOMAIN song.chan[ch] : song.chan[ch][i] = n})
    <2>1. count = IF n \in In(song.notes, Used(song), ch) THEN 1 ELSE 0
      BY <1>1, OnceInList
    <2> HIDE DEF count
    <2> QED
      BY <1>2, <2>1 DEF count
  <1>4. InOrder(song, ch)
    BY <1>1, InOrderIsSorted
  <1> QED
    BY <1>3, <1>4

LEMMA SoundUsage ==
    ASSUME Sound(song)
    PROVE  UsageCounts
  BY DEF Sound, Core, Counts, OfTrackIn, UsageCounts

LEMMA SoundChannels ==
    ASSUME Sound(song)
    PROVE  TempsAreExclusive /\ ChannelsPlay
  <1> SUFFICES ASSUME NEW m \in Used(song), NEW n \in Used(song), m # n,
                      song.notes[m].ch = song.notes[n].ch, Overlap(song, m, n)
               PROVE  song.notes[m].ch \in FileChannel /\ Fit(song.notes, m, n)
    BY DEF TempsAreExclusive, ChannelsPlay, Fit
  <1> QED
    BY DEF Sound, Core, Apart, Room, Clash, Overlap

LEMMA SoundPointers ==
    ASSUME Sound(song)
    PROVE  NotesHaveChannels
  BY KnownIs, SongAssumption DEF Sound, Core, NotesHaveChannels

(* A note is in the tree of one channel, once, the channel it points to,   *)
(* at its place in the order, however often it was edited or flattened.    *)
THEOREM TreesStayRight ==
    ASSUME \A s \in Songs : Sound(s)
    PROVE  EditSpec => []TreesAgree
  BY StaysSound, SoundTrees, PTL

(* channel_usage counts the notes that each track has in each channel.     *)
THEOREM UsageStaysRight ==
    ASSUME \A s \in Songs : Sound(s)
    PROVE  EditSpec => []UsageCounts
  BY StaysSound, SoundUsage, PTL

(* A note sounds alone in a temporary channel.                             *)
THEOREM TempsStayExclusive ==
    ASSUME \A s \in Songs : Sound(s)
    PROVE  EditSpec => []TempsAreExclusive
  BY StaysSound, SoundChannels, PTL

(* Notes that sound on one channel of the file have one track and          *)
(* different keys.                                                         *)
THEOREM ChannelsStayPlayable ==
    ASSUME \A s \in Songs : Sound(s)
    PROVE  EditSpec => []ChannelsPlay
  BY StaysSound, SoundChannels, PTL

(* What runs SongUndo and SongOrder find, a note without a channel and a   *)
(* note that bst_find does not find, no edit does: it takes file_update.   *)
THEOREM EditsKeepChannels ==
    ASSUME \A s \in Songs : Sound(s)
    PROVE  EditSpec => [](NotesHaveChannels /\ NotesAreFound)
  <1>1. Sound(song) => NotesHaveChannels /\ NotesAreFound
    BY SoundPointers, SoundTrees DEF TreesAgree, NotesAreFound
  <1> QED
    BY <1>1, StaysSound, PTL

LEMMA SoundTypes ==
    ASSUME Sound(song), Steady(song)
    PROVE  TypeOK
  <1> DEFINE N == song.notes
             C == song.chan
             U == song.usage
             T == song.temps
             W == song.wheel
             X == Used(song)
  <1>1. Known(N, X) /\ Trees(N, C, X) /\ Counts(N, U, X) /\ Temps(N, T, X) /\ Wheels(W)
    BY DEF Sound, Core, Steady
  <1>2. \A n \in Note : N[n] \in Notes \cup {NULL}
    BY <1>1 DEF Known, Used
  <1> HIDE DEF N, C, U, T, W, X
  <1>3. C \in [Channel -> Seq(X)]
    <2>1. ASSUME NEW ch \in Channel PROVE C[ch] \in Seq(X)
      <3>1. C[ch] \in Seq(In(N, X, ch)) /\ In(N, X, ch) \subseteq X
        BY <1>1 DEF Trees, ListOf, In
      <3> QED
        BY <3>1
    <2> QED
      BY <1>1, <2>1 DEF Trees, IsFun
  <1>4. U \in [Track -> [FileChannel -> Nat]]
    <2>1. ASSUME NEW tr \in Track PROVE U[tr] \in [FileChannel -> Nat]
      <3>1. IsFiniteSet(X)
        BY <1>1, FS_Subset, SongAssumption DEF Known
      <3>2. ASSUME NEW ch \in FileChannel PROVE U[tr][ch] \in Nat
        <4>1. IsFiniteSet(OfTrackIn(N, X, tr, ch))
          BY <3>1, FS_Subset DEF OfTrackIn
        <4>2. Cardinality(OfTrackIn(N, X, tr, ch)) \in Nat
          BY <4>1, FS_CardinalityType
        <4> QED
          BY <1>1, <4>2 DEF Counts
      <3>3. DOMAIN U[tr] = FileChannel /\ IsFun(U[tr])
        BY <1>1 DEF Counts
      <3> QED
        BY <3>2, <3>3 DEF IsFun
    <2>2. DOMAIN U = Track /\ IsFun(U)
      BY <1>1 DEF Counts
    <2> QED
      BY <2>1, <2>2 DEF IsFun
  <1>5. T \in [Track -> 0 .. Cardinality(Note)]
    BY <1>1 DEF Temps, IsFun
  <1>6. /\ DOMAIN W = Channel
        /\ \A ch \in Channel : DOMAIN W[ch] \subseteq Time /\ Range(W[ch]) \subseteq Int
    BY <1>1 DEF Wheels, IsWheel, Time, Range
  <1> QED
    BY <1>2, <1>3, <1>4, <1>5, <1>6 DEF TypeOK, N, C, U, T, W, X

(* TypeOK: an edited song has its records, lists, counts and wheels.       *)
THEOREM TypesStayRight ==
    ASSUME \A s \in Songs : Sound(s) /\ Steady(s)
    PROVE  EditSpec => []TypeOK
  BY StaysSteady, SoundTypes, PTL

LEMMA SteadyIsSilent ==
    ASSUME Sound(song), Steady(song)
    PROVE  FlattenIsSilent
  <1> DEFINE f == Flattened(song)
  <1>1. /\ Sound(f.song) /\ Kept(song, f.song) /\ Silent(song, f.song)
        /\ Steady(song) /\ f.ok => \A n \in Used(song) : f.song.notes[n].ch \in FileChannel
    BY FlattenedIs
  <1> HIDE DEF f
  <1>2. /\ Steady(f.song) /\ Used(f.song) = Used(song)
        /\ \A n \in Used(song) : Same(song, f.song, n) /\ MovedRight(song, f.song, n)
    BY <1>1 DEF Kept, Silent, Quiet
  <1>3. ASSUME NEW n \in Used(song)
        PROVE  /\ Heard(f.song, n) = Heard(song, n)
               /\ f.song.notes[n].ch # song.notes[n].ch
                    => f.song.notes[n].ch \in {<<0, c>> : c \in Mask[song.notes[n].track]}
               /\ f.ok => f.song.notes[n].ch \in FileChannel
    <2>1. Heard(f.song, n) = Heard(song, n)
      BY <1>1, <1>2, SameHeard
    <2>2. f.song.notes[n].ch # song.notes[n].ch
            => f.song.notes[n].ch \in {<<0, c>> : c \in Mask[song.notes[n].track]}
      BY <1>2 DEF MovedRight, FileChannels
    <2> QED
      BY <1>1, <2>1, <2>2
  <1> QED
    BY <1>3 DEF FlattenIsSilent, f

(* FlattenIsSilent: whatever was edited and committed, flattening is not   *)
(* heard, and takes notes to channels of their track's chanmask only (the  *)
(* code: file_flatten, with can_move and the copies of controllers).       *)
THEOREM FlattenStaysSilent ==
    ASSUME \A s \in Songs : Sound(s) /\ Steady(s)
    PROVE  EditSpec => []FlattenIsSilent
  BY StaysSteady, SteadyIsSilent, PTL

(* What EditsAreLocal says of a step of an edit.                           *)
Local ==
    \A n \in Changed : \E m \in Used(song') :
        /\ GivesPitch(m)
        /\ song'.notes[m].ch = song'.notes[n].ch
        /\ song'.notes[m].on <= song'.notes[n].on

LEMMA EditIsLocal ==
    ASSUME Sound(song), Steady(song), Edit
    PROVE  Local
  <1> SUFFICES ASSUME NEW n \in Changed
               PROVE  \E m \in Used(song') :
                         /\ GivesPitch(m)
                         /\ song'.notes[m].ch = song'.notes[n].ch
                         /\ song'.notes[m].on <= song'.notes[n].on
    BY DEF Local
  <1>1. n \in Used(song) /\ n \in Used(song') /\ Heard(song', n) # Heard(song, n)
    BY DEF Changed
  <1>2. /\ Sound(song') /\ Steady(song')
        /\ Unheard \/ \E m \in Used(song') : GivesPitch(m) /\ HeardAfter(m)
    BY EditIsSound, EditIsSteady
  <1>3. ~Same(song, song', n)
    BY <1>1, <1>2, SameHeard
  <1>4. PICK m \in Used(song') : GivesPitch(m) /\ HeardAfter(m)
    BY <1>1, <1>2, <1>3 DEF Unheard
  <1>5. LaterOn(song', m, n)
    BY <1>1, <1>3, <1>4 DEF HeardAfter
  <1> QED
    BY <1>4, <1>5 DEF LaterOn

(* EditsAreLocal: no edit, flattening or commit is heard of a note that    *)
(* was there before, but for the notes that begin later on the channel of  *)
(* a note that is given a pitch (the code: note_set_pitch and copy_note,   *)
(* whose change of the wheel goes on to the next change of it).            *)
THEOREM EditsStayLocal ==
    ASSUME \A s \in Songs : Sound(s) /\ Steady(s)
    PROVE  EditSpec => EditsAreLocal
  <1>1. Sound(song) /\ Steady(song) /\ [Edit]_song => [Local]_song
    BY EditIsLocal
  <1>2. EditSpec => [][Local]_song
    BY <1>1, StaysSteady, PTL DEF EditSpec
  <1> QED
    BY <1>2, PTL DEF EditsAreLocal, Local

-----------------------------------------------------------------------------
(* The lists that bst_update may make of a channel's nodes: in whatever    *)
(* order they come, they hold those of the revision, once.                 *)
LEMMA ListSet ==
    ASSUME NEW l, NEW X, ListOf(l, X)
    PROVE  /\ ToSet(l) = X /\ DOMAIN l = 1 .. Len(l) /\ Len(l) \in Nat
           /\ \A i \in 1 .. Len(l) : l[i] \in X
  <1>1. l \in Seq(X) /\ \A x \in X : \E i \in 1 .. Len(l) : l[i] = x
    BY DEF ListOf
  <1>2. DOMAIN l = 1 .. Len(l) /\ Len(l) \in Nat /\ \A i \in 1 .. Len(l) : l[i] \in X
    BY <1>1
  <1> QED
    BY <1>1, <1>2 DEF ToSet

LEMMA AppendedList ==
    ASSUME NEW l, NEW X, ListOf(l, X), NEW x, x \notin X
    PROVE  ListOf(Append(l, x), X \cup {x})
  <1> DEFINE k == Append(l, x)
             Y == X \cup {x}
  <1>1. l \in Seq(Y) /\ Len(l) \in Nat /\ \A i \in 1 .. Len(l) : l[i] \in X
    BY ListSet DEF ListOf
  <1>2. /\ k \in Seq(Y) /\ Len(k) = Len(l) + 1 /\ k[Len(l) + 1] = x
        /\ \A i \in 1 .. Len(l) : k[i] = l[i]
    BY <1>1
  <1> HIDE DEF k, Y
  <1>3. ASSUME NEW i \in 1 .. Len(k), NEW j \in 1 .. Len(k), k[i] = k[j]
        PROVE  i = j
    <2>1. CASE i \in 1 .. Len(l) /\ j \in 1 .. Len(l)
      BY <1>2, <1>3, <2>1 DEF ListOf
    <2>2. CASE i = Len(l) + 1 \/ j = Len(l) + 1
      BY <1>1, <1>2, <1>3, <2>2
    <2> QED
      BY <1>1, <1>2, <2>1, <2>2
  <1>4. ASSUME NEW y \in Y PROVE \E i \in 1 .. Len(k) : k[i] = y
    <2>1. CASE y = x
      BY <1>1, <1>2, <2>1
    <2>2. CASE y \in X
      <3>1. PICK i \in 1 .. Len(l) : l[i] = y
        BY <2>2 DEF ListOf
      <3> QED
        BY <1>1, <1>2, <3>1
    <2> QED
      BY <2>1, <2>2 DEF Y
  <1>5. ListOf(k, Y)
    BY <1>2, <1>3, <1>4 DEF ListOf
  <1> QED
    BY <1>5 DEF k, Y

WithoutStep(a, t, i) == IF a.list[i] \in a.out THEN t ELSE Append(t, a.list[i])
WithoutGood(a, E, t) == ListOf(t, {a.list[i] : i \in E} \ a.out)

WithoutFold == INSTANCE FoldFacts WITH Step <- WithoutStep, Sel <- ByMax, Good <- WithoutGood

LEMMA WithoutIs ==
    ASSUME NEW l, NEW X, ListOf(l, X), NEW Y
    PROVE  ListOf(Without(l, Y), X \ Y)
  <1> DEFINE a == [list |-> l, out |-> Y]
             D == 1 .. Len(l)
  <1>1. /\ Len(l) \in Nat /\ DOMAIN l = D /\ X = {l[i] : i \in D}
        /\ \A i, j \in D : l[i] = l[j] => i = j
    <2>1. ToSet(l) = X /\ DOMAIN l = 1 .. Len(l) /\ Len(l) \in Nat
      BY ListSet
    <2> QED
      BY <2>1 DEF ListOf, ToSet
  <1>2. a.list = l /\ a.out = Y
    OBVIOUS
  <1> HIDE DEF a
  <1>3. Without(l, Y) = WithoutFold!Fold(a, <<>>, D)
    BY <1>1, <1>2 DEF Without, FoldLeft, MapThenFoldSet, WithoutFold!Fold,
                      WithoutFold!IsFold, WithoutStep, ByMax
  <1>4. WithoutGood(a, {}, <<>>)
    BY <1>2 DEF WithoutGood, ListOf
  <1>5. \A E \in SUBSET D : E # {} => ByMax(a, E) \in E
    BY <1>1, LastIndex
  <1>6. ASSUME NEW E \in SUBSET D, NEW t, E # {}, WithoutGood(a, E \ {ByMax(a, E)}, t)
        PROVE  WithoutGood(a, E, WithoutStep(a, t, ByMax(a, E)))
    <2> DEFINE m == ByMax(a, E)
               Z == {l[i] : i \in E \ {m}} \ Y
    <2>1. m \in E /\ m \in D
      BY <1>5, <1>6
    <2>2. ListOf(t, Z)
      BY <1>2, <1>6 DEF WithoutGood
    <2> HIDE DEF m
    <2>3. l[m] \notin {l[i] : i \in E \ {m}}
      BY <1>1, <2>1
    <2>4. {l[i] : i \in E} = {l[i] : i \in E \ {m}} \cup {l[m]}
      BY <2>1
    <2>5. CASE l[m] \in Y
      <3>1. {l[i] : i \in E} \ Y = Z
        BY <2>4, <2>5
      <3> HIDE DEF Z
      <3> QED
        BY <1>2, <2>2, <2>5, <3>1 DEF WithoutGood, WithoutStep, m
    <2>6. CASE l[m] \notin Y
      <3>1. {l[i] : i \in E} \ Y = Z \cup {l[m]} /\ l[m] \notin Z
        BY <2>3, <2>4, <2>6
      <3> HIDE DEF Z
      <3>2. ListOf(Append(t, l[m]), Z \cup {l[m]})
        BY <2>2, <3>1, AppendedList
      <3> QED
        BY <1>2, <2>6, <3>1, <3>2 DEF WithoutGood, WithoutStep, m
    <2> QED
      BY <2>5, <2>6
  <1>7. WithoutGood(a, D, WithoutFold!Fold(a, <<>>, D))
    <2>1. WithoutFold!IsFiniteSet(D)
      <3>1. IsFiniteSet(D)
        BY <1>1, FS_Interval
      <3> QED
        BY <3>1 DEF IsFiniteSet, WithoutFold!IsFiniteSet
    <2> HIDE DEF D
    <2>2. \A E \in SUBSET D : \A t :
             E # {} /\ WithoutGood(a, E \ {ByMax(a, E)}, t)
                => WithoutGood(a, E, WithoutStep(a, t, ByMax(a, E)))
      BY <1>6
    <2> QED
      BY <1>4, <1>5, <2>1, <2>2, WithoutFold!FoldGood
  <1> QED
    BY <1>1, <1>2, <1>3, <1>7 DEF WithoutGood

FilingStep(a, S, k) == UNION {FiledNext(a.data, l, a.nodes) : l \in S}

FilingGood(a, k, S) ==
    \A l \in S : \E Y \in SUBSET a.nodes : ListOf(l, a.old \cup Y) /\ Cardinality(Y) = k

FilingLoop == INSTANCE FoldFacts WITH Step <- FilingStep, Sel <- ByMax, Good <- FilingGood

LEMMA FilingsAre ==
    ASSUME NEW d, NEW list, NEW L, ListOf(list, L), NEW X, IsFiniteSet(X), X \cap L = {},
           NEW l \in Filings(d, list, X)
    PROVE  ListOf(l, L \cup X)
  <1> DEFINE a == [data |-> d, nodes |-> X, old |-> L]
             N == Cardinality(X)
             f == Filings(d, list, X)
  <1>1. N \in Nat
    BY FS_CardinalityType
  <1>2. a.data = d /\ a.nodes = X /\ a.old = L
    OBVIOUS
  <1> HIDE DEF a
  <1>3. f = FilingLoop!Loop(a, {list}, N)
    BY <1>2 DEF Filings, FilingLoop!Loop, FilingLoop!IsLoop, FilingStep
  <1>4. FilingGood(a, 0, {list})
    <2>1. Cardinality({}) = 0 /\ L \cup {} = L
      BY FS_EmptySet
    <2> QED
      BY <1>2, <2>1 DEF FilingGood
  <1>5. ASSUME NEW k \in 1 .. N, NEW S, FilingGood(a, k - 1, S)
        PROVE  FilingGood(a, k, FilingStep(a, S, k))
    <2> SUFFICES ASSUME NEW h \in FilingStep(a, S, k)
                 PROVE  \E Y \in SUBSET X : ListOf(h, L \cup Y) /\ Cardinality(Y) = k
      BY <1>2 DEF FilingGood
    <2>1. PICK g \in S : h \in FiledNext(d, g, X)
      BY <1>2 DEF FilingStep
    <2>2. PICK Y \in SUBSET X : ListOf(g, L \cup Y) /\ Cardinality(Y) = k - 1
      BY <1>2, <1>5 DEF FilingGood
    <2>3. ToSet(g) = L \cup Y
      BY <2>2, ListSet
    <2>4. PICK x \in X \ ToSet(g) : \E i \in Places(d, g, x) : h = InsertAt(g, i, x)
      BY <2>1 DEF FiledNext
    <2>5. PICK i \in 1 .. (Len(g) + 1) : h = InsertAt(g, i, x)
      BY <2>4 DEF Places
    <2>6. ListOf(h, (L \cup Y) \cup {x})
      BY <2>2, <2>3, <2>4, <2>5, InsertedList
    <2>7. IsFiniteSet(Y)
      BY FS_Subset
    <2>8. Cardinality(Y \cup {x}) = k
      <3>1. x \notin Y
        BY <2>3, <2>4
      <3>2. Cardinality(Y \cup {x}) = Cardinality(Y) + 1
        BY <2>7, <3>1, FS_AddElement
      <3>3. (k - 1) + 1 = k
        BY <1>1
      <3> QED
        BY <2>2, <3>2, <3>3
    <2>9. (L \cup Y) \cup {x} = L \cup (Y \cup {x}) /\ Y \cup {x} \in SUBSET X
      BY <2>4
    <2> QED
      BY <2>6, <2>8, <2>9
  <1>6. FilingGood(a, N, f)
    <2> HIDE DEF f, N
    <2> QED
      BY <1>1, <1>3, <1>4, <1>5, FilingLoop!LoopGood
  <1>7. PICK Y \in SUBSET X : ListOf(l, L \cup Y) /\ Cardinality(Y) = N
    BY <1>2, <1>6 DEF FilingGood
  <1>8. Y = X
    BY <1>7, FS_Subset
  <1> QED
    BY <1>7, <1>8

-----------------------------------------------------------------------------
(* The nodes of a channel's tree.                                          *)
LEMMA MappedList ==
    ASSUME NEW l, NEW X, ListOf(l, X), NEW f, DOMAIN f = X,
           \A x, y \in X : f[x] = f[y] => x = y,
           NEW k, k = [i \in DOMAIN l |-> f[l[i]]]
    PROVE  ListOf(k, {f[x] : x \in X})
  <1> DEFINE Y == {f[x] : x \in X}
  <1>1. /\ DOMAIN l = 1 .. Len(l) /\ Len(l) \in Nat
        /\ \A i \in 1 .. Len(l) : l[i] \in X
    BY ListSet
  <1>2. \A i \in 1 .. Len(l) : k[i] = f[l[i]] /\ k[i] \in Y
    BY <1>1
  <1>3. k = [i \in 1 .. Len(l) |-> k[i]]
    BY <1>1
  <1>4. k \in Seq(Y) /\ Len(k) = Len(l)
    <2> HIDE DEF Y
    <2> QED
      BY <1>1, <1>2, <1>3
  <1>5. \A i, j \in 1 .. Len(k) : k[i] = k[j] => i = j
    BY <1>1, <1>2, <1>4 DEF ListOf
  <1>6. \A y \in Y : \E i \in 1 .. Len(k) : k[i] = y
    BY <1>2, <1>4 DEF ListOf
  <1> QED
    BY <1>4, <1>5, <1>6 DEF ListOf

NodesOn(N, X, ch) == {<<n, N[n].since>> : n \in In(N, X, ch)}

LEMMA NodesAre ==
    ASSUME NEW s, NEW X, NEW ch, ListOf(s.chan[ch], In(s.notes, X, ch))
    PROVE  ListOf(Nodes(s, ch), NodesOn(s.notes, X, ch))
  <1> DEFINE Y == In(s.notes, X, ch)
             l == s.chan[ch]
             f == [n \in Y |-> <<n, s.notes[n].since>>]
  <1>1. \A i \in DOMAIN l : l[i] \in Y
    BY ListSet
  <1>2. Nodes(s, ch) = [i \in DOMAIN l |-> f[l[i]]]
    BY <1>1 DEF Nodes
  <1>3. DOMAIN f = Y /\ \A x, y \in Y : f[x] = f[y] => x = y
    OBVIOUS
  <1>4. {f[x] : x \in Y} = NodesOn(s.notes, X, ch)
    BY DEF NodesOn
  <1> HIDE DEF f, l, Y
  <1>5. ListOf(Nodes(s, ch), {f[x] : x \in Y})
    <2>1. ListOf(l, Y)
      BY DEF l, Y
    <2> QED
      BY <1>2, <1>3, <2>1, MappedList
  <1> QED
    BY <1>4, <1>5

LEMMA NotesAgain ==
    ASSUME NEW N, NEW X, NEW ch, NEW l, ListOf(l, NodesOn(N, X, ch))
    PROVE  ListOf([i \in DOMAIN l |-> l[i][1]], In(N, X, ch))
  <1> DEFINE Y == NodesOn(N, X, ch)
             f == [x \in Y |-> x[1]]
             k == [i \in DOMAIN l |-> l[i][1]]
  <1>1. \A i \in DOMAIN l : l[i] \in Y
    BY ListSet
  <1>2. k = [i \in DOMAIN l |-> f[l[i]]]
    BY <1>1
  <1>3. DOMAIN f = Y /\ \A x, y \in Y : f[x] = f[y] => x = y
    BY DEF NodesOn
  <1>4. {f[x] : x \in Y} = In(N, X, ch)
    <2>1. ASSUME NEW x \in Y PROVE f[x] \in In(N, X, ch)
      BY DEF NodesOn
    <2>2. ASSUME NEW n \in In(N, X, ch) PROVE \E x \in Y : f[x] = n
      <3> DEFINE x == <<n, N[n].since>>
      <3>1. x \in Y /\ x[1] = n
        BY DEF NodesOn
      <3> QED
        BY <3>1
    <2> HIDE DEF f, Y
    <2> QED
      BY <2>1, <2>2
  <1> HIDE DEF f, Y, k
  <1>5. ListOf(k, {f[x] : x \in Y})
    <2>1. ListOf(l, Y)
      BY DEF Y
    <2> QED
      BY <1>2, <1>3, <2>1, MappedList
  <1> QED
    BY <1>4, <1>5 DEF k

LEMMA FiniteList ==
    ASSUME NEW l, NEW X, ListOf(l, X)
    PROVE  IsFiniteSet(X)
  <1>1. /\ Len(l) \in Nat /\ \A i \in 1 .. Len(l) : l[i] \in X
        /\ \A x \in X : \E i \in 1 .. Len(l) : l[i] = x
    BY ListSet DEF ListOf
  <1> DEFINE f == [i \in 1 .. Len(l) |-> l[i]]
  <1>2. f \in Surjection(1 .. Len(l), X)
    BY <1>1 DEF Surjection
  <1>3. IsFiniteSet(1 .. Len(l))
    BY <1>1, FS_Interval
  <1> QED
    BY <1>2, <1>3, FS_Surjection

LEMMA ListsAfterAre ==
    ASSUME NEW s, NEW r, NEW ch, NEW A, ListOf(Nodes(s, ch), A),
           NEW B, ListOf(Nodes(s.revs[s.tip], ch), B),
           NEW C, ListOf(Nodes(s.revs[r], ch), C),
           NEW l \in ListsAfter(s, r, ch)
    PROVE  ListOf(l, C)
  <1> DEFINE d == [notes |-> DataAfter(s, r)]
             reverted == Filings(d, Without(Nodes(s, ch), A \ B), B \ A)
             toggled == UNION {Filings(d, list, C \ B) : list \in reverted}
  <1>1. ToSet(Nodes(s, ch)) = A /\ ToSet(Nodes(s.revs[s.tip], ch)) = B
        /\ ToSet(Nodes(s.revs[r], ch)) = C
    BY ListSet
  <1>2. l \in {Without(list, B \ C) : list \in toggled}
    BY <1>1 DEF ListsAfter
  <1> HIDE DEF d
  <1>3. PICK list \in reverted : \E k \in Filings(d, list, C \ B) : l = Without(k, B \ C)
    BY <1>2
  <1>4. PICK k \in Filings(d, list, C \ B) : l = Without(k, B \ C)
    BY <1>3
  <1>5. IsFiniteSet(B \ A) /\ IsFiniteSet(C \ B)
    BY FiniteList, FS_Difference
  <1>6. ListOf(list, B)
    <2>1. ListOf(Without(Nodes(s, ch), A \ B), A \ (A \ B))
      BY WithoutIs
    <2>2. (B \ A) \cap (A \ (A \ B)) = {} /\ (A \ (A \ B)) \cup (B \ A) = B
      OBVIOUS
    <2>3. ListOf(list, (A \ (A \ B)) \cup (B \ A))
      BY <1>3, <1>5, <2>1, <2>2, FilingsAre
    <2> QED
      BY <2>2, <2>3
  <1>7. ListOf(k, B \cup (C \ B))
    <2>1. (C \ B) \cap B = {}
      OBVIOUS
    <2> QED
      BY <1>4, <1>5, <1>6, <2>1, FilingsAre
  <1>8. (B \cup (C \ B)) \ (B \ C) = C
    OBVIOUS
  <1> QED
    BY <1>4, <1>7, <1>8, WithoutIs

-----------------------------------------------------------------------------
(* The pointers: a note of the revision gets the channel that it has there *)
(* unless its channel, or its node, was changed in a way that lets the     *)
(* channels it leaves have the last word.                                  *)
LEMMA GreatestNumber ==
    ASSUME NEW a, NEW E \in SUBSET Number, E # {}
    PROVE  ByMax(a, E) \in E /\ \A d \in E : d <= ByMax(a, E)
  <1> DEFINE z == [c \in E |-> 0]
  <1>1. E \subseteq Nat /\ IsFiniteSet(E)
    BY SongAssumption, FS_Subset
  <1>2. Rated(z, z, E)
    BY <1>1 DEF Rated
  <1>3. PICK c \in E : IsLast(z, z, E, c)
    BY <1>1, <1>2, LastExists
  <1>4. \A d \in E \ {c} : d < c
    BY <1>3 DEF IsLast, Ahead
  <1>5. \A d \in E : d <= c
    BY <1>1, <1>4
  <1> QED
    BY <1>1, <1>5, MaxIs DEF ByMax

StaysPut(s, rev, n) ==
    /\ n \in Used(s) /\ s.notes[n].ch = rev.notes[n].ch
    /\ s.notes[n].since = rev.notes[n].since

KeepsNote(s, r, n) ==
    n \in Used(s) =>
        LET to == s.revs[r].notes[n].ch IN
        /\ s.notes[n].ch[2] <= to[2]
        /\ s.notes[n].ch = to /\ ~StaysPut(s, s.revs[r], n) => ~LeavesLast(s, r, to, n)

Listed(s, ch) == ToSet(Nodes(s, ch)) = NodesOn(s.notes, Used(s), ch)

LEMMA NodesOfNote ==
    ASSUME NEW s, NEW r, NEW ch, Listed(s, ch), Listed(s.revs[r], ch),
           NEW n \in Used(s.revs[r])
    PROVE  /\ n \in NotesOf(Entering(s, r, ch)) <=>
                  s.revs[r].notes[n].ch = ch /\ ~StaysPut(s, s.revs[r], n)
           /\ n \in NotesOf(Leaving(s, r, ch)) <=>
                  n \in Used(s) /\ s.notes[n].ch = ch /\ ~StaysPut(s, s.revs[r], n)
  <1> DEFINE rev == s.revs[r]
             Here(N, X, x) == x \in X /\ N[x].ch = ch
             A == NodesOn(s.notes, Used(s), ch)
             B == NodesOn(rev.notes, Used(rev), ch)
  <1>1. \A m, k : <<m, k>> \in A <=> m \in Used(s) /\ s.notes[m].ch = ch /\ s.notes[m].since = k
    BY DEF NodesOn, In
  <1>2. \A m, k : <<m, k>> \in B <=> m \in Used(rev) /\ rev.notes[m].ch = ch /\ rev.notes[m].since = k
    BY DEF NodesOn, In
  <1>3. \A x \in A \cup B : \E m, k : x = <<m, k>>
    BY DEF NodesOn
  <1>4. Entering(s, r, ch) = B \ A /\ Leaving(s, r, ch) = A \ B
    BY DEF Entering, Leaving, Listed
  <1> HIDE DEF A, B
  <1>5. n \in NotesOf(B \ A) <=> \E k : <<n, k>> \in B \ A
    <2>1. ASSUME n \in NotesOf(B \ A) PROVE \E k : <<n, k>> \in B \ A
      <3>1. PICK x \in B \ A : n = x[1]
        BY <2>1 DEF NotesOf
      <3>2. PICK m, k : x = <<m, k>>
        BY <1>3, <3>1
      <3>3. n = m
        BY <3>1, <3>2
      <3> QED
        BY <3>1, <3>2, <3>3
    <2>2. ASSUME NEW k, <<n, k>> \in B \ A PROVE n \in NotesOf(B \ A)
      <3> DEFINE x == <<n, k>>
      <3>1. x[1] = n
        OBVIOUS
      <3> HIDE DEF x
      <3>2. x \in B \ A
        BY <2>2 DEF x
      <3> QED
        BY <3>1, <3>2 DEF NotesOf
    <2> QED
      BY <2>1, <2>2
  <1>6. n \in NotesOf(A \ B) <=> \E k : <<n, k>> \in A \ B
    <2>1. ASSUME n \in NotesOf(A \ B) PROVE \E k : <<n, k>> \in A \ B
      <3>1. PICK x \in A \ B : n = x[1]
        BY <2>1 DEF NotesOf
      <3>2. PICK m, k : x = <<m, k>>
        BY <1>3, <3>1
      <3>3. n = m
        BY <3>1, <3>2
      <3> QED
        BY <3>1, <3>2, <3>3
    <2>2. ASSUME NEW k, <<n, k>> \in A \ B PROVE n \in NotesOf(A \ B)
      <3> DEFINE x == <<n, k>>
      <3>1. x[1] = n
        OBVIOUS
      <3> HIDE DEF x
      <3>2. x \in A \ B
        BY <2>2 DEF x
      <3> QED
        BY <3>1, <3>2 DEF NotesOf
    <2> QED
      BY <2>1, <2>2
  <1>7. n \in NotesOf(B \ A) <=> rev.notes[n].ch = ch /\ ~StaysPut(s, rev, n)
    <2> DEFINE z == rev.notes[n].since
    <2>1. (\E k : <<n, k>> \in B \ A) <=> <<n, z>> \in B \ A
      BY <1>2
    <2>2. <<n, z>> \in B <=> rev.notes[n].ch = ch
      BY <1>2
    <2>3. <<n, z>> \in A <=> n \in Used(s) /\ s.notes[n].ch = ch /\ s.notes[n].since = z
      BY <1>1
    <2> QED
      BY <1>5, <2>1, <2>2, <2>3 DEF StaysPut
  <1>8. n \in NotesOf(A \ B) <=> n \in Used(s) /\ s.notes[n].ch = ch /\ ~StaysPut(s, rev, n)
    <2> DEFINE z == s.notes[n].since
    <2>1. (\E k : <<n, k>> \in A \ B) <=> <<n, z>> \in A \ B
      BY <1>1
    <2>2. <<n, z>> \in A <=> n \in Used(s) /\ s.notes[n].ch = ch
      BY <1>1
    <2>3. <<n, z>> \in B <=> rev.notes[n].ch = ch /\ rev.notes[n].since = z
      BY <1>2
    <2> QED
      BY <1>6, <2>1, <2>2, <2>3 DEF StaysPut
  <1> QED
    BY <1>4, <1>7, <1>8

PtrStep(a, q, c) == Pointers(a.song, a.rev, c, q)

PtrGood(a, E, q) ==
    LET to == a.song.revs[a.rev].notes[a.note].ch IN
    /\ StaysPut(a.song, a.song.revs[a.rev], a.note) => q[a.note] = to
    /\ to[2] \in E => /\ q[a.note] \in {to, NULL}
                      /\ KeepsNote(a.song, a.rev, a.note) => q[a.note] = to

PtrFold == INSTANCE FoldFacts WITH Step <- PtrStep, Sel <- ByMax, Good <- PtrGood

FirstPointers(s) == [n \in Note |-> IF n \in Used(s) THEN s.notes[n].ch ELSE NULL]

PointersAfter(s, r) ==
    MapThenFoldSet(LAMBDA c, q : Pointers(s, r, c, q), FirstPointers(s), LAMBDA c : c,
                   LAMBDA C : Max(C), Number)

LEMMA PointersAre ==
    ASSUME NEW s, NEW r, \A c \in Number : Listed(s, <<0, c>>) /\ Listed(s.revs[r], <<0, c>>),
           NEW n \in Used(s.revs[r]), s.revs[r].notes[n].ch \in FileChannel,
           n \in Used(s) => s.notes[n].ch \in FileChannel
    PROVE  LET to == s.revs[r].notes[n].ch IN
           /\ PointersAfter(s, r)[n] \in {to, NULL}
           /\ KeepsNote(s, r, n) => PointersAfter(s, r)[n] = to
  <1> DEFINE a == [song |-> s, rev |-> r, note |-> n]
             first == FirstPointers(s)
             to == s.revs[r].notes[n].ch
  <1>1. a.song = s /\ a.rev = r /\ a.note = n
    OBVIOUS
  <1> HIDE DEF a
  <1>2. n \in Note
    BY DEF Used
  <1>3. PtrGood(a, {}, first)
    BY <1>1, <1>2 DEF PtrGood, StaysPut, FirstPointers
  <1> HIDE DEF first
  <1>4. PointersAfter(s, r) = PtrFold!Fold(a, first, Number)
    BY <1>1 DEF PointersAfter, MapThenFoldSet, PtrFold!Fold, PtrFold!IsFold, PtrStep, ByMax,
                first
  <1>5. PICK c \in Number : to = <<0, c>>
    BY DEF FileChannel
  <1>6. to[2] = c /\ \A k : <<0, k>> = to <=> k = c
    <2>1. <<0, c>>[2] = c /\ \A k : <<0, k>> = <<0, c>> <=> k = c
      OBVIOUS
    <2> HIDE DEF to
    <2> QED
      BY <1>5, <2>1
  <1>7. ASSUME NEW E \in SUBSET Number, NEW q, E # {}, PtrGood(a, E \ {ByMax(a, E)}, q)
        PROVE  PtrGood(a, E, PtrStep(a, q, ByMax(a, E)))
    <2> DEFINE k == ByMax(a, E)
               p == PtrStep(a, q, k)
               in == to = <<0, k>> /\ ~StaysPut(s, s.revs[r], n)
               out == n \in Used(s) /\ s.notes[n].ch = <<0, k>> /\ ~StaysPut(s, s.revs[r], n)
    <2>1. k \in E /\ k \in Number /\ \A d \in E : d <= k
      BY <1>7, GreatestNumber
    <2>2. /\ StaysPut(s, s.revs[r], n) => q[n] = to
          /\ c \in E \ {k} => q[n] \in {to, NULL} /\ (KeepsNote(s, r, n) => q[n] = to)
      BY <1>1, <1>6, <1>7 DEF PtrGood
    <2> HIDE DEF k
    <2>3. p[n] = IF out /\ (in => LeavesLast(s, r, <<0, k>>, n)) THEN NULL
                 ELSE IF in THEN <<0, k>> ELSE q[n]
      <3> DEFINE ch == <<0, k>>
      <3>1. /\ n \in NotesOf(Entering(s, r, ch)) <=> to = ch /\ ~StaysPut(s, s.revs[r], n)
            /\ n \in NotesOf(Leaving(s, r, ch)) <=>
                  n \in Used(s) /\ s.notes[n].ch = ch /\ ~StaysPut(s, s.revs[r], n)
        BY <2>1, NodesOfNote
      <3>2. p = Pointers(s, r, k, q)
        BY <1>1 DEF PtrStep
      <3> HIDE DEF p
      <3> QED
        BY <1>2, <3>1, <3>2 DEF Pointers
    <2>4. StaysPut(s, s.revs[r], n) => p[n] = to
      BY <2>2, <2>3
    <2>5. ASSUME c \in E
          PROVE  p[n] \in {to, NULL} /\ (KeepsNote(s, r, n) => p[n] = to)
      <3>1. CASE k = c
        <4>1. in \/ StaysPut(s, s.revs[r], n)
          BY <1>5, <3>1
        <4>2. in /\ out /\ KeepsNote(s, r, n) => ~LeavesLast(s, r, <<0, k>>, n)
          <5> SUFFICES ASSUME in, out, KeepsNote(s, r, n) PROVE ~LeavesLast(s, r, <<0, k>>, n)
            OBVIOUS
          <5> HIDE DEF p
          <5>1. s.notes[n].ch = to /\ n \in Used(s) /\ to = <<0, k>> /\ ~StaysPut(s, s.revs[r], n)
            OBVIOUS
          <5> HIDE DEF in, out
          <5>2. ~LeavesLast(s, r, to, n)
            BY <5>1 DEF KeepsNote
          <5> QED
            BY <5>1, <5>2
        <4> QED
          BY <1>5, <2>3, <2>4, <3>1, <4>1, <4>2
      <3>2. CASE k # c
        <4>1. ~in /\ c \in E \ {k}
          BY <1>6, <2>5, <3>2
        <4>2. KeepsNote(s, r, n) => ~out
          <5> SUFFICES ASSUME KeepsNote(s, r, n), out PROVE FALSE
            OBVIOUS
          <5>1. s.notes[n].ch[2] = k
            <6>1. <<0, k>>[2] = k
              OBVIOUS
            <6> QED
              BY <6>1
          <5>2. s.notes[n].ch[2] <= c
            BY <1>6 DEF KeepsNote
          <5>3. c <= k /\ c \in Nat /\ k \in Nat
            BY <2>1, <2>5, SongAssumption
          <5>4. k <= c
            BY <5>1, <5>2
          <5> QED
            BY <3>2, <5>3, <5>4
        <4> HIDE DEF p, in, out
        <4>3. KeepsNote(s, r, n) => p[n] = q[n]
          BY <2>3, <4>1, <4>2
        <4>4. p[n] = NULL \/ p[n] = q[n]
          BY <2>3, <4>1
        <4> QED
          BY <2>2, <4>1, <4>3, <4>4
      <3> QED
        BY <3>1, <3>2
    <2> HIDE DEF p
    <2> QED
      BY <1>1, <1>6, <2>4, <2>5 DEF PtrGood, p, k
  <1>8. PtrGood(a, Number, PtrFold!Fold(a, first, Number))
    <2>1. PtrFold!IsFiniteSet(Number)
      BY SongAssumption DEF IsFiniteSet, PtrFold!IsFiniteSet
    <2>2. \A E \in SUBSET Number : E # {} => ByMax(a, E) \in E
      BY GreatestNumber
    <2>3. \A E \in SUBSET Number : \A q :
             E # {} /\ PtrGood(a, E \ {ByMax(a, E)}, q)
                => PtrGood(a, E, PtrStep(a, q, ByMax(a, E)))
      BY <1>7
    <2> QED
      BY <1>3, <2>1, <2>2, <2>3, PtrFold!FoldGood
  <1> QED
    BY <1>1, <1>4, <1>6, <1>8 DEF PtrGood

-----------------------------------------------------------------------------
(* The usage: a note has one track, in the song and in every revision, so  *)
(* that counting the nodes that enter and leave counts the notes.          *)
OneTrack(N, M) == \A n \in Note : N[n] # NULL /\ M[n] # NULL => N[n].track = M[n].track

NodesOfTrack(N, X, tr, ch) == {x \in NodesOn(N, X, ch) : N[x[1]].track = tr}

LEMMA NodeCount ==
    ASSUME NEW N, NEW X, IsFiniteSet(X), NEW tr, NEW ch
    PROVE  LET S == NodesOfTrack(N, X, tr, ch) IN
           IsFiniteSet(S) /\ Cardinality(S) = Cardinality(OfTrackIn(N, X, tr, ch))
  <1> DEFINE Y == OfTrackIn(N, X, tr, ch)
             S == {x \in NodesOn(N, X, ch) : N[x[1]].track = tr}
             f == [n \in Y |-> <<n, N[n].since>>]
  <1>1. IsFiniteSet(Y)
    <2>1. Y \subseteq X
      BY DEF OfTrackIn
    <2> HIDE DEF Y
    <2> QED
      BY <2>1, FS_Subset
  <1>2. ASSUME NEW n \in Y PROVE f[n] \in S
    <2> DEFINE x == <<n, N[n].since>>
    <2>1. x \in NodesOn(N, X, ch)
      BY DEF NodesOn, OfTrackIn, In
    <2>2. x[1] = n /\ N[n].track = tr
      BY DEF OfTrackIn
    <2>3. f[n] = x
      OBVIOUS
    <2> HIDE DEF x, f
    <2> QED
      BY <2>1, <2>2, <2>3
  <1>3. ASSUME NEW x \in S PROVE \E n \in Y : f[n] = x
    <2>1. PICK n \in In(N, X, ch) : x = <<n, N[n].since>>
      BY DEF NodesOn
    <2>2. x[1] = n
      BY <2>1
    <2>3. n \in Y
      BY <2>2 DEF OfTrackIn, In
    <2> QED
      BY <2>1, <2>3
  <1>4. \A m, n \in Y : f[m] = f[n] => m = n
    OBVIOUS
  <1>5. f = [n \in Y |-> f[n]]
    OBVIOUS
  <1> HIDE DEF f, S, Y
  <1>6. f \in Bijection(Y, S)
    BY <1>2, <1>3, <1>4, <1>5 DEF Bijection, Injection, Surjection, IsInjective
  <1>7. ExistsBijection(Y, S)
    BY <1>6 DEF ExistsBijection
  <1> QED
    BY <1>1, <1>7, FS_Bijection DEF S, Y, NodesOfTrack

LEMMA UsageIs ==
    ASSUME NEW s, NEW r, NEW rev, rev = s.revs[r],
           OneTrack(s.notes, rev.notes), OneTrack(s.notes, s.revs[s.tip].notes),
           NEW ch \in FileChannel, Listed(s, ch), Listed(rev, ch), NEW tr \in Track,
           s.usage[tr][ch] = Cardinality(OfTrackIn(s.notes, Used(s), tr, ch))
    PROVE  UsageAfter(s, r, tr, ch) = Cardinality(OfTrackIn(rev.notes, Used(rev), tr, ch))
  <1> DEFINE d == DataAfter(s, r)
             A == {x \in NodesOn(s.notes, Used(s), ch) : s.notes[x[1]].track = tr}
             B == {x \in NodesOn(rev.notes, Used(rev), ch) : rev.notes[x[1]].track = tr}
             Enter == {x \in Entering(s, r, ch) : d[x[1]].track = tr}
             Leave == {x \in Leaving(s, r, ch) : d[x[1]].track = tr}
  <1>1. IsFiniteSet(Used(s)) /\ IsFiniteSet(Used(rev))
    BY SongAssumption, FS_Subset DEF Used
  <1>2. \A n \in Used(s) : d[n].track = s.notes[n].track
    BY DEF DataAfter, OneTrack, Used
  <1>3. \A n \in Used(rev) : d[n].track = rev.notes[n].track
    BY DEF DataAfter, Used
  <1>4. \A N, X : \A x \in NodesOn(N, X, ch) : x[1] \in X
    BY DEF NodesOn, In
  <1>5. /\ Entering(s, r, ch) = NodesOn(rev.notes, Used(rev), ch) \ NodesOn(s.notes, Used(s), ch)
        /\ Leaving(s, r, ch) = NodesOn(s.notes, Used(s), ch) \ NodesOn(rev.notes, Used(rev), ch)
    BY DEF Entering, Leaving, Listed
  <1>6. UsageAfter(s, r, tr, ch) = s.usage[tr][ch] + Cardinality(Enter) - Cardinality(Leave)
    BY DEF UsageAfter
  <1> HIDE DEF d
  <1>7. Enter = B \ A /\ Leave = A \ B
    BY <1>2, <1>3, <1>4, <1>5
  <1>8. /\ IsFiniteSet(A) /\ Cardinality(A) = s.usage[tr][ch]
        /\ IsFiniteSet(B)
        /\ Cardinality(B) = Cardinality(OfTrackIn(rev.notes, Used(rev), tr, ch))
    <2>1. A = NodesOfTrack(s.notes, Used(s), tr, ch) /\ B = NodesOfTrack(rev.notes, Used(rev), tr, ch)
      BY DEF NodesOfTrack
    <2> HIDE DEF A, B, Enter, Leave
    <2>2. IsFiniteSet(A) /\ Cardinality(A) = Cardinality(OfTrackIn(s.notes, Used(s), tr, ch))
      BY <1>1, <2>1, NodeCount
    <2>3. /\ IsFiniteSet(B)
          /\ Cardinality(B) = Cardinality(OfTrackIn(rev.notes, Used(rev), tr, ch))
      BY <1>1, <2>1, NodeCount
    <2> QED
      BY <2>2, <2>3
  <1> HIDE DEF A, B, Enter, Leave
  <1>9. /\ Cardinality(B \ A) = Cardinality(B) - Cardinality(A \cap B)
        /\ Cardinality(A \ B) = Cardinality(A) - Cardinality(A \cap B)
    <2>1. A \cap B = B \cap A
      OBVIOUS
    <2>2. Cardinality(B \ A) = Cardinality(B) - Cardinality(B \cap A)
      BY <1>8, FS_Difference
    <2>3. Cardinality(A \ B) = Cardinality(A) - Cardinality(A \cap B)
      BY <1>8, FS_Difference
    <2> QED
      BY <2>1, <2>2, <2>3
  <1>10. Cardinality(A) \in Nat /\ Cardinality(B) \in Nat /\ Cardinality(A \cap B) \in Nat
    BY <1>8, FS_CardinalityType, FS_Intersection
  <1> QED
    BY <1>6, <1>7, <1>8, <1>9, <1>10

-----------------------------------------------------------------------------
(* What holds of every revision, and of a song as long as bst_find finds   *)
(* every note in the channel that it has.                                  *)
Right(rev) ==
    /\ Known(rev.notes, Used(rev)) /\ Apart(rev.notes, Used(rev)) /\ Wheels(rev.wheel)
    /\ \A n \in Used(rev) : rev.notes[n].ch \in FileChannel /\ Level(rev.wheel, rev.notes[n])
    /\ \A ch \in FileChannel : ListOf(rev.chan[ch], In(rev.notes, Used(rev), ch))

Logged(s) ==
    /\ s.tip \in {0} \cup DOMAIN s.revs
    /\ \A r \in DOMAIN s.revs : Right(s.revs[r]) /\ OneTrack(s.notes, s.revs[r].notes)
    /\ \A q, r \in DOMAIN s.revs : OneTrack(s.revs[q].notes, s.revs[r].notes)

Whole(s) == Sound(s) /\ Steady(s) /\ Logged(s)

LEMMA UpdatedFields ==
    ASSUME NEW s, IsSong(s), NEW r, NEW lists
    PROVE  LET t == Updated(s, r, lists)
               rev == s.revs[r]
           IN  /\ IsSong(t) /\ t.revs = s.revs /\ t.tip = r /\ t.temps = s.temps
               /\ t.notes = [n \in Note |-> IF rev.notes[n] = NULL THEN NULL ELSE
                                [rev.notes[n] EXCEPT !.ch = PointersAfter(s, r)[n]]]
               /\ t.chan = [ch \in Channel |-> IF ch \in FileChannel
                               THEN [i \in DOMAIN lists[ch] |-> lists[ch][i][1]]
                               ELSE s.chan[ch]]
               /\ t.usage = [tr \in Track |-> [ch \in FileChannel |-> UsageAfter(s, r, tr, ch)]]
               /\ t.wheel = [ch \in Channel |-> IF ch \in FileChannel THEN rev.wheel[ch]
                                                ELSE s.wheel[ch]]
  <1> DEFINE rev == s.revs[r]
             t == Updated(s, r, lists)
             N == [n \in Note |-> IF rev.notes[n] = NULL THEN NULL ELSE
                     [rev.notes[n] EXCEPT !.ch = PointersAfter(s, r)[n]]]
             C == [ch \in Channel |-> IF ch \in FileChannel
                     THEN [i \in DOMAIN lists[ch] |-> lists[ch][i][1]] ELSE s.chan[ch]]
             U == [tr \in Track |-> [ch \in FileChannel |-> UsageAfter(s, r, tr, ch)]]
             W == [ch \in Channel |-> IF ch \in FileChannel THEN rev.wheel[ch] ELSE s.wheel[ch]]
  <1>1. t = [s EXCEPT !.notes = N, !.chan = C, !.usage = U, !.wheel = W, !.tip = r]
    BY DEF Updated, PointersAfter, FirstPointers
  <1> HIDE DEF N, C, U, W, t
  <1>2. /\ DOMAIN t = DOMAIN s /\ t.revs = s.revs /\ t.tip = r /\ t.temps = s.temps
        /\ t.notes = N /\ t.chan = C /\ t.usage = U /\ t.wheel = W
    BY <1>1 DEF IsSong
  <1>3. IsSong(t)
    BY <1>2 DEF IsSong
  <1> QED
    BY <1>2, <1>3 DEF N, C, U, W, t

LEMMA TempsErasedIs ==
    ASSUME NEW s, Whole(s)
    PROVE  LET t == TempsErased(s) IN
           /\ Whole(t) /\ t.revs = s.revs /\ t.tip = s.tip
           /\ Used(t) = {n \in Used(s) : s.notes[n].ch \in FileChannel}
           /\ \A n \in Used(t) : t.notes[n] = s.notes[n]
  <1> DEFINE S == {n \in Used(s) : s.notes[n].ch \in TempChannel}
             t == TempsErased(s)
  <1>1. S \in SUBSET Used(s) /\ t = FoldLeft(Erased, s, SetToSeq(S))
    BY DEF TempsErased
  <1> HIDE DEF S, t
  <1>2. /\ Sound(t) /\ Used(t) = Used(s) \ S /\ Quiet(s, t)
        /\ t.revs = s.revs /\ t.tip = s.tip
        /\ \A m \in Used(t) : t.notes[m] = s.notes[m]
    BY <1>1, ClearedIs DEF Whole
  <1>3. Used(t) = {n \in Used(s) : s.notes[n].ch \in FileChannel}
    <2>1. \A n \in Used(s) : s.notes[n].ch \in Channel
      BY KnownIs DEF Whole, Sound, Core
    <2> QED
      BY <1>2, <2>1, ChannelKinds DEF S
  <1>4. Steady(t)
    BY <1>2 DEF Whole, Quiet
  <1>5. Logged(t)
    <2>1. ASSUME NEW M, OneTrack(s.notes, M) PROVE OneTrack(t.notes, M)
      BY <1>2, <2>1 DEF OneTrack, Used
    <2> QED
      BY <1>2, <2>1 DEF Whole, Logged
  <1> QED
    BY <1>2, <1>3, <1>4, <1>5 DEF Whole, t

LEMMA AreListed ==
    ASSUME NEW s, Whole(s), NEW ch \in FileChannel
    PROVE  /\ ListOf(Nodes(s, ch), NodesOn(s.notes, Used(s), ch)) /\ Listed(s, ch)
           /\ \A r \in DOMAIN s.revs :
                 /\ ListOf(Nodes(s.revs[r], ch), NodesOn(s.revs[r].notes, Used(s.revs[r]), ch))
                 /\ Listed(s.revs[r], ch)
  <1>1. ListOf(s.chan[ch], In(s.notes, Used(s), ch))
    BY ChannelKinds DEF Whole, Sound, Core, Trees
  <1>2. ListOf(Nodes(s, ch), NodesOn(s.notes, Used(s), ch)) /\ Listed(s, ch)
    BY <1>1, NodesAre, ListSet DEF Listed
  <1>3. ASSUME NEW r \in DOMAIN s.revs
        PROVE  /\ ListOf(Nodes(s.revs[r], ch), NodesOn(s.revs[r].notes, Used(s.revs[r]), ch))
               /\ Listed(s.revs[r], ch)
    <2> DEFINE rev == s.revs[r]
    <2>1. Right(rev)
      BY DEF Whole, Logged
    <2> HIDE DEF rev
    <2>2. ListOf(rev.chan[ch], In(rev.notes, Used(rev), ch))
      BY <2>1 DEF Right
    <2>3. ListOf(Nodes(rev, ch), NodesOn(rev.notes, Used(rev), ch))
      BY <2>2, NodesAre
    <2>4. Listed(rev, ch)
      BY <2>3, ListSet DEF Listed
    <2> QED
      BY <2>3, <2>4 DEF rev
  <1> QED
    BY <1>2, <1>3

(* What an update leaves: the notes of the revision, each where it was or  *)
(* without a channel.                                                      *)
Restored(s, r, t) ==
    LET rev == s.revs[r] IN
    /\ IsSong(t) /\ t.revs = s.revs /\ t.tip = r /\ Used(t) = Used(rev)
    /\ DOMAIN t.notes = Note /\ DOMAIN t.wheel = Channel
    /\ DOMAIN t.chan = Channel /\ IsFun(t.chan)
    /\ \A n \in Used(rev) :
          /\ t.notes[n].ch \in {rev.notes[n].ch, NULL}
          /\ t.notes[n].ch = rev.notes[n].ch => t.notes[n] = rev.notes[n]
          /\ KeepsNote(s, r, n) => t.notes[n].ch = rev.notes[n].ch
    /\ \A ch \in FileChannel : /\ ListOf(t.chan[ch], In(rev.notes, Used(rev), ch))
                                /\ t.wheel[ch] = rev.wheel[ch]
    /\ \A ch \in TempChannel : t.chan[ch] = s.chan[ch] /\ t.wheel[ch] = s.wheel[ch]
    /\ t.temps = s.temps
    /\ t.usage = [tr \in Track |->
                     [ch \in FileChannel |-> Cardinality(OfTrackIn(rev.notes, Used(rev), tr, ch))]]

AllOnFile(s) == \A n \in Used(s) : s.notes[n].ch \in FileChannel

LEMMA UpdatedIs ==
    ASSUME NEW s, Whole(s), AllOnFile(s), s.tip \in DOMAIN s.revs, NEW r \in DOMAIN s.revs,
           NEW lists, \A ch \in FileChannel : lists[ch] \in ListsAfter(s, r, ch)
    PROVE  Restored(s, r, Updated(s, r, lists))
  <1> DEFINE rev == s.revs[r]
             t == Updated(s, r, lists)
             ptr == PointersAfter(s, r)
             X == Used(rev)
  <1>1. /\ IsSong(t) /\ t.revs = s.revs /\ t.tip = r /\ t.temps = s.temps
        /\ t.notes = [n \in Note |-> IF rev.notes[n] = NULL THEN NULL ELSE
                         [rev.notes[n] EXCEPT !.ch = ptr[n]]]
        /\ t.chan = [ch \in Channel |-> IF ch \in FileChannel
                        THEN [i \in DOMAIN lists[ch] |-> lists[ch][i][1]]
                        ELSE s.chan[ch]]
        /\ t.usage = [tr \in Track |-> [ch \in FileChannel |-> UsageAfter(s, r, tr, ch)]]
        /\ t.wheel = [ch \in Channel |-> IF ch \in FileChannel THEN rev.wheel[ch]
                                         ELSE s.wheel[ch]]
    BY UpdatedFields DEF Whole, Sound, Core
  <1> HIDE DEF t
  <1>2. Right(rev) /\ OneTrack(s.notes, rev.notes) /\ OneTrack(s.notes, s.revs[s.tip].notes)
    BY DEF Whole, Logged
  <1>3. \A ch \in FileChannel :
           /\ ListOf(Nodes(s, ch), NodesOn(s.notes, Used(s), ch)) /\ Listed(s, ch)
           /\ ListOf(Nodes(rev, ch), NodesOn(rev.notes, X, ch)) /\ Listed(rev, ch)
           /\ ListOf(Nodes(s.revs[s.tip], ch),
                     NodesOn(s.revs[s.tip].notes, Used(s.revs[s.tip]), ch))
    BY AreListed
  <1>4. \A n \in X : /\ ptr[n] \in {rev.notes[n].ch, NULL}
                     /\ KeepsNote(s, r, n) => ptr[n] = rev.notes[n].ch
    <2>1. \A c \in Number : Listed(s, <<0, c>>) /\ Listed(s.revs[r], <<0, c>>)
      BY <1>3 DEF FileChannel
    <2>2. \A n \in X : rev.notes[n].ch \in FileChannel
      BY <1>2 DEF Right
    <2> QED
      BY <2>1, <2>2, PointersAre DEF AllOnFile
  <1> HIDE DEF ptr
  <1>5. ASSUME NEW n \in X
        PROVE  /\ t.notes[n] \in Notes \cup Unset /\ t.notes[n].ch = ptr[n]
               /\ ptr[n] = rev.notes[n].ch => t.notes[n] = rev.notes[n]
    <2>1. n \in Note /\ rev.notes[n] # NULL /\ rev.notes[n] \in Notes
      BY <1>2 DEF Used, Right, Known
    <2>2. t.notes[n] = [rev.notes[n] EXCEPT !.ch = ptr[n]]
      BY <1>1, <2>1
    <2> DEFINE z == rev.notes[n]
    <2> HIDE DEF z
    <2>3. z \in Notes /\ ptr[n] \in {z.ch, NULL} /\ t.notes[n] = [z EXCEPT !.ch = ptr[n]]
      BY <1>4, <2>1, <2>2 DEF z
    <2>4. t.notes[n].ch = ptr[n] /\ (ptr[n] = z.ch => t.notes[n] = z)
      BY <2>3 DEF Notes
    <2>5. t.notes[n] \in Notes \cup Unset
      BY <2>3 DEF Notes, Unset
    <2> QED
      BY <2>4, <2>5 DEF z
  <1>6. Used(t) = X
    <2>1. \A n \in Note : n \notin X => t.notes[n] = NULL
      BY <1>1 DEF Used
    <2>2. \A n \in X : t.notes[n] # NULL
      BY <1>5, SongAssumption
    <2>3. X \subseteq Note
      BY DEF Used
    <2> QED
      BY <2>1, <2>2, <2>3 DEF Used
  <1>7. ASSUME NEW ch \in FileChannel
        PROVE  ListOf(t.chan[ch], In(rev.notes, X, ch)) /\ t.wheel[ch] = rev.wheel[ch]
    <2>1. ListOf(lists[ch], NodesOn(rev.notes, X, ch))
      BY <1>3, ListsAfterAre
    <2>2. t.chan[ch] = [i \in DOMAIN lists[ch] |-> lists[ch][i][1]] /\ t.wheel[ch] = rev.wheel[ch]
      BY <1>1, ChannelKinds
    <2> QED
      BY <2>1, <2>2, NotesAgain
  <1>8. \A ch \in TempChannel : t.chan[ch] = s.chan[ch] /\ t.wheel[ch] = s.wheel[ch]
    BY <1>1, ChannelKinds
  <1>9. \A tr \in Track, ch \in FileChannel :
           UsageAfter(s, r, tr, ch) = Cardinality(OfTrackIn(rev.notes, X, tr, ch))
    <2>1. \A tr \in Track, ch \in FileChannel :
             s.usage[tr][ch] = Cardinality(OfTrackIn(s.notes, Used(s), tr, ch))
      BY DEF Whole, Sound, Core, Counts
    <2> QED
      BY <1>2, <1>3, <2>1, UsageIs
  <1>10. t.usage = [tr \in Track |->
                      [ch \in FileChannel |-> Cardinality(OfTrackIn(rev.notes, X, tr, ch))]]
    BY <1>1, <1>9
  <1>11. /\ DOMAIN t.notes = Note /\ DOMAIN t.wheel = Channel
         /\ DOMAIN t.chan = Channel /\ IsFun(t.chan)
    BY <1>1 DEF IsFun
  <1> HIDE DEF X, rev
  <1>12. /\ IsSong(t) /\ t.revs = s.revs /\ t.tip = r /\ t.temps = s.temps
    BY <1>1
  <1>13. \A n \in X :
          /\ t.notes[n].ch \in {rev.notes[n].ch, NULL}
          /\ t.notes[n].ch = rev.notes[n].ch => t.notes[n] = rev.notes[n]
          /\ KeepsNote(s, r, n) => t.notes[n].ch = rev.notes[n].ch
    BY <1>4, <1>5
  <1> QED
    BY <1>6, <1>7, <1>8, <1>10, <1>11, <1>12, <1>13 DEF Restored, t, X, rev

LEMMA RestoredIsWhole ==
    ASSUME NEW s, Whole(s), AllOnFile(s), NEW r \in DOMAIN s.revs, NEW t, Restored(s, r, t),
           \A n \in Used(t) : t.notes[n].ch # NULL, \A ch \in Channel : InOrder(t, ch)
    PROVE  Whole(t)
  <1> DEFINE rev == s.revs[r]
             N == rev.notes
             M == t.notes
             X == Used(rev)
  <1>1. Right(rev)
    BY DEF Whole, Logged
  <1>2. /\ IsSong(t) /\ t.revs = s.revs /\ t.tip = r /\ Used(t) = X
        /\ DOMAIN M = Note /\ DOMAIN t.wheel = Channel
        /\ DOMAIN t.chan = Channel /\ IsFun(t.chan)
        /\ \A ch \in FileChannel : ListOf(t.chan[ch], In(N, X, ch)) /\ t.wheel[ch] = rev.wheel[ch]
        /\ \A ch \in TempChannel : t.chan[ch] = s.chan[ch] /\ t.wheel[ch] = s.wheel[ch]
        /\ t.temps = s.temps
        /\ t.usage = [tr \in Track |->
                     [ch \in FileChannel |-> Cardinality(OfTrackIn(N, X, tr, ch))]]
    BY DEF Restored
  <1>3. \A n \in X : M[n] = N[n]
    BY <1>2 DEF Restored
  <1>4. AgreeOn(N, M, X)
    BY <1>3 DEF AgreeOn
  <1>5. \A n \in X : N[n].ch \in FileChannel /\ Level(rev.wheel, N[n]) /\ N[n] \in Notes /\ N[n] # NULL
    BY <1>1 DEF Right, Known, Used
  <1>6. Known(M, X)
    BY <1>1, <1>2, <1>3 DEF Right, Known
  <1>7. ASSUME NEW ch \in Channel
        PROVE  ListOf(t.chan[ch], In(M, X, ch)) /\ Sorted(M, t.chan[ch])
    <2>1. ListOf(t.chan[ch], In(M, X, ch))
      <3>1. CASE ch \in FileChannel
        <4>1. In(M, X, ch) = In(N, X, ch)
          BY <1>3 DEF In
        <4> QED
          BY <1>2, <3>1, <4>1
      <3>2. CASE ch \in TempChannel
        <4>1. In(M, X, ch) = {}
          BY <1>3, <1>5, <3>2, ChannelKinds DEF In
        <4>2. In(s.notes, Used(s), ch) = {}
          BY <3>2, ChannelKinds DEF In, AllOnFile
        <4>3. ListOf(s.chan[ch], In(s.notes, Used(s), ch))
          BY DEF Whole, Sound, Core, Trees
        <4>4. t.chan[ch] = s.chan[ch]
          BY <1>2, <3>2
        <4> QED
          BY <4>1, <4>2, <4>3, <4>4
      <3> QED
        BY <3>1, <3>2, ChannelKinds
    <2>2. DOMAIN t.chan[ch] = 1 .. Len(t.chan[ch])
      BY <2>1, ListSet
    <2>3. InOrder(t, ch)
      OBVIOUS
    <2>4. Sorted(M, t.chan[ch])
      BY <2>2, <2>3, InOrderIsSorted
    <2> QED
      BY <2>1, <2>4
  <1>8. Trees(M, t.chan, X)
    BY <1>2, <1>7 DEF Trees
  <1>9. Counts(M, t.usage, X)
    <2>1. Counts(N, t.usage, X)
      BY <1>2 DEF Counts, IsFun
    <2> QED
      BY <1>4, <2>1, AgreeingCounts
  <1>10. Temps(M, t.temps, X)
    <2>1. /\ DOMAIN s.temps = Track /\ IsFun(s.temps)
          /\ \A tr \in Track : s.temps[tr] \in 0 .. Cardinality(Note)
      BY DEF Whole, Sound, Core, Temps
    <2>2. \A n \in X : M[n].ch \notin TempChannel
      BY <1>3, <1>5, ChannelKinds
    <2> QED
      BY <1>2, <2>1, <2>2 DEF Temps
  <1>11. Apart(M, X)
    BY <1>1, <1>4, AgreeingApart DEF Right
  <1>12. Sound(t)
    BY <1>2, <1>6, <1>8, <1>9, <1>10, <1>11 DEF Sound, Core
  <1>13. Steady(t)
    <2>1. Wheels(t.wheel)
      BY <1>1, <1>2, ChannelKinds DEF Whole, Steady, Right, Wheels
    <2>2. ASSUME NEW n \in X PROVE Level(t.wheel, M[n]) /\ M[n].ch \notin TempChannel
      BY <1>2, <1>3, <1>5, ChannelKinds DEF Level
    <2> QED
      BY <1>2, <2>1, <2>2 DEF Steady
  <1>14. Logged(t)
    <2>1. /\ \A q \in DOMAIN s.revs : Right(s.revs[q])
          /\ \A q, o \in DOMAIN s.revs : OneTrack(s.revs[q].notes, s.revs[o].notes)
      BY DEF Whole, Logged
    <2>2. ASSUME NEW q \in DOMAIN s.revs PROVE OneTrack(M, s.revs[q].notes)
      <3>1. OneTrack(N, s.revs[q].notes)
        BY <2>1
      <3>2. \A n \in Note : M[n] # NULL => n \in X
        BY <1>2 DEF Used
      <3> QED
        BY <1>3, <1>5, <3>1, <3>2 DEF OneTrack
    <2> QED
      BY <1>2, <2>1, <2>2 DEF Logged
  <1> QED
    BY <1>12, <1>13, <1>14 DEF Whole

-----------------------------------------------------------------------------
(* Editing keeps the revisions, and a cell that it uses again keeps the    *)
(* track that it had in any of them; committing adds one that is right.    *)
LEMMA LoggedOn ==
    ASSUME NEW s, Logged(s), NEW t, t.revs = s.revs, t.tip = s.tip,
           \A n \in Used(t) :
              \/ n \in Used(s) /\ t.notes[n].track = s.notes[n].track
              \/ \A r \in DOMAIN s.revs :
                    s.revs[r].notes[n] # NULL => s.revs[r].notes[n].track = t.notes[n].track
    PROVE  Logged(t)
  <1>1. ASSUME NEW r \in DOMAIN s.revs PROVE OneTrack(t.notes, s.revs[r].notes)
    <2> SUFFICES ASSUME NEW n \in Note, t.notes[n] # NULL, s.revs[r].notes[n] # NULL
                 PROVE  t.notes[n].track = s.revs[r].notes[n].track
      BY DEF OneTrack
    <2>1. n \in Used(t)
      BY DEF Used
    <2>2. n \in Used(s) => s.notes[n].track = s.revs[r].notes[n].track
      BY DEF Logged, OneTrack, Used
    <2> QED
      BY <2>1, <2>2
  <1> QED
    BY <1>1 DEF Logged

LEMMA CommittedLogged ==
    ASSUME NEW s, Whole(s)
    PROVE  Logged(Committed(s))
  <1> DEFINE f == Flattened(s)
             g == f.song
             rev == [notes |-> g.notes, chan |-> g.chan, wheel |-> g.wheel, parent |-> s.tip]
             t == Committed(s)
             k == Len(s.revs)
  <1>1. /\ Sound(g) /\ Kept(s, g) /\ Silent(s, g)
        /\ f.ok => \A n \in Used(s) : g.notes[n].ch \in FileChannel
    BY FlattenedIs DEF Whole
  <1>2. Logged(g)
    BY <1>1, LoggedOn DEF Kept, Whole
  <1>3. CASE ~f.ok
    BY <1>2, <1>3 DEF Committed
  <1>4. CASE f.ok
    <2>1. t = [g EXCEPT !.revs = Append(s.revs, rev), !.tip = k + 1]
      BY <1>1, <1>4 DEF Committed, Kept
    <2>2. IsSong(g) /\ g.revs = s.revs /\ g.tip = s.tip /\ Used(g) = Used(s)
      BY <1>1 DEF Sound, Core, Kept
    <2>3. PICK S : s.revs \in Seq(S)
      BY <2>2 DEF IsSong
    <2> HIDE DEF rev, t
    <2>4. t.revs = Append(s.revs, rev) /\ t.tip = k + 1 /\ t.notes = g.notes
      BY <2>1, <2>2 DEF IsSong
    <2>5. /\ k \in Nat /\ DOMAIN s.revs = 1 .. k /\ DOMAIN t.revs = 1 .. (k + 1)
          /\ \A i \in 1 .. k : t.revs[i] = s.revs[i]
          /\ t.revs[k + 1] = rev
      <3> DEFINE T == S \cup {rev}
      <3>1. s.revs \in Seq(T) /\ rev \in T /\ DOMAIN s.revs = 1 .. k /\ k \in Nat
        BY <2>3
      <3> HIDE DEF T
      <3>2. /\ Append(s.revs, rev) \in Seq(T) /\ Len(Append(s.revs, rev)) = k + 1
            /\ \A i \in 1 .. k : Append(s.revs, rev)[i] = s.revs[i]
            /\ Append(s.revs, rev)[k + 1] = rev
        BY <3>1
      <3>3. DOMAIN Append(s.revs, rev) = 1 .. (k + 1)
        BY <3>2
      <3> QED
        BY <2>4, <3>1, <3>2, <3>3
    <2>6. rev.notes = g.notes /\ rev.chan = g.chan /\ rev.wheel = g.wheel /\ Used(rev) = Used(g)
      BY DEF rev, Used
    <2>7. Right(rev)
      <3>1. Steady(g)
        BY <1>1 DEF Silent, Quiet, Whole
      <3>2. \A n \in Used(g) : g.notes[n].ch \in FileChannel /\ Level(g.wheel, g.notes[n])
        BY <1>1, <1>4, <2>2, <3>1 DEF Steady
      <3>3. \A ch \in FileChannel : ListOf(g.chan[ch], In(g.notes, Used(g), ch))
        BY <1>1, ChannelKinds DEF Sound, Core, Trees
      <3> QED
        BY <1>1, <2>6, <3>1, <3>2, <3>3 DEF Sound, Core, Steady, Right
    <2>8. /\ \A i \in 1 .. k : Right(s.revs[i]) /\ OneTrack(g.notes, s.revs[i].notes)
          /\ \A i, j \in 1 .. k : OneTrack(s.revs[i].notes, s.revs[j].notes)
      BY <1>2, <2>2, <2>5 DEF Logged
    <2>9. OneTrack(g.notes, g.notes) /\ \A i \in 1 .. k : OneTrack(s.revs[i].notes, g.notes)
      BY <2>8 DEF OneTrack
    <2>10. \A i \in 1 .. (k + 1) : i \in 1 .. k \/ i = k + 1
      BY <2>5
    <2>11. \A i \in DOMAIN t.revs : Right(t.revs[i]) /\ OneTrack(t.notes, t.revs[i].notes)
      BY <2>4, <2>5, <2>6, <2>7, <2>8, <2>9, <2>10
    <2>12. \A i, j \in DOMAIN t.revs : OneTrack(t.revs[i].notes, t.revs[j].notes)
      BY <2>5, <2>6, <2>8, <2>9, <2>10
    <2>13. t.tip \in DOMAIN t.revs
      BY <2>4, <2>5
    <2>14. Logged(t)
      BY <2>11, <2>12, <2>13 DEF Logged
    <2> QED
      BY <2>14 DEF t
  <1> QED
    BY <1>3, <1>4

LEMMA EditIsLogged ==
    ASSUME Whole(song), Edit
    PROVE  Logged(song')
  <1>1. Sound(song) /\ Logged(song)
    BY DEF Whole
  <1>2. ASSUME Kept(song, song')
        PROVE  Logged(song')
    BY <1>1, <1>2, LoggedOn DEF Kept
  <1>3. ASSUME NEW n \in Note, NEW tr \in Track, NEW s \in Span, NEW p \in Pitch,
               TrackInsert(n, tr, s[1], s[2], p)
        PROVE  Logged(song')
    <2> DEFINE beg == s[1]
               end == s[2]
    <2>1. /\ song' = TrackInserted(song, n, tr, beg, end, p) /\ Free(n, tr)
          /\ beg \in Nat /\ end \in Nat /\ beg < end
      BY <1>3, SongAssumption DEF TrackInsert, Time
    <2> HIDE DEF beg, end
    <2>2. /\ Used(song') = Used(song) \cup {n} /\ song'.revs = song.revs /\ song'.tip = song.tip
          /\ song'.notes[n].track = tr
          /\ \A m \in Used(song) : song'.notes[m].track = song.notes[m].track
      BY <1>1, <2>1, TrackInsertedIs DEF Free
    <2>3. \A r \in DOMAIN song.revs :
             song.revs[r].notes[n] # NULL => song.revs[r].notes[n].track = tr
      BY <2>1 DEF Free
    <2> QED
      BY <1>1, <2>2, <2>3, LoggedOn
  <1>4. ASSUME NEW n \in Note, EraseNote(n)
        PROVE  Logged(song')
    BY <1>1, <1>4, ErasedIs, LoggedOn DEF EraseNote
  <1>5. ASSUME NEW n \in Note, IsolateNote(n)
        PROVE  Logged(song')
    BY <1>1, <1>2, <1>5, IsolatedIs DEF IsolateNote
  <1>6. ASSUME NEW n \in Note, NEW p \in Pitch, NoteSetPitch(n, p)
        PROVE  Logged(song')
    BY <1>1, <1>2, <1>6, PitchSetIs DEF NoteSetPitch
  <1>7. ASSUME NEW n \in Note, NEW d \in Note, NEW tr \in Track, NEW dt \in Shift,
               NEW p \in Pitch, CopyNote(n, d, tr, dt, p)
        PROVE  Logged(song')
    <2>1. /\ n \in Used(song) /\ Free(d, tr) /\ d \notin Used(song)
          /\ song' = Copied(song, n, d, tr, dt, p)
      BY <1>7 DEF CopyNote, Free
    <2>2. /\ song.notes[n].on + dt \in Nat /\ song.notes[n].off + dt \in Nat
          /\ song.notes[n].on + dt < song.notes[n].off + dt
      BY <1>7, CopyKeepsSpan
    <2>3. /\ Used(song') = Used(song) \cup {d} /\ song'.revs = song.revs /\ song'.tip = song.tip
          /\ song'.notes[d].track = tr
          /\ \A m \in Used(song) : song'.notes[m].track = song.notes[m].track
      BY <1>1, <2>1, <2>2, CopiedIs
    <2>4. \A r \in DOMAIN song.revs :
             song.revs[r].notes[d] # NULL => song.revs[r].notes[d].track = tr
      BY <2>1 DEF Free
    <2> QED
      BY <1>1, <2>3, <2>4, LoggedOn
  <1>8. ASSUME NEW tr \in Track, TrackClear(tr)
        PROVE  Logged(song')
    <2> DEFINE S == {n \in Used(song) : song.notes[n].track = tr}
    <2>1. S \in SUBSET Used(song) /\ song' = FoldLeft(Erased, song, SetToSeq(S))
      BY <1>8 DEF TrackClear
    <2> HIDE DEF S
    <2>2. /\ Used(song') = Used(song) \ S /\ song'.revs = song.revs /\ song'.tip = song.tip
          /\ \A m \in Used(song') : song'.notes[m] = song.notes[m]
      BY <1>1, <2>1, ClearedIs
    <2> QED
      BY <1>1, <2>2, LoggedOn
  <1>9. ASSUME FileFlatten
        PROVE  Logged(song')
    BY <1>1, <1>2, <1>9, FlattenedIs DEF FileFlatten
  <1>10. ASSUME FileCommit
         PROVE  Logged(song')
    BY <1>10, CommittedLogged DEF FileCommit
  <1> QED
    BY <1>3, <1>4, <1>5, <1>6, <1>7, <1>8, <1>9, <1>10 DEF Edit

(* file_update, as it finds a song in which every note is found.           *)
LEMMA FileUpdateIs ==
    ASSUME Whole(song), NEW r \in DOMAIN song.revs, FileUpdate(r)
    PROVE  LET s == TempsErased(song) IN
           /\ Whole(s) /\ AllOnFile(s) /\ s.revs = song.revs /\ s.tip = song.tip
           /\ Restored(s, r, song')
           /\ \A n \in Used(s) : n \in Used(song) /\ s.notes[n] = song.notes[n]
  <1> DEFINE s == TempsErased(song)
  <1>1. /\ Whole(s) /\ s.revs = song.revs /\ s.tip = song.tip
        /\ Used(s) = {n \in Used(song) : song.notes[n].ch \in FileChannel}
        /\ \A n \in Used(s) : s.notes[n] = song.notes[n]
    BY TempsErasedIs
  <1>2. PICK lists : /\ \A ch \in FileChannel : lists[ch] \in ListsAfter(s, r, ch)
                     /\ song' = Updated(s, r, lists)
    BY DEF FileUpdate
  <1> HIDE DEF s
  <1>3. AllOnFile(s)
    BY <1>1 DEF AllOnFile
  <1>4. s.tip \in DOMAIN s.revs
    BY <1>1 DEF FileUpdate, Near, Whole, Logged
  <1>5. Restored(s, r, song')
    BY <1>1, <1>2, <1>3, <1>4, UpdatedIs
  <1> QED
    BY <1>1, <1>3, <1>5 DEF s

Going == NotesHaveChannels /\ NotesAreFound

LEMMA NextIsWhole ==
    ASSUME Going => Whole(song), [Next]_song
    PROVE  (Going => Whole(song))'
  <1>1. CASE song' = song
    BY <1>1 DEF Going, NotesHaveChannels, NotesAreFound, Whole, Sound, Steady, Logged
  <1>2. CASE Next
    <2>1. Going
      BY <1>2 DEF Next, Going, NotesHaveChannels, NotesAreFound
    <2>2. Whole(song)
      BY <2>1
    <2>3. CASE Edit
      <3>1. Sound(song') /\ Steady(song') /\ Logged(song')
        BY <2>2, <2>3, EditIsSound, EditIsSteady, EditIsLogged DEF Whole
      <3>2. Whole(song')
        BY <3>1 DEF Whole
      <3> QED
        BY <3>2
    <2>4. ASSUME NEW r \in DOMAIN song.revs, FileUpdate(r)
          PROVE  (Going => Whole(song))'
      <3> SUFFICES ASSUME Going' PROVE Whole(song')
        OBVIOUS
      <3> DEFINE s == TempsErased(song)
      <3>1. Whole(s) /\ AllOnFile(s) /\ r \in DOMAIN s.revs /\ Restored(s, r, song')
        BY <2>2, <2>4, FileUpdateIs
      <3>2. /\ \A n \in Used(song') : song'.notes[n].ch # NULL
            /\ \A ch \in Channel : InOrder(song', ch)
        BY DEF Going, NotesHaveChannels, NotesAreFound
      <3> HIDE DEF s
      <3> QED
        BY <3>1, <3>2, RestoredIsWhole
    <2> QED
      BY <1>2, <2>3, <2>4 DEF Next
  <1> QED
    BY <1>1, <1>2

(* Whatever is edited, committed and updated to: as long as every note has *)
(* a channel and is found in it, the song is sound, and so is every        *)
(* revision that it can be updated to.                                     *)
THEOREM StaysWhole ==
    ASSUME \A s \in Songs : Whole(s)
    PROVE  Spec => [](Going => Whole(song))
  <1>1. Init => (Going => Whole(song))
    BY DEF Init
  <1>2. (Going => Whole(song)) /\ [Next]_song => (Going => Whole(song))'
    BY NextIsWhole
  <1> QED
    BY <1>1, <1>2, PTL DEF Spec

LEMMA EmptyIsLogged == Logged(Empty)
  <1>1. DOMAIN Empty.revs = {} /\ Empty.tip = 0
    BY DEF Empty
  <1> QED
    BY <1>1 DEF Logged

(* An empty song is whole, and so is what committing makes of a whole one: *)
(* the songs to start from can be as the theorems ask.                     *)
THEOREM SongsAreWhole ==
    /\ Whole(Empty)
    /\ \A s : Whole(s) => Whole(Committed(s))
  <1>1. Whole(Empty)
    BY EmptyIsSound, EmptyIsSteady, EmptyIsLogged DEF Whole
  <1>2. ASSUME NEW s, Whole(s) PROVE Whole(Committed(s))
    BY <1>2, CommittedIs, CommittedLogged DEF Whole, Quiet
  <1> QED
    BY <1>1, <1>2

(* TypeOK, TreesAgree, UsageCounts, TempsAreExclusive, ChannelsPlay and    *)
(* FlattenIsSilent, updates included: while no update has left a note      *)
(* without a channel, or where bst_find does not find it.                  *)
THEOREM SongsStayRight ==
    ASSUME \A s \in Songs : Whole(s)
    PROVE  Spec => [](Going => /\ TypeOK /\ TreesAgree /\ UsageCounts
                               /\ TempsAreExclusive /\ ChannelsPlay /\ FlattenIsSilent)
  <1> DEFINE Promised == /\ TypeOK /\ TreesAgree /\ UsageCounts
                         /\ TempsAreExclusive /\ ChannelsPlay /\ FlattenIsSilent
  <1>1. (Going => Whole(song)) => (Going => Promised)
    BY SoundTypes, SoundTrees, SoundUsage, SoundChannels, SteadyIsSilent DEF Whole
  <1> HIDE DEF Promised
  <1>2. Spec => [](Going => Promised)
    BY <1>1, StaysWhole, PTL
  <1> QED
    BY <1>2 DEF Promised

LEMMA NextIsLocal ==
    ASSUME Going => Whole(song), [Next]_song
    PROVE  [Local \/ \E r \in DOMAIN song.revs : FileUpdate(r)]_song
  <1>1. CASE song' = song
    BY <1>1
  <1>2. CASE Next
    <2>1. Whole(song)
      BY <1>2 DEF Next, Going, NotesHaveChannels, NotesAreFound
    <2>2. Edit => Local
      BY <2>1, EditIsLocal DEF Whole
    <2> QED
      BY <1>2, <2>2 DEF Next
  <1> QED
    BY <1>1, <1>2

(* EditsAreLocal, updates included: what they have brought back is edited  *)
(* as locally as what was never committed.                                 *)
THEOREM SongsStayLocal ==
    ASSUME \A s \in Songs : Whole(s)
    PROVE  Spec => EditsAreLocal
  <1>1. Spec => [][Local \/ \E r \in DOMAIN song.revs : FileUpdate(r)]_song
    BY NextIsLocal, StaysWhole, PTL DEF Spec
  <1> QED
    BY <1>1, PTL DEF EditsAreLocal, Local

LEMMA KeepsThem ==
    ASSUME Whole(song), NEW r \in DOMAIN song.revs, KeepsChannels(r),
           NEW s, Whole(s), AllOnFile(s), s.revs = song.revs, s.tip = song.tip,
           \A n \in Used(s) : n \in Used(song) /\ s.notes[n] = song.notes[n],
           NEW n \in Used(song.revs[r])
    PROVE  KeepsNote(s, r, n)
  <1> DEFINE rev == s.revs[r]
             now == s.notes[n]
             then == rev.notes[n]
             ch == then.ch
             tip == ToSet(Nodes(s.revs[s.tip], ch))
  <1> SUFFICES ASSUME n \in Used(s)
               PROVE  /\ now.ch[2] <= ch[2]
                      /\ now.ch = ch /\ ~StaysPut(s, rev, n) => ~LeavesLast(s, r, ch, n)
    BY DEF KeepsNote
  <1>1. now = song.notes[n] /\ n \in Used(song) /\ now.ch \in FileChannel /\ then.ch \in FileChannel
    BY DEF AllOnFile, Whole, Logged, Right
  <1>2. /\ now.ch[2] <= ch[2]
        /\ now.ch = ch /\ now.since # then.since =>
              {<<n, now.since>>, <<n, then.since>>} \cap tip # {}
    BY <1>1 DEF KeepsChannels
  <1>3. ASSUME now.ch = ch, ~StaysPut(s, rev, n), LeavesLast(s, r, ch, n)
        PROVE  FALSE
    <2>1. now.since # then.since
      BY <1>3 DEF StaysPut
    <2> DEFINE A == NodesOn(s.notes, Used(s), ch)
               B == NodesOn(rev.notes, Used(rev), ch)
               y == <<n, now.since>>
               z == <<n, then.since>>
    <2>2. Entering(s, r, ch) = B \ A /\ Leaving(s, r, ch) = A \ B
      BY <1>1, AreListed DEF Entering, Leaving, Listed
    <2>3. \A k : <<n, k>> \in A => k = now.since
      BY DEF NodesOn
    <2>4. z \in B
      BY DEF NodesOn, In
    <2>5. z \notin A
      BY <2>1, <2>3
    <2>6. \A x \in A : \E m, k : x = <<m, k>>
      BY DEF NodesOn
    <2> HIDE DEF A, B
    <2>7. y \notin tip
      <3>1. PICK x \in (A \ B) \ tip : n = x[1]
        BY <1>3, <2>2 DEF LeavesLast, NotesOf
      <3>2. PICK m, k : x = <<m, k>>
        BY <2>6, <3>1
      <3>3. n = m
        BY <3>1, <3>2
      <3>4. x = y
        BY <2>3, <3>1, <3>2, <3>3
      <3> QED
        BY <3>1, <3>4
    <2>8. z \notin tip
      <3>1. n \notin NotesOf((B \ A) \cap tip)
        BY <1>3, <2>2 DEF LeavesLast
      <3>2. z[1] = n
        OBVIOUS
      <3> HIDE DEF z, tip
      <3> QED
        BY <2>4, <2>5, <3>1, <3>2 DEF NotesOf
    <2> QED
      BY <1>2, <1>3, <2>1, <2>7, <2>8
  <1> QED
    BY <1>2, <1>3

(* UpdateRestores: file_update to a revision that keeps the channels       *)
(* brings back each of its notes, in the channel it was in, with its key   *)
(* and its wheel, and no other, whatever was edited, flattened, committed  *)
(* or updated before.                                                      *)
THEOREM UpdatesRestore ==
    ASSUME \A s \in Songs : Whole(s)
    PROVE  Spec => UpdateRestores
  <1> DEFINE Back(r) ==
               LET rev == song.revs[r] IN
               /\ Used(song') = Used(rev)
               /\ \A n \in Used(rev) : /\ song'.notes[n].ch = rev.notes[n].ch
                                        /\ n \in Range(song'.chan[rev.notes[n].ch])
                                        /\ Heard(song', n) = Heard(rev, n)
             Restores == \A r \in DOMAIN song.revs :
                            song'.revs = song.revs /\ FileUpdate(r) /\ KeepsChannels(r) => Back(r)
  <1>1. ASSUME Going => Whole(song), Next, NEW r \in DOMAIN song.revs, FileUpdate(r),
               KeepsChannels(r)
        PROVE  Back(r)
    <2> DEFINE s == TempsErased(song)
               rev == song.revs[r]
    <2>1. Whole(song)
      BY <1>1 DEF Next, Going, NotesHaveChannels, NotesAreFound
    <2>2. /\ Whole(s) /\ AllOnFile(s) /\ s.revs = song.revs /\ s.tip = song.tip
          /\ Restored(s, r, song')
          /\ \A n \in Used(s) : n \in Used(song) /\ s.notes[n] = song.notes[n]
      BY <1>1, <2>1, FileUpdateIs
    <2> HIDE DEF s
    <2>3. \A n \in Used(rev) : KeepsNote(s, r, n)
      BY <1>1, <2>1, <2>2, KeepsThem
    <2>4. /\ Used(song') = Used(rev)
          /\ \A n \in Used(rev) : song'.notes[n] = rev.notes[n]
          /\ \A ch \in FileChannel : /\ ListOf(song'.chan[ch], In(rev.notes, Used(rev), ch))
                                      /\ song'.wheel[ch] = rev.wheel[ch]
      BY <2>2, <2>3 DEF Restored
    <2> SUFFICES ASSUME NEW n \in Used(rev)
                 PROVE  /\ song'.notes[n].ch = rev.notes[n].ch
                        /\ n \in Range(song'.chan[rev.notes[n].ch])
                        /\ Heard(song', n) = Heard(rev, n)
      BY <2>4
    <2>5. rev.notes[n].ch \in FileChannel
      BY <2>1 DEF Whole, Logged, Right
    <2>6. Heard(song', n) = Heard(rev, n)
      BY <2>4, <2>5 DEF Heard
    <2>7. n \in Range(song'.chan[rev.notes[n].ch])
      <3> DEFINE ch == rev.notes[n].ch
                 l == song'.chan[ch]
      <3>1. ListOf(l, In(rev.notes, Used(rev), ch)) /\ n \in In(rev.notes, Used(rev), ch)
        BY <2>4, <2>5 DEF In
      <3> HIDE DEF l, ch
      <3>2. DOMAIN l = 1 .. Len(l) /\ \E i \in 1 .. Len(l) : l[i] = n
        BY <3>1, ListSet DEF ListOf
      <3>3. n \in Range(l)
        BY <3>2 DEF Range
      <3> QED
        BY <3>3 DEF l, ch
    <2> QED
      BY <2>4, <2>6, <2>7
  <1>2. (Going => Whole(song)) /\ [Next]_song => [Restores]_song
    BY <1>1
  <1> HIDE DEF Restores
  <1>3. Spec => [][Restores]_song
    BY <1>2, StaysWhole, PTL DEF Spec
  <1> QED
    BY <1>3, PTL DEF UpdateRestores, Restores
=============================================================================
