--------------------------- MODULE HuntRecordProofs --------------------------
(***************************************************************************)
(* Proofs about HuntRecord, for any plan, questions, events and limits.    *)
(***************************************************************************)
EXTENDS HuntRecord, FiniteSetTheorems, TLAPS

-----------------------------------------------------------------------------
(* Induction over the naturals, as a set that holds them all.              *)

LEMMA LeastNumber ==
    ASSUME NEW S \in SUBSET Nat, S # {}
    PROVE  \E m \in S : \A k \in S : m <= k
<1> DEFINE R == {p \in Nat \X Nat : p[1] < p[2]}
<1>1. IsWellFoundedOn(R, Nat)
    BY NatLessThanWellFounded DEF OpToRel
<1>2. PICK m \in S : \A k \in S : ~(<<k, m>> \in R)
    BY <1>1, WFMin
<1>3. ASSUME NEW k \in S PROVE m <= k
    <2>1. k \in Nat /\ m \in Nat /\ ~(k < m)
        BY <1>2
    <2> QED BY <2>1
<1> QED BY <1>3

LEMMA NumbersByInduction ==
    ASSUME NEW T, 0 \in T, \A n \in Nat : n \in T => n + 1 \in T
    PROVE  Nat \subseteq T
<1> SUFFICES ASSUME Nat \ T # {} PROVE FALSE
    OBVIOUS
<1>1. PICK m \in Nat \ T : \A k \in Nat \ T : m <= k
    BY LeastNumber
<1>2. m # 0 /\ m - 1 \in Nat /\ (m - 1) + 1 = m
    BY <1>1
<1>3. m - 1 \in T
    BY <1>1, <1>2
<1> QED BY <1>2, <1>3

-----------------------------------------------------------------------------
(* Ordered lists the elements of a finite set, each once, in order.        *)

Below(S, R, x) == {y \in S : <<y, x>> \in R}
TotalOrder(S, R) ==
    /\ \A x \in S : <<x, x>> \notin R
    /\ \A x, y \in S : x # y => <<x, y>> \in R \/ <<y, x>> \in R
    /\ \A x, y, z \in S : <<x, y>> \in R /\ <<y, z>> \in R => <<x, z>> \in R

Listing(S, R) == [k \in 1 .. Cardinality(S) |-> CHOOSE x \in S : Cardinality(Below(S, R, x)) = k - 1]

\* L lists the elements of S by R.
Lists(L, S, R) ==
    /\ Cardinality(S) \in Nat /\ DOMAIN L = 1 .. Cardinality(S) /\ Len(L) = Cardinality(S)
    /\ L \in Seq(S)
    /\ \A k \in DOMAIN L : L[k] \in S
    /\ \A x \in S : \E k \in DOMAIN L : L[k] = x
    /\ \A j, k \in DOMAIN L : j < k => <<L[j], L[k]>> \in R
    /\ \A j, k \in DOMAIN L : L[j] = L[k] => j = k

LEMMA RankGrows ==
    ASSUME NEW S, IsFiniteSet(S), NEW R, TotalOrder(S, R), NEW x \in S, NEW y \in S, <<x, y>> \in R
    PROVE  /\ Cardinality(Below(S, R, x)) \in Nat /\ Cardinality(Below(S, R, y)) \in Nat
           /\ Cardinality(Below(S, R, x)) < Cardinality(Below(S, R, y))
<1>1. /\ IsFiniteSet(Below(S, R, x)) /\ IsFiniteSet(Below(S, R, y))
      /\ Cardinality(Below(S, R, x)) \in Nat /\ Cardinality(Below(S, R, y)) \in Nat
    BY FS_Subset, FS_CardinalityType DEF Below
<1>2. Below(S, R, x) \cup {x} \subseteq Below(S, R, y) /\ x \notin Below(S, R, x)
    BY DEF Below, TotalOrder
<1>3. Cardinality(Below(S, R, x) \cup {x}) = Cardinality(Below(S, R, x)) + 1
    BY <1>1, <1>2, FS_AddElement
<1>4. Cardinality(Below(S, R, x) \cup {x}) <= Cardinality(Below(S, R, y))
    BY <1>1, <1>2, FS_Subset
<1> QED BY <1>1, <1>3, <1>4

LEMMA Listed ==
    ASSUME NEW S, IsFiniteSet(S), NEW R, TotalOrder(S, R)
    PROVE  Lists(Listing(S, R), S, R)
<1> DEFINE n == Cardinality(S)
<1> DEFINE L == Listing(S, R)
<1> DEFINE rank == [x \in S |-> Cardinality(Below(S, R, x))]
<1>0. n \in Nat
    BY FS_CardinalityType
<1>1. rank \in [S -> 0 .. n - 1]
    <2> SUFFICES ASSUME NEW x \in S PROVE Cardinality(Below(S, R, x)) \in 0 .. n - 1
        OBVIOUS
    <2>1. Below(S, R, x) \subseteq S \ {x}
        BY DEF Below, TotalOrder
    <2>2. IsFiniteSet(S \ {x}) /\ Cardinality(S \ {x}) = n - 1
        BY FS_RemoveElement
    <2>3. Cardinality(Below(S, R, x)) <= n - 1 /\ IsFiniteSet(Below(S, R, x))
        BY <2>1, <2>2, FS_Subset
    <2>4. Cardinality(Below(S, R, x)) \in Nat
        BY <2>3, FS_CardinalityType
    <2> QED BY <1>0, <2>3, <2>4
<1>2. ASSUME NEW x \in S, NEW y \in S, x # y PROVE rank[x] # rank[y]
    <2>1. CASE <<x, y>> \in R
        BY <2>1, RankGrows
    <2>2. CASE <<y, x>> \in R
        BY <2>2, RankGrows
    <2> QED BY <1>2, <2>1, <2>2 DEF TotalOrder
<1>3. rank \in Injection(S, 0 .. n - 1)
    BY <1>1, <1>2 DEF Injection, IsInjective
<1>4. IsFiniteSet(0 .. n - 1) /\ Cardinality(0 .. n - 1) = n
    BY <1>0, FS_Interval
<1>5. rank \in Surjection(S, 0 .. n - 1)
    BY <1>3, <1>4, FS_Injection
<1>6. \A k \in 1 .. n : \E x \in S : Cardinality(Below(S, R, x)) = k - 1
    <2> TAKE k \in 1 .. n
    <2>1. k - 1 \in 0 .. n - 1
        BY <1>0
    <2>2. PICK x \in S : rank[x] = k - 1
        BY <1>5, <2>1 DEF Surjection
    <2> QED BY <2>2
<1>7. DOMAIN L = 1 .. n /\ \A k \in 1 .. n : L[k] \in S /\ Cardinality(Below(S, R, L[k])) = k - 1
    BY <1>6 DEF Listing
<1>8. L \in Seq(S) /\ Len(L) = n
    BY <1>0, <1>7 DEF Listing
<1>9. ASSUME NEW x \in S PROVE \E k \in DOMAIN L : L[k] = x
    <2>1. rank[x] \in 0 .. n - 1
        BY <1>1
    <2>2. rank[x] + 1 \in 1 .. n /\ (rank[x] + 1) - 1 = rank[x]
        BY <1>0, <2>1
    <2>3. L[rank[x] + 1] \in S /\ rank[L[rank[x] + 1]] = rank[x]
        BY <1>7, <2>2
    <2>4. L[rank[x] + 1] = x
        BY <1>2, <2>3
    <2> QED BY <1>7, <2>2, <2>4
<1>10. ASSUME NEW j \in DOMAIN L, NEW k \in DOMAIN L
       PROVE  /\ j < k => <<L[j], L[k]>> \in R
              /\ L[j] = L[k] => j = k
    <2>1. j \in 1 .. n /\ k \in 1 .. n /\ j \in Nat /\ k \in Nat
        BY <1>0, <1>7
    <2>2. /\ L[j] \in S /\ L[k] \in S
          /\ Cardinality(Below(S, R, L[j])) = j - 1 /\ Cardinality(Below(S, R, L[k])) = k - 1
        BY <1>7, <2>1
    <2>3. L[j] = L[k] => j = k
        BY <2>1, <2>2
    <2>4. ASSUME j < k, ~(<<L[j], L[k]>> \in R) PROVE FALSE
        <3>1. <<L[k], L[j]>> \in R
            BY <2>1, <2>2, <2>3, <2>4 DEF TotalOrder
        <3>2. k - 1 < j - 1
            BY <2>2, <3>1, RankGrows
        <3> QED BY <2>1, <2>4, <3>2
    <2> QED BY <2>3, <2>4
<1> HIDE DEF L
<1>11. Lists(L, S, R)
    BY <1>0, <1>7, <1>8, <1>9, <1>10 DEF Lists
<1> QED BY <1>11 DEF L

\* The numbers of a finite set, smallest first.
Ascending(S) == [k \in 1 .. Cardinality(S) |-> CHOOSE x \in S : Cardinality({y \in S : y < x}) = k - 1]

LEMMA NumbersListed ==
    ASSUME NEW S \in SUBSET Nat, IsFiniteSet(S)
    PROVE  \E R : /\ \A x, y \in S : <<x, y>> \in R <=> x < y
                  /\ Lists(Ascending(S), S, R)
<1> DEFINE R == {p \in S \X S : p[1] < p[2]}
<1>1. \A x, y \in S : <<x, y>> \in R <=> x < y
    OBVIOUS
<1>2. TotalOrder(S, R)
    BY <1>1 DEF TotalOrder
<1>3. \A x \in S : Below(S, R, x) = {y \in S : y < x}
    BY <1>1 DEF Below
<1>4. Listing(S, R) = Ascending(S)
    <2> DEFINE f(k) == CHOOSE x \in S : Cardinality(Below(S, R, x)) = k - 1
               g(k) == CHOOSE x \in S : Cardinality({y \in S : y < x}) = k - 1
    <2>1. \A k \in 1 .. Cardinality(S) : f(k) = g(k)
        BY <1>3
    <2> HIDE DEF R
    <2>2. Listing(S, R) = [k \in 1 .. Cardinality(S) |-> f(k)]
        BY Zenon DEF Listing
    <2>3. Ascending(S) = [k \in 1 .. Cardinality(S) |-> g(k)]
        BY Zenon DEF Ascending
    <2> HIDE DEF f, g
    <2> QED BY <2>1, <2>2, <2>3
<1>5. Lists(Ascending(S), S, R)
    BY <1>2, <1>4, Listed
<1> QED BY <1>1, <1>5

LEMMA OrderedNumbers ==
    ASSUME NEW S
    PROVE  Ordered(S, <) = Ascending(S)
BY DEF Ordered, Ascending

-----------------------------------------------------------------------------
(* Sequences: concatenations, cuts and selections.                         *)

LEMMA ConcatFacts ==
    ASSUME NEW S, NEW s \in Seq(S), NEW t \in Seq(S)
    PROVE  /\ s \o t \in Seq(S) /\ Len(s \o t) = Len(s) + Len(t)
           /\ \A i \in DOMAIN s : i \in DOMAIN (s \o t) /\ (s \o t)[i] = s[i]
           /\ \A i \in DOMAIN t : Len(s) + i \in DOMAIN (s \o t) /\ (s \o t)[Len(s) + i] = t[i]
           /\ \A i \in DOMAIN (s \o t) : i \in DOMAIN s \/ (i - Len(s) \in DOMAIN t /\ (s \o t)[i] = t[i - Len(s)])
           /\ Range(s \o t) = Range(s) \cup Range(t)
<1>1. /\ s \o t \in Seq(S) /\ Len(s \o t) = Len(s) + Len(t)
      /\ DOMAIN s = 1 .. Len(s) /\ DOMAIN t = 1 .. Len(t) /\ DOMAIN (s \o t) = 1 .. Len(s) + Len(t)
      /\ Len(s) \in Nat /\ Len(t) \in Nat
    OBVIOUS
<1>2. \A i \in DOMAIN s : i \in DOMAIN (s \o t) /\ (s \o t)[i] = s[i]
    BY <1>1
<1>3. \A i \in DOMAIN t : Len(s) + i \in DOMAIN (s \o t) /\ (s \o t)[Len(s) + i] = t[i]
    BY <1>1
<1>4. \A i \in DOMAIN (s \o t) : i \in DOMAIN s \/ (i - Len(s) \in DOMAIN t /\ (s \o t)[i] = t[i - Len(s)])
    BY <1>1
<1>5. Range(s \o t) \subseteq Range(s) \cup Range(t)
    BY <1>2, <1>4 DEF Range
<1>6. Range(s) \cup Range(t) \subseteq Range(s \o t)
    BY <1>2, <1>3 DEF Range
<1> QED BY <1>1, <1>2, <1>3, <1>4, <1>5, <1>6

LEMMA SliceFacts ==
    ASSUME NEW S, NEW s \in Seq(S), NEW o \in Nat, NEW n \in Int
    PROVE  /\ Slice(s, o, n) \in Seq(S)
           /\ o <= Len(s) => Len(Slice(s, o, n)) = IF n < 0 THEN 0 ELSE Shortest(n, Len(s) - o)
           /\ \A k \in DOMAIN Slice(s, o, n) : k + o \in DOMAIN s /\ Slice(s, o, n)[k] = s[k + o]
<1> DEFINE m == Shortest(o + n, Len(s))
<1>1. Len(s) \in Nat /\ DOMAIN s = 1 .. Len(s) /\ m \in Int /\ m <= Len(s)
    BY DEF Shortest
<1>2. Slice(s, o, n) = [k \in 1 .. m - o |-> s[k + o]]
    BY <1>1 DEF Slice
<1>3. \A k \in 1 .. m - o : k + o \in DOMAIN s
    BY <1>1
<1>4. Slice(s, o, n) \in Seq(S) /\ Len(Slice(s, o, n)) = IF m - o < 0 THEN 0 ELSE m - o
    <2> DEFINE t == [k \in 1 .. m - o |-> s[k + o]]
    <2>1. \A k \in 1 .. m - o : s[k + o] \in S
        BY <1>1, <1>3
    <2>2. CASE m - o < 0
        <3>1. 1 .. m - o = {} /\ 1 .. m - o = 1 .. 0
            BY <1>1, <2>2
        <3>2. t = [k \in 1 .. 0 |-> s[k + o]]
            BY <3>1
        <3>3. t = <<>>
            BY <3>2
        <3>4. t \in Seq(S) /\ Len(t) = 0
            <4> HIDE DEF t
            <4> QED BY <3>3
        <3> QED BY <1>2, <2>2, <3>4
    <2>3. CASE m - o >= 0
        <3>1. m - o \in Nat
            BY <1>1, <2>3
        <3>2. t \in Seq(S) /\ Len(t) = m - o
            BY <2>1, <3>1
        <3> QED BY <1>1, <1>2, <2>3, <3>2
    <2> QED BY <1>1, <2>2, <2>3
<1>5. o <= Len(s) => Len(Slice(s, o, n)) = IF n < 0 THEN 0 ELSE Shortest(n, Len(s) - o)
    <2> SUFFICES ASSUME o <= Len(s)
                 PROVE  (IF m - o < 0 THEN 0 ELSE m - o) = IF n < 0 THEN 0 ELSE Shortest(n, Len(s) - o)
        BY <1>4
    <2> DEFINE l == Len(s)
    <2>1. l \in Nat
        BY <1>1
    <2> HIDE DEF l
    <2>2. m = IF o + n < l THEN o + n ELSE l
        BY DEF Shortest, l
    <2>3. Shortest(n, Len(s) - o) = IF n < l - o THEN n ELSE l - o
        BY DEF Shortest, l
    <2>4. o <= l
        BY DEF l
    <2> HIDE DEF m
    <2> QED BY <2>1, <2>2, <2>3, <2>4
<1> QED BY <1>1, <1>2, <1>3, <1>4, <1>5

LEMMA CutFacts ==
    ASSUME NEW S, NEW s \in Seq(S), NEW n \in Int
    PROVE  /\ Cut(s, n) \in Seq(S)
           /\ Len(Cut(s, n)) = IF n < 0 THEN 0 ELSE Shortest(n, Len(s))
           /\ \A k \in DOMAIN Cut(s, n) : k \in DOMAIN s /\ Cut(s, n)[k] = s[k]
<1>1. 0 \in Nat /\ 0 <= Len(s) /\ Len(s) - 0 = Len(s) /\ DOMAIN s = 1 .. Len(s)
    OBVIOUS
<1>2. /\ Slice(s, 0, n) \in Seq(S)
      /\ Len(Slice(s, 0, n)) = IF n < 0 THEN 0 ELSE Shortest(n, Len(s) - 0)
      /\ \A k \in DOMAIN Slice(s, 0, n) : k + 0 \in DOMAIN s /\ Slice(s, 0, n)[k] = s[k + 0]
    BY <1>1, SliceFacts
<1>3. DOMAIN Slice(s, 0, n) \subseteq Nat
    BY <1>2
<1>4. \A k \in DOMAIN Slice(s, 0, n) : k + 0 = k
    BY <1>3
<1> QED BY <1>1, <1>2, <1>4 DEF Cut

\* The elements of s at the places D.
At(s, D) == [k \in DOMAIN Ascending(D) |-> s[Ascending(D)[k]]]

LEMMA AtFacts ==
    ASSUME NEW S, NEW s \in Seq(S), NEW D \in SUBSET DOMAIN s
    PROVE  /\ IsFiniteSet(D) /\ Cardinality(D) \in Nat
           /\ At(s, D) \in Seq(S) /\ Len(At(s, D)) = Cardinality(D)
           /\ \A k \in DOMAIN At(s, D) : Ascending(D)[k] \in D /\ At(s, D)[k] = s[Ascending(D)[k]]
           /\ \A d \in D : \E k \in DOMAIN At(s, D) : Ascending(D)[k] = d
           /\ \A j, k \in DOMAIN At(s, D) : j < k => Ascending(D)[j] < Ascending(D)[k]
           /\ \A j, k \in DOMAIN At(s, D) : Ascending(D)[j] = Ascending(D)[k] => j = k
           /\ Range(At(s, D)) = {s[d] : d \in D}
           /\ At(s, D) = <<>> <=> D = {}
<1>1. DOMAIN s = 1 .. Len(s) /\ Len(s) \in Nat /\ D \in SUBSET Nat
    OBVIOUS
<1>2. IsFiniteSet(D)
    <2>1. IsFiniteSet(1 .. Len(s))
        BY <1>1, FS_Interval
    <2> QED BY <1>1, <2>1, FS_Subset
<1>3. PICK R : /\ \A x, y \in D : <<x, y>> \in R <=> x < y
               /\ Lists(Ascending(D), D, R)
    BY <1>1, <1>2, NumbersListed
<1>4. /\ Cardinality(D) \in Nat /\ DOMAIN Ascending(D) = 1 .. Cardinality(D)
      /\ \A k \in DOMAIN Ascending(D) : Ascending(D)[k] \in D
      /\ \A d \in D : \E k \in DOMAIN Ascending(D) : Ascending(D)[k] = d
      /\ \A j, k \in DOMAIN Ascending(D) : j < k => Ascending(D)[j] < Ascending(D)[k]
      /\ \A j, k \in DOMAIN Ascending(D) : Ascending(D)[j] = Ascending(D)[k] => j = k
    BY <1>3 DEF Lists
<1>5. /\ DOMAIN At(s, D) = 1 .. Cardinality(D) /\ DOMAIN At(s, D) = DOMAIN Ascending(D)
      /\ \A k \in DOMAIN At(s, D) : At(s, D)[k] = s[Ascending(D)[k]] /\ At(s, D)[k] \in S
      /\ At(s, D) = [k \in 1 .. Cardinality(D) |-> At(s, D)[k]]
    BY <1>4 DEF At
<1>6. At(s, D) \in Seq(S) /\ Len(At(s, D)) = Cardinality(D)
    BY <1>4, <1>5
<1>7. Range(At(s, D)) = {s[d] : d \in D}
    BY <1>4, <1>5 DEF Range
<1>8. At(s, D) = <<>> <=> D = {}
    <2>1. Cardinality(D) = 0 <=> D = {}
        BY <1>2, FS_EmptySet
    <2> QED BY <1>6, <2>1
<1> QED BY <1>2, <1>4, <1>5, <1>6, <1>7, <1>8

\* Sequences one after the other.
Joins(f, ss, n) == f = [i \in 1 .. n |-> IF i = 1 THEN ss[i] ELSE f[i - 1] \o ss[i]]

LEMMA JoinExists ==
    ASSUME NEW S, NEW ss \in Seq(Seq(S))
    PROVE  \A n \in Nat : n <= Len(ss) => \E f : Joins(f, ss, n) /\ f \in [1 .. n -> Seq(S)]
<1> DEFINE T == {n \in Nat : n <= Len(ss) => \E f : Joins(f, ss, n) /\ f \in [1 .. n -> Seq(S)]}
<1>0. Len(ss) \in Nat /\ \A i \in 1 .. Len(ss) : ss[i] \in Seq(S)
    OBVIOUS
<1>1. 0 \in T
    <2> DEFINE f == [i \in 1 .. 0 |-> <<>>]
    <2>1. Joins(f, ss, 0) /\ f \in [1 .. 0 -> Seq(S)]
        BY DEF Joins
    <2> QED BY <2>1
<1>2. ASSUME NEW n \in Nat, n \in T PROVE n + 1 \in T
    <2> SUFFICES ASSUME n + 1 <= Len(ss)
                 PROVE  \E f : Joins(f, ss, n + 1) /\ f \in [1 .. n + 1 -> Seq(S)]
        OBVIOUS
    <2>1. PICK g : Joins(g, ss, n) /\ g \in [1 .. n -> Seq(S)]
        BY <1>0, <1>2
    <2>2. ss[n + 1] \in Seq(S)
        BY <1>0
    <2> DEFINE last == IF n + 1 = 1 THEN ss[n + 1] ELSE g[n] \o ss[n + 1]
    <2>3. last \in Seq(S)
        <3>1. CASE n = 0
            BY <2>2, <3>1
        <3>2. CASE n # 0
            <4>1. g[n] \in Seq(S)
                BY <2>1, <3>2
            <4> QED BY <2>2, <3>2, <4>1
        <3> QED BY <3>1, <3>2
    <2>4. \A i \in 1 .. n : g[i] = IF i = 1 THEN ss[i] ELSE g[i - 1] \o ss[i]
        BY <2>1 DEF Joins
    <2> HIDE DEF last
    <2> DEFINE f == [i \in 1 .. n + 1 |-> IF i = n + 1 THEN last ELSE g[i]]
    <2>5. f \in [1 .. n + 1 -> Seq(S)]
        BY <2>1, <2>3
    <2>6. ASSUME NEW i \in 1 .. n + 1 PROVE f[i] = IF i = 1 THEN ss[i] ELSE f[i - 1] \o ss[i]
        <3>1. CASE i = n + 1
            <4>1. f[i] = last
                BY <3>1
            <4>2. i # 1 => f[i - 1] = g[n]
                BY <3>1
            <4> QED BY <3>1, <4>1, <4>2 DEF last
        <3>2. CASE i # n + 1
            <4>1. i \in 1 .. n /\ f[i] = g[i]
                BY <3>2
            <4>2. i # 1 => f[i - 1] = g[i - 1]
                BY <4>1
            <4> QED BY <2>4, <4>1, <4>2
        <3> QED BY <3>1, <3>2
    <2>7. Joins(f, ss, n + 1)
        BY <2>6, Zenon DEF Joins
    <2> QED BY <2>5, <2>7
<1> HIDE DEF T
<1>3. Nat \subseteq T
    BY <1>1, <1>2, NumbersByInduction
<1> QED BY <1>3 DEF T

LEMMA FlattenFacts ==
    ASSUME NEW S, NEW ss \in Seq(Seq(S))
    PROVE  /\ FlattenSeq(ss) \in Seq(S)
           /\ Range(FlattenSeq(ss)) = UNION {Range(ss[k]) : k \in DOMAIN ss}
<1> DEFINE n == Len(ss)
<1>0. n \in Nat /\ DOMAIN ss = 1 .. n /\ \A i \in 1 .. n : ss[i] \in Seq(S)
    OBVIOUS
<1>1. CASE n = 0
    <2>1. FlattenSeq(ss) = ss /\ ss = <<>> /\ DOMAIN ss = {}
        BY <1>0, <1>1 DEF FlattenSeq
    <2> QED BY <2>1 DEF Range
<1>2. CASE n # 0
    <2> DEFINE c == CHOOSE f : f = [i \in 1 .. n |-> IF i = 1 THEN ss[i] ELSE f[i - 1] \o ss[i]]
    <2>0. PICK g : Joins(g, ss, n)
        <3> HIDE DEF n
        <3>1. n \in Nat /\ n <= Len(ss)
            BY <1>0 DEF n
        <3> QED BY <3>1, JoinExists
    <2>1. \E f : f = [i \in 1 .. n |-> IF i = 1 THEN ss[i] ELSE f[i - 1] \o ss[i]]
        BY <2>0, Zenon DEF Joins
    <2>2. c = [i \in 1 .. n |-> IF i = 1 THEN ss[i] ELSE c[i - 1] \o ss[i]]
        BY <2>1
    <2>3. FlattenSeq(ss) = c[n]
        BY <1>2 DEF FlattenSeq
    <2> HIDE DEF c
    <2>4. /\ c[1] = ss[1]
          /\ \A i \in 2 .. n : c[i] = c[i - 1] \o ss[i]
        <3>1. 1 \in 1 .. n /\ \A i \in 2 .. n : i \in 1 .. n /\ i # 1
            BY <1>0, <1>2
        <3> DEFINE G(i) == IF i = 1 THEN ss[i] ELSE c[i - 1] \o ss[i]
        <3>2. c = [i \in 1 .. n |-> G(i)]
            BY <2>2
        <3> HIDE DEF G
        <3>3. \A i \in 1 .. n : c[i] = G(i)
            BY <3>2
        <3> QED BY <3>1, <3>3 DEF G
    <2> DEFINE T == {i \in Nat : i + 1 \in 1 .. n =>
                       /\ c[i + 1] \in Seq(S)
                       /\ Range(c[i + 1]) = UNION {Range(ss[k]) : k \in 1 .. i + 1}}
    <2>5. 0 \in T
        <3>1. c[0 + 1] = ss[1] /\ {Range(ss[k]) : k \in 1 .. 0 + 1} = {Range(ss[1])}
            BY <2>4
        <3> QED BY <1>0, <1>2, <3>1
    <2>6. ASSUME NEW i \in Nat, i \in T PROVE i + 1 \in T
        <3> SUFFICES ASSUME (i + 1) + 1 \in 1 .. n
                     PROVE  /\ c[(i + 1) + 1] \in Seq(S)
                            /\ Range(c[(i + 1) + 1]) = UNION {Range(ss[k]) : k \in 1 .. (i + 1) + 1}
            OBVIOUS
        <3>1. /\ i + 1 \in 1 .. n /\ (i + 1) + 1 \in 2 .. n /\ ((i + 1) + 1) - 1 = i + 1
              /\ 1 .. (i + 1) + 1 = (1 .. i + 1) \cup {(i + 1) + 1}
            BY <1>0
        <3>2. c[i + 1] \in Seq(S) /\ Range(c[i + 1]) = UNION {Range(ss[k]) : k \in 1 .. i + 1}
            BY <2>6, <3>1
        <3>3. c[(i + 1) + 1] = c[i + 1] \o ss[(i + 1) + 1] /\ ss[(i + 1) + 1] \in Seq(S)
            BY <1>0, <2>4, <3>1
        <3>4. /\ c[(i + 1) + 1] \in Seq(S)
              /\ Range(c[(i + 1) + 1]) = Range(c[i + 1]) \cup Range(ss[(i + 1) + 1])
            BY <3>2, <3>3, ConcatFacts
        <3>5. UNION {Range(ss[k]) : k \in 1 .. (i + 1) + 1}
              = (UNION {Range(ss[k]) : k \in 1 .. i + 1}) \cup Range(ss[(i + 1) + 1])
            BY <3>1, Zenon
        <3> QED BY <3>2, <3>4, <3>5
    <2> HIDE DEF T
    <2>7. Nat \subseteq T
        BY <2>5, <2>6, NumbersByInduction
    <2>8. n - 1 \in Nat /\ (n - 1) + 1 = n /\ n \in 1 .. n
        BY <1>0, <1>2
    <2>9. c[n] \in Seq(S) /\ Range(c[n]) = UNION {Range(ss[k]) : k \in 1 .. n}
        BY <2>7, <2>8 DEF T
    <2> QED BY <1>0, <2>3, <2>9
<1> QED BY <1>1, <1>2

-----------------------------------------------------------------------------
(* Sequences of anything.                                                  *)

IsSeq(s) == s \in Seq(Range(s))

LEMMA SeqFacts ==
    ASSUME NEW s, IsSeq(s)
    PROVE  /\ s \in Seq(Range(s))
           /\ Len(s) \in Nat /\ DOMAIN s = 1 .. Len(s)
           /\ s = [k \in 1 .. Len(s) |-> s[k]]
           /\ \A k \in DOMAIN s : s[k] \in Range(s) /\ k \in Nat \ {0}
           /\ s = <<>> <=> DOMAIN s = {}
           /\ s = <<>> <=> Len(s) = 0
<1>1. s \in Seq(Range(s)) /\ Len(s) \in Nat /\ DOMAIN s = 1 .. Len(s)
    BY DEF IsSeq
<1>2. \A k \in DOMAIN s : s[k] \in Range(s) /\ k \in Nat \ {0}
    BY <1>1 DEF Range
<1>3. s = <<>> <=> Len(s) = 0
    BY <1>1
<1>4. Len(s) = 0 <=> DOMAIN s = {}
    <2>1. Len(s) # 0 => 1 \in DOMAIN s
        BY <1>1
    <2>2. Len(s) = 0 => DOMAIN s = {}
        BY <1>1
    <2> QED BY <2>1, <2>2
<1>5. s = [k \in 1 .. Len(s) |-> s[k]]
    BY <1>1
<1> QED BY <1>1, <1>2, <1>3, <1>4, <1>5

LEMMA SeqIs ==
    ASSUME NEW S, NEW s \in Seq(S)
    PROVE  IsSeq(s) /\ Range(s) \subseteq S
<1>1. Len(s) \in Nat /\ DOMAIN s = 1 .. Len(s) /\ \A k \in 1 .. Len(s) : s[k] \in S
    OBVIOUS
<1>2. \A k \in 1 .. Len(s) : s[k] \in Range(s)
    BY <1>1 DEF Range
<1>3. s = [k \in 1 .. Len(s) |-> s[k]]
    OBVIOUS
<1>4. s \in [1 .. Len(s) -> Range(s)]
    BY <1>2, <1>3
<1>5. s \in Seq(Range(s))
    BY <1>1, <1>4
<1> QED BY <1>1, <1>5 DEF Range, IsSeq

LEMMA FunctionIsSeq ==
    ASSUME NEW n \in Nat, NEW f, f = [k \in 1 .. n |-> f[k]]
    PROVE  IsSeq(f) /\ Len(f) = n /\ DOMAIN f = 1 .. n
<1>1. DOMAIN f = 1 .. n
    OBVIOUS
<1>2. \A k \in 1 .. n : f[k] \in Range(f)
    BY <1>1 DEF Range
<1>3. f \in [1 .. n -> Range(f)]
    BY <1>2
<1>4. f \in Seq(Range(f)) /\ Len(f) = n
    BY <1>3
<1> QED BY <1>1, <1>4 DEF IsSeq

LEMMA EmptyIsSeq == IsSeq(<<>>)
BY DEF IsSeq

\* u is t after s.
Joined(u, s, t) ==
    /\ IsSeq(u) /\ Len(u) = Len(s) + Len(t) /\ DOMAIN u = 1 .. Len(s) + Len(t)
    /\ \A i \in DOMAIN s : i \in DOMAIN u /\ u[i] = s[i]
    /\ \A i \in DOMAIN t : Len(s) + i \in DOMAIN u /\ u[Len(s) + i] = t[i]
    /\ \A i \in DOMAIN u : i \in DOMAIN s \/ (i - Len(s) \in DOMAIN t /\ u[i] = t[i - Len(s)])
    /\ Range(u) = Range(s) \cup Range(t)

LEMMA ConcatIsSeq ==
    ASSUME NEW s, IsSeq(s), NEW t, IsSeq(t)
    PROVE  Joined(s \o t, s, t)
<1> DEFINE S == Range(s) \cup Range(t)
<1>1. s \in Seq(S) /\ t \in Seq(S)
    <2>1. Range(s) \subseteq S /\ Range(t) \subseteq S
        OBVIOUS
    <2>2. s \in Seq(Range(s)) /\ t \in Seq(Range(t))
        BY DEF IsSeq
    <2> HIDE DEF S
    <2> QED BY <2>1, <2>2
<1> HIDE DEF S
<1>2. /\ s \o t \in Seq(S) /\ Len(s \o t) = Len(s) + Len(t)
      /\ \A i \in DOMAIN s : i \in DOMAIN (s \o t) /\ (s \o t)[i] = s[i]
      /\ \A i \in DOMAIN t : Len(s) + i \in DOMAIN (s \o t) /\ (s \o t)[Len(s) + i] = t[i]
      /\ \A i \in DOMAIN (s \o t) : i \in DOMAIN s \/ (i - Len(s) \in DOMAIN t /\ (s \o t)[i] = t[i - Len(s)])
      /\ Range(s \o t) = Range(s) \cup Range(t)
    BY <1>1, ConcatFacts
<1>3. IsSeq(s \o t)
    BY <1>2, SeqIs
<1>4. DOMAIN (s \o t) = 1 .. Len(s) + Len(t)
    BY <1>2
<1> QED BY <1>2, <1>3, <1>4, Zenon DEF Joined

LEMMA CutIsSeq ==
    ASSUME NEW s, IsSeq(s), NEW n \in Int
    PROVE  /\ IsSeq(Cut(s, n)) /\ Range(Cut(s, n)) \subseteq Range(s)
           /\ Len(Cut(s, n)) = IF n < 0 THEN 0 ELSE Shortest(n, Len(s))
           /\ \A k \in DOMAIN Cut(s, n) : k \in DOMAIN s /\ Cut(s, n)[k] = s[k]
<1>1. s \in Seq(Range(s))
    BY DEF IsSeq
<1>2. /\ Cut(s, n) \in Seq(Range(s))
      /\ Len(Cut(s, n)) = IF n < 0 THEN 0 ELSE Shortest(n, Len(s))
      /\ \A k \in DOMAIN Cut(s, n) : k \in DOMAIN s /\ Cut(s, n)[k] = s[k]
    BY <1>1, CutFacts
<1> QED BY <1>2, SeqIs

LEMMA AtIsSeq ==
    ASSUME NEW s, IsSeq(s), NEW D \in SUBSET DOMAIN s
    PROVE  /\ IsFiniteSet(D) /\ Cardinality(D) \in Nat
           /\ IsSeq(At(s, D)) /\ Len(At(s, D)) = Cardinality(D)
           /\ \A k \in DOMAIN At(s, D) : Ascending(D)[k] \in D /\ At(s, D)[k] = s[Ascending(D)[k]]
           /\ \A d \in D : \E k \in DOMAIN At(s, D) : Ascending(D)[k] = d
           /\ \A j, k \in DOMAIN At(s, D) : j < k => Ascending(D)[j] < Ascending(D)[k]
           /\ \A j, k \in DOMAIN At(s, D) : Ascending(D)[j] = Ascending(D)[k] => j = k
           /\ Range(At(s, D)) = {s[d] : d \in D}
           /\ At(s, D) = <<>> <=> D = {}
           /\ DOMAIN Ascending(D) = 1 .. Cardinality(D) /\ DOMAIN At(s, D) = 1 .. Cardinality(D)
<1>1. s \in Seq(Range(s))
    BY DEF IsSeq
<1>2. At(s, D) \in Seq(Range(s)) /\ Len(At(s, D)) = Cardinality(D)
    BY <1>1, AtFacts
<1>3. IsSeq(At(s, D))
    BY <1>2, SeqIs
<1>4. DOMAIN Ascending(D) = 1 .. Cardinality(D) /\ DOMAIN At(s, D) = 1 .. Cardinality(D)
    BY DEF Ascending, At
<1> QED BY <1>1, <1>2, <1>3, <1>4, AtFacts

LEMMA FlattenIsSeq ==
    ASSUME NEW ss, IsSeq(ss), \A k \in DOMAIN ss : IsSeq(ss[k])
    PROVE  /\ IsSeq(FlattenSeq(ss))
           /\ Range(FlattenSeq(ss)) = UNION {Range(ss[k]) : k \in DOMAIN ss}
<1> DEFINE S == UNION {Range(ss[k]) : k \in DOMAIN ss}
<1>1. \A k \in DOMAIN ss : ss[k] \in Seq(S)
    <2> TAKE k \in DOMAIN ss
    <2>1. Range(ss[k]) \subseteq S
        OBVIOUS
    <2>2. ss[k] \in Seq(Range(ss[k]))
        BY DEF IsSeq
    <2> HIDE DEF S
    <2> QED BY <2>1, <2>2
<1> HIDE DEF S
<1>2. ss \in Seq(Seq(S))
    <2>1. Len(ss) \in Nat /\ DOMAIN ss = 1 .. Len(ss) /\ ss = [k \in 1 .. Len(ss) |-> ss[k]]
        BY SeqFacts
    <2>2. ss \in [1 .. Len(ss) -> Seq(S)]
        BY <1>1, <2>1
    <2> QED BY <2>1, <2>2
<1>3. FlattenSeq(ss) \in Seq(S) /\ Range(FlattenSeq(ss)) = UNION {Range(ss[k]) : k \in DOMAIN ss}
    BY <1>2, FlattenFacts
<1> QED BY <1>3, SeqIs

LEMMA LargestNumber ==
    ASSUME NEW n \in Nat, NEW S \in SUBSET (1 .. n), S # {}
    PROVE  \E m \in S : \A k \in S : k <= m
<1> DEFINE T == {n - k : k \in S}
<1>0. \A k \in S : n - k \in Nat
    OBVIOUS
<1>1. T \in SUBSET Nat /\ T # {}
    BY <1>0
<1>2. PICK t \in T : \A k \in T : t <= k
    <2> HIDE DEF T
    <2> QED BY <1>1, LeastNumber
<1>3. PICK m \in S : t = n - m
    OBVIOUS
<1>4. ASSUME NEW k \in S PROVE k <= m
    <2>1. n - k \in T
        OBVIOUS
    <2>2. n - m <= n - k
        BY <1>2, <1>3, <2>1
    <2> QED BY <2>2
<1> QED BY <1>4

LEMMA RangeFinite ==
    ASSUME NEW s, IsSeq(s)
    PROVE  IsFiniteSet(DOMAIN s) /\ IsFiniteSet(Range(s))
<1>1. DOMAIN s = 1 .. Len(s) /\ Len(s) \in Nat
    BY SeqFacts
<1>2. IsFiniteSet(DOMAIN s)
    BY <1>1, FS_Interval
<1>3. s \in Surjection(DOMAIN s, Range(s))
    <2>1. s = [k \in DOMAIN s |-> s[k]]
        BY <1>1, SeqFacts
    <2>2. s \in [DOMAIN s -> Range(s)]
        BY <2>1 DEF Range
    <2> QED BY <2>2 DEF Surjection, Range
<1> QED BY <1>2, <1>3, FS_Surjection

LEMMA SetToSeqIsSeq ==
    ASSUME NEW S, IsFiniteSet(S)
    PROVE  IsSeq(SetToSeq(S)) /\ Range(SetToSeq(S)) \subseteq S
<1>1. Cardinality(S) \in Nat /\ ExistsBijection(1 .. Cardinality(S), S)
    BY FS_CardinalityType
<1>2. PICK f \in Bijection(1 .. Cardinality(S), S) : TRUE
    BY <1>1 DEF ExistsBijection
<1>3. f \in [1 .. Cardinality(S) -> S] /\ IsInjective(f)
    BY <1>2 DEF Bijection, Injection, IsInjective
<1>4. SetToSeq(S) \in [1 .. Cardinality(S) -> S]
    BY <1>3 DEF SetToSeq
<1>5. SetToSeq(S) \in Seq(S)
    BY <1>1, <1>4
<1> QED BY <1>5, SeqIs

-----------------------------------------------------------------------------
(* The shape of the record.                                                *)

IsEntry(e) ==
    /\ e = [question |-> e.question, spl |-> e.spl, status |-> e.status, phase |-> e.phase,
            of |-> e.of, source |-> e.source]
    /\ IsSpl(e.spl)

LedgerType == IsSeq(ledger) /\ \A e \in DOMAIN ledger : IsEntry(ledger[e])

QueriesType ==
    /\ IsSeq(queries)
    /\ \A k \in DOMAIN queries : queries[k].id \in DOMAIN ledger /\ IsFiniteSet(queries[k].pairs)

EvidenceType ==
    /\ IsSeq(evidence)
    /\ \A i \in DOMAIN evidence : evidence[i].event \in Range(Events) /\ evidence[i].query \in QueryIds

RoundType ==
    /\ IsSeq(followUps) /\ IsSeq(decisions)
    /\ IsSeq(round.questions) /\ IsSeq(round.followUps)

\* Splunk's answer to a search, when the store holds `held'.
FoundIn(held, spl) == At(Events, {e \in held : InScope(Events[e], spl)})

\* A retrieval in progress has a prefix of what Splunk found; unless it was
\* stopped it has whole pages or is at its limit, and a retrieval that ended
\* by itself has everything or is at its limit.
FetchRuns ==
    LET found == FoundIn(store, ledger[fetch.entry].spl)
        n == Len(fetch.rows)
    IN  /\ fetch = [entry |-> fetch.entry, reported |-> fetch.reported, limit |-> fetch.limit,
                    rows |-> fetch.rows, pages |-> fetch.pages, stop |-> fetch.stop, ended |-> fetch.ended]
        /\ phase = "search"
        /\ fetch.entry \in DOMAIN ledger
        /\ fetch.reported \in {NotReported, Len(found)}
        /\ fetch.limit \in Nat \ {0} /\ fetch.pages \in Nat /\ fetch.ended \in BOOLEAN
        /\ IsSeq(fetch.rows) /\ n <= Len(found)
        /\ \A k \in DOMAIN fetch.rows : fetch.rows[k] = found[k]
        /\ ~fetch.ended => /\ fetch.stop = "none"
                           /\ n >= fetch.limit \/ n = fetch.pages * Shortest(PageMax, fetch.limit)
        /\ fetch.ended /\ fetch.stop = "none" => n >= fetch.limit \/ n = Len(found)

TypeInv ==
    /\ store \subseteq DOMAIN Events
    /\ searches \in Nat
    /\ LedgerType /\ QueriesType /\ EvidenceType /\ RoundType
    /\ fetch # Idle => FetchRuns

LEMMA ConstantsAre ==
    /\ IsSeq(Events) /\ IsSeq(Plan) /\ IsSeq(Questions)
    /\ \A e \in Range(Events) : e.time \in Nat /\ e.raw \in BOOLEAN /\ e.ioc \in BOOLEAN
    /\ \A p \in Range(Plan) : IsSpl(p.spl)
    /\ \A s \in Proposals : IsSpl(s)
    /\ \A k \in DOMAIN Questions : Questions[k].id = k
    /\ PageMax \in Nat \ {0} /\ RowLimit \in Nat \ {0} /\ HuntRowLimit \in Nat \ {0} /\ LookupLimit \in Nat \ {0}
    /\ MaxSearches \in Nat /\ AssessLimit \in Nat /\ SampleLimit \in Nat
BY HuntAssumption DEF HuntAssumption, IsSeq

LEMMA FoundIs ==
    ASSUME NEW spl
    PROVE  Found(spl) = FoundIn(store, spl)
<1> DEFINE D == {e \in store : InScope(Events[e], spl)}
<1>1. Found(spl) = [k \in DOMAIN Ascending(D) |-> Events[Ascending(D)[k]]]
    BY DEF Found, Ordered, Ascending
<1> QED BY <1>1 DEF FoundIn, At

LEMMA FoundFacts ==
    ASSUME NEW held \in SUBSET DOMAIN Events, NEW spl
    PROVE  IsSeq(FoundIn(held, spl)) /\ Range(FoundIn(held, spl)) \subseteq Range(Events)
<1> DEFINE D == {e \in held : InScope(Events[e], spl)}
<1>1. D \in SUBSET DOMAIN Events
    OBVIOUS
<1>2. FoundIn(held, spl) = At(Events, D)
    BY DEF FoundIn
<1> HIDE DEF D
<1>3. IsSeq(At(Events, D)) /\ Range(At(Events, D)) = {Events[d] : d \in D}
    BY <1>1, ConstantsAre, AtIsSeq
<1> QED BY <1>1, <1>2, <1>3 DEF Range

-----------------------------------------------------------------------------
(* The ledger only grows, and an entry keeps its search.                   *)

LedgerKept ==
    /\ DOMAIN ledger \subseteq DOMAIN ledger'
    /\ \A e \in DOMAIN ledger : ledger'[e].spl = ledger[e].spl

LEMMA StatusChange ==
    ASSUME LedgerType, NEW e \in DOMAIN ledger, NEW how, ledger' = [ledger EXCEPT ![e].status = how]
    PROVE  LedgerType' /\ LedgerKept
<1>1. Len(ledger) \in Nat /\ DOMAIN ledger = 1 .. Len(ledger) /\ ledger = [k \in 1 .. Len(ledger) |-> ledger[k]]
    BY SeqFacts DEF LedgerType
<1>2. DOMAIN ledger' = 1 .. Len(ledger) /\ ledger' = [k \in 1 .. Len(ledger) |-> ledger'[k]]
    BY <1>1
<1>3. IsSeq(ledger') /\ DOMAIN ledger' = DOMAIN ledger
    BY <1>1, <1>2, FunctionIsSeq
<1>4. \A k \in DOMAIN ledger : k # e => ledger'[k] = ledger[k]
    BY <1>1
<1>5. ledger'[e] = [ledger[e] EXCEPT !.status = how]
    BY <1>1
<1>6. ledger[e] = [question |-> ledger[e].question, spl |-> ledger[e].spl, status |-> ledger[e].status,
                   phase |-> ledger[e].phase, of |-> ledger[e].of, source |-> ledger[e].source]
    BY DEF LedgerType, IsEntry
<1>7. ledger'[e] = [question |-> ledger[e].question, spl |-> ledger[e].spl, status |-> how,
                    phase |-> ledger[e].phase, of |-> ledger[e].of, source |-> ledger[e].source]
    BY <1>5, <1>6
<1>8. IsEntry(ledger'[e]) /\ ledger'[e].spl = ledger[e].spl
    BY <1>7 DEF LedgerType, IsEntry
<1> QED BY <1>3, <1>4, <1>8 DEF LedgerType, LedgerKept

LEMMA LedgerAdds ==
    ASSUME LedgerType, NEW new, IsSeq(new), \A k \in DOMAIN new : IsEntry(new[k]), ledger' = ledger \o new
    PROVE  LedgerType' /\ LedgerKept
<1>1. IsSeq(ledger)
    BY DEF LedgerType
<1>2. /\ IsSeq(ledger')
      /\ \A i \in DOMAIN ledger : i \in DOMAIN ledger' /\ ledger'[i] = ledger[i]
      /\ \A i \in DOMAIN ledger' : i \in DOMAIN ledger \/ (i - Len(ledger) \in DOMAIN new /\ ledger'[i] = new[i - Len(ledger)])
    BY <1>1, ConcatIsSeq DEF Joined
<1>3. \A i \in DOMAIN ledger' : IsEntry(ledger'[i])
    BY <1>2 DEF LedgerType
<1> QED BY <1>2, <1>3 DEF LedgerType, LedgerKept

LEMMA PlannedIsEntry ==
    ASSUME NEW q, NEW spl, IsSpl(spl), NEW kind, NEW of, NEW source
    PROVE  IsEntry(Planned(q, spl, kind, of, source))
BY DEF IsEntry, Planned

LEMMA NextIsOpen ==
    ASSUME LedgerType, Open # {}
    PROVE  NextEntry \in DOMAIN ledger
<1>1. Open \in SUBSET Nat
    <2>1. DOMAIN ledger \subseteq Nat
        BY SeqFacts DEF LedgerType
    <2> QED BY <2>1 DEF Open
<1>2. \E e \in Open : \A x \in Open : e <= x
    BY <1>1, LeastNumber
<1>3. NextEntry \in Open
    BY <1>2 DEF NextEntry
<1> QED BY <1>3 DEF Open

-----------------------------------------------------------------------------
(* Every step keeps the shape.                                             *)

LEMMA IdleIsNot ==
    ASSUME fetch # Idle, TypeInv
    PROVE  FetchRuns
BY DEF TypeInv

LEMMA RecordFrame ==
    ASSUME QueriesType, EvidenceType, LedgerKept, UNCHANGED <<queries, evidence>>
    PROVE  QueriesType' /\ EvidenceType'
BY DEF QueriesType, EvidenceType, LedgerKept, QueryIds

LEMMA LedgerFrame ==
    ASSUME LedgerType, UNCHANGED ledger
    PROVE  LedgerType' /\ LedgerKept
BY DEF LedgerType, LedgerKept

LEMMA TypeStart ==
    ASSUME Init
    PROVE  TypeInv
<1> USE DEF Init
<1>1. LedgerType
    <2>1. /\ IsSeq(Plan) /\ Len(Plan) \in Nat /\ DOMAIN Plan = 1 .. Len(Plan)
          /\ \A k \in DOMAIN Plan : IsSpl(Plan[k].spl)
        BY ConstantsAre, SeqFacts
    <2>2. ledger = [k \in 1 .. Len(Plan) |-> ledger[k]]
        BY <2>1
    <2>3. IsSeq(ledger) /\ DOMAIN ledger = DOMAIN Plan
        BY <2>1, <2>2, FunctionIsSeq
    <2>4. \A k \in DOMAIN Plan : ledger[k] = Planned(Plan[k].question, Plan[k].spl, "initial", 0, Nothing)
        OBVIOUS
    <2>5. \A k \in DOMAIN Plan : IsEntry(ledger[k])
        BY <2>1, <2>4, PlannedIsEntry
    <2> QED BY <2>3, <2>5 DEF LedgerType
<1>2. QueriesType /\ EvidenceType
    BY EmptyIsSeq, SeqFacts DEF QueriesType, EvidenceType
<1>3. RoundType
    BY EmptyIsSeq DEF RoundType, NoRound
<1> QED BY <1>1, <1>2, <1>3 DEF TypeInv

LEMMA TypeSkipSearch ==
    ASSUME TypeInv, SkipSearch
    PROVE  TypeInv' /\ LedgerKept
<1>1. NextEntry \in DOMAIN ledger
    BY NextIsOpen DEF TypeInv, SkipSearch
<1>2. PICK how : CloseEntry(NextEntry, how)
    BY DEF SkipSearch
<1>3. LedgerType' /\ LedgerKept
    BY <1>1, <1>2, StatusChange DEF CloseEntry, TypeInv
<1>4. UNCHANGED <<store, searches, queries, evidence, followUps, decisions, round>> /\ fetch' = Idle
    BY <1>2 DEF SkipSearch, roundVars, CloseEntry
<1>5. QueriesType' /\ EvidenceType'
    BY <1>3, <1>4, RecordFrame DEF TypeInv
<1>6. Idle' = Idle
    BY DEF Idle
<1> QED BY <1>3, <1>4, <1>5, <1>6 DEF TypeInv, RoundType

LEMMA TypeStartSearch ==
    ASSUME TypeInv, StartSearch
    PROVE  TypeInv' /\ LedgerKept
<1> DEFINE e == NextEntry
           limit == Shortest(RowLimit, HuntRowLimit - Len(evidence))
           found == FoundIn(store, ledger[e].spl)
<1>1. e \in DOMAIN ledger
    BY NextIsOpen DEF TypeInv, StartSearch
<1>2. limit \in Nat \ {0}
    <2>1. Len(evidence) \in Nat /\ Len(evidence) < HuntRowLimit
        BY SeqFacts DEF TypeInv, EvidenceType, StartSearch
    <2> QED BY <2>1, ConstantsAre DEF Shortest
<1>3. PICK reported \in {NotReported, Len(Found(ledger[e].spl))} :
          fetch' = [Idle EXCEPT !.entry = e, !.reported = reported, !.limit = limit]
    BY DEF StartSearch
<1>4. reported \in {NotReported, Len(found)}
    BY <1>3, FoundIs
<1>5. /\ UNCHANGED <<store, phase, ledger, queries, evidence, followUps, decisions, round>>
      /\ searches' = searches + 1 /\ phase = "search"
    BY DEF StartSearch, roundVars
<1>6. fetch' = [entry |-> e, reported |-> reported, limit |-> limit, rows |-> <<>>, pages |-> 0,
                stop |-> "none", ended |-> FALSE]
    BY <1>3 DEF Idle
<1>7. IsSeq(<<>>) /\ Len(<<>>) = 0 /\ DOMAIN <<>> = {}
    BY EmptyIsSeq
<1>8. IsSeq(found) /\ Len(found) \in Nat
    BY FoundFacts, SeqFacts DEF TypeInv
<1>9. Shortest(PageMax, limit) \in Nat
    BY <1>2, ConstantsAre DEF Shortest
<1>10. FetchRuns'
    <2> HIDE DEF e, limit
    <2>1. /\ fetch'.entry = e /\ fetch'.reported = reported /\ fetch'.limit = limit /\ fetch'.rows = <<>>
          /\ fetch'.pages = 0 /\ fetch'.stop = "none" /\ fetch'.ended = FALSE
        BY <1>6
    <2>2. FoundIn(store, ledger[fetch.entry].spl)' = found
        BY <1>5, <2>1
    <2> HIDE DEF found
    <2>3. 0 * Shortest(PageMax, limit) = 0
        BY <1>9
    <2> QED BY <1>1, <1>2, <1>4, <1>5, <1>6, <1>7, <1>8, <2>1, <2>2, <2>3 DEF FetchRuns
<1>11. LedgerType' /\ LedgerKept
    BY <1>5, LedgerFrame DEF TypeInv
<1>12. QueriesType' /\ EvidenceType'
    BY <1>5, <1>11, RecordFrame DEF TypeInv
<1>13. searches' \in Nat
    BY <1>5 DEF TypeInv
<1> QED BY <1>5, <1>10, <1>11, <1>12, <1>13 DEF TypeInv, RoundType

\* What a page adds to the rows retrieved so far.
IsPage(F, rows, limit, size, page, kept, new) ==
    /\ IsSeq(F) /\ IsSeq(rows) /\ Len(rows) <= Len(F)
    /\ \A k \in DOMAIN rows : rows[k] = F[k]
    /\ limit \in Nat /\ Len(rows) < limit /\ size \in Nat /\ size <= Len(F) - Len(rows)
    /\ page = Cut(Slice(F, Len(rows), size), limit - Len(rows))
    /\ kept \in Nat /\ kept <= Len(page) /\ new = rows \o Cut(page, kept)

LEMMA PageFacts ==
    ASSUME NEW F, NEW rows, NEW limit, NEW size, NEW page, NEW kept, NEW new,
           IsPage(F, rows, limit, size, page, kept, new)
    PROVE  /\ Len(page) = Shortest(size, limit - Len(rows))
           /\ IsSeq(new) /\ Len(new) = Len(rows) + kept
           /\ \A k \in DOMAIN new : new[k] = F[k]
<1> DEFINE n == Len(rows)
           slice == Slice(F, n, size)
<1>0. /\ IsSeq(F) /\ IsSeq(rows) /\ limit \in Nat /\ size \in Nat /\ kept \in Nat /\ kept <= Len(page)
      /\ \A k \in DOMAIN rows : rows[k] = F[k]
    BY DEF IsPage
<1>1. n \in Nat /\ Len(F) \in Nat /\ F \in Seq(Range(F)) /\ DOMAIN rows = 1 .. n /\ n <= Len(F) /\ n < limit
    BY SeqFacts DEF IsPage
<1>2. size <= Len(F) - n /\ page = Cut(slice, limit - n)
    BY DEF IsPage
<1>n. new = rows \o Cut(page, kept) /\ Len(rows) = n
    BY DEF IsPage
<1> HIDE DEF n
<1>3. /\ slice \in Seq(Range(F)) /\ Len(slice) = size
      /\ \A k \in DOMAIN slice : slice[k] = F[k + n]
    <2>1. size \in Int /\ ~(size < 0) /\ Shortest(size, Len(F) - n) = size
        BY <1>0, <1>1, <1>2 DEF Shortest
    <2> QED BY <1>1, <2>1, SliceFacts
<1>4. IsSeq(slice)
    BY <1>3, SeqIs
<1> HIDE DEF slice
<1>5. limit - n \in Int /\ ~(limit - n < 0)
    BY <1>0, <1>1
<1>6. /\ IsSeq(page) /\ Len(page) = Shortest(size, limit - n)
      /\ \A k \in DOMAIN page : page[k] = F[k + n]
    <2>1. /\ IsSeq(Cut(slice, limit - n))
          /\ Len(Cut(slice, limit - n)) = IF limit - n < 0 THEN 0 ELSE Shortest(limit - n, Len(slice))
          /\ \A k \in DOMAIN Cut(slice, limit - n) : k \in DOMAIN slice /\ Cut(slice, limit - n)[k] = slice[k]
        BY <1>4, <1>5, CutIsSeq
    <2>2. Shortest(limit - n, Len(slice)) = Shortest(size, limit - n)
        BY <1>0, <1>1, <1>3 DEF Shortest
    <2> QED BY <1>2, <1>3, <1>5, <2>1, <2>2
<1>7. /\ IsSeq(Cut(page, kept)) /\ Len(Cut(page, kept)) = kept
      /\ \A k \in DOMAIN Cut(page, kept) : Cut(page, kept)[k] = F[k + n]
    <2>1. kept \in Int /\ ~(kept < 0) /\ Len(page) \in Nat
        BY <1>0, <1>6, SeqFacts
    <2>2. Shortest(kept, Len(page)) = kept
        BY <1>0, <2>1 DEF Shortest
    <2>3. /\ IsSeq(Cut(page, kept)) /\ Len(Cut(page, kept)) = kept
          /\ \A k \in DOMAIN Cut(page, kept) : k \in DOMAIN page /\ Cut(page, kept)[k] = page[k]
        BY <1>6, <2>1, <2>2, CutIsSeq
    <2> QED BY <1>6, <2>3
<1> DEFINE more == Cut(page, kept)
<1>8. IsSeq(more) /\ Len(more) = kept /\ \A k \in DOMAIN more : more[k] = F[k + n]
    BY <1>7
<1>9. new = rows \o more
    BY <1>n
<1> HIDE DEF more
<1>10. /\ IsSeq(new) /\ Len(new) = n + kept
       /\ \A i \in DOMAIN rows : i \in DOMAIN new /\ new[i] = rows[i]
       /\ \A i \in DOMAIN new : i \in DOMAIN rows \/ (i - n \in DOMAIN more /\ new[i] = more[i - n])
    <2>1. /\ IsSeq(new) /\ Len(new) = Len(rows) + Len(more)
          /\ \A i \in DOMAIN rows : i \in DOMAIN new /\ new[i] = rows[i]
          /\ \A i \in DOMAIN new :
                i \in DOMAIN rows \/ (i - Len(rows) \in DOMAIN more /\ new[i] = more[i - Len(rows)])
        <3>1. Joined(rows \o more, rows, more)
            BY <1>0, <1>8, ConcatIsSeq
        <3>2. Joined(new, rows, more)
            BY <1>9, <3>1, Zenon
        <3> QED BY <3>2, Zenon DEF Joined
    <2> QED BY <1>8, <1>n, <2>1
<1>11. ASSUME NEW k \in DOMAIN new PROVE new[k] = F[k]
    <2>1. CASE k \in DOMAIN rows
        BY <1>0, <1>10, <2>1
    <2>2. CASE k \notin DOMAIN rows
        <3>1. k - n \in DOMAIN more /\ new[k] = more[k - n]
            BY <1>10, <2>2
        <3>2. new[k] = F[(k - n) + n]
            BY <1>8, <3>1
        <3>3. k \in Nat
            BY <1>10, SeqFacts
        <3>4. (k - n) + n = k
            BY <1>1, <3>3
        <3> QED BY <3>2, <3>4
    <2> QED BY <2>1, <2>2
<1> QED BY <1>6, <1>10, <1>11 DEF n

LEMMA TypeFetchPage ==
    ASSUME TypeInv, FetchPage
    PROVE  TypeInv' /\ LedgerKept
<1> DEFINE F == FoundIn(store, ledger[fetch.entry].spl)
           n == Len(fetch.rows)
           asked == Shortest(PageMax, fetch.limit)
<1>1. FetchRuns /\ WantsPage
    BY DEF TypeInv, FetchPage
<1>2. IsSeq(F) /\ Len(F) \in Nat
    BY FoundFacts, SeqFacts DEF TypeInv
<1>3. /\ fetch.limit \in Nat \ {0} /\ fetch.pages \in Nat /\ IsSeq(fetch.rows) /\ n <= Len(F)
      /\ fetch.reported \in {NotReported, Len(F)}
      /\ \A k \in DOMAIN fetch.rows : fetch.rows[k] = F[k]
    BY <1>1 DEF FetchRuns
<1>4. n \in Nat /\ n < fetch.limit /\ ~fetch.ended
    BY <1>1, <1>3, SeqFacts DEF WantsPage
<1>5. n = fetch.pages * asked
    BY <1>1, <1>3, <1>4 DEF FetchRuns
<1>6. asked \in Nat \ {0} /\ asked <= fetch.limit
    BY <1>3, ConstantsAre DEF Shortest
<1>7. Found(ledger[fetch.entry].spl) = F
    BY FoundIs
<1>8. /\ UNCHANGED <<store, phase, ledger, searches, queries, evidence, followUps, decisions, round>>
    BY DEF FetchPage, roundVars
<1> DEFINE Chunk(size) == Cut(Slice(F, n, size), fetch.limit - n)
<1>9. \A size : PageRows(size) = Chunk(size)
    BY <1>5, <1>7 DEF PageRows
<1>10. PICK size \in 0 .. Shortest(asked, Len(F) - fetch.pages * asked) :
         /\ size < Shortest(asked, Len(F) - fetch.pages * asked) => fetch.reported # NotReported
         /\ \E kept \in 0 .. Len(PageRows(size)) :
              LET rows == fetch.rows \o Cut(PageRows(size), kept)
                  stop == IF kept < Len(PageRows(size)) THEN "byte_limit"
                          ELSE IF size < asked /\ fetch.reported # NotReported /\ Len(rows) < fetch.reported
                          THEN "incomplete_page" ELSE "none"
              IN  fetch' = [fetch EXCEPT !.rows = rows, !.pages = @ + 1, !.stop = stop,
                                         !.ended = stop # "none" \/ size < asked]
    BY <1>7 DEF FetchPage
<1>11. PICK kept \in 0 .. Len(Chunk(size)) :
              LET rows == fetch.rows \o Cut(Chunk(size), kept)
                  stop == IF kept < Len(Chunk(size)) THEN "byte_limit"
                          ELSE IF size < asked /\ fetch.reported # NotReported /\ Len(rows) < fetch.reported
                          THEN "incomplete_page" ELSE "none"
              IN  fetch' = [fetch EXCEPT !.rows = rows, !.pages = @ + 1, !.stop = stop,
                                         !.ended = stop # "none" \/ size < asked]
    BY <1>9, <1>10
<1> DEFINE page == Chunk(size)
           rows == fetch.rows \o Cut(page, kept)
           stop == IF kept < Len(page) THEN "byte_limit"
                   ELSE IF size < asked /\ fetch.reported # NotReported /\ Len(rows) < fetch.reported
                   THEN "incomplete_page" ELSE "none"
<1>12. fetch' = [fetch EXCEPT !.rows = rows, !.pages = @ + 1, !.stop = stop, !.ended = stop # "none" \/ size < asked]
    BY <1>11
<1>13. /\ size < Shortest(asked, Len(F) - n) => fetch.reported # NotReported
       /\ size \in Nat /\ size <= Shortest(asked, Len(F) - n)
    <2> HIDE DEF n, asked, F
    <2> QED BY <1>2, <1>3, <1>4, <1>5, <1>6, <1>10 DEF Shortest
<1>14. size <= Len(F) - n /\ size <= asked
    <2> HIDE DEF n, asked, F
    <2> QED BY <1>2, <1>4, <1>6, <1>13 DEF Shortest
<1>15. kept \in Nat /\ kept <= Len(page)
    <2>1. IsSeq(Slice(F, n, size))
        <3> HIDE DEF n, F
        <3>1. F \in Seq(Range(F))
            BY <1>2, SeqFacts
        <3>2. Slice(F, n, size) \in Seq(Range(F))
            BY <1>4, <1>13, <3>1, SliceFacts
        <3> QED BY <3>2, SeqIs
    <2>2. fetch.limit - n \in Int
        BY <1>3, <1>4
    <2>3. Len(page) \in Nat
        <3> HIDE DEF n, F
        <3> QED BY <2>1, <2>2, CutIsSeq, SeqFacts
    <2> HIDE DEF Chunk
    <2> QED BY <1>11, <2>3
<1>16. /\ Len(page) = Shortest(size, fetch.limit - n)
       /\ IsSeq(rows) /\ Len(rows) = n + kept
       /\ \A k \in DOMAIN rows : rows[k] = F[k]
    <2> HIDE DEF F
    <2>1. page = Cut(Slice(F, Len(fetch.rows), size), fetch.limit - Len(fetch.rows))
        OBVIOUS
    <2>2. size <= Len(F) - Len(fetch.rows) /\ Len(fetch.rows) < fetch.limit
        BY <1>4, <1>14
    <2>3. rows = fetch.rows \o Cut(page, kept)
        OBVIOUS
    <2> DEFINE limit == fetch.limit
               had == fetch.rows
    <2>4. /\ IsSeq(had) /\ Len(had) <= Len(F) /\ \A k \in DOMAIN had : had[k] = F[k]
          /\ limit \in Nat /\ Len(had) < limit /\ size <= Len(F) - Len(had)
          /\ page = Cut(Slice(F, Len(had), size), limit - Len(had))
          /\ rows = had \o Cut(page, kept)
        BY <1>3, <2>1, <2>2, <2>3
    <2> HIDE DEF page, Chunk, limit, had, rows
    <2>p. IsPage(F, had, limit, size, page, kept, rows)
        BY <1>2, <1>13, <1>15, <2>4 DEF IsPage
    <2>5. /\ Len(page) = Shortest(size, limit - Len(had))
          /\ IsSeq(rows) /\ Len(rows) = Len(had) + kept
          /\ \A k \in DOMAIN rows : rows[k] = F[k]
        BY <2>p, PageFacts
    <2> QED BY <2>5 DEF limit, had
<1>17. fetch = [entry |-> fetch.entry, reported |-> fetch.reported, limit |-> fetch.limit,
                rows |-> fetch.rows, pages |-> fetch.pages, stop |-> fetch.stop, ended |-> fetch.ended]
    BY <1>1 DEF FetchRuns
<1> HIDE DEF rows, stop, page, Chunk
<1>18. fetch' = [entry |-> fetch.entry, reported |-> fetch.reported, limit |-> fetch.limit,
                 rows |-> rows, pages |-> fetch.pages + 1, stop |-> stop, ended |-> stop # "none" \/ size < asked]
    <2> HIDE DEF asked
    <2> QED BY <1>12, <1>17
<1>19. /\ n + kept <= Len(F)
       /\ size = asked /\ kept = Len(page) => n + kept >= fetch.limit \/ n + kept = (fetch.pages + 1) * asked
       /\ size < asked /\ size = Shortest(asked, Len(F) - n) /\ kept = Len(page) =>
             n + kept >= fetch.limit \/ n + kept = Len(F)
    <2> DEFINE limit == fetch.limit
               turned == fetch.pages
               all == Len(F)
    <2>1. /\ n \in Nat /\ all \in Nat /\ limit \in Nat \ {0} /\ asked \in Nat \ {0} /\ turned \in Nat
          /\ asked <= limit /\ n <= all /\ n < limit
          /\ size \in Nat /\ size <= Shortest(asked, all - n)
          /\ kept \in Nat /\ kept <= Shortest(size, limit - n)
          /\ Len(page) = Shortest(size, limit - n)
        BY <1>2, <1>3, <1>4, <1>5, <1>6, <1>13, <1>15, <1>16
    <2>p. n = turned * asked
        BY <1>5
    <2> HIDE DEF n, F, asked, limit, turned, all
    <2> DEFINE next == (turned + 1) * asked
    <2>2. next = n + asked
        <3>1. (turned + 1) * asked = turned * asked + asked
            BY <2>1
        <3> QED BY <2>1, <2>p, <3>1
    <2> HIDE DEF next
    <2>3. n + kept <= all
        BY <2>1 DEF Shortest
    <2>4. size = asked /\ kept = Shortest(size, limit - n) => n + kept >= limit \/ n + kept = next
        BY <2>1, <2>2 DEF Shortest
    <2>5. size < asked /\ size = Shortest(asked, all - n) /\ kept = Shortest(size, limit - n) =>
              n + kept >= limit \/ n + kept = all
        BY <2>1 DEF Shortest
    <2> QED BY <2>1, <2>3, <2>4, <2>5 DEF limit, turned, all, next
<1>20. stop = "none" => /\ kept = Len(page)
                        /\ size < asked => fetch.reported = NotReported \/ n + kept >= fetch.reported
    <2> HIDE DEF n, asked, F
    <2>1. Len(page) \in Nat
        BY <1>3, <1>4, <1>13, <1>16 DEF Shortest
    <2> QED BY <1>2, <1>3, <1>4, <1>15, <1>16, <2>1 DEF stop, NotReported
<1>21. FetchRuns'
    <2>1. /\ fetch'.entry = fetch.entry /\ fetch'.reported = fetch.reported /\ fetch'.limit = fetch.limit
          /\ fetch'.rows = rows /\ fetch'.pages = fetch.pages + 1 /\ fetch'.stop = stop
          /\ fetch'.ended = (stop # "none" \/ size < asked)
        BY <1>18
    <2>2. FoundIn(store, ledger[fetch.entry].spl)' = F
        BY <1>8, <2>1
    <2>3. /\ phase' = "search" /\ fetch'.entry \in DOMAIN ledger'
        BY <1>1, <1>8, <2>1 DEF FetchRuns
    <2>4. ~fetch'.ended => n + kept >= fetch.limit \/ n + kept = (fetch.pages + 1) * asked
        <3> HIDE DEF n, F, asked
        <3>1. ~fetch'.ended => size = asked /\ kept = Len(page)
            <4>1. ~fetch'.ended => stop = "none" /\ ~(size < asked)
                BY <2>1
            <4> QED BY <1>6, <1>13, <1>14, <1>20, <4>1
        <3> QED BY <1>19, <3>1
    <2>5. fetch'.ended /\ stop = "none" => n + kept >= fetch.limit \/ n + kept = Len(F)
        <3> SUFFICES ASSUME fetch'.ended, stop = "none" PROVE n + kept >= fetch.limit \/ n + kept = Len(F)
            OBVIOUS
        <3>1. size < asked /\ kept = Len(page)
            BY <1>20, <2>1
        <3>2. CASE fetch.reported = NotReported
            <4>1. size = Shortest(asked, Len(F) - n)
                <5> HIDE DEF n, F, asked
                <5> QED BY <1>2, <1>4, <1>6, <1>13, <3>2 DEF Shortest
            <4> QED BY <1>19, <3>1, <4>1
        <3>3. CASE fetch.reported # NotReported
            <4>1. n + kept >= Len(F)
                BY <1>3, <1>20, <3>1, <3>3
            <4> QED BY <1>2, <1>4, <1>15, <1>19, <4>1
        <3> QED BY <3>2, <3>3
    <2>6. fetch'.ended \in BOOLEAN /\ (~fetch'.ended => stop = "none")
        BY <2>1
    <2>7. fetch' = [entry |-> fetch'.entry, reported |-> fetch'.reported, limit |-> fetch'.limit,
                    rows |-> fetch'.rows, pages |-> fetch'.pages, stop |-> fetch'.stop, ended |-> fetch'.ended]
        BY <1>18
    <2>8. fetch'.pages \in Nat /\ Len(fetch'.rows) = n + kept
        BY <1>3, <1>16, <2>1
    <2> HIDE DEF n, F
    <2> QED BY <1>3, <1>16, <1>19, <2>1, <2>2, <2>3, <2>4, <2>5, <2>6, <2>7, <2>8 DEF FetchRuns
<1>22. LedgerType' /\ LedgerKept
    BY <1>8, LedgerFrame DEF TypeInv
<1>23. QueriesType' /\ EvidenceType'
    BY <1>8, <1>22, RecordFrame DEF TypeInv
<1> QED BY <1>8, <1>21, <1>22, <1>23 DEF TypeInv, RoundType

LEMMA AppendIsSeq ==
    ASSUME NEW s, IsSeq(s), NEW e
    PROVE  Joined(Append(s, e), s, <<e>>) /\ IsSeq(<<e>>) /\ Range(<<e>>) = {e}
<1>1. s \in Seq(Range(s)) /\ Len(s) \in Nat
    BY SeqFacts
<1>2. IsSeq(<<e>>) /\ Range(<<e>>) = {e} /\ <<e>> \in Seq({e})
    <2>1. <<e>> \in Seq({e}) /\ DOMAIN <<e>> = {1} /\ <<e>>[1] = e
        OBVIOUS
    <2>2. IsSeq(<<e>>)
        BY <2>1, SeqIs
    <2> QED BY <2>1, <2>2 DEF Range
<1>3. Append(s, e) = s \o <<e>>
    <2> DEFINE S == Range(s) \cup {e}
    <2>1. s \in Seq(S) /\ e \in S /\ <<e>> \in Seq(S)
        <3>1. Range(s) \subseteq S /\ e \in S
            OBVIOUS
        <3> HIDE DEF S
        <3> QED BY <1>1, <3>1
    <2> HIDE DEF S
    <2>2. Append(s, e) \in Seq(S) /\ (s \o <<e>>) \in Seq(S) /\ Len(Append(s, e)) = Len(s \o <<e>>)
        BY <1>1, <2>1
    <2>3. \A i \in 1 .. Len(s) + 1 : Append(s, e)[i] = (s \o <<e>>)[i]
        BY <1>1, <2>1
    <2> QED BY <1>1, <2>1, <2>2, <2>3
<1>4. Joined(s \o <<e>>, s, <<e>>)
    BY <1>2, ConcatIsSeq
<1> QED BY <1>2, <1>3, <1>4, Zenon

LEMMA TypeFetchTimeout ==
    ASSUME TypeInv, FetchTimeout
    PROVE  TypeInv' /\ LedgerKept
<1>1. FetchRuns /\ WantsPage
    BY DEF TypeInv, FetchTimeout
<1>2. UNCHANGED <<store, phase, searches, queries, evidence, followUps, decisions, round>>
    BY DEF FetchTimeout, roundVars
<1>3. CASE fetch.rows # <<>>
    <2>1. fetch' = [fetch EXCEPT !.stop = "query_timeout", !.ended = TRUE] /\ ledger' = ledger
        BY <1>3 DEF FetchTimeout
    <2>2. fetch = [entry |-> fetch.entry, reported |-> fetch.reported, limit |-> fetch.limit,
                   rows |-> fetch.rows, pages |-> fetch.pages, stop |-> fetch.stop, ended |-> fetch.ended]
        BY <1>1 DEF FetchRuns
    <2>3. fetch' = [entry |-> fetch.entry, reported |-> fetch.reported, limit |-> fetch.limit,
                    rows |-> fetch.rows, pages |-> fetch.pages, stop |-> "query_timeout", ended |-> TRUE]
        BY <2>1, <2>2
    <2>4. /\ fetch'.entry = fetch.entry /\ fetch'.reported = fetch.reported /\ fetch'.limit = fetch.limit
          /\ fetch'.rows = fetch.rows /\ fetch'.pages = fetch.pages /\ fetch'.stop = "query_timeout"
          /\ fetch'.ended = TRUE
        BY <2>3
    <2>5. FetchRuns'
        <3> DEFINE found == FoundIn(store, ledger[fetch.entry].spl)
        <3>1. found' = found
            BY <1>2, <2>1, <2>4
        <3>2. fetch' = [entry |-> fetch'.entry, reported |-> fetch'.reported, limit |-> fetch'.limit,
                        rows |-> fetch'.rows, pages |-> fetch'.pages, stop |-> fetch'.stop, ended |-> fetch'.ended]
            BY <2>3
        <3>3. /\ fetch.entry \in DOMAIN ledger /\ fetch.reported \in {NotReported, Len(found)} /\ phase = "search"
              /\ fetch.limit \in Nat \ {0} /\ fetch.pages \in Nat
              /\ IsSeq(fetch.rows) /\ Len(fetch.rows) <= Len(found)
              /\ \A k \in DOMAIN fetch.rows : fetch.rows[k] = found[k]
            BY <1>1 DEF FetchRuns
        <3>4. FoundIn(store, ledger[fetch.entry].spl)' = found
            BY <3>1
        <3> HIDE DEF found
        <3> QED BY <1>2, <2>1, <2>4, <3>2, <3>3, <3>4 DEF FetchRuns
    <2>6. LedgerType' /\ LedgerKept
        BY <2>1, LedgerFrame DEF TypeInv
    <2>7. QueriesType' /\ EvidenceType'
        BY <1>2, <2>6, RecordFrame DEF TypeInv
    <2> QED BY <1>2, <2>5, <2>6, <2>7 DEF TypeInv, RoundType
<1>4. CASE fetch.rows = <<>>
    <2>1. CloseEntry(fetch.entry, "timed_out")
        BY <1>4 DEF FetchTimeout
    <2>2. fetch.entry \in DOMAIN ledger
        BY <1>1 DEF FetchRuns
    <2>3. LedgerType' /\ LedgerKept
        BY <2>1, <2>2, StatusChange DEF TypeInv, CloseEntry
    <2>4. QueriesType' /\ EvidenceType'
        BY <1>2, <2>3, RecordFrame DEF TypeInv
    <2>5. fetch' = Idle /\ Idle' = Idle
        BY <2>1 DEF CloseEntry, Idle
    <2> QED BY <1>2, <2>3, <2>4, <2>5 DEF TypeInv, RoundType
<1> QED BY <1>3, <1>4

\* The search a retrieval becomes.
Completed ==
    [id |-> fetch.entry, question |-> ledger[fetch.entry].question, pairs |-> ledger[fetch.entry].spl.pairs,
     raw |-> ledger[fetch.entry].spl.raw, branches |-> ledger[fetch.entry].spl.branches,
     retained |-> Len(fetch.rows), truncated |-> StopReason # "none", available |-> fetch.reported]

LEMMA RecordSearchAdds ==
    ASSUME TypeInv, RecordSearch
    PROVE  /\ FetchRuns
           /\ LedgerType' /\ LedgerKept
           /\ Joined(queries', queries, <<Completed>>) /\ Range(queries') = Range(queries) \cup {Completed}
           /\ IsSeq(EvidenceForQuery(fetch.entry, fetch.rows))
           /\ Joined(evidence', evidence, EvidenceForQuery(fetch.entry, fetch.rows))
           /\ \A k \in DOMAIN fetch.rows : fetch.rows[k] \in Range(Events)
<1>1. FetchRuns
    BY DEF TypeInv, RecordSearch
<1>2. LedgerType' /\ LedgerKept
    <2>1. fetch.entry \in DOMAIN ledger
        BY <1>1 DEF FetchRuns
    <2> QED BY <2>1, StatusChange DEF TypeInv, RecordSearch
<1>3. queries' = Append(queries, Completed)
    BY DEF RecordSearch, Completed
<1>4. IsSeq(queries) /\ IsSeq(evidence)
    BY DEF TypeInv, QueriesType, EvidenceType
<1>5. Joined(queries', queries, <<Completed>>) /\ Range(queries') = Range(queries) \cup {Completed}
    <2>1. /\ Joined(Append(queries, Completed), queries, <<Completed>>)
          /\ Range(<<Completed>>) = {Completed}
        BY <1>4, AppendIsSeq
    <2>2. Joined(queries', queries, <<Completed>>)
        BY <1>3, <2>1, Zenon
    <2> QED BY <2>1, <2>2 DEF Joined
<1>6. IsSeq(EvidenceForQuery(fetch.entry, fetch.rows))
    <2> DEFINE new == EvidenceForQuery(fetch.entry, fetch.rows)
    <2>1. DOMAIN fetch.rows = 1 .. Len(fetch.rows) /\ Len(fetch.rows) \in Nat
        BY <1>1, SeqFacts DEF FetchRuns
    <2>2. new = [k \in 1 .. Len(fetch.rows) |-> new[k]]
        BY <2>1 DEF EvidenceForQuery
    <2> HIDE DEF new
    <2>3. IsSeq(new)
        BY <2>1, <2>2, FunctionIsSeq
    <2> QED BY <2>3 DEF new
<1>7. Joined(evidence', evidence, EvidenceForQuery(fetch.entry, fetch.rows))
    BY <1>4, <1>6, ConcatIsSeq DEF RecordSearch
<1>8. ASSUME NEW k \in DOMAIN fetch.rows PROVE fetch.rows[k] \in Range(Events)
    <2> DEFINE found == FoundIn(store, ledger[fetch.entry].spl)
    <2>1. IsSeq(found) /\ Range(found) \subseteq Range(Events) /\ Len(found) \in Nat /\ DOMAIN found = 1 .. Len(found)
        BY FoundFacts, SeqFacts DEF TypeInv
    <2>2. /\ IsSeq(fetch.rows) /\ Len(fetch.rows) <= Len(found)
          /\ fetch.rows[k] = found[k]
        BY <1>1 DEF FetchRuns
    <2>3. Len(fetch.rows) \in Nat /\ DOMAIN fetch.rows = 1 .. Len(fetch.rows)
        BY <2>2, SeqFacts
    <2> HIDE DEF found
    <2>4. k \in DOMAIN found
        BY <2>1, <2>2, <2>3
    <2> QED BY <2>1, <2>2, <2>4 DEF Range
<1> QED BY <1>1, <1>2, <1>5, <1>6, <1>7, <1>8

LEMMA TypeRecordSearch ==
    ASSUME TypeInv, RecordSearch
    PROVE  TypeInv' /\ LedgerKept
<1> DEFINE new == EvidenceForQuery(fetch.entry, fetch.rows)
<1>1. /\ FetchRuns /\ LedgerType' /\ LedgerKept
      /\ Joined(queries', queries, <<Completed>>) /\ Range(queries') = Range(queries) \cup {Completed}
      /\ Joined(evidence', evidence, new)
      /\ \A k \in DOMAIN fetch.rows : fetch.rows[k] \in Range(Events)
    BY RecordSearchAdds
<1>2. UNCHANGED <<store, searches, followUps, decisions, round>> /\ fetch' = Idle /\ Idle' = Idle
    BY DEF RecordSearch, roundVars, Idle
<1>3. fetch.entry \in DOMAIN ledger /\ IsFiniteSet(ledger[fetch.entry].spl.pairs)
    BY <1>1 DEF FetchRuns, TypeInv, LedgerType, IsEntry, IsSpl
<1>4. Completed.id = fetch.entry /\ Completed.pairs = ledger[fetch.entry].spl.pairs
    BY DEF Completed
<1>5. QueriesType'
    <2>1. IsSeq(queries')
        BY <1>1 DEF Joined
    <2>2. ASSUME NEW k \in DOMAIN queries' PROVE queries'[k].id \in DOMAIN ledger' /\ IsFiniteSet(queries'[k].pairs)
        <3>1. queries'[k] \in Range(queries) \cup {Completed}
            BY <1>1 DEF Range
        <3>2. CASE queries'[k] = Completed
            BY <1>1, <1>3, <1>4, <3>2 DEF LedgerKept
        <3>3. CASE queries'[k] \in Range(queries)
            <4>1. PICK j \in DOMAIN queries : queries'[k] = queries[j]
                BY <3>3 DEF Range
            <4> QED BY <1>1, <4>1 DEF TypeInv, QueriesType, LedgerKept
        <3> QED BY <3>1, <3>2, <3>3
    <2> QED BY <2>1, <2>2 DEF QueriesType
<1>6. QueryIds \subseteq QueryIds' /\ fetch.entry \in QueryIds'
    BY <1>1, <1>4 DEF QueryIds
<1>7. EvidenceType'
    <2>1. IsSeq(evidence')
        BY <1>1 DEF Joined
    <2>2. ASSUME NEW i \in DOMAIN evidence'
          PROVE  evidence'[i].event \in Range(Events) /\ evidence'[i].query \in QueryIds'
        <3>1. i \in DOMAIN evidence \/ (i - Len(evidence) \in DOMAIN new /\ evidence'[i] = new[i - Len(evidence)])
            BY <1>1, Zenon DEF Joined
        <3>2. CASE i \in DOMAIN evidence
            <4>1. evidence'[i] = evidence[i]
                BY <1>1, <3>2, Zenon DEF Joined
            <4> QED BY <1>6, <3>2, <4>1 DEF TypeInv, EvidenceType
        <3>3. CASE i - Len(evidence) \in DOMAIN new /\ evidence'[i] = new[i - Len(evidence)]
            <4> DEFINE k == i - Len(evidence)
            <4>1. k \in DOMAIN fetch.rows /\ evidence'[i] = [query |-> fetch.entry, event |-> fetch.rows[k]]
                <5>1. k \in DOMAIN new /\ evidence'[i] = new[k]
                    BY <3>3
                <5> HIDE DEF k
                <5> QED BY <5>1 DEF EvidenceForQuery
            <4> HIDE DEF k
            <4> QED BY <1>1, <1>6, <4>1
        <3> QED BY <3>1, <3>2, <3>3
    <2> QED BY <2>1, <2>2 DEF EvidenceType
<1> QED BY <1>1, <1>2, <1>5, <1>7 DEF TypeInv, RoundType

LEMMA OutsideSearch ==
    ASSUME TypeInv, phase # "search"
    PROVE  fetch = Idle
BY DEF TypeInv, FetchRuns

LEMMA TypeFrame ==
    ASSUME TypeInv, UNCHANGED searchVars, RoundType', fetch = Idle \/ phase' = phase
    PROVE  TypeInv' /\ LedgerKept
<1>1. UNCHANGED <<store, ledger, fetch, searches, queries, evidence>>
    BY DEF searchVars
<1>2. LedgerType' /\ LedgerKept
    BY <1>1, LedgerFrame DEF TypeInv
<1>3. QueriesType' /\ EvidenceType'
    BY <1>1, <1>2, RecordFrame DEF TypeInv
<1>4. fetch' # Idle' => FetchRuns'
    <2>1. Idle' = Idle
        BY DEF Idle
    <2>2. ASSUME fetch # Idle PROVE FetchRuns'
        <3>1. FetchRuns /\ phase' = phase
            BY <2>2 DEF TypeInv
        <3> QED BY <1>1, <3>1 DEF FetchRuns
    <2> QED BY <1>1, <2>1, <2>2
<1> QED BY <1>1, <1>2, <1>3, <1>4 DEF TypeInv

LEMMA RoundFrame ==
    ASSUME TypeInv, UNCHANGED <<followUps, decisions, round>>
    PROVE  RoundType'
BY DEF TypeInv, RoundType

\* The places of the questions that are still open.
PendingAt(questions, qs, ds) ==
    {k \in DOMAIN questions : /\ QuestionCompletedQueryIds(qs, questions[k].id) = {}
                              /\ ~Skipped(ds, qs, questions[k].id)}

LEMMA PendingIs ==
    ASSUME NEW questions, NEW qs, NEW ds
    PROVE  PendingInvestigationQuestions(questions, qs, ds) = At(questions, PendingAt(questions, qs, ds))
<1> DEFINE D == {k \in DOMAIN questions : /\ QuestionCompletedQueryIds(qs, questions[k].id) = {}
                                          /\ ~Skipped(ds, qs, questions[k].id)}
<1>1. PendingInvestigationQuestions(questions, qs, ds)
      = [k \in DOMAIN Ascending(D) |-> questions[Ascending(D)[k]]]
    BY DEF PendingInvestigationQuestions, Filtered, Ordered, Ascending
<1> QED BY <1>1 DEF PendingAt, At

LEMMA PendingFacts ==
    ASSUME NEW questions, IsSeq(questions), NEW qs, NEW ds
    PROVE  /\ IsSeq(PendingInvestigationQuestions(questions, qs, ds))
           /\ PendingInvestigationQuestions(questions, qs, ds) = <<>> <=> PendingAt(questions, qs, ds) = {}
<1>1. PendingAt(questions, qs, ds) \in SUBSET DOMAIN questions
    BY DEF PendingAt
<1> QED BY <1>1, PendingIs, AtIsSeq

LEMMA UnassessedFinite ==
    ASSUME TypeInv
    PROVE  IsFiniteSet(QueryIds) /\ IsFiniteSet(Unassessed)
<1>1. IsFiniteSet(Range(queries))
    BY RangeFinite DEF TypeInv, QueriesType
<1> DEFINE f == [q \in Range(queries) |-> q.id]
<1>2. f \in Surjection(Range(queries), QueryIds)
    BY DEF Surjection, QueryIds
<1>3. IsFiniteSet(QueryIds)
    BY <1>1, <1>2, FS_Surjection
<1> QED BY <1>3, FS_Subset DEF Unassessed

LEMMA AssessmentsAreSeqs ==
    ASSUME TypeInv, NEW labels, NEW a \in DecodedAssessments(labels)
    PROVE  IsSeq(a)
<1> DEFINE ids == Ordered(Unassessed, <)
<1>1. Cardinality(Unassessed) \in Nat
    BY UnassessedFinite, FS_CardinalityType
<1>2. DOMAIN ids = 1 .. Cardinality(Unassessed)
    BY DEF Ordered
<1>3. PICK x \in Assessments(labels) : a = [k \in DOMAIN x |-> [x[k] EXCEPT !.refs = Decode(labels, @)]]
    BY DEF DecodedAssessments
<1>4. DOMAIN x = DOMAIN ids
    BY <1>3 DEF Assessments
<1> HIDE DEF ids
<1>5. a = [k \in 1 .. Cardinality(Unassessed) |-> a[k]]
    BY <1>2, <1>3, <1>4
<1> QED BY <1>1, <1>5, FunctionIsSeq

LEMMA FollowUpsAreSeqs ==
    ASSUME NEW a, IsSeq(a), NEW first
    PROVE  IsSeq(FollowUpQuestions(a, first))
<1> DEFINE D == {k \in DOMAIN a : a[k].next # Nothing}
           proposing == At(a, D)
           n == IF Len(proposing) < MaxFollowUps THEN Len(proposing) ELSE MaxFollowUps
           new == FollowUpQuestions(a, first)
<1>1. Filtered(a, LAMBDA x : x.next # Nothing) = proposing
    BY DEF Filtered, Ordered, Ascending, At
<1>2. new = [k \in 1 .. n |-> [id |-> first + k - 1, source |-> proposing[k].query, grounds |-> proposing[k].refs,
                               leads |-> RequiresAllLeadCoverage(proposing[k].next)]]
    BY <1>1 DEF FollowUpQuestions
<1>3. D \in SUBSET DOMAIN a
    OBVIOUS
<1> HIDE DEF D
<1>4. IsSeq(proposing)
    BY <1>3, AtIsSeq
<1>5. n \in Nat
    BY <1>4, SeqFacts, InvestigationAssumption DEF InvestigationAssumption
<1> HIDE DEF n, proposing
<1>6. new = [k \in 1 .. n |-> new[k]]
    BY <1>2
<1> HIDE DEF new
<1>7. IsSeq(new)
    BY <1>5, <1>6, FunctionIsSeq
<1> QED BY <1>7 DEF new

\* The searches a round adds to check a truncated search's sources.
LEMMA SourceChecksAreEntries ==
    ASSUME TypeInv
    PROVE  IsSeq(SourceChecksWanted) /\ \A k \in DOMAIN SourceChecksWanted : IsEntry(SourceChecksWanted[k])
<1> DEFINE Wanted(q) == SetToSeq({p \in q.pairs : /\ NeedsSourceCheck(ledger, evidence, q, p)
                                                  /\ SourceChecks(ledger, q, p) = {}})
           Check(q, p) == Planned(q.question, [ledger[q.id].spl EXCEPT !.pairs = {p}], "source_coverage", q.id, p)
           Checks(q) == [j \in DOMAIN Wanted(q) |-> Check(q, Wanted(q)[j])]
           ss == [k \in DOMAIN queries |-> Checks(queries[k])]
<1>1. SourceChecksWanted = Cut(FlattenSeq(ss), MaxSearches - searches)
    BY DEF SourceChecksWanted
<1>2. IsSeq(queries) /\ DOMAIN queries = 1 .. Len(queries) /\ Len(queries) \in Nat
    BY SeqFacts DEF TypeInv, QueriesType
<1>3. ASSUME NEW q \in Range(queries), NEW p PROVE IsEntry(Check(q, p))
    <2>1. q.id \in DOMAIN ledger
        BY <1>3 DEF TypeInv, QueriesType, Range
    <2> DEFINE s == ledger[q.id].spl
    <2>2. s = [pairs |-> s.pairs, branches |-> s.branches, raw |-> s.raw]
        BY <2>1 DEF TypeInv, LedgerType, IsEntry, IsSpl
    <2> HIDE DEF s
    <2>3. [s EXCEPT !.pairs = {p}] = [pairs |-> {p}, branches |-> s.branches, raw |-> s.raw]
        BY <2>2
    <2>4. IsFiniteSet({p})
        BY FS_Singleton
    <2>5. IsSpl([pairs |-> {p}, branches |-> s.branches, raw |-> s.raw])
        BY <2>4 DEF IsSpl
    <2>6. IsSpl([s EXCEPT !.pairs = {p}])
        BY <2>3, <2>5
    <2> QED BY <2>6, PlannedIsEntry DEF s
<1>4. ASSUME NEW q \in Range(queries) PROVE IsSeq(Checks(q)) /\ \A e \in Range(Checks(q)) : IsEntry(e)
    <2> DEFINE P == {p \in q.pairs : /\ NeedsSourceCheck(ledger, evidence, q, p)
                                     /\ SourceChecks(ledger, q, p) = {}}
    <2>1. IsFiniteSet(P)
        <3>1. IsFiniteSet(q.pairs)
            BY <1>4 DEF TypeInv, QueriesType, Range
        <3> QED BY <3>1, FS_Subset
    <2>2. Wanted(q) = SetToSeq(P)
        OBVIOUS
    <2> HIDE DEF P
    <2>3. IsSeq(Wanted(q))
        BY <2>1, <2>2, SetToSeqIsSeq
    <2> HIDE DEF Wanted, Check
    <2>4. DOMAIN Wanted(q) = 1 .. Len(Wanted(q)) /\ Len(Wanted(q)) \in Nat
        BY <2>3, SeqFacts
    <2>5. Checks(q) = [j \in 1 .. Len(Wanted(q)) |-> Checks(q)[j]]
        BY <2>4
    <2>6. \A e \in Range(Checks(q)) : IsEntry(e)
        BY <1>3 DEF Range
    <2> HIDE DEF Checks
    <2> QED BY <2>4, <2>5, <2>6, FunctionIsSeq
<1> HIDE DEF Checks
<1>5. ss = [k \in 1 .. Len(queries) |-> ss[k]] /\ DOMAIN ss = DOMAIN queries
    BY <1>2
<1>6. IsSeq(ss)
    BY <1>2, <1>5, FunctionIsSeq
<1>7. \A k \in DOMAIN ss : IsSeq(ss[k]) /\ \A e \in Range(ss[k]) : IsEntry(e)
    BY <1>4 DEF Range
<1> HIDE DEF ss
<1>8. IsSeq(FlattenSeq(ss)) /\ Range(FlattenSeq(ss)) = UNION {Range(ss[k]) : k \in DOMAIN ss}
    BY <1>6, <1>7, FlattenIsSeq
<1>9. MaxSearches - searches \in Int
    BY ConstantsAre DEF TypeInv
<1>10. IsSeq(SourceChecksWanted) /\ Range(SourceChecksWanted) \subseteq Range(FlattenSeq(ss))
    BY <1>1, <1>8, <1>9, CutIsSeq
<1>11. \A e \in Range(SourceChecksWanted) : IsEntry(e)
    BY <1>7, <1>8, <1>10
<1> QED BY <1>10, <1>11, SeqFacts

LEMMA TypeCoverSources ==
    ASSUME TypeInv, CoverSources
    PROVE  TypeInv' /\ LedgerKept
<1>1. LedgerType' /\ LedgerKept
    <2>1. IsSeq(SourceChecksWanted) /\ \A k \in DOMAIN SourceChecksWanted : IsEntry(SourceChecksWanted[k])
        BY SourceChecksAreEntries
    <2>2. ledger' = ledger \o SourceChecksWanted
        BY DEF CoverSources
    <2> QED BY <2>1, <2>2, LedgerAdds DEF TypeInv
<1>2. UNCHANGED <<store, fetch, searches, queries, evidence, followUps, decisions, round>> /\ fetch = Idle
    BY OutsideSearch DEF CoverSources
<1>3. QueriesType' /\ EvidenceType'
    BY <1>1, <1>2, RecordFrame DEF TypeInv
<1>4. fetch' = Idle'
    BY <1>2 DEF Idle
<1> QED BY <1>1, <1>2, <1>3, <1>4 DEF TypeInv, RoundType

LEMMA QuestionsAreSeq ==
    ASSUME TypeInv
    PROVE  IsSeq(AllQuestions)
BY ConstantsAre, ConcatIsSeq DEF TypeInv, RoundType, AllQuestions, Joined

\* A round that ends leaves the searches and what they retained alone.
LEMMA TypeRound ==
    ASSUME TypeInv, UNCHANGED <<store, fetch, searches, queries, evidence>>, fetch = Idle,
           LedgerType', LedgerKept, RoundType'
    PROVE  TypeInv' /\ LedgerKept
<1>1. QueriesType' /\ EvidenceType'
    BY RecordFrame DEF TypeInv
<1>2. fetch' = Idle'
    BY DEF Idle
<1> QED BY <1>1, <1>2 DEF TypeInv

LEMMA TypeAssess ==
    ASSUME TypeInv, Assess
    PROVE  TypeInv' /\ LedgerKept
<1>1. fetch = Idle /\ UNCHANGED <<store, fetch, searches, queries, evidence>>
    BY OutsideSearch DEF Assess
<1>2. PICK a \in DecodedAssessments(FromContext(queries, evidence, AssessSample)) :
          LET new == FollowUpQuestions(a, Len(AllQuestions) + 1)
              open == Cut(PendingInvestigationQuestions(AllQuestions \o new, queries, decisions),
                          MaxSearches - searches)
          IN  IF open = <<>>
              THEN /\ FinishRound(ledger, decisions, followUps \o new, QueryIds, "assessed")
                   /\ UNCHANGED round
              ELSE /\ round' = [questions |-> open, sample |-> AssessSample, followUps |-> new]
                   /\ phase' = "decide"
                   /\ UNCHANGED <<ledger, assessed, followUps, decisions, pending, status>>
    BY Zenon DEF Assess
<1> DEFINE new == FollowUpQuestions(a, Len(AllQuestions) + 1)
           all == AllQuestions \o new
           open == Cut(PendingInvestigationQuestions(all, queries, decisions), MaxSearches - searches)
<1>3. IsSeq(new)
    BY <1>2, AssessmentsAreSeqs, FollowUpsAreSeqs
<1>4. IsSeq(all)
    <2> HIDE DEF new
    <2> QED BY <1>3, QuestionsAreSeq, ConcatIsSeq DEF Joined
<1>5. IsSeq(open)
    <2> HIDE DEF all
    <2>1. MaxSearches - searches \in Int
        BY ConstantsAre DEF TypeInv
    <2> QED BY <1>4, <2>1, PendingFacts, CutIsSeq
<1>6. \/ FinishRound(ledger, decisions, followUps \o new, QueryIds, "assessed") /\ UNCHANGED round
      \/ /\ round' = [questions |-> open, sample |-> AssessSample, followUps |-> new]
         /\ UNCHANGED <<ledger, followUps, decisions>>
    BY <1>2
<1> HIDE DEF new, open
<1>7. CASE FinishRound(ledger, decisions, followUps \o new, QueryIds, "assessed") /\ UNCHANGED round
    <2>1. UNCHANGED <<ledger, decisions, round>> /\ followUps' = followUps \o new
        BY <1>7 DEF FinishRound
    <2>2. IsSeq(followUps')
        BY <1>3, <2>1, ConcatIsSeq DEF TypeInv, RoundType, Joined
    <2>3. RoundType'
        BY <2>1, <2>2 DEF TypeInv, RoundType
    <2>4. LedgerType' /\ LedgerKept
        BY <2>1, LedgerFrame DEF TypeInv
    <2> QED BY <1>1, <2>3, <2>4, TypeRound
<1>8. CASE /\ round' = [questions |-> open, sample |-> AssessSample, followUps |-> new]
           /\ UNCHANGED <<ledger, followUps, decisions>>
    <2>1. round'.questions = open /\ round'.followUps = new
        BY <1>8
    <2>2. RoundType'
        BY <1>3, <1>5, <1>8, <2>1 DEF TypeInv, RoundType
    <2>3. LedgerType' /\ LedgerKept
        BY <1>8, LedgerFrame DEF TypeInv
    <2> QED BY <1>1, <2>2, <2>3, TypeRound
<1> QED BY <1>6, <1>7, <1>8

LEMMA TypeNoMoreRounds ==
    ASSUME TypeInv, NoMoreRounds
    PROVE  TypeInv' /\ LedgerKept
<1>1. fetch = Idle /\ UNCHANGED <<store, fetch, searches, queries, evidence, round>>
    BY OutsideSearch DEF NoMoreRounds
<1>2. UNCHANGED <<ledger, decisions, followUps>>
    BY DEF NoMoreRounds, FinishRound
<1>3. RoundType' /\ LedgerType' /\ LedgerKept
    BY <1>1, <1>2, RoundFrame, LedgerFrame DEF TypeInv
<1> QED BY <1>1, <1>3, TypeRound

DecisionOn(w, id) == w.question = id /\ (w.spl # <<>> => IsSpl(w.spl[1]))

LEMMA WidenedFacts ==
    ASSUME NEW id, NEW spl, spl \in {<<>>} \cup {<<p>> : p \in Proposals}, NEW question, NEW sessions
    PROVE  DecisionOn(Widened([question |-> id, spl |-> spl], question, sessions), id)
<1> DEFINE d == [question |-> id, spl |-> spl]
           w == Widened([question |-> id, spl |-> spl], question, sessions)
<1> SUFFICES w.question = id /\ (w.spl # <<>> => IsSpl(w.spl[1]))
    BY DEF DecisionOn
<1>1. \A p \in Proposals : p = [pairs |-> p.pairs, branches |-> p.branches, raw |-> p.raw] /\ IsFiniteSet(p.pairs)
    BY ConstantsAre DEF IsSpl
<1>2. CASE w = d
    <2> HIDE DEF w
    <2> QED BY <1>2, ConstantsAre
<1>3. CASE /\ spl # <<>>
           /\ w = [d EXCEPT !.spl = <<WidenSplForLeadSessions(@[1], sessions)>>]
    <2>1. PICK p \in Proposals : spl = <<p>>
        BY <1>3
    <2> HIDE DEF w
    <2>2. w = [question |-> id, spl |-> <<[p EXCEPT !.branches = sessions]>>]
        BY <1>3, <2>1 DEF WidenSplForLeadSessions
    <2>3. [p EXCEPT !.branches = sessions] = [pairs |-> p.pairs, branches |-> sessions, raw |-> p.raw]
        BY <1>1
    <2>4. IsSpl([pairs |-> p.pairs, branches |-> sessions, raw |-> p.raw])
        BY <1>1 DEF IsSpl
    <2>5. IsSpl([p EXCEPT !.branches = sessions])
        BY <2>3, <2>4
    <2> QED BY <2>2, <2>5
<1>4. w = d \/ (spl # <<>> /\ w = [d EXCEPT !.spl = <<WidenSplForLeadSessions(@[1], sessions)>>])
    BY DEF Widened
<1> HIDE DEF w
<1> QED BY <1>2, <1>3, <1>4

LEMMA DecideFacts ==
    ASSUME TypeInv, NEW proposed \in Decided
    PROVE  /\ DOMAIN WidenedDecisions(proposed) = DOMAIN round.questions
           /\ DOMAIN round.questions = 1 .. Len(round.questions) /\ Len(round.questions) \in Nat
           /\ \A k \in DOMAIN round.questions :
                 /\ WidenedDecisions(proposed)[k].question = round.questions[k].id
                 /\ WidenedDecisions(proposed)[k].spl # <<>> => IsSpl(WidenedDecisions(proposed)[k].spl[1])
<1> DEFINE qs == round.questions
           sessions == LeadSessions(Range(round.sample))
<1>1. PICK s \in [DOMAIN qs -> {<<>>} \cup {<<p>> : p \in Proposals}] :
          proposed = [k \in DOMAIN qs |-> [question |-> qs[k].id, spl |-> s[k]]]
    BY DEF Decided
<1>2. DOMAIN proposed = DOMAIN qs
    BY <1>1
<1>3. ASSUME NEW k \in DOMAIN qs
      PROVE  WidenedDecisions(proposed)[k] = Widened([question |-> qs[k].id, spl |-> s[k]], qs[k], sessions)
    <2>1. proposed[k] = [question |-> qs[k].id, spl |-> s[k]]
        BY <1>1
    <2> QED BY <1>2, <2>1 DEF WidenedDecisions
<1>4. ASSUME NEW k \in DOMAIN qs
      PROVE  /\ WidenedDecisions(proposed)[k].question = qs[k].id
             /\ WidenedDecisions(proposed)[k].spl # <<>> => IsSpl(WidenedDecisions(proposed)[k].spl[1])
    <2>1. s[k] \in {<<>>} \cup {<<p>> : p \in Proposals}
        OBVIOUS
    <2> DEFINE id == qs[k].id
               spl == s[k]
               w == WidenedDecisions(proposed)[k]
    <2>2. w = Widened([question |-> id, spl |-> spl], qs[k], sessions)
        BY <1>3
    <2> HIDE DEF qs, sessions, w, id, spl
    <2>3. w.question = id /\ (w.spl # <<>> => IsSpl(w.spl[1]))
        <3>1. spl \in {<<>>} \cup {<<p>> : p \in Proposals}
            BY <2>1 DEF spl
        <3>2. DecisionOn(Widened([question |-> id, spl |-> spl], qs[k], sessions), id)
            BY <3>1, WidenedFacts
        <3> QED BY <2>2, <3>2 DEF DecisionOn
    <2> QED BY <2>3 DEF w, id
<1>5. DOMAIN WidenedDecisions(proposed) = DOMAIN qs
    BY <1>2 DEF WidenedDecisions
<1>6. DOMAIN qs = 1 .. Len(qs) /\ Len(qs) \in Nat
    BY SeqFacts DEF TypeInv, RoundType
<1> QED BY <1>4, <1>5, <1>6

\* What a round's decisions add to the ledger and to the decisions.
NewSearches(d) ==
    LET fresh == Ascending({k \in DOMAIN d : d[k].spl # <<>> /\ ~Duplicate(d, k)})
    IN  [k \in DOMAIN fresh |-> Planned(d[fresh[k]].question, d[fresh[k]].spl[1], "adaptive_follow_up", 0, Nothing)]
NewDecisions(d) ==
    [k \in DOMAIN d |->
        [question |-> d[k].question, skip |-> d[k].spl = <<>> \/ (d[k].spl # <<>> /\ Duplicate(d, k)),
         duplicate |-> d[k].spl # <<>> /\ Duplicate(d, k),
         considered |-> IF d[k].spl # <<>> /\ Duplicate(d, k) THEN {} ELSE QueryIds]]

LEMMA DecideIs ==
    ASSUME Decide
    PROVE  \E proposed \in Decided :
              FinishRound(ledger \o NewSearches(WidenedDecisions(proposed)),
                          decisions \o NewDecisions(WidenedDecisions(proposed)),
                          followUps \o round.followUps, QueryIds,
                          IF NewSearches(WidenedDecisions(proposed)) # <<>>
                          THEN "follow_up_planned" ELSE "no_follow_up_query")
BY DEF Decide, NewSearches, NewDecisions, Ordered, Ascending

LEMMA DecideAdds ==
    ASSUME TypeInv, NEW proposed \in Decided, NEW d, d = WidenedDecisions(proposed)
    PROVE  /\ IsSeq(NewSearches(d)) /\ \A k \in DOMAIN NewSearches(d) : IsEntry(NewSearches(d)[k])
           /\ IsSeq(NewDecisions(d))
<1>1. /\ DOMAIN d = 1 .. Len(round.questions) /\ Len(round.questions) \in Nat
      /\ \A k \in DOMAIN d : d[k].spl # <<>> => IsSpl(d[k].spl[1])
    BY DecideFacts
<1> DEFINE n == Len(round.questions)
           D == {k \in DOMAIN d : d[k].spl # <<>> /\ ~Duplicate(d, k)}
           fresh == Ascending(D)
           new == NewSearches(d)
           kept == NewDecisions(d)
<1>2. D \in SUBSET Nat /\ D \subseteq DOMAIN d /\ \A k \in D : d[k].spl # <<>>
    BY <1>1
<1>3. IsFiniteSet(D)
    <2>1. n \in Nat /\ DOMAIN d = 1 .. n
        BY <1>1
    <2> HIDE DEF n, D
    <2>2. IsFiniteSet(1 .. n)
        BY <2>1, FS_Interval
    <2> QED BY <1>2, <2>1, <2>2, FS_Subset
<1>4. new = [k \in DOMAIN fresh |->
                Planned(d[fresh[k]].question, d[fresh[k]].spl[1], "adaptive_follow_up", 0, Nothing)]
    BY DEF NewSearches
<1>5. kept = [k \in 1 .. n |-> kept[k]]
    BY <1>1 DEF NewDecisions
<1> HIDE DEF D, new, kept
<1>6. Cardinality(D) \in Nat /\ DOMAIN fresh = 1 .. Cardinality(D) /\ \A k \in DOMAIN fresh : fresh[k] \in D
    BY <1>2, <1>3, NumbersListed DEF Lists
<1> HIDE DEF fresh
<1>7. new = [k \in 1 .. Cardinality(D) |-> new[k]]
    BY <1>4, <1>6
<1>8. IsSeq(new) /\ DOMAIN new = DOMAIN fresh
    BY <1>6, <1>7, FunctionIsSeq
<1>9. ASSUME NEW k \in DOMAIN new PROVE IsEntry(new[k])
    <2>1. fresh[k] \in D /\ IsSpl(d[fresh[k]].spl[1])
        BY <1>1, <1>2, <1>6, <1>8
    <2> QED BY <1>4, <1>8, <2>1, PlannedIsEntry
<1>10. IsSeq(kept)
    BY <1>1, <1>5, FunctionIsSeq
<1> QED BY <1>8, <1>9, <1>10 DEF new, kept

LEMMA TypeDecide ==
    ASSUME TypeInv, Decide
    PROVE  TypeInv' /\ LedgerKept
<1>1. fetch = Idle /\ UNCHANGED <<store, fetch, searches, queries, evidence>> /\ round' = NoRound
    BY OutsideSearch DEF Decide
<1>2. PICK proposed \in Decided :
              FinishRound(ledger \o NewSearches(WidenedDecisions(proposed)),
                          decisions \o NewDecisions(WidenedDecisions(proposed)),
                          followUps \o round.followUps, QueryIds,
                          IF NewSearches(WidenedDecisions(proposed)) # <<>>
                          THEN "follow_up_planned" ELSE "no_follow_up_query")
    BY DecideIs
<1> DEFINE d == WidenedDecisions(proposed)
<1>3. /\ ledger' = ledger \o NewSearches(d) /\ decisions' = decisions \o NewDecisions(d)
      /\ followUps' = followUps \o round.followUps
    BY <1>2 DEF FinishRound
<1>4. /\ IsSeq(NewSearches(d)) /\ \A k \in DOMAIN NewSearches(d) : IsEntry(NewSearches(d)[k])
      /\ IsSeq(NewDecisions(d))
    BY DecideAdds
<1> HIDE DEF d
<1>5. LedgerType' /\ LedgerKept
    BY <1>3, <1>4, LedgerAdds DEF TypeInv
<1>6. IsSeq(decisions') /\ IsSeq(followUps')
    BY <1>3, <1>4, ConcatIsSeq DEF TypeInv, RoundType, Joined
<1>7. round'.questions = <<>> /\ round'.followUps = <<>>
    BY <1>1 DEF NoRound
<1>8. RoundType'
    BY <1>6, <1>7, EmptyIsSeq DEF RoundType
<1> QED BY <1>1, <1>5, <1>8, TypeRound

LEMMA TypeEndRounds ==
    ASSUME TypeInv, NEW how, EndRounds(how), phase # "search"
    PROVE  TypeInv' /\ LedgerKept
<1>1. UNCHANGED searchVars /\ fetch = Idle
    BY OutsideSearch DEF EndRounds
<1>2. UNCHANGED <<followUps, decisions>> /\ round'.questions = <<>> /\ round'.followUps = <<>>
    BY DEF EndRounds, NoRound
<1>3. RoundType'
    BY <1>2, EmptyIsSeq DEF TypeInv, RoundType
<1> QED BY <1>1, <1>3, TypeFrame

LEMMA TypeStep ==
    ASSUME TypeInv, [Next]_vars
    PROVE  TypeInv' /\ LedgerKept
<1>1. CASE SkipSearch
    BY <1>1, TypeSkipSearch
<1>2. CASE StartSearch
    BY <1>2, TypeStartSearch
<1>3. CASE FetchPage
    BY <1>3, TypeFetchPage
<1>4. CASE FetchTimeout
    BY <1>4, TypeFetchTimeout
<1>5. CASE RecordSearch
    BY <1>5, TypeRecordSearch
<1>6. CASE CoverSources
    BY <1>6, TypeCoverSources
<1>7. CASE Assess
    BY <1>7, TypeAssess
<1>8. CASE NoMoreRounds
    BY <1>8, TypeNoMoreRounds
<1>9. CASE Decide
    BY <1>9, TypeDecide
<1>10. CASE StopRounds
    BY <1>10, TypeEndRounds DEF StopRounds
<1>11. CASE RoundExhausted
    BY <1>11, TypeEndRounds DEF RoundExhausted
<1>12. CASE TimePasses
    BY <1>12, RoundFrame, TypeFrame DEF TimePasses, roundVars
<1>13. CASE SearchesDone
    BY <1>13, RoundFrame, TypeFrame DEF SearchesDone, roundVars
<1>14. CASE Synthesize
    BY <1>14, RoundFrame, TypeFrame DEF Synthesize, roundVars
<1>15. CASE FinalOnly
    BY <1>15, RoundFrame, TypeFrame DEF FinalOnly, roundVars
<1>16. CASE BudgetLimited
    BY <1>16, RoundFrame, TypeFrame DEF BudgetLimited, roundVars
<1>17. CASE PublishReport
    BY <1>17, RoundFrame, TypeFrame, OutsideSearch DEF PublishReport, roundVars
<1>18. CASE SaveReport
    BY <1>18, RoundFrame, TypeFrame DEF SaveReport, roundVars
<1>19. CASE FinalizeReport
    BY <1>19, RoundFrame, TypeFrame, OutsideSearch DEF FinalizeReport, roundVars
<1>20. CASE FinalizeRefused \/ Finished \/ UNCHANGED vars
    <2>1. UNCHANGED <<searchVars, roundVars>> /\ phase' = phase
        BY <1>20 DEF FinalizeRefused, Finished, vars
    <2> QED BY <2>1, RoundFrame, TypeFrame DEF roundVars
<1> QED BY <1>1, <1>2, <1>3, <1>4, <1>5, <1>6, <1>7, <1>8, <1>9, <1>10, <1>11, <1>12, <1>13, <1>14,
           <1>15, <1>16, <1>17, <1>18, <1>19, <1>20 DEF Next, InvestigationNext

-----------------------------------------------------------------------------
(* A search that is not incomplete retained everything Splunk found.       *)

Retained(held, book, rows, q) ==
    Range(FoundIn(held, book[q].spl)) \subseteq {rows[i].event : i \in RowsOf(rows, q)}

CompleteInv == \A q \in Range(queries) : ~QueryResultsIncomplete(q) => Retained(store, ledger, evidence, q.id)

EvidenceKept ==
    /\ store' = store
    /\ \A i \in DOMAIN evidence : i \in DOMAIN evidence' /\ evidence'[i] = evidence[i]

LEMMA RetainedKept ==
    ASSUME LedgerKept, EvidenceKept, NEW q \in DOMAIN ledger, Retained(store, ledger, evidence, q)
    PROVE  q \in DOMAIN ledger' /\ Retained(store', ledger', evidence', q)
<1>1. q \in DOMAIN ledger' /\ ledger'[q].spl = ledger[q].spl /\ store' = store
    BY DEF LedgerKept, EvidenceKept
<1>2. {evidence[i].event : i \in RowsOf(evidence, q)} \subseteq {evidence'[i].event : i \in RowsOf(evidence', q)}
    BY DEF EvidenceKept, RowsOf
<1>3. FoundIn(store', ledger'[q].spl) = FoundIn(store, ledger[q].spl)
    BY <1>1
<1> QED BY <1>1, <1>2, <1>3 DEF Retained

LEMMA RecordGrows ==
    ASSUME TypeInv, [Next]_vars
    PROVE  EvidenceKept /\ (RecordSearch \/ UNCHANGED <<queries, evidence>>)
<1>1. CASE RecordSearch
    <2>1. Joined(evidence', evidence, EvidenceForQuery(fetch.entry, fetch.rows))
        BY <1>1, RecordSearchAdds
    <2>2. \A i \in DOMAIN evidence : i \in DOMAIN evidence' /\ evidence'[i] = evidence[i]
        BY <2>1, Zenon DEF Joined
    <2> QED BY <1>1, <2>2 DEF RecordSearch, EvidenceKept
<1>2. CASE ~RecordSearch
    <2>1. UNCHANGED <<store, queries, evidence>>
        BY <1>2 DEF Next, InvestigationNext, TimePasses, SkipSearch, StartSearch, FetchPage, FetchTimeout,
            SearchesDone, CoverSources, Assess, NoMoreRounds, Decide, StopRounds, RoundExhausted, EndRounds,
            Synthesize, FinalOnly, BudgetLimited, PublishReport, SaveReport, FinalizeReport, FinalizeRefused, Finished,
            vars, searchVars
    <2> QED BY <2>1 DEF EvidenceKept
<1> QED BY <1>1, <1>2

\* The heart of it: a retrieval that ends without a reason has every event.
LEMMA RecordComplete ==
    ASSUME TypeInv, RecordSearch, ~QueryResultsIncomplete(Completed)
    PROVE  Retained(store', ledger', evidence', fetch.entry)
<1> DEFINE F == FoundIn(store, ledger[fetch.entry].spl)
           n == Len(fetch.rows)
           new == EvidenceForQuery(fetch.entry, fetch.rows)
<1>1. FetchRuns /\ LedgerKept /\ Joined(evidence', evidence, new) /\ IsSeq(new)
    BY RecordSearchAdds
<1>2. IsSeq(F) /\ Len(F) \in Nat /\ DOMAIN F = 1 .. Len(F)
    BY FoundFacts, SeqFacts DEF TypeInv
<1>3. /\ fetch.reported \in {NotReported, Len(F)} /\ fetch.limit \in Nat
      /\ IsSeq(fetch.rows) /\ n <= Len(F) /\ \A k \in DOMAIN fetch.rows : fetch.rows[k] = F[k]
      /\ ~fetch.ended => fetch.stop = "none"
      /\ fetch.ended /\ fetch.stop = "none" => n >= fetch.limit \/ n = Len(F)
    BY <1>1 DEF FetchRuns
<1>4. n \in Nat /\ DOMAIN fetch.rows = 1 .. n
    BY <1>3, SeqFacts
<1>5. /\ fetch.stop = "none"
      /\ ~(n >= fetch.limit /\ (fetch.reported = NotReported \/ n < fetch.reported))
    BY DEF QueryResultsIncomplete, Completed, StopReason
<1>6. fetch.ended \/ ~(n < fetch.limit) \/ (fetch.reported # NotReported /\ ~(n < fetch.reported))
    BY DEF RecordSearch, WantsPage
<1>7. n = Len(F)
    <2> HIDE DEF n, F
    <2> QED BY <1>2, <1>3, <1>4, <1>5, <1>6 DEF NotReported
<1>8. ASSUME NEW k \in DOMAIN F PROVE \E i \in RowsOf(evidence', fetch.entry) : evidence'[i].event = F[k]
    <2>1. k \in DOMAIN fetch.rows
        <3> HIDE DEF n, F
        <3> QED BY <1>2, <1>4, <1>7
    <2>2. k \in DOMAIN new /\ new[k] = [query |-> fetch.entry, event |-> F[k]]
        BY <1>3, <2>1 DEF EvidenceForQuery
    <2> DEFINE i == Len(evidence) + k
    <2>3. i \in DOMAIN evidence' /\ evidence'[i] = new[k]
        <3> HIDE DEF new
        <3> QED BY <1>1, <2>2, Zenon DEF Joined
    <2> HIDE DEF i, new, F
    <2> QED BY <2>2, <2>3 DEF RowsOf
<1>9. FoundIn(store', ledger'[fetch.entry].spl) = F
    <2>1. store' = store /\ fetch.entry \in DOMAIN ledger
        BY <1>1 DEF RecordSearch, FetchRuns
    <2>2. ledger'[fetch.entry].spl = ledger[fetch.entry].spl
        BY <1>1, <2>1 DEF LedgerKept
    <2> QED BY <2>1, <2>2
<1> HIDE DEF F
<1>10. Range(F) \subseteq {evidence'[i].event : i \in RowsOf(evidence', fetch.entry)}
    BY <1>8 DEF Range
<1> QED BY <1>9, <1>10 DEF Retained

LEMMA CompleteStep ==
    ASSUME TypeInv, CompleteInv, [Next]_vars
    PROVE  CompleteInv'
<1>1. LedgerKept /\ EvidenceKept
    BY TypeStep, RecordGrows
<1>2. ASSUME NEW q \in Range(queries), ~QueryResultsIncomplete(q)
      PROVE  Retained(store', ledger', evidence', q.id)
    <2>1. PICK k \in DOMAIN queries : q = queries[k]
        BY DEF Range
    <2>2. q.id \in DOMAIN ledger
        BY <2>1 DEF TypeInv, QueriesType
    <2>3. Retained(store, ledger, evidence, q.id)
        BY <1>2 DEF CompleteInv
    <2> QED BY <1>1, <2>2, <2>3, RetainedKept
<1>3. CASE RecordSearch
    <2>1. Range(queries') = Range(queries) \cup {Completed} /\ Completed.id = fetch.entry
        BY <1>3, RecordSearchAdds DEF Completed
    <2>2. ~QueryResultsIncomplete(Completed) => Retained(store', ledger', evidence', Completed.id)
        BY <1>3, <2>1, RecordComplete
    <2> QED BY <1>2, <2>1, <2>2 DEF CompleteInv
<1>4. CASE UNCHANGED <<queries, evidence>>
    BY <1>2, <1>4 DEF CompleteInv
<1> QED BY <1>3, <1>4, RecordGrows

-----------------------------------------------------------------------------
(* What a synthesis answer holds.                                          *)

LEMMA LeadGroupsDomain ==
    ASSUME NEW rows, IsSeq(rows), NEW ids
    PROVE  IsSeq(AdvisoryLeadGroups(rows, ids))
<1> DEFINE matches == Matches(rows, ids)
           leads == {i \in matches : \A j \in matches : SameLead(rows, i, j) => j = i \/ Earlier(rows, i, j)}
           groups == AdvisoryLeadGroups(rows, ids)
<1>1. leads \subseteq DOMAIN rows
    BY DEF Matches
<1>2. IsFiniteSet(leads)
    BY <1>1, RangeFinite, FS_Subset
<1>3. Cardinality(leads) \in Nat
    BY <1>2, FS_CardinalityType
<1>4. groups = [k \in 1 .. Cardinality(leads) |-> groups[k]]
    BY DEF AdvisoryLeadGroups, InTimeOrder, Ordered
<1> HIDE DEF leads, groups
<1>5. IsSeq(groups)
    BY <1>3, <1>4, FunctionIsSeq
<1> QED BY <1>5 DEF groups

IsSlot(s) ==
    /\ s = [request |-> s.request, found |-> s.found, dispositions |-> s.dispositions]
    /\ IsSeq(s.found) /\ IsSeq(s.dispositions)

LEMMA SlotsAre ==
    ASSUME TypeInv, NEW labels, NEW s \in Slots(labels)
    PROVE  IsSlot(s)
<1> DEFINE leads == AdvisoryLeadGroups(evidence, Range(labels))
<1>1. IsSeq(leads) /\ Len(leads) \in Nat /\ DOMAIN leads = 1 .. Len(leads)
    BY LeadGroupsDomain, SeqFacts DEF TypeInv, EvidenceType
<1>2. ASSUME NEW d, d \in {<<>>} \/ d = [k \in DOMAIN leads |-> d[k]]
      PROVE  IsSeq(d)
    <2> HIDE DEF leads
    <2>1. CASE d = <<>>
        BY <2>1, EmptyIsSeq
    <2>2. CASE d = [k \in DOMAIN leads |-> d[k]]
        BY <1>1, <2>2, FunctionIsSeq
    <2> QED BY <1>2, <2>1, <2>2
<1> DEFINE Negative(S) == [negative |-> TRUE, lead |-> FALSE, rows |-> {}, queries |-> S]
           Positive(k, lead) == [negative |-> FALSE, lead |-> lead, rows |-> {k}, queries |-> {}]
           Label(i) == CHOOSE k \in DOMAIN labels : labels[k] = i
           Accounts(found) == {<<>>} \cup
             {[k \in DOMAIN leads |-> [row |-> Label(leads[k].lead), findings |-> about[k]]] :
                about \in [DOMAIN leads -> SUBSET DOMAIN found]}
           Answer(found) == {[request |-> <<>>, found |-> found, dispositions |-> d] : d \in Accounts(found)}
<1>3. \/ s \in Answer(<<>>)
      \/ \E q \in QueryIds : s \in Answer(<<Negative({q})>>)
      \/ \E k \in 1 .. Len(labels) + 1, lead \in BOOLEAN : s \in Answer(<<Positive(k, lead)>>)
      \/ \E r : s = [request |-> <<r>>, found |-> <<>>, dispositions |-> <<>>]
    BY DEF Slots
<1>4. \A f : \A d \in Accounts(f) : IsSeq(d)
    <2> HIDE DEF leads
    <2> TAKE f
    <2> TAKE d \in Accounts(f)
    <2>1. d = <<>> \/ d = [k \in DOMAIN leads |-> d[k]]
        OBVIOUS
    <2> QED BY <1>2, <2>1
<1>5. ASSUME NEW f, IsSeq(f), s \in Answer(f) PROVE IsSlot(s)
    <2> HIDE DEF Accounts
    <2>1. PICK d \in Accounts(f) : s = [request |-> <<>>, found |-> f, dispositions |-> d]
        BY <1>5
    <2> QED BY <1>4, <1>5, <2>1 DEF IsSlot
<1>6. \A x : IsSeq(<<x>>) /\ IsSeq(<<>>)
    BY EmptyIsSeq, AppendIsSeq
<1>7. ASSUME NEW r, s = [request |-> <<r>>, found |-> <<>>, dispositions |-> <<>>] PROVE IsSlot(s)
    BY <1>6, <1>7 DEF IsSlot
<1> HIDE DEF Answer, Negative, Positive
<1> QED BY <1>3, <1>5, <1>6, <1>7

\* What is accepted of an answer.
Accepted(s) ==
    /\ IsSlot(s)
    /\ \A f \in Range(s.found) : FindingAllowed(f, queries, evidence)
    /\ DispositionsAllowed(s.dispositions, s.found, Leads)

LEMMA DecodedSlot ==
    ASSUME TypeInv, NEW labels, NEW x \in Slots(labels), SlotAllowed(x, labels)
    PROVE  Accepted(DecodeSlot(x, labels, evidence))
<1> DEFINE s == DecodeSlot(x, labels, evidence)
<1>1. IsSlot(x)
    BY SlotsAre
<1>2. s = [request |-> x.request,
           found |-> [k \in DOMAIN x.found |-> DecodeFinding(x.found[k], labels, evidence)],
           dispositions |-> [k \in DOMAIN x.dispositions |->
                               [row |-> labels[x.dispositions[k].row], findings |-> x.dispositions[k].findings]]]
    BY DEF DecodeSlot
<1>3. /\ \A f \in Range(s.found) : FindingAllowed(f, queries, evidence)
      /\ DispositionsAllowed(s.dispositions, s.found, Leads)
    BY DEF SlotAllowed
<1> HIDE DEF s
<1>4. /\ s.found = [k \in DOMAIN x.found |-> s.found[k]]
      /\ s.dispositions = [k \in DOMAIN x.dispositions |-> s.dispositions[k]]
      /\ s = [request |-> s.request, found |-> s.found, dispositions |-> s.dispositions]
    BY <1>2
<1>5. /\ DOMAIN x.found = 1 .. Len(x.found) /\ Len(x.found) \in Nat
      /\ DOMAIN x.dispositions = 1 .. Len(x.dispositions) /\ Len(x.dispositions) \in Nat
    BY <1>1, SeqFacts DEF IsSlot
<1>6. IsSeq(s.found) /\ IsSeq(s.dispositions)
    BY <1>4, <1>5, FunctionIsSeq
<1>7. IsSlot(s)
    BY <1>4, <1>6 DEF IsSlot
<1>8. Accepted(s)
    BY <1>3, <1>7 DEF Accepted
<1> QED BY <1>8 DEF s

LEMMA UnansweredFacts ==
    /\ IsSeq(Unanswered)
    /\ \A k \in DOMAIN Unanswered : /\ Unanswered[k].id \in DOMAIN Questions
                                    /\ \A a \in Range(answers) : a.question # Unanswered[k].id
    /\ \A j, k \in DOMAIN Unanswered : j < k => Unanswered[j].id < Unanswered[k].id
    /\ \A x \in DOMAIN Questions : \/ \E a \in Range(answers) : a.question = x
                                   \/ \E k \in DOMAIN Unanswered : Unanswered[k].id = x
<1> DEFINE D == {k \in DOMAIN Questions : \A a \in Range(answers) : a.question # Questions[k].id}
<1>1. Unanswered = At(Questions, D)
    BY DEF Unanswered, Filtered, Ordered, Ascending, At
<1>2. D \in SUBSET DOMAIN Questions /\ \A k \in D : \A a \in Range(answers) : a.question # k
    BY ConstantsAre
<1>3. \A x \in DOMAIN Questions : x \in D \/ \E a \in Range(answers) : a.question = x
    BY ConstantsAre
<1> HIDE DEF D
<1>4. /\ IsSeq(Unanswered)
      /\ \A k \in DOMAIN Unanswered : Ascending(D)[k] \in D /\ Unanswered[k] = Questions[Ascending(D)[k]]
      /\ \A d \in D : \E k \in DOMAIN Unanswered : Ascending(D)[k] = d
      /\ \A j, k \in DOMAIN Unanswered : j < k => Ascending(D)[j] < Ascending(D)[k]
    BY <1>1, <1>2, ConstantsAre, AtIsSeq
<1>5. \A k \in DOMAIN Unanswered : Unanswered[k].id = Ascending(D)[k]
    BY <1>2, <1>4, ConstantsAre
<1> QED BY <1>2, <1>3, <1>4, <1>5

LEMMA SlotChoicesAre ==
    ASSUME TypeInv, NEW labels, NEW slots \in SlotChoices(labels)
    PROVE  /\ IsSeq(slots) /\ DOMAIN slots = DOMAIN Unanswered
           /\ \A k \in DOMAIN slots : Accepted(slots[k])
<1> DEFINE allowed == {DecodeSlot(s, labels, evidence) : s \in {x \in Slots(labels) : SlotAllowed(x, labels)}}
<1>1. \A s \in allowed : Accepted(s)
    BY DecodedSlot
<1>2. PICK k, s, other :
         /\ k \in DOMAIN Unanswered /\ s \in allowed /\ other \in allowed
         /\ slots = [j \in DOMAIN Unanswered |-> IF j = k THEN s ELSE other]
    <2> DEFINE empty == {s \in allowed : s.request = <<>> /\ s.found = <<>>}
    <2>1. slots \in {[j \in DOMAIN Unanswered |-> IF j = k THEN s ELSE other] :
                        k \in DOMAIN Unanswered, s \in allowed, other \in empty}
        BY DEF SlotChoices
    <2>2. empty \subseteq allowed
        OBVIOUS
    <2> HIDE DEF allowed, empty
    <2> QED BY <2>1, <2>2
<1> HIDE DEF allowed
<1>3. DOMAIN Unanswered = 1 .. Len(Unanswered) /\ Len(Unanswered) \in Nat
    BY UnansweredFacts, SeqFacts
<1>4. slots = [j \in 1 .. Len(Unanswered) |-> slots[j]] /\ DOMAIN slots = DOMAIN Unanswered
    BY <1>2, <1>3
<1>5. IsSeq(slots)
    BY <1>3, <1>4, FunctionIsSeq
<1>6. \A j \in DOMAIN slots : slots[j] \in allowed
    BY <1>2
<1> QED BY <1>1, <1>4, <1>5, <1>6

LEMMA SynthesizeAdds ==
    ASSUME TypeInv, Synthesize
    PROVE  \E slots : /\ IsSeq(slots) /\ DOMAIN slots = DOMAIN Unanswered
                      /\ \A k \in DOMAIN slots : Accepted(slots[k])
                      /\ answers' = answers \o MaterializeQuestionAnswers(slots)
                      /\ findings' = findings \o FlattenSeq([k \in DOMAIN slots |-> slots[k].found])
<1>1. PICK slots \in SlotChoices(SynthesisLabels) :
         /\ answers' = answers \o MaterializeQuestionAnswers(slots)
         /\ findings' = findings \o FlattenSeq([k \in DOMAIN slots |-> slots[k].found])
    BY DEF Synthesize
<1>2. /\ IsSeq(slots) /\ DOMAIN slots = DOMAIN Unanswered
      /\ \A k \in DOMAIN slots : Accepted(slots[k])
    BY <1>1, SlotChoicesAre
<1> QED BY <1>1, <1>2

LEMMA FoundInSlots ==
    ASSUME NEW slots, IsSeq(slots), \A k \in DOMAIN slots : Accepted(slots[k]),
           NEW found, found = FlattenSeq([k \in DOMAIN slots |-> slots[k].found])
    PROVE  /\ IsSeq(found)
           /\ \A f \in Range(found) : FindingAllowed(f, queries, evidence)
<1> DEFINE ss == [k \in DOMAIN slots |-> slots[k].found]
<1>1. DOMAIN slots = 1 .. Len(slots) /\ Len(slots) \in Nat
    BY SeqFacts
<1>2. ss = [k \in 1 .. Len(slots) |-> ss[k]] /\ DOMAIN ss = DOMAIN slots
    BY <1>1
<1>3. IsSeq(ss)
    BY <1>1, <1>2, FunctionIsSeq
<1>4. \A k \in DOMAIN ss : IsSeq(ss[k]) /\ \A f \in Range(ss[k]) : FindingAllowed(f, queries, evidence)
    BY DEF Accepted, IsSlot
<1>5. found = FlattenSeq(ss)
    OBVIOUS
<1> HIDE DEF ss
<1>6. IsSeq(FlattenSeq(ss)) /\ Range(FlattenSeq(ss)) = UNION {Range(ss[k]) : k \in DOMAIN ss}
    BY <1>3, <1>4, FlattenIsSeq
<1>7. ASSUME NEW f \in Range(found) PROVE FindingAllowed(f, queries, evidence)
    <2>1. PICK k \in DOMAIN ss : f \in Range(ss[k])
        BY <1>5, <1>6
    <2> QED BY <1>4, <2>1
<1> QED BY <1>5, <1>6, <1>7

-----------------------------------------------------------------------------
(* Negative findings.                                                      *)

SoundInv ==
    /\ IsSeq(findings)
    /\ \A f \in Range(findings) : f.negative =>
          \A q \in f.queries : q \in DOMAIN ledger /\ Retained(store, ledger, evidence, q)

LEMMA FindingSound ==
    ASSUME TypeInv, CompleteInv, NEW f, FindingAllowed(f, queries, evidence), f.negative, NEW q \in f.queries
    PROVE  q \in DOMAIN ledger /\ Retained(store, ledger, evidence, q)
<1>1. PICK c \in Range(queries) : c.id = q
    BY DEF FindingAllowed
<1>2. ~QueryResultsIncomplete(c)
    BY <1>1 DEF FindingAllowed
<1>3. c.id \in DOMAIN ledger
    BY DEF TypeInv, QueriesType, Range
<1> QED BY <1>1, <1>2, <1>3 DEF CompleteInv

LEMMA SoundStep ==
    ASSUME TypeInv, CompleteInv, SoundInv, [Next]_vars
    PROVE  SoundInv'
<1>1. LedgerKept /\ EvidenceKept
    BY TypeStep, RecordGrows
<1>2. ASSUME NEW f, NEW q, q \in DOMAIN ledger, Retained(store, ledger, evidence, q)
      PROVE  q \in DOMAIN ledger' /\ Retained(store', ledger', evidence', q)
    BY <1>1, <1>2, RetainedKept
<1>3. CASE Synthesize
    <2>1. PICK slots : /\ IsSeq(slots) /\ \A k \in DOMAIN slots : Accepted(slots[k])
                       /\ findings' = findings \o FlattenSeq([k \in DOMAIN slots |-> slots[k].found])
        BY <1>3, SynthesizeAdds
    <2> DEFINE found == FlattenSeq([k \in DOMAIN slots |-> slots[k].found])
    <2>2. IsSeq(found) /\ \A f \in Range(found) : FindingAllowed(f, queries, evidence)
        BY <2>1, FoundInSlots
    <2>3. findings' = findings \o found
        BY <2>1
    <2> HIDE DEF found
    <2>4. IsSeq(findings') /\ Range(findings') = Range(findings) \cup Range(found)
        BY <2>2, <2>3, ConcatIsSeq DEF SoundInv, Joined
    <2>5. ASSUME NEW f \in Range(findings'), f.negative, NEW q \in f.queries
          PROVE  q \in DOMAIN ledger /\ Retained(store, ledger, evidence, q)
        <3>1. CASE f \in Range(findings)
            BY <2>5, <3>1 DEF SoundInv
        <3>2. CASE f \in Range(found)
            BY <2>2, <2>5, <3>2, FindingSound
        <3> QED BY <2>4, <3>1, <3>2
    <2> QED BY <1>2, <2>4, <2>5 DEF SoundInv
<1>4. CASE ~Synthesize
    <2>1. UNCHANGED findings
        BY <1>4 DEF Next, InvestigationNext, TimePasses, SkipSearch, StartSearch, FetchPage, FetchTimeout,
            RecordSearch, SearchesDone, CoverSources, Assess, NoMoreRounds, Decide, StopRounds, RoundExhausted,
            EndRounds, FinalOnly, BudgetLimited, PublishReport, SaveReport, FinalizeReport, FinalizeRefused, Finished,
            vars, answerVars
    <2> QED BY <1>2, <2>1 DEF SoundInv
<1> QED BY <1>3, <1>4

LEMMA SoundSuffices ==
    ASSUME SoundInv
    PROVE  NegativeFindingsSound
BY FoundIs DEF SoundInv, NegativeFindingsSound, Retained

RecordInv == TypeInv /\ CompleteInv /\ SoundInv

LEMMA RecordStart ==
    ASSUME Init
    PROVE  RecordInv
<1>1. TypeInv
    BY TypeStart
<1>2. queries = <<>> /\ findings = <<>>
    BY DEF Init
<1>3. Range(<<>>) = {}
    BY DEF Range
<1> QED BY <1>1, <1>2, <1>3, EmptyIsSeq DEF RecordInv, CompleteInv, SoundInv

\* A finding that says a search found nothing rests on searches that retained
\* every event Splunk found for them, whatever pages, limits and time-outs
\* the retrieval met: _materialize_findings accepts negative findings on
\* complete searches only, and a search is complete only if it has them all.
THEOREM NegativeFindingsAreSound == Spec => []NegativeFindingsSound
<1>1. Init => RecordInv
    BY RecordStart
<1>2. RecordInv /\ [Next]_vars => RecordInv'
    BY TypeStep, CompleteStep, SoundStep DEF RecordInv
<1>3. RecordInv => NegativeFindingsSound
    BY SoundSuffices DEF RecordInv
<1> QED BY <1>1, <1>2, <1>3, PTL DEF Spec

-----------------------------------------------------------------------------
(* The end of the investigation.                                           *)

\* Every question is searched, or skipped by a decision that still stands.
Settled(questions, qs, ds) ==
    \A x \in Range(questions) :
        \/ \E q \in Range(qs) : q.question = x.id
        \/ \E d \in Range(ds) : /\ d.question = x.id /\ d.skip
                                /\ d.duplicate \/ d.considered = {q.id : q \in Range(qs)}

LEMMA LatestExists ==
    ASSUME NEW ds, IsSeq(ds), NEW id, \E d \in DOMAIN ds : ds[d].question = id
    PROVE  LatestDecision(ds, id) \in DOMAIN ds /\ ds[LatestDecision(ds, id)].question = id
<1> DEFINE D == {d \in DOMAIN ds : ds[d].question = id}
<1>1. Len(ds) \in Nat /\ DOMAIN ds = 1 .. Len(ds)
    BY SeqFacts
<1>2. D \in SUBSET (1 .. Len(ds)) /\ D # {}
    BY <1>1
<1>3. PICK d \in D : \A e \in D : e <= d
    <2> HIDE DEF D
    <2> QED BY <1>1, <1>2, LargestNumber
<1>4. \E m \in DOMAIN ds : /\ ds[m].question = id
                           /\ \A e \in DOMAIN ds : ds[e].question = id => e <= m
    BY <1>3
<1> QED BY <1>4 DEF LatestDecision

LEMMA NoneLeft ==
    ASSUME NEW questions, IsSeq(questions), NEW qs, NEW ds, IsSeq(ds),
           PendingInvestigationQuestions(questions, qs, ds) = <<>>
    PROVE  Settled(questions, qs, ds)
<1>1. PendingAt(questions, qs, ds) = {}
    BY PendingFacts
<1>2. ASSUME NEW x \in Range(questions)
      PROVE  QuestionCompletedQueryIds(qs, x.id) # {} \/ Skipped(ds, qs, x.id)
    BY <1>1 DEF PendingAt, Range
<1>3. ASSUME NEW x \in Range(questions), QuestionCompletedQueryIds(qs, x.id) # {}
      PROVE  \E q \in Range(qs) : q.question = x.id
    BY <1>3 DEF QuestionCompletedQueryIds
<1>4. ASSUME NEW x \in Range(questions), Skipped(ds, qs, x.id)
      PROVE  \E d \in Range(ds) : /\ d.question = x.id /\ d.skip
                                  /\ d.duplicate \/ d.considered = {q.id : q \in Range(qs)}
    <2> DEFINE l == LatestDecision(ds, x.id)
    <2>1. l \in DOMAIN ds /\ ds[l].question = x.id
        BY <1>4, LatestExists DEF Skipped
    <2>2. SkipStands(ds[l], qs)
        BY <1>4 DEF Skipped
    <2> HIDE DEF l
    <2> QED BY <2>1, <2>2 DEF SkipStands, Range
<1> QED BY <1>2, <1>3, <1>4 DEF Settled

LEMMA SkipsAre == SkipsAreCurrent <=> (Concluded => Settled(AllQuestions, queries, decisions))
BY DEF SkipsAreCurrent, Settled, QueryIds

\* A round's last write, when it ends the investigation by itself.
LEMMA FinishSettles ==
    ASSUME NEW newLedger, NEW newDecisions, NEW newFollowUps, NEW nowAssessed, NEW how,
           FinishRound(newLedger, newDecisions, newFollowUps, nowAssessed, how), UNCHANGED queries,
           IsSeq(newDecisions), IsSeq(newFollowUps),
           how \in {"assessed", "no_unassessed_queries"} =>
              PendingInvestigationQuestions(Questions \o newFollowUps, queries, newDecisions) = <<>>
    PROVE  SkipsAreCurrent'
<1> DEFINE left == PendingInvestigationQuestions(Questions \o newFollowUps, queries, newDecisions)
<1>1. /\ decisions' = newDecisions /\ followUps' = newFollowUps
      /\ status' = IF how = "no_follow_up_query" /\ left # <<>> THEN "questions_pending" ELSE how
    BY DEF FinishRound
<1>2. ASSUME Concluded' PROVE left = <<>>
    <2> HIDE DEF left
    <2> QED BY <1>1, <1>2 DEF Concluded, left
<1>3. IsSeq(Questions \o newFollowUps)
    BY ConstantsAre, ConcatIsSeq DEF Joined
<1>4. ASSUME Concluded' PROVE Settled(AllQuestions, queries, decisions)'
    <2>1. Settled(Questions \o newFollowUps, queries, newDecisions)
        BY <1>2, <1>3, <1>4, NoneLeft
    <2> QED BY <1>1, <2>1 DEF AllQuestions
<1>5. Concluded' => Settled(AllQuestions, queries, decisions)'
    BY <1>4
<1> QED BY <1>5, SkipsAre, PTL

LEMMA SkipsStep ==
    ASSUME TypeInv, SkipsAreCurrent, [Next]_vars
    PROVE  SkipsAreCurrent'
<1>0. IsSeq(decisions) /\ IsSeq(followUps) /\ IsSeq(round.followUps)
    BY DEF TypeInv, RoundType
<1>1. CASE Assess
    <2>1. UNCHANGED queries /\ searches < MaxSearches
        BY <1>1 DEF Assess, RoundAffordable
    <2>2. PICK a \in DecodedAssessments(FromContext(queries, evidence, AssessSample)) :
          LET new == FollowUpQuestions(a, Len(AllQuestions) + 1)
              open == Cut(PendingInvestigationQuestions(AllQuestions \o new, queries, decisions),
                          MaxSearches - searches)
          IN  IF open = <<>>
              THEN FinishRound(ledger, decisions, followUps \o new, QueryIds, "assessed")
              ELSE phase' = "decide"
        BY <1>1, Zenon DEF Assess
    <2> DEFINE new == FollowUpQuestions(a, Len(AllQuestions) + 1)
               left == PendingInvestigationQuestions(AllQuestions \o new, queries, decisions)
    <2>3. IsSeq(new)
        BY <2>2, AssessmentsAreSeqs, FollowUpsAreSeqs
    <2> HIDE DEF new
    <2>4. IsSeq(AllQuestions \o new) /\ IsSeq(followUps \o new)
        BY <1>0, <2>3, QuestionsAreSeq, ConcatIsSeq DEF Joined
    <2>5. IsSeq(left)
        BY <2>4, PendingFacts
    <2>6. AllQuestions \o new = Questions \o (followUps \o new)
        <3>1. Questions \in Seq(Range(Questions)) /\ followUps \in Seq(Range(followUps)) /\ new \in Seq(Range(new))
            BY <1>0, <2>3, ConstantsAre DEF IsSeq
        <3> QED BY <3>1 DEF AllQuestions
    <2>7. CASE Cut(left, MaxSearches - searches) = <<>>
        <3>1. FinishRound(ledger, decisions, followUps \o new, QueryIds, "assessed")
            BY <2>2, <2>7 DEF new
        <3>2. left = <<>>
            <4> HIDE DEF left
            <4>1. /\ MaxSearches - searches \in Int /\ ~(MaxSearches - searches < 0) /\ MaxSearches - searches # 0
                BY <2>1, ConstantsAre DEF TypeInv
            <4>2. Len(Cut(left, MaxSearches - searches)) = Shortest(MaxSearches - searches, Len(left))
                BY <2>5, <4>1, CutIsSeq
            <4>3. Len(left) = 0
                <5>1. Len(left) \in Nat /\ Len(<<>>) = 0
                    BY <2>5, SeqFacts
                <5> QED BY <2>7, <4>1, <4>2, <5>1 DEF Shortest
            <4> QED BY <2>5, <4>3, SeqFacts
        <3> QED BY <1>0, <2>1, <2>4, <2>6, <3>1, <3>2, FinishSettles
    <2>8. CASE Cut(left, MaxSearches - searches) # <<>>
        <3>1. phase' = "decide"
            BY <2>2, <2>8 DEF new
        <3> QED BY <3>1 DEF SkipsAreCurrent, Concluded
    <2> QED BY <2>7, <2>8
<1>2. CASE NoMoreRounds
    <2> DEFINE how == IF Unassessed # {} \/ Outstanding # <<>>
                      THEN "budget_reserved_for_synthesis" ELSE "no_unassessed_queries"
    <2>1. FinishRound(ledger, decisions, followUps, assessed, how) /\ UNCHANGED queries
        BY <1>2 DEF NoMoreRounds
    <2>2. how \in {"assessed", "no_unassessed_queries"} =>
             PendingInvestigationQuestions(Questions \o followUps, queries, decisions) = <<>>
        BY DEF Outstanding, AllQuestions
    <2> HIDE DEF how
    <2> QED BY <1>0, <2>1, <2>2, FinishSettles
<1>3. CASE Decide
    <2>1. PICK proposed \in Decided :
              FinishRound(ledger \o NewSearches(WidenedDecisions(proposed)),
                          decisions \o NewDecisions(WidenedDecisions(proposed)),
                          followUps \o round.followUps, QueryIds,
                          IF NewSearches(WidenedDecisions(proposed)) # <<>>
                          THEN "follow_up_planned" ELSE "no_follow_up_query")
        BY <1>3, DecideIs
    <2> DEFINE d == WidenedDecisions(proposed)
               how == IF NewSearches(d) # <<>> THEN "follow_up_planned" ELSE "no_follow_up_query"
               ds == decisions \o NewDecisions(d)
               fs == followUps \o round.followUps
    <2>2. IsSeq(NewDecisions(d))
        BY DecideAdds
    <2>3. IsSeq(ds) /\ IsSeq(fs)
        <3> HIDE DEF d
        <3> QED BY <1>0, <2>2, ConcatIsSeq DEF Joined
    <2>4. FinishRound(ledger \o NewSearches(d), ds, fs, QueryIds, how)
        BY <2>1
    <2>5. how \notin {"assessed", "no_unassessed_queries"}
        OBVIOUS
    <2>6. UNCHANGED queries
        BY <1>3 DEF Decide
    <2> HIDE DEF d, how, ds, fs
    <2> QED BY <2>3, <2>4, <2>5, <2>6, FinishSettles
<1>4. CASE StopRounds \/ RoundExhausted
    BY <1>4 DEF StopRounds, RoundExhausted, EndRounds, SkipsAreCurrent, Concluded
<1>5. CASE \/ SkipSearch \/ StartSearch \/ RecordSearch \/ FetchPage \/ FetchTimeout
           \/ SearchesDone \/ CoverSources
    <2>1. phase' \in {"search", "assess"}
        BY <1>5, IdleIsNot DEF SkipSearch, StartSearch, RecordSearch, FetchPage, FetchTimeout,
            SearchesDone, CoverSources, FetchRuns
    <2> QED BY <2>1 DEF SkipsAreCurrent, Concluded
<1>6. CASE \/ TimePasses \/ Synthesize \/ FinalOnly \/ BudgetLimited \/ PublishReport
           \/ SaveReport \/ FinalizeReport \/ FinalizeRefused \/ Finished \/ UNCHANGED vars
    <2>1. /\ UNCHANGED <<status, queries, followUps, decisions>>
          /\ phase' = phase \/ phase \in {"synthesis", "draft"}
        BY <1>6 DEF TimePasses, Synthesize, FinalOnly, BudgetLimited, PublishReport, SaveReport,
            FinalizeReport, FinalizeRefused, Finished, vars, searchVars, roundVars
    <2>2. Concluded' => Concluded
        BY <2>1 DEF Concluded
    <2>3. Settled(AllQuestions, queries, decisions)' = Settled(AllQuestions, queries, decisions)
        BY <2>1 DEF AllQuestions
    <2>4. Concluded' => Settled(AllQuestions, queries, decisions)'
        BY <2>2, <2>3, SkipsAre
    <2> QED BY <2>4, SkipsAre, PTL
<1> QED BY <1>1, <1>2, <1>3, <1>4, <1>5, <1>6 DEF Next, InvestigationNext

\* When the investigation ends by itself every question was searched, found
\* to repeat a search, or skipped by a decision that had seen every search
\* completed since, however many rounds and follow-ups came between
\* (_pending_investigation_questions, _assess_execution_round).
THEOREM SkipsStayCurrent == Spec => []SkipsAreCurrent
<1>1. Init => TypeInv /\ SkipsAreCurrent
    BY TypeStart DEF Init, SkipsAreCurrent, Concluded
<1>2. TypeInv /\ SkipsAreCurrent /\ [Next]_vars => (TypeInv /\ SkipsAreCurrent)'
    BY TypeStep, SkipsStep
<1> QED BY <1>1, <1>2, PTL DEF Spec

-----------------------------------------------------------------------------
(* Rows by their time, and the advisory leads among them.                  *)

TimedRecords(rows) ==
    /\ IsSeq(rows)
    /\ \A i \in DOMAIN rows : rows[i].event.time \in Nat /\ rows[i].event.raw \in BOOLEAN

Precedes(rows) == {p \in (DOMAIN rows) \X (DOMAIN rows) : Earlier(rows, p[1], p[2])}

LEMMA EarlierOrder ==
    ASSUME NEW rows, TimedRecords(rows), NEW S \in SUBSET DOMAIN rows
    PROVE  TotalOrder(S, Precedes(rows)) /\ IsFiniteSet(S)
<1>1. DOMAIN rows \subseteq Nat /\ IsFiniteSet(DOMAIN rows)
    BY SeqFacts, RangeFinite DEF TimedRecords
<1>2. IsFiniteSet(S)
    BY <1>1, FS_Subset
<1> DEFINE T == [i \in DOMAIN rows |-> RawEventTime(rows[i])]
<1>3. \A i \in DOMAIN rows : T[i] \in Nat
    BY DEF TimedRecords, RawEventTime, UnknownTime
<1>4. ASSUME NEW i \in S, NEW j \in S
      PROVE  <<i, j>> \in Precedes(rows)
             <=> IF T[i] = T[j] THEN i < j ELSE T[j] = 0 \/ (T[i] # 0 /\ T[i] < T[j])
    BY DEF Precedes, Earlier, UnknownTime
<1> HIDE DEF T
<1>5. \A x \in S : <<x, x>> \notin Precedes(rows)
    BY <1>1, <1>4
<1>6. \A x, y \in S : x # y => <<x, y>> \in Precedes(rows) \/ <<y, x>> \in Precedes(rows)
    <2> SUFFICES ASSUME NEW x \in S, NEW y \in S, x # y
                 PROVE  <<x, y>> \in Precedes(rows) \/ <<y, x>> \in Precedes(rows)
        OBVIOUS
    <2>1. x \in Nat /\ y \in Nat /\ T[x] \in Nat /\ T[y] \in Nat
        BY <1>1, <1>3
    <2> QED BY <1>4, <2>1
<1>7. ASSUME NEW x \in S, NEW y \in S, NEW z \in S, <<x, y>> \in Precedes(rows), <<y, z>> \in Precedes(rows)
      PROVE  <<x, z>> \in Precedes(rows)
    <2>1. x \in Nat /\ y \in Nat /\ z \in Nat /\ T[x] \in Nat /\ T[y] \in Nat /\ T[z] \in Nat
        BY <1>1, <1>3
    <2>2. /\ IF T[x] = T[y] THEN x < y ELSE T[y] = 0 \/ (T[x] # 0 /\ T[x] < T[y])
          /\ IF T[y] = T[z] THEN y < z ELSE T[z] = 0 \/ (T[y] # 0 /\ T[y] < T[z])
        BY <1>4, <1>7
    <2>3. IF T[x] = T[z] THEN x < z ELSE T[z] = 0 \/ (T[x] # 0 /\ T[x] < T[z])
        BY <2>1, <2>2
    <2> QED BY <1>4, <2>3
<1> QED BY <1>2, <1>5, <1>6, <1>7 DEF TotalOrder

LEMMA InTimeOrderLists ==
    ASSUME NEW rows, TimedRecords(rows), NEW S \in SUBSET DOMAIN rows
    PROVE  Lists(InTimeOrder(rows, S), S, Precedes(rows))
<1> DEFINE R == Precedes(rows)
           L == InTimeOrder(rows, S)
<1>1. TotalOrder(S, R) /\ IsFiniteSet(S)
    BY EarlierOrder
<1>2. \A x \in S : Below(S, R, x) = {y \in S : Earlier(rows, y, x)}
    BY DEF Below, Precedes
<1> DEFINE Choice(k) == CHOOSE x \in S : Cardinality({y \in S : Earlier(rows, y, x)}) = k - 1
<1>0. L = [k \in 1 .. Cardinality(S) |-> Choice(k)]
    BY DEF InTimeOrder, Ordered
<1>3. L = [k \in 1 .. Cardinality(S) |-> L[k]]
    <2> HIDE DEF Choice, L
    <2> QED BY <1>0
<1>4. \A k \in 1 .. Cardinality(S) :
         L[k] = CHOOSE x \in S : Cardinality({y \in S : Earlier(rows, y, x)}) = k - 1
    BY DEF InTimeOrder, Ordered
<1> HIDE DEF R, L
<1>5. ASSUME NEW k \in 1 .. Cardinality(S)
      PROVE  L[k] = Listing(S, R)[k]
    <2>1. (CHOOSE x \in S : Cardinality(Below(S, R, x)) = k - 1)
          = (CHOOSE x \in S : Cardinality({y \in S : Earlier(rows, y, x)}) = k - 1)
        BY <1>2
    <2>2. Listing(S, R)[k] = CHOOSE x \in S : Cardinality(Below(S, R, x)) = k - 1
        BY DEF Listing
    <2> QED BY <1>4, <2>1, <2>2, Zenon
<1>6. Listing(S, R) = [k \in 1 .. Cardinality(S) |-> Listing(S, R)[k]]
    BY DEF Listing
<1>7. L = Listing(S, R)
    BY <1>3, <1>5, <1>6
<1>8. Lists(L, S, R)
    BY <1>1, <1>7, Listed
<1> QED BY <1>8 DEF L, R

\* Of any rows there is an earliest.
LEMMA EarliestRow ==
    ASSUME NEW rows, TimedRecords(rows), NEW S \in SUBSET DOMAIN rows, S # {}
    PROVE  \E x \in S : \A y \in S : y = x \/ Earlier(rows, x, y)
<1> DEFINE L == InTimeOrder(rows, S)
<1>1. Lists(L, S, Precedes(rows))
    BY InTimeOrderLists
<1> HIDE DEF L
<1>2. /\ Cardinality(S) \in Nat /\ DOMAIN L = 1 .. Cardinality(S)
      /\ \A k \in DOMAIN L : L[k] \in S
      /\ \A x \in S : \E k \in DOMAIN L : L[k] = x
      /\ \A j, k \in DOMAIN L : j < k => <<L[j], L[k]>> \in Precedes(rows)
    BY <1>1 DEF Lists
<1>3. 1 \in DOMAIN L /\ \A k \in DOMAIN L : k = 1 \/ 1 < k
    BY <1>2
<1>4. \A y \in S : y = L[1] \/ <<L[1], y>> \in Precedes(rows)
    BY <1>2, <1>3
<1>5. \A y \in S : y = L[1] \/ Earlier(rows, L[1], y)
    BY <1>4 DEF Precedes
<1> QED BY <1>2, <1>3, <1>5

LEMMA SameLeadRelation ==
    ASSUME NEW rows
    PROVE  /\ \A i : SameLead(rows, i, i)
           /\ \A i, j : SameLead(rows, i, j) => SameLead(rows, j, i)
           /\ \A i, j, k : SameLead(rows, i, j) /\ SameLead(rows, j, k) => SameLead(rows, i, k)
BY DEF SameLead

\* Disjoint groups of rows that hold all of M, each named by one of its rows.
GroupsOf(groups, M) ==
    /\ IsSeq(groups)
    /\ \A k \in DOMAIN groups : groups[k].ids \subseteq M /\ groups[k].lead \in groups[k].ids
    /\ \A i \in M : \E k \in DOMAIN groups : i \in groups[k].ids
    /\ \A i \in M : \A j, k \in DOMAIN groups : i \in groups[j].ids /\ i \in groups[k].ids => j = k

\* A lead as the rows give it: the earliest row of its group and its identity.
IsLeadOf(l, rows, M) ==
    /\ l.lead \in M /\ l.identity = Identity(rows[l.lead].event)
    /\ l.ids = {j \in M : SameLead(rows, l.lead, j)}
    /\ \A j \in l.ids : j = l.lead \/ Earlier(rows, l.lead, j)

LEMMA LeadGroupsFacts ==
    ASSUME NEW rows, TimedRecords(rows), NEW ids
    PROVE  /\ GroupsOf(AdvisoryLeadGroups(rows, ids), Matches(rows, ids))
           /\ \A k \in DOMAIN AdvisoryLeadGroups(rows, ids) :
                IsLeadOf(AdvisoryLeadGroups(rows, ids)[k], rows, Matches(rows, ids))
<1> DEFINE M == Matches(rows, ids)
           leads == {i \in M : \A j \in M : SameLead(rows, i, j) => j = i \/ Earlier(rows, i, j)}
           order == InTimeOrder(rows, leads)
           groups == AdvisoryLeadGroups(rows, ids)
<1>1. M \in SUBSET DOMAIN rows /\ leads \in SUBSET DOMAIN rows
    BY DEF Matches
<1>2. Lists(order, leads, Precedes(rows))
    BY <1>1, InTimeOrderLists
<1>3. /\ DOMAIN groups = DOMAIN order
      /\ \A k \in DOMAIN order :
            groups[k] = [lead |-> order[k], identity |-> Identity(rows[order[k]].event),
                         ids |-> {j \in M : SameLead(rows, order[k], j)}]
    BY DEF AdvisoryLeadGroups
<1>4. IsSeq(groups)
    BY LeadGroupsDomain DEF TimedRecords
<1>5. \A i \in leads : i \in M /\ \A j \in M : SameLead(rows, i, j) => j = i \/ Earlier(rows, i, j)
    OBVIOUS
<1>6. ASSUME NEW i \in M PROVE \E l \in leads : SameLead(rows, l, i)
    <2> DEFINE C == {j \in M : SameLead(rows, i, j)}
    <2>1. C \in SUBSET DOMAIN rows /\ C # {}
        BY <1>1, SameLeadRelation
    <2>2. PICK l \in C : \A j \in C : j = l \/ Earlier(rows, l, j)
        <3> HIDE DEF C
        <3> QED BY <2>1, EarliestRow
    <2>3. \A j \in M : SameLead(rows, l, j) => j \in C
        BY SameLeadRelation
    <2>4. l \in leads
        BY <2>2, <2>3
    <2> QED BY <2>4, SameLeadRelation
<1>7. /\ \A k \in DOMAIN order : order[k] \in leads
      /\ \A x \in leads : \E k \in DOMAIN order : order[k] = x
      /\ \A j, k \in DOMAIN order : order[j] = order[k] => j = k
    BY <1>2 DEF Lists
<1> HIDE DEF M, leads, order, groups
<1>8. ASSUME NEW k \in DOMAIN groups PROVE IsLeadOf(groups[k], rows, M)
    <2>1. order[k] \in leads
        BY <1>3, <1>7
    <2>2. /\ groups[k].lead = order[k] /\ groups[k].identity = Identity(rows[order[k]].event)
          /\ groups[k].ids = {j \in M : SameLead(rows, order[k], j)}
        BY <1>3
    <2> QED BY <1>5, <2>1, <2>2 DEF IsLeadOf
<1>9. ASSUME NEW k \in DOMAIN groups PROVE groups[k].ids \subseteq M /\ groups[k].lead \in groups[k].ids
    BY <1>8, SameLeadRelation DEF IsLeadOf
<1>10. ASSUME NEW i \in M PROVE \E k \in DOMAIN groups : i \in groups[k].ids
    <2>1. PICK l \in leads : SameLead(rows, l, i)
        BY <1>6
    <2>2. PICK k \in DOMAIN order : order[k] = l
        BY <1>7
    <2> QED BY <1>3, <2>1, <2>2
<1>11. ASSUME NEW i \in M, NEW j \in DOMAIN groups, NEW k \in DOMAIN groups, i \in groups[j].ids, i \in groups[k].ids
       PROVE  j = k
    <2>1. order[j] \in leads /\ order[k] \in leads /\ order[j] \in M /\ order[k] \in M
        BY <1>3, <1>5, <1>7
    <2>2. SameLead(rows, order[j], i) /\ SameLead(rows, order[k], i)
        BY <1>3, <1>11
    <2>3. SameLead(rows, order[j], order[k]) /\ SameLead(rows, order[k], order[j])
        BY <2>2, SameLeadRelation
    <2>4. /\ order[k] = order[j] \/ Earlier(rows, order[j], order[k])
          /\ order[j] = order[k] \/ Earlier(rows, order[k], order[j])
        BY <1>5, <2>1, <2>3
    <2>5. ~(Earlier(rows, order[j], order[k]) /\ Earlier(rows, order[k], order[j]))
        <3>1. TotalOrder(M, Precedes(rows))
            BY <1>1, EarlierOrder
        <3>2. ~(<<order[j], order[k]>> \in Precedes(rows) /\ <<order[k], order[j]>> \in Precedes(rows))
            BY <2>1, <3>1 DEF TotalOrder
        <3> QED BY <1>1, <2>1, <3>2 DEF Precedes
    <2>6. order[j] = order[k]
        BY <2>4, <2>5
    <2> QED BY <1>3, <1>7, <2>6
<1>12. GroupsOf(groups, M)
    BY <1>4, <1>9, <1>10, <1>11 DEF GroupsOf
<1> QED BY <1>8, <1>12 DEF groups, M

-----------------------------------------------------------------------------
(* The leads of an answer.                                                 *)

SameGroup(x, y) == x.ids = y.ids /\ x.identity = y.identity /\ x.lead = y.lead

\* c has each group of ls once.
Rearranges(c, ls) ==
    /\ IsSeq(c)
    /\ \A k \in DOMAIN c : \E a \in DOMAIN ls : SameGroup(c[k], ls[a])
    /\ \A a \in DOMAIN ls : \E k \in DOMAIN c : SameGroup(c[k], ls[a])
    /\ \A j, k \in DOMAIN c : \A a \in DOMAIN ls : SameGroup(c[j], ls[a]) /\ SameGroup(c[k], ls[a]) => j = k

\* Every row of M once, in groups that are the leads of the rows.
LeadsOf(c, rows, M) ==
    /\ GroupsOf(c, M)
    /\ \A k \in DOMAIN c : IsLeadOf(c[k], rows, M)

LEMMA RearrangedLeads ==
    ASSUME NEW rows, NEW M, NEW ls, LeadsOf(ls, rows, M), NEW c, Rearranges(c, ls)
    PROVE  LeadsOf(c, rows, M)
<1>1. \A k \in DOMAIN c : \E a \in DOMAIN ls : SameGroup(c[k], ls[a])
    BY DEF Rearranges
<1>2. ASSUME NEW k \in DOMAIN c
      PROVE  IsLeadOf(c[k], rows, M) /\ c[k].ids \subseteq M /\ c[k].lead \in c[k].ids
    <2>1. PICK a \in DOMAIN ls : SameGroup(c[k], ls[a])
        BY <1>1
    <2>2. IsLeadOf(ls[a], rows, M) /\ ls[a].ids \subseteq M /\ ls[a].lead \in ls[a].ids
        BY DEF LeadsOf, GroupsOf
    <2> QED BY <2>1, <2>2 DEF SameGroup, IsLeadOf
<1>3. ASSUME NEW i \in M PROVE \E k \in DOMAIN c : i \in c[k].ids
    <2>1. PICK a \in DOMAIN ls : i \in ls[a].ids
        BY DEF LeadsOf, GroupsOf
    <2>2. PICK k \in DOMAIN c : SameGroup(c[k], ls[a])
        BY DEF Rearranges
    <2> QED BY <2>1, <2>2 DEF SameGroup
<1>4. ASSUME NEW i \in M, NEW j \in DOMAIN c, NEW k \in DOMAIN c, i \in c[j].ids, i \in c[k].ids
      PROVE  j = k
    <2>1. PICK a \in DOMAIN ls : SameGroup(c[j], ls[a])
        BY <1>1
    <2>2. PICK b \in DOMAIN ls : SameGroup(c[k], ls[b])
        BY <1>1
    <2>3. a = b
        BY <1>4, <2>1, <2>2 DEF LeadsOf, GroupsOf, SameGroup
    <2> QED BY <2>1, <2>2, <2>3 DEF Rearranges
<1>5. IsSeq(c)
    BY DEF Rearranges
<1> QED BY <1>2, <1>3, <1>4, <1>5 DEF LeadsOf, GroupsOf

LEMMA CoverageRearranges ==
    ASSUME NEW rows, NEW M, NEW ls, LeadsOf(ls, rows, M), NEW ds, IsSeq(ds), NEW found,
           DispositionsAllowed(ds, found, ls), NEW first
    PROVE  Rearranges(LeadCoverage(ds, ls, first), ls)
<1> DEFINE LeadOf(d) == CHOOSE l \in Range(ls) : d.row \in l.ids
           named == [k \in DOMAIN ds |->
                       [ids |-> LeadOf(ds[k]).ids,
                        identity |-> LeadOf(ds[k]).identity,
                        lead |-> LeadOf(ds[k]).lead,
                        findings |-> {first + n - 1 : n \in ds[k].findings}]]
           D == {a \in DOMAIN ls : \A k \in DOMAIN named : named[k].lead # ls[a].lead}
           others == At(ls, D)
           rest == [k \in DOMAIN others |->
                       [ids |-> others[k].ids, identity |-> others[k].identity,
                        lead |-> others[k].lead, findings |-> {}]]
           c == LeadCoverage(ds, ls, first)
<1>1. c = named \o rest
    BY DEF LeadCoverage, Filtered, Ordered, Ascending, At
<1>2. IsSeq(ls) /\ DOMAIN ds = 1 .. Len(ds) /\ Len(ds) \in Nat
    BY SeqFacts DEF LeadsOf, GroupsOf
<1>3. \A k \in DOMAIN ds : LeadOf(ds[k]) \in Range(ls) /\ ds[k].row \in LeadOf(ds[k]).ids
    <2> TAKE k \in DOMAIN ds
    <2>1. ds[k] \in Range(ds)
        BY DEF Range
    <2>2. \E l \in Range(ls) : ds[k].row \in l.ids
        BY <2>1 DEF DispositionsAllowed
    <2> QED BY <2>2
<1>4. ASSUME NEW k \in DOMAIN ds
      PROVE  \E a \in DOMAIN ls : SameGroup(named[k], ls[a]) /\ ds[k].row \in ls[a].ids
    <2>1. PICK a \in DOMAIN ls : LeadOf(ds[k]) = ls[a]
        BY <1>3 DEF Range
    <2>2. /\ named[k].ids = LeadOf(ds[k]).ids /\ named[k].identity = LeadOf(ds[k]).identity
          /\ named[k].lead = LeadOf(ds[k]).lead
        <3> HIDE DEF LeadOf
        <3> QED OBVIOUS
    <2> HIDE DEF LeadOf, named
    <2> QED BY <1>3, <2>1, <2>2 DEF SameGroup
<1>5. named = [k \in 1 .. Len(ds) |-> named[k]] /\ DOMAIN named = DOMAIN ds
    <2> HIDE DEF LeadOf
    <2> QED BY <1>2
<1>6. D \in SUBSET DOMAIN ls
    OBVIOUS
<1>7. \A a \in DOMAIN ls : a \in D <=> \A k \in DOMAIN named : named[k].lead # ls[a].lead
    OBVIOUS
<1> HIDE DEF LeadOf, named, D
<1>8. IsSeq(named) /\ DOMAIN named = DOMAIN ds
    BY <1>2, <1>5, FunctionIsSeq
<1>9. /\ IsSeq(others)
      /\ \A k \in DOMAIN others : Ascending(D)[k] \in D /\ others[k] = ls[Ascending(D)[k]]
      /\ \A d \in D : \E k \in DOMAIN others : Ascending(D)[k] = d
      /\ \A j, k \in DOMAIN others : Ascending(D)[j] = Ascending(D)[k] => j = k
    BY <1>2, <1>6, AtIsSeq
<1> HIDE DEF others
<1>10. DOMAIN others = 1 .. Len(others) /\ Len(others) \in Nat
    BY <1>9, SeqFacts
<1>11. /\ DOMAIN rest = DOMAIN others /\ rest = [k \in 1 .. Len(others) |-> rest[k]]
       /\ \A k \in DOMAIN rest : SameGroup(rest[k], others[k])
    BY <1>10 DEF SameGroup
<1> HIDE DEF rest
<1>12. IsSeq(rest)
    BY <1>10, <1>11, FunctionIsSeq
<1>13. \A k \in DOMAIN rest : Ascending(D)[k] \in D /\ SameGroup(rest[k], ls[Ascending(D)[k]])
    BY <1>9, <1>11
<1>14. Joined(c, named, rest)
    BY <1>1, <1>8, <1>12, ConcatIsSeq
<1> HIDE DEF c
<1>15. ASSUME NEW a \in DOMAIN ls, NEW b \in DOMAIN ls, NEW x, SameGroup(x, ls[a]), SameGroup(x, ls[b])
       PROVE  a = b
    <2>1. ls[a].lead \in ls[a].ids /\ ls[a].lead \in M /\ ls[a].lead \in ls[b].ids
        BY <1>15 DEF SameGroup, LeadsOf, GroupsOf
    <2> QED BY <2>1 DEF LeadsOf, GroupsOf
<1>16. ASSUME NEW a \in DOMAIN ls, NEW b \in DOMAIN ls, ls[a].lead = ls[b].lead
       PROVE  a = b
    <2>1. ls[a].lead \in ls[a].ids /\ ls[a].lead \in M /\ ls[a].lead \in ls[b].ids
        BY <1>16 DEF LeadsOf, GroupsOf
    <2> QED BY <2>1 DEF LeadsOf, GroupsOf
<1>17. \A k \in DOMAIN c : \E a \in DOMAIN ls : SameGroup(c[k], ls[a])
    <2> TAKE k \in DOMAIN c
    <2>1. CASE k \in DOMAIN named
        BY <1>4, <1>8, <1>14, <2>1 DEF Joined
    <2>2. CASE k - Len(named) \in DOMAIN rest /\ c[k] = rest[k - Len(named)]
        BY <1>6, <1>13, <2>2
    <2> QED BY <1>14, <2>1, <2>2 DEF Joined
<1>18. ASSUME NEW a \in DOMAIN ls PROVE \E k \in DOMAIN c : SameGroup(c[k], ls[a])
    <2>1. CASE a \in D
        <3>1. PICK k \in DOMAIN rest : Ascending(D)[k] = a
            BY <1>9, <1>11, <2>1
        <3>2. SameGroup(rest[k], ls[a])
            BY <1>13, <3>1
        <3> QED BY <1>14, <3>2 DEF Joined
    <2>2. CASE a \notin D
        <3>1. PICK k \in DOMAIN named : named[k].lead = ls[a].lead
            BY <1>7, <2>2
        <3>2. PICK b \in DOMAIN ls : SameGroup(named[k], ls[b])
            BY <1>4, <1>8
        <3>3. a = b
            BY <1>16, <3>1, <3>2 DEF SameGroup
        <3> QED BY <1>14, <3>2, <3>3 DEF Joined
    <2> QED BY <2>1, <2>2
<1>19. ASSUME NEW j \in DOMAIN c, NEW k \in DOMAIN c, NEW a \in DOMAIN ls, SameGroup(c[j], ls[a]), SameGroup(c[k], ls[a])
       PROVE  j = k
    <2>1. ASSUME NEW i \in DOMAIN c, i \in DOMAIN named, SameGroup(c[i], ls[a])
          PROVE  c[i] = named[i] /\ a \notin D /\ ds[i].row \in ls[a].ids
        <3>1. c[i] = named[i]
            BY <1>14, <2>1 DEF Joined
        <3>2. a \notin D
            BY <1>7, <2>1, <3>1 DEF SameGroup
        <3>3. PICK b \in DOMAIN ls : SameGroup(named[i], ls[b]) /\ ds[i].row \in ls[b].ids
            BY <1>4, <1>8, <2>1
        <3>4. a = b
            BY <1>15, <2>1, <3>1, <3>3
        <3> QED BY <3>1, <3>2, <3>3, <3>4
    <2>2. ASSUME NEW i \in DOMAIN c, i \notin DOMAIN named, SameGroup(c[i], ls[a])
          PROVE  i - Len(named) \in DOMAIN rest /\ Ascending(D)[i - Len(named)] = a /\ a \in D
        <3>1. i - Len(named) \in DOMAIN rest /\ c[i] = rest[i - Len(named)]
            BY <1>14, <2>2 DEF Joined
        <3>2. Ascending(D)[i - Len(named)] \in D /\ SameGroup(c[i], ls[Ascending(D)[i - Len(named)]])
            BY <1>13, <3>1
        <3>3. Ascending(D)[i - Len(named)] = a
            BY <1>6, <1>15, <2>2, <3>2
        <3> QED BY <3>1, <3>2, <3>3
    <2>3. CASE j \in DOMAIN named /\ k \in DOMAIN named
        <3>1. ls[a] \in Range(ls)
            BY DEF Range
        <3>2. ds[j].row \in ls[a].ids /\ ds[k].row \in ls[a].ids /\ j \in DOMAIN ds /\ k \in DOMAIN ds
            BY <1>8, <1>19, <2>1, <2>3
        <3> QED BY <3>1, <3>2 DEF DispositionsAllowed
    <2>4. CASE j \notin DOMAIN named /\ k \notin DOMAIN named
        <3>1. j - Len(named) = k - Len(named)
            BY <1>9, <1>11, <1>19, <2>2, <2>4
        <3>2. j \in Int /\ k \in Int /\ Len(named) \in Nat
            <4>1. DOMAIN c \subseteq Nat /\ Len(named) \in Nat
                BY <1>8, <1>14, SeqFacts DEF Joined
            <4> QED BY <4>1
        <3> QED BY <3>1, <3>2
    <2> QED BY <1>19, <2>1, <2>2, <2>3, <2>4
<1>20. IsSeq(c)
    BY <1>14 DEF Joined
<1>21. Rearranges(c, ls)
    BY <1>17, <1>18, <1>19, <1>20 DEF Rearranges
<1> QED BY <1>21 DEF c

LEMMA EvidenceIsTimed ==
    ASSUME TypeInv
    PROVE  TimedRecords(evidence)
BY ConstantsAre DEF TypeInv, EvidenceType, TimedRecords

LEMMA LeadsAre ==
    ASSUME TypeInv
    PROVE  LeadsOf(Leads, evidence, Matches(evidence, DOMAIN evidence))
BY EvidenceIsTimed, LeadGroupsFacts DEF Leads, LeadsOf

-----------------------------------------------------------------------------
(* The answers.                                                            *)

Written == {"synthesis", "draft", "final"}

IsAnswer(a, rows) ==
    /\ a = [question |-> a.question, findings |-> a.findings, leads |-> a.leads, limited |-> a.limited]
    /\ IsSeq(a.findings) /\ \A j, k \in DOMAIN a.findings : a.findings[j] = a.findings[k] => j = k
    /\ a.findings = <<>> => a.limited
    /\ LeadsOf(a.leads, rows, Matches(rows, DOMAIN rows))

\* One answer at most for a question of the plan, none before synthesis.
AnswersInv ==
    /\ IsSeq(answers)
    /\ \A k \in DOMAIN answers : IsAnswer(answers[k], evidence) /\ answers[k].question \in DOMAIN Questions
    /\ \A j, k \in DOMAIN answers : answers[j].question = answers[k].question => j = k
    /\ phase \notin Written => answers = <<>>

LEMMA StoredAnswerIs ==
    ASSUME TypeInv, NEW question, NEW first \in Int, NEW found, IsSeq(found), NEW ds, IsSeq(ds),
           DispositionsAllowed(ds, found, Leads)
    PROVE  /\ IsAnswer(StoredAnswer(question, first, found, ds), evidence)
           /\ StoredAnswer(question, first, found, ds).question = question
<1> DEFINE c == LeadCoverage(ds, Leads, first)
           a == StoredAnswer(question, first, found, ds)
           M == Matches(evidence, DOMAIN evidence)
           fs == [k \in DOMAIN found |-> first + k - 1]
<1>1. LeadsOf(Leads, evidence, M)
    BY LeadsAre
<1>2. LeadsOf(c, evidence, M)
    <2>1. Rearranges(c, Leads)
        BY <1>1, CoverageRearranges
    <2> HIDE DEF c, M
    <2> QED BY <1>1, <2>1, RearrangedLeads
<1>3. a = [question |-> question, findings |-> fs, leads |-> c, limited |-> Limited(found, c)]
    BY DEF StoredAnswer
<1>4. DOMAIN found = 1 .. Len(found) /\ Len(found) \in Nat
    BY SeqFacts
<1>5. /\ DOMAIN fs = 1 .. Len(found) /\ fs = [k \in 1 .. Len(found) |-> fs[k]]
      /\ \A k \in DOMAIN fs : fs[k] = first + k - 1
    BY <1>4
<1> HIDE DEF c, a, M, fs
<1>6. IsSeq(fs) /\ Len(fs) = Len(found)
    BY <1>4, <1>5, FunctionIsSeq
<1>7. \A j, k \in DOMAIN fs : fs[j] = fs[k] => j = k
    BY <1>5
<1>8. fs = <<>> => found = <<>>
    BY <1>6, SeqFacts
<1>9. a.question = question /\ a.findings = fs /\ a.leads = c /\ (a.limited <=> Limited(found, c))
    BY <1>3
<1>10. fs = <<>> => a.limited
    BY <1>8, <1>9 DEF Limited
<1>11. a = [question |-> a.question, findings |-> a.findings, leads |-> a.leads, limited |-> a.limited]
    BY <1>3
<1>12. IsAnswer(a, evidence)
    BY <1>2, <1>6, <1>7, <1>9, <1>10, <1>11 DEF IsAnswer, M
<1> QED BY <1>9, <1>12 DEF a

\* New answers to different open questions.
NewAnswers(new) ==
    /\ IsSeq(new)
    /\ \A k \in DOMAIN new : /\ IsAnswer(new[k], evidence)
                             /\ \E u \in DOMAIN Unanswered : new[k].question = Unanswered[u].id
    /\ \A j, k \in DOMAIN new : new[j].question = new[k].question => j = k

LEMMA UnansweredDistinct ==
    \A j, k \in DOMAIN Unanswered : Unanswered[j].id = Unanswered[k].id => j = k
<1> SUFFICES ASSUME NEW j \in DOMAIN Unanswered, NEW k \in DOMAIN Unanswered, Unanswered[j].id = Unanswered[k].id
             PROVE  j = k
    OBVIOUS
<1>1. j \in Nat /\ k \in Nat
    BY UnansweredFacts, SeqFacts
<1>2. Unanswered[j].id \in Nat /\ Unanswered[k].id \in Nat
    BY UnansweredFacts, ConstantsAre, SeqFacts
<1>3. ~(j < k) /\ ~(k < j)
    BY <1>2, UnansweredFacts
<1> QED BY <1>1, <1>3

LEMMA MaterializedAreNew ==
    ASSUME TypeInv, IsSeq(findings), NEW slots, IsSeq(slots), DOMAIN slots = DOMAIN Unanswered,
           \A k \in DOMAIN slots : Accepted(slots[k])
    PROVE  NewAnswers(MaterializeQuestionAnswers(slots))
<1> DEFINE F == {k \in DOMAIN slots : slots[k].request = <<>>}
           final == Ascending(F)
           Before(k) == FlattenSeq([j \in 1 .. k - 1 |-> slots[final[j]].found])
           new == MaterializeQuestionAnswers(slots)
<1>1. F \in SUBSET DOMAIN slots
    OBVIOUS
<1>2. new = [k \in DOMAIN final |->
               StoredAnswer(Unanswered[final[k]].id, Len(findings) + Len(Before(k)) + 1,
                            slots[final[k]].found, slots[final[k]].dispositions)]
    BY DEF MaterializeQuestionAnswers, Ordered, Ascending
<1> HIDE DEF F
<1>3. /\ DOMAIN final = 1 .. Cardinality(F) /\ Cardinality(F) \in Nat /\ DOMAIN At(slots, F) = 1 .. Cardinality(F)
      /\ \A k \in DOMAIN final : final[k] \in F
      /\ \A j, k \in DOMAIN final : final[j] = final[k] => j = k
    BY <1>1, AtIsSeq
<1>4. ASSUME NEW k \in DOMAIN final PROVE Len(Before(k)) \in Nat
    <2> DEFINE ss == [j \in 1 .. k - 1 |-> slots[final[j]].found]
    <2>1. k - 1 \in Nat /\ 1 .. k - 1 \subseteq DOMAIN final
        BY <1>3
    <2>2. ss = [j \in 1 .. k - 1 |-> ss[j]] /\ DOMAIN ss = 1 .. k - 1
        OBVIOUS
    <2>3. \A j \in DOMAIN ss : IsSeq(ss[j])
        BY <1>1, <1>3, <2>1 DEF Accepted, IsSlot
    <2>4. Before(k) = FlattenSeq(ss)
        OBVIOUS
    <2> HIDE DEF ss, Before
    <2>5. IsSeq(ss)
        BY <2>1, <2>2, FunctionIsSeq
    <2>6. IsSeq(FlattenSeq(ss))
        BY <2>3, <2>5, FlattenIsSeq
    <2> QED BY <2>4, <2>6, SeqFacts
<1> HIDE DEF final, Before, new
<1>5. ASSUME NEW k \in DOMAIN final
      PROVE  IsAnswer(new[k], evidence) /\ new[k].question = Unanswered[final[k]].id
    <2> DEFINE s == slots[final[k]]
               first == Len(findings) + Len(Before(k)) + 1
    <2>1. final[k] \in DOMAIN slots
        BY <1>1, <1>3
    <2>2. IsSeq(s.found) /\ IsSeq(s.dispositions) /\ DispositionsAllowed(s.dispositions, s.found, Leads)
        BY <2>1 DEF Accepted, IsSlot
    <2>3. first \in Int
        BY <1>4, SeqFacts
    <2>4. new[k] = StoredAnswer(Unanswered[final[k]].id, first, s.found, s.dispositions)
        BY <1>2
    <2> HIDE DEF s, first
    <2> QED BY <2>2, <2>3, <2>4, StoredAnswerIs
<1>6. DOMAIN new = 1 .. Cardinality(F) /\ DOMAIN new = DOMAIN final /\ new = [k \in 1 .. Cardinality(F) |-> new[k]]
    BY <1>2, <1>3
<1>7. IsSeq(new)
    BY <1>3, <1>6, FunctionIsSeq
<1>8. \A k \in DOMAIN new : final[k] \in DOMAIN Unanswered
    BY <1>1, <1>3, <1>6
<1>9. ASSUME NEW j \in DOMAIN new, NEW k \in DOMAIN new, new[j].question = new[k].question PROVE j = k
    <2>1. Unanswered[final[j]].id = Unanswered[final[k]].id
        BY <1>5, <1>6, <1>9
    <2>2. final[j] = final[k]
        BY <1>8, <2>1, UnansweredDistinct
    <2> QED BY <1>3, <1>6, <2>2
<1>10. NewAnswers(new)
    BY <1>5, <1>6, <1>7, <1>8, <1>9 DEF NewAnswers
<1> QED BY <1>10 DEF new

LEMMA LimitedAreNew ==
    ASSUME TypeInv, IsSeq(findings), NEW new,
           new = [k \in DOMAIN Unanswered |-> StoredAnswer(Unanswered[k].id, Len(findings) + 1, <<>>, <<>>)]
    PROVE  NewAnswers(new)
<1>1. DOMAIN Unanswered = 1 .. Len(Unanswered) /\ Len(Unanswered) \in Nat
    BY UnansweredFacts, SeqFacts
<1>2. DOMAIN new = DOMAIN Unanswered /\ new = [k \in 1 .. Len(Unanswered) |-> new[k]]
    BY <1>1
<1>3. IsSeq(new)
    BY <1>1, <1>2, FunctionIsSeq
<1>4. Len(findings) + 1 \in Int
    BY SeqFacts
<1>5. IsSeq(<<>>) /\ DispositionsAllowed(<<>>, <<>>, Leads)
    BY EmptyIsSeq DEF DispositionsAllowed, Range
<1>6. ASSUME NEW k \in DOMAIN new PROVE IsAnswer(new[k], evidence) /\ new[k].question = Unanswered[k].id
    <2>1. new[k] = StoredAnswer(Unanswered[k].id, Len(findings) + 1, <<>>, <<>>)
        BY <1>2
    <2> QED BY <1>4, <1>5, <2>1, StoredAnswerIs
<1>7. \A j, k \in DOMAIN new : new[j].question = new[k].question => j = k
    BY <1>2, <1>6, UnansweredDistinct
<1> QED BY <1>2, <1>3, <1>6, <1>7 DEF NewAnswers

LEMMA AnswersAdd ==
    ASSUME AnswersInv, NEW new, NewAnswers(new), answers' = answers \o new,
           UNCHANGED evidence, phase' \in Written
    PROVE  AnswersInv'
<1>1. IsSeq(answers) /\ IsSeq(new)
    BY DEF AnswersInv, NewAnswers
<1>2. Joined(answers', answers, new)
    BY <1>1, ConcatIsSeq
<1>3. ASSUME NEW k \in DOMAIN new
      PROVE  /\ new[k].question \in DOMAIN Questions
             /\ \A j \in DOMAIN answers : answers[j].question # new[k].question
    <2>1. PICK u \in DOMAIN Unanswered : new[k].question = Unanswered[u].id
        BY DEF NewAnswers
    <2>2. \A j \in DOMAIN answers : answers[j] \in Range(answers)
        BY DEF Range
    <2> QED BY <2>1, <2>2, UnansweredFacts
<1>4. ASSUME NEW k \in DOMAIN answers'
      PROVE  \/ k \in DOMAIN answers /\ answers'[k] = answers[k]
             \/ k \notin DOMAIN answers /\ k - Len(answers) \in DOMAIN new /\ answers'[k] = new[k - Len(answers)]
    BY <1>2 DEF Joined
<1>5. \A k \in DOMAIN answers' : IsAnswer(answers'[k], evidence) /\ answers'[k].question \in DOMAIN Questions
    BY <1>3, <1>4 DEF AnswersInv, NewAnswers
<1>6. ASSUME NEW j \in DOMAIN answers', NEW k \in DOMAIN answers', answers'[j].question = answers'[k].question
      PROVE  j = k
    <2>1. CASE j \in DOMAIN answers /\ k \in DOMAIN answers
        BY <1>4, <1>6, <2>1 DEF AnswersInv
    <2>2. CASE j \notin DOMAIN answers /\ k \notin DOMAIN answers
        <3>1. j - Len(answers) = k - Len(answers)
            BY <1>4, <1>6, <2>2 DEF NewAnswers
        <3>2. j \in Nat /\ k \in Nat /\ Len(answers) \in Nat
            BY <1>1, <1>2, SeqFacts DEF Joined
        <3> QED BY <3>1, <3>2
    <2> QED BY <1>3, <1>4, <1>6, <2>1, <2>2
<1>7. IsSeq(answers')
    BY <1>2 DEF Joined
<1> QED BY <1>5, <1>6, <1>7 DEF AnswersInv

LEMMA InPlanOrderFacts ==
    ASSUME NEW as, IsSeq(as), \A k \in DOMAIN as : as[k].question \in Nat,
           \A j, k \in DOMAIN as : as[j].question = as[k].question => j = k
    PROVE  /\ IsSeq(InPlanOrder(as)) /\ Range(InPlanOrder(as)) = Range(as)
           /\ \A j, k \in DOMAIN InPlanOrder(as) :
                 InPlanOrder(as)[j].question = InPlanOrder(as)[k].question => j = k
<1> DEFINE S == DOMAIN as
           R == {p \in S \X S : as[p[1]].question < as[p[2]].question}
           Choice(k) == CHOOSE x \in S : Cardinality({y \in S : as[y].question < as[x].question}) = k - 1
           order == [k \in 1 .. Cardinality(S) |-> Choice(k)]
           new == InPlanOrder(as)
<1>1. IsFiniteSet(S)
    BY RangeFinite
<1>2. \A x, y \in S : <<x, y>> \in R <=> as[x].question < as[y].question
    OBVIOUS
<1>3. TotalOrder(S, R)
    <2> DEFINE q == [x \in S |-> as[x].question]
    <2>1. /\ \A x \in S : q[x] \in Nat
          /\ \A x, y \in S : q[x] = q[y] => x = y
          /\ \A x, y \in S : <<x, y>> \in R <=> q[x] < q[y]
        OBVIOUS
    <2> HIDE DEF R, S, q
    <2>2. \A x \in S : <<x, x>> \notin R
        BY <2>1
    <2>3. \A x, y \in S : x # y => <<x, y>> \in R \/ <<y, x>> \in R
        BY <2>1
    <2>4. \A x, y, z \in S : <<x, y>> \in R /\ <<y, z>> \in R => <<x, z>> \in R
        BY <2>1
    <2> QED BY <2>2, <2>3, <2>4 DEF TotalOrder
<1>4. \A x \in S : Below(S, R, x) = {y \in S : as[y].question < as[x].question}
    <2> HIDE DEF R
    <2> QED BY <1>2 DEF Below
<1>5. new = [k \in DOMAIN order |-> as[order[k]]]
    BY DEF InPlanOrder, Ordered
<1> HIDE DEF R, new
<1>6. ASSUME NEW k \in 1 .. Cardinality(S) PROVE order[k] = Listing(S, R)[k]
    <2>1. (CHOOSE x \in S : Cardinality(Below(S, R, x)) = k - 1) = Choice(k)
        BY <1>4
    <2>2. Listing(S, R)[k] = CHOOSE x \in S : Cardinality(Below(S, R, x)) = k - 1
        BY DEF Listing
    <2>3. order[k] = Choice(k)
        <3> HIDE DEF Choice
        <3> QED OBVIOUS
    <2> QED BY <2>1, <2>2, <2>3, Zenon
<1>7. order = Listing(S, R)
    <2>1. Listing(S, R) = [k \in 1 .. Cardinality(S) |-> Listing(S, R)[k]]
        <3> HIDE DEF S
        <3> QED BY DEF Listing
    <2>2. order = [k \in 1 .. Cardinality(S) |-> order[k]]
        <3> HIDE DEF Choice
        <3> QED OBVIOUS
    <2> HIDE DEF order
    <2> QED BY <1>6, <2>1, <2>2
<1> HIDE DEF order
<1>8. Lists(order, S, R)
    BY <1>1, <1>3, <1>7, Listed
<1>9. /\ Cardinality(S) \in Nat /\ DOMAIN order = 1 .. Cardinality(S)
      /\ \A k \in DOMAIN order : order[k] \in S
      /\ \A x \in S : \E k \in DOMAIN order : order[k] = x
      /\ \A j, k \in DOMAIN order : order[j] = order[k] => j = k
    BY <1>8 DEF Lists
<1>10. DOMAIN new = DOMAIN order /\ new = [k \in 1 .. Cardinality(S) |-> new[k]] /\ \A k \in DOMAIN new : new[k] = as[order[k]]
    BY <1>5, <1>9
<1>11. IsSeq(new)
    BY <1>9, <1>10, FunctionIsSeq
<1>12. Range(new) = Range(as)
    <2>1. \A k \in DOMAIN new : \E x \in DOMAIN as : new[k] = as[x]
        BY <1>9, <1>10
    <2>2. ASSUME NEW x \in DOMAIN as PROVE \E k \in DOMAIN new : new[k] = as[x]
        <3>1. PICK k \in DOMAIN order : order[k] = x
            BY <1>9
        <3> QED BY <1>10, <3>1
    <2>3. Range(new) = {new[k] : k \in DOMAIN new} /\ Range(as) = {as[x] : x \in DOMAIN as}
        BY DEF Range
    <2>4. Range(new) \subseteq Range(as)
        BY <2>1, <2>3
    <2>5. Range(as) \subseteq Range(new)
        BY <2>2, <2>3
    <2> QED BY <2>4, <2>5
<1>13. ASSUME NEW j \in DOMAIN new, NEW k \in DOMAIN new, new[j].question = new[k].question
       PROVE  j = k
    <2>1. j \in DOMAIN order /\ k \in DOMAIN order /\ order[j] \in DOMAIN as /\ order[k] \in DOMAIN as
        BY <1>9, <1>10
    <2>2. as[order[j]].question = as[order[k]].question
        BY <1>10, <1>13
    <2>3. order[j] = order[k]
        BY <2>1, <2>2
    <2> QED BY <1>9, <2>1, <2>3
<1> QED BY <1>11, <1>12, <1>13 DEF new

LEMMA BeforeSynthesis ==
    ASSUME TypeInv, InvestigationNext
    PROVE  phase \notin Written /\ UNCHANGED <<answers, findings, report>>
<1>1. fetch # Idle => phase = "search"
    BY DEF TypeInv, FetchRuns
<1> QED BY <1>1 DEF InvestigationNext, TimePasses, SkipSearch, StartSearch, FetchPage, FetchTimeout,
            RecordSearch, SearchesDone, CoverSources, Assess, NoMoreRounds, Decide, StopRounds, RoundExhausted,
            EndRounds, answerVars, Written

LEMMA AnswersStep ==
    ASSUME TypeInv, SoundInv, AnswersInv, [Next]_vars
    PROVE  AnswersInv'
<1>1. CASE InvestigationNext
    <2>1. answers = <<>> /\ answers' = <<>>
        BY <1>1, BeforeSynthesis DEF AnswersInv
    <2> QED BY <2>1, EmptyIsSeq DEF AnswersInv
<1>2. CASE Synthesize
    <2>1. PICK slots : /\ IsSeq(slots) /\ DOMAIN slots = DOMAIN Unanswered
                       /\ \A k \in DOMAIN slots : Accepted(slots[k])
                       /\ answers' = answers \o MaterializeQuestionAnswers(slots)
        BY <1>2, SynthesizeAdds
    <2>2. NewAnswers(MaterializeQuestionAnswers(slots))
        BY <2>1, MaterializedAreNew DEF SoundInv
    <2>3. UNCHANGED evidence /\ phase' \in Written
        BY <1>2 DEF Synthesize, searchVars, Written
    <2> QED BY <2>1, <2>2, <2>3, AnswersAdd
<1>3. CASE BudgetLimited
    <2> DEFINE new == [k \in DOMAIN Unanswered |-> StoredAnswer(Unanswered[k].id, Len(findings) + 1, <<>>, <<>>)]
    <2>1. answers' = answers \o new /\ UNCHANGED evidence /\ phase' \in Written
        BY <1>3 DEF BudgetLimited, searchVars, Written
    <2>2. NewAnswers(new)
        BY LimitedAreNew DEF SoundInv
    <2> HIDE DEF new
    <2> QED BY <2>1, <2>2, AnswersAdd
<1>4. CASE PublishReport
    <2>1. answers' = InPlanOrder(answers) /\ UNCHANGED evidence /\ phase' \in Written
        BY <1>4 DEF PublishReport, searchVars, Written
    <2>2. DOMAIN Questions \subseteq Nat
        BY ConstantsAre, SeqFacts
    <2>3. /\ IsSeq(answers') /\ Range(answers') = Range(answers)
          /\ \A j, k \in DOMAIN answers' : answers'[j].question = answers'[k].question => j = k
        BY <2>1, <2>2, InPlanOrderFacts DEF AnswersInv
    <2>4. \A a \in Range(answers) : IsAnswer(a, evidence) /\ a.question \in DOMAIN Questions
        BY DEF AnswersInv, Range
    <2>5. \A k \in DOMAIN answers' : answers'[k] \in Range(answers')
        BY DEF Range
    <2>6. \A k \in DOMAIN answers' : IsAnswer(answers'[k], evidence) /\ answers'[k].question \in DOMAIN Questions
        BY <2>3, <2>4, <2>5
    <2> QED BY <2>1, <2>3, <2>6 DEF AnswersInv
<1>5. CASE FinalOnly \/ SaveReport \/ FinalizeReport \/ FinalizeRefused \/ Finished \/ UNCHANGED vars
    <2>1. UNCHANGED <<answers, evidence>> /\ (phase' = phase \/ phase' \in Written)
        BY <1>5 DEF FinalOnly, SaveReport, FinalizeReport, FinalizeRefused, Finished, vars, answerVars, searchVars, Written
    <2> QED BY <2>1 DEF AnswersInv
<1> QED BY <1>1, <1>2, <1>3, <1>4, <1>5 DEF Next

LEMMA AnswersSuffice ==
    ASSUME AnswersInv
    PROVE  LeadsAccounted
<1> SUFFICES ASSUME NEW a \in Range(answers)
             PROVE  /\ UNION {l.ids : l \in Range(a.leads)} = Matches(evidence, DOMAIN evidence)
                    /\ \A j, k \in DOMAIN a.leads : a.leads[j].ids \intersect a.leads[k].ids # {} => j = k
    BY DEF LeadsAccounted
<1> DEFINE M == Matches(evidence, DOMAIN evidence)
           ls == a.leads
<1>1. GroupsOf(ls, M)
    BY DEF AnswersInv, IsAnswer, LeadsOf, Range
<1> HIDE DEF M, ls
<1>2. /\ \A k \in DOMAIN ls : ls[k].ids \subseteq M
      /\ \A i \in M : \E k \in DOMAIN ls : i \in ls[k].ids
      /\ \A i \in M : \A j, k \in DOMAIN ls : i \in ls[j].ids /\ i \in ls[k].ids => j = k
    BY <1>1 DEF GroupsOf
<1>3. UNION {l.ids : l \in Range(ls)} = M
    BY <1>2 DEF Range
<1>4. \A j, k \in DOMAIN ls : ls[j].ids \intersect ls[k].ids # {} => j = k
    BY <1>2
<1> QED BY <1>3, <1>4 DEF M, ls

AnsweredInv == RecordInv /\ AnswersInv

LEMMA AnsweredStart ==
    ASSUME Init
    PROVE  AnsweredInv
<1>1. RecordInv
    BY RecordStart
<1>2. answers = <<>>
    BY DEF Init
<1> QED BY <1>1, <1>2, EmptyIsSeq DEF AnsweredInv, AnswersInv

LEMMA AnsweredStep ==
    ASSUME AnsweredInv, [Next]_vars
    PROVE  AnsweredInv'
BY TypeStep, CompleteStep, SoundStep, AnswersStep DEF AnsweredInv, RecordInv

\* Every answer accounts for every retained advisory match exactly once,
\* whatever the model named: _materialize_question_answers resolves each
\* disposition to one lead, refuses two for the same lead, and adds the leads
\* nobody named, and the leads partition the matches by their identity.
THEOREM LeadsAreAccounted == Spec => []LeadsAccounted
<1>1. Init => AnsweredInv
    BY AnsweredStart
<1>2. AnsweredInv /\ [Next]_vars => AnsweredInv'
    BY AnsweredStep
<1>3. AnsweredInv => LeadsAccounted
    BY AnswersSuffice DEF AnsweredInv
<1> QED BY <1>1, <1>2, <1>3, PTL DEF Spec

-----------------------------------------------------------------------------
(* Activity around a lead.                                                 *)

\* s has the elements of S, each once.
Enumerates(s, S) ==
    /\ IsSeq(s) /\ Range(s) = S
    /\ \A j, k \in DOMAIN s : s[j] = s[k] => j = k

LEMMA EnumeratesCardinality ==
    ASSUME NEW s, NEW S, Enumerates(s, S)
    PROVE  IsFiniteSet(S) /\ Len(s) = Cardinality(S) /\ Len(s) \in Nat
<1>1. DOMAIN s = 1 .. Len(s) /\ Len(s) \in Nat /\ s = [k \in 1 .. Len(s) |-> s[k]]
    BY SeqFacts DEF Enumerates
<1>2. IsFiniteSet(1 .. Len(s)) /\ Cardinality(1 .. Len(s)) = Len(s)
    BY <1>1, FS_Interval
<1>3. s \in Surjection(1 .. Len(s), S)
    <2>1. s \in [1 .. Len(s) -> S] /\ \A x \in S : \E k \in 1 .. Len(s) : s[k] = x
        BY <1>1 DEF Enumerates, Range
    <2> QED BY <2>1 DEF Surjection
<1>4. s \in Injection(1 .. Len(s), S)
    <2>1. s \in [1 .. Len(s) -> S]
        BY <1>3 DEF Surjection
    <2>2. \A j, k \in 1 .. Len(s) : s[j] = s[k] => j = k
        BY <1>1 DEF Enumerates
    <2> QED BY <1>1, <2>1, <2>2 DEF Injection, IsInjective
<1> QED BY <1>1, <1>2, <1>3, <1>4, FS_Surjection

LEMMA ListsEnumerates ==
    ASSUME NEW L, NEW S, NEW R, Lists(L, S, R)
    PROVE  Enumerates(L, S)
<1>1. IsSeq(L)
    BY SeqIs DEF Lists
<1>2. Range(L) = S
    BY DEF Lists, Range
<1> QED BY <1>1, <1>2 DEF Lists, Enumerates

LEMMA KeptEnumerates ==
    ASSUME NEW s, NEW S, Enumerates(s, S), NEW T
    PROVE  Enumerates(At(s, {k \in DOMAIN s : s[k] \in T}), S \cap T)
<1> DEFINE D == {k \in DOMAIN s : s[k] \in T}
<1>1. IsSeq(s) /\ D \in SUBSET DOMAIN s
    BY DEF Enumerates
<1>2. {s[d] : d \in D} = S \cap T
    BY DEF Enumerates, Range
<1> HIDE DEF D
<1>3. /\ IsSeq(At(s, D)) /\ Range(At(s, D)) = {s[d] : d \in D}
      /\ \A k \in DOMAIN At(s, D) : Ascending(D)[k] \in D /\ At(s, D)[k] = s[Ascending(D)[k]]
      /\ \A j, k \in DOMAIN At(s, D) : Ascending(D)[j] = Ascending(D)[k] => j = k
    BY <1>1, AtIsSeq
<1>4. \A j, k \in DOMAIN At(s, D) : At(s, D)[j] = At(s, D)[k] => j = k
    <2> SUFFICES ASSUME NEW j \in DOMAIN At(s, D), NEW k \in DOMAIN At(s, D), At(s, D)[j] = At(s, D)[k]
                 PROVE  j = k
        OBVIOUS
    <2>1. s[Ascending(D)[j]] = s[Ascending(D)[k]] /\ Ascending(D)[j] \in DOMAIN s /\ Ascending(D)[k] \in DOMAIN s
        BY <1>1, <1>3
    <2>2. Ascending(D)[j] = Ascending(D)[k]
        BY <2>1 DEF Enumerates
    <2> QED BY <1>3, <2>2
<1>5. Enumerates(At(s, D), S \cap T)
    BY <1>2, <1>3, <1>4 DEF Enumerates
<1> QED BY <1>5 DEF D

LEMMA TimelineEnumerates ==
    ASSUME NEW rows, TimedRecords(rows), NEW S \in SUBSET DOMAIN rows
    PROVE  Enumerates(InTimeOrder(rows, S), S)
BY InTimeOrderLists, ListsEnumerates

\* The timed rows of a retrieval order begin with the earliest.
LEMMA AnchorFacts ==
    ASSUME NEW rows, TimedRecords(rows), NEW l, l.ids \subseteq DOMAIN rows
    PROVE  /\ Anchor(rows, l) \in Nat
           /\ \A i \in l.ids : RawEventTime(rows[i]) # UnknownTime => Anchor(rows, l) <= RawEventTime(rows[i])
           /\ Timed(rows, l.ids) = {} => Anchor(rows, l) = UnknownTime
           /\ Timed(rows, l.ids) # {} => \E i \in Timed(rows, l.ids) : Anchor(rows, l) = RawEventTime(rows[i])
<1> DEFINE S == Timed(rows, l.ids)
           L == InTimeOrder(rows, S)
<1>1. S \in SUBSET DOMAIN rows /\ \A i \in S : RawEventTime(rows[i]) # UnknownTime
    BY DEF Timed
<1>2. Lists(L, S, Precedes(rows))
    BY <1>1, InTimeOrderLists
<1>3. \A i \in DOMAIN rows : RawEventTime(rows[i]) \in Nat
    BY DEF TimedRecords, RawEventTime, UnknownTime
<1>4. CASE S = {}
    <2>1. Anchor(rows, l) = UnknownTime
        BY <1>4 DEF Anchor
    <2>2. \A i \in l.ids : RawEventTime(rows[i]) = UnknownTime
        BY <1>4 DEF Timed
    <2> QED BY <1>4, <2>1, <2>2 DEF UnknownTime
<1>5. CASE S # {}
    <2> HIDE DEF S
    <2>1. Anchor(rows, l) = RawEventTime(rows[Head(L)])
        BY <1>5 DEF Anchor, S
    <2> HIDE DEF L
    <2>2. /\ L \in Seq(S) /\ DOMAIN L = 1 .. Cardinality(S) /\ Cardinality(S) \in Nat /\ Len(L) = Cardinality(S)
          /\ \A x \in S : \E k \in DOMAIN L : L[k] = x
          /\ \A k \in DOMAIN L : L[k] \in S
          /\ \A j, k \in DOMAIN L : j < k => <<L[j], L[k]>> \in Precedes(rows)
        BY <1>2 DEF Lists
    <2>3. 1 \in DOMAIN L /\ Head(L) = L[1]
        BY <1>5, <2>2
    <2>4. ASSUME NEW i \in S PROVE Anchor(rows, l) <= RawEventTime(rows[i])
        <3>1. PICK k \in DOMAIN L : L[k] = i
            BY <2>2
        <3>2. L[1] \in S /\ L[1] \in DOMAIN rows /\ i \in DOMAIN rows
            BY <1>1, <2>2, <2>3
        <3>3. CASE k = 1
            BY <1>3, <2>1, <2>3, <3>1, <3>2, <3>3
        <3>4. CASE k # 1
            <4>1. 1 < k
                BY <2>2, <3>4
            <4>2. Earlier(rows, L[1], i)
                BY <2>2, <2>3, <3>1, <4>1 DEF Precedes
            <4>3. RawEventTime(rows[i]) # UnknownTime
                BY <1>1
            <4> QED BY <1>3, <2>1, <2>3, <3>2, <4>2, <4>3 DEF Earlier
        <3> QED BY <3>3, <3>4
    <2>5. Anchor(rows, l) \in Nat
        BY <1>1, <1>3, <2>1, <2>2, <2>3
    <2>6. \E i \in S : Anchor(rows, l) = RawEventTime(rows[i])
        BY <2>1, <2>2, <2>3
    <2>7. \A i \in l.ids : RawEventTime(rows[i]) # UnknownTime => i \in S
        BY DEF S, Timed
    <2> QED BY <1>5, <2>4, <2>5, <2>6, <2>7 DEF S
<1> QED BY <1>4, <1>5

\* As many places of s hold a property as elements of S have it.
LEMMA PlacesCount ==
    ASSUME NEW s, NEW S, Enumerates(s, S), NEW D \in SUBSET DOMAIN s, NEW V, V = {s[k] : k \in D}
    PROVE  IsFiniteSet(V) /\ Cardinality(V) = Cardinality(D) /\ Cardinality(D) \in Nat
<1>1. IsFiniteSet(DOMAIN s)
    <2>1. DOMAIN s = 1 .. Len(s) /\ Len(s) \in Nat
        BY SeqFacts DEF Enumerates
    <2> QED BY <2>1, FS_Interval
<1>2. IsFiniteSet(D)
    BY <1>1, FS_Subset
<1> DEFINE g == [k \in D |-> s[k]]
<1>3. g \in [D -> V] /\ \A x \in V : \E k \in D : g[k] = x
    OBVIOUS
<1>4. \A j, k \in D : g[j] = g[k] => j = k
    BY DEF Enumerates
<1> HIDE DEF g
<1>5. g \in Injection(D, V) /\ g \in Surjection(D, V)
    BY <1>3, <1>4 DEF Injection, IsInjective, Surjection
<1> QED BY <1>2, <1>5, FS_Surjection, FS_CardinalityType

\* Bisection at t counts the rows of Z before, at and after it.
Sides(rows, known, Z, t) ==
    LET times == [k \in DOMAIN known |-> RawEventTime(rows[known[k]])]
        B == {i \in Z : RawEventTime(rows[i]) < t}
        A == {i \in Z : t < RawEventTime(rows[i])}
    IN  /\ BisectLeft(times, t) = Cardinality(B)
        /\ BisectRight(times, t) - BisectLeft(times, t) = Cardinality(Z \ (B \union A))
        /\ Cardinality(Z) - BisectRight(times, t) = Cardinality(A)

LEMMA SidesCount ==
    ASSUME NEW rows, TimedRecords(rows), NEW known, NEW Z \in SUBSET DOMAIN rows, Enumerates(known, Z), NEW t \in Nat
    PROVE  Sides(rows, known, Z, t)
<1> DEFINE times == [k \in DOMAIN known |-> RawEventTime(rows[known[k]])]
           B == {i \in Z : RawEventTime(rows[i]) < t}
           A == {i \in Z : t < RawEventTime(rows[i])}
           C == {i \in Z : RawEventTime(rows[i]) <= t}
           L == {k \in DOMAIN known : RawEventTime(rows[known[k]]) < t}
           R == {k \in DOMAIN known : RawEventTime(rows[known[k]]) <= t}
<1>1. \A i \in Z : RawEventTime(rows[i]) \in Nat
    BY DEF TimedRecords, RawEventTime, UnknownTime
<1>2. /\ \A k \in DOMAIN known : known[k] \in Z
      /\ \A i \in Z : \E k \in DOMAIN known : known[k] = i
    BY DEF Enumerates, Range
<1>3. B = {known[k] : k \in L} /\ C = {known[k] : k \in R}
    BY <1>2
<1>4. BisectLeft(times, t) = Cardinality(L) /\ BisectRight(times, t) = Cardinality(R)
    <2>1. {k \in DOMAIN times : times[k] < t} = L /\ {k \in DOMAIN times : times[k] <= t} = R
        OBVIOUS
    <2> QED BY <2>1 DEF BisectLeft, BisectRight
<1>5. L \in SUBSET DOMAIN known /\ R \in SUBSET DOMAIN known
    OBVIOUS
<1>6. B \subseteq C /\ C \ B = Z \ (B \union A) /\ Z \ C = A /\ C \cap B = B /\ Z \cap C = C
    BY <1>1
<1> HIDE DEF times, A, B, C, L, R
<1>7. /\ IsFiniteSet(C) /\ Cardinality(C) = Cardinality(R)
      /\ Cardinality(B) = Cardinality(L) /\ IsFiniteSet(B)
    BY <1>3, <1>5, PlacesCount
<1>8. IsFiniteSet(Z)
    BY EnumeratesCardinality
<1>9. Cardinality(C \ B) = Cardinality(C) - Cardinality(C \cap B) /\ Cardinality(Z \ C) = Cardinality(Z) - Cardinality(Z \cap C)
    BY <1>7, <1>8, FS_Difference
<1>10. /\ BisectLeft(times, t) = Cardinality(B)
       /\ BisectRight(times, t) - BisectLeft(times, t) = Cardinality(Z \ (B \union A))
       /\ Cardinality(Z) - BisectRight(times, t) = Cardinality(A)
    BY <1>4, <1>6, <1>7, <1>9
<1> QED BY <1>10 DEF Sides, times, A, B

\* The periods p place the rows of S around the lead l.
OnRightSides(rows, l, S, p) ==
    LET T(i) == RawEventTime(rows[i])
        lead == {j \in l.ids : T(j) # UnknownTime}
        timed == {i \in S : T(i) # UnknownTime}
        before == {i \in timed : \A j \in lead : T(i) < T(j)}
        after == {i \in timed : \E j \in lead : T(j) < T(i)}
    IN  /\ lead = {} => p.unknown = Cardinality(S) /\ p.before = 0 /\ p.at = 0 /\ p.after = 0
        /\ lead # {} =>
              /\ p.before = Cardinality(before) /\ p.after = Cardinality(after)
              /\ p.at = Cardinality(timed \ (before \union after))
              /\ p.unknown = Cardinality(S \ timed)

LEMMA PeriodsAddUp ==
    ASSUME NEW rows, TimedRecords(rows), NEW l, l.ids \subseteq DOMAIN rows, NEW f
    PROVE  OnRightSides(rows, l, ScopeRows(rows, f), Periods(rows, l, f))
<1> DEFINE S == ScopeRows(rows, f)
           K == {i \in DOMAIN rows : RawEventTime(rows[i]) # UnknownTime}
           tl == RetainedTimeline(rows)
           kept == At(tl, {k \in DOMAIN tl : tl[k] \in S})
           known == At(kept, {k \in DOMAIN kept : kept[k] \in K})
           times == [k \in DOMAIN known |-> RawEventTime(rows[known[k]])]
           anchor == Anchor(rows, l)
           left == BisectLeft(times, anchor)
           right == BisectRight(times, anchor)
           p == Periods(rows, l, f)
<1>1. RawRows(rows) \in SUBSET DOMAIN rows /\ S \subseteq RawRows(rows)
    BY DEF RawRows, ScopeRows
<1>2. Enumerates(tl, RawRows(rows))
    BY <1>1, TimelineEnumerates DEF RetainedTimeline
<1>3. Enumerates(kept, S)
    <2>1. Enumerates(kept, RawRows(rows) \cap S)
        <3> HIDE DEF tl, S
        <3> QED BY <1>2, KeptEnumerates
    <2>2. RawRows(rows) \cap S = S
        BY <1>1
    <2> QED BY <2>1, <2>2
<1>4. Enumerates(known, S \cap K)
    <2> HIDE DEF kept, S, K
    <2> QED BY <1>3, KeptEnumerates
<1>5. Filtered(tl, LAMBDA i : i \in ScopeRows(rows, f)) = kept
    BY DEF Filtered, Ordered, Ascending, At
<1>6. Filtered(kept, LAMBDA i : RawEventTime(rows[i]) # UnknownTime) = known
    <2>1. \A k \in DOMAIN kept : kept[k] \in K <=> RawEventTime(rows[kept[k]]) # UnknownTime
        BY <1>1, <1>3 DEF Enumerates, Range
    <2>2. {k \in DOMAIN kept : RawEventTime(rows[kept[k]]) # UnknownTime} = {k \in DOMAIN kept : kept[k] \in K}
        BY <2>1
    <2> HIDE DEF kept, K
    <2>3. Filtered(kept, LAMBDA i : RawEventTime(rows[i]) # UnknownTime)
          = At(kept, {k \in DOMAIN kept : RawEventTime(rows[kept[k]]) # UnknownTime})
        BY DEF Filtered, Ordered, Ascending, At
    <2> QED BY <2>2, <2>3
<1> HIDE DEF tl, kept, known, K
<1>7. p = IF anchor = UnknownTime
          THEN [before |-> 0, at |-> 0, after |-> 0, unknown |-> Len(kept)]
          ELSE [before |-> left, at |-> right - left, after |-> Len(times) - right,
                unknown |-> Len(kept) - Len(times)]
    BY <1>5, <1>6 DEF Periods, tl
<1>8. Len(kept) \in Nat /\ Len(kept) = Cardinality(S) /\ IsFiniteSet(S)
    BY <1>3, EnumeratesCardinality
<1>9. DOMAIN known = 1 .. Len(known) /\ Len(known) \in Nat
    BY <1>4, SeqFacts DEF Enumerates
<1>10. DOMAIN times = 1 .. Len(known) /\ times = [k \in 1 .. Len(known) |-> times[k]]
    BY <1>9
<1>11. Len(times) = Len(known)
    <2> HIDE DEF times
    <2> QED BY <1>9, <1>10, FunctionIsSeq
<1> DEFINE lead == {j \in l.ids : RawEventTime(rows[j]) # UnknownTime}
           timed == {i \in S : RawEventTime(rows[i]) # UnknownTime}
           before == {i \in timed : \A j \in lead : RawEventTime(rows[i]) < RawEventTime(rows[j])}
           after == {i \in timed : \E j \in lead : RawEventTime(rows[j]) < RawEventTime(rows[i])}
           B == {i \in timed : RawEventTime(rows[i]) < anchor}
           A == {i \in timed : anchor < RawEventTime(rows[i])}
<1>12. S \cap K = timed /\ timed \in SUBSET DOMAIN rows /\ timed \subseteq S
    BY <1>1 DEF K
<1>13. Enumerates(known, timed)
    BY <1>4, <1>12
<1>14. /\ anchor \in Nat
       /\ lead = {} => anchor = UnknownTime
       /\ lead # {} => \E j \in lead : anchor = RawEventTime(rows[j])
       /\ \A j \in lead : anchor <= RawEventTime(rows[j])
    <2>1. Timed(rows, l.ids) = lead
        BY DEF Timed
    <2> QED BY <2>1, AnchorFacts
<1>15. \A i \in DOMAIN rows : RawEventTime(rows[i]) \in Nat
    BY DEF TimedRecords, RawEventTime, UnknownTime
<1>16. ASSUME lead # {} PROVE before = B /\ after = A /\ anchor # UnknownTime
    <2>1. PICK j \in lead : anchor = RawEventTime(rows[j])
        BY <1>14, <1>16
    <2>2. \A i \in lead : RawEventTime(rows[i]) \in Nat
        BY <1>15
    <2>3. \A i \in timed : RawEventTime(rows[i]) \in Nat
        BY <1>12, <1>15
    <2>4. anchor # UnknownTime
        BY <2>1
    <2> HIDE DEF lead, timed, anchor
    <2> QED BY <1>14, <2>1, <2>2, <2>3, <2>4
<1>17. /\ left = Cardinality(B) /\ right - left = Cardinality(timed \ (B \union A))
       /\ Cardinality(timed) - right = Cardinality(A)
    <2>1. Sides(rows, known, timed, anchor)
        <3> HIDE DEF anchor, timed
        <3> QED BY <1>12, <1>13, <1>14, SidesCount
    <2> HIDE DEF anchor, timed
    <2> QED BY <2>1 DEF Sides
<1>18. Len(known) = Cardinality(timed) /\ Cardinality(S \ timed) = Cardinality(S) - Cardinality(timed)
    <2>1. S \cap timed = timed
        BY <1>12
    <2> HIDE DEF S, timed
    <2>2. Len(known) = Cardinality(timed)
        BY <1>13, EnumeratesCardinality
    <2>3. Cardinality(S \ timed) = Cardinality(S) - Cardinality(S \cap timed)
        BY <1>8, FS_Difference
    <2> QED BY <2>1, <2>2, <2>3
<1> HIDE DEF p, left, right, times, anchor, S, lead, timed, before, after, A, B
<1>19. ASSUME lead = {} PROVE p.unknown = Cardinality(S) /\ p.before = 0 /\ p.at = 0 /\ p.after = 0
    BY <1>7, <1>8, <1>14, <1>19
<1>20. ASSUME lead # {}
       PROVE  /\ p.before = Cardinality(before) /\ p.after = Cardinality(after)
              /\ p.at = Cardinality(timed \ (before \union after))
              /\ p.unknown = Cardinality(S \ timed)
    BY <1>7, <1>8, <1>11, <1>16, <1>17, <1>18, <1>20
<1> QED BY <1>19, <1>20 DEF OnRightSides, p, S, lead, timed, before, after

\* The rows of a lead pass every filter made of its identity.
LEMMA LeadInScope ==
    ASSUME NEW rows, NEW ids, NEW l, IsLeadOf(l, rows, Matches(rows, ids)), NEW f \in ActivityFilters(rows, l)
    PROVE  l.ids \subseteq ScopeRows(rows, f)
<1> DEFINE M == Matches(rows, ids)
<1>1. f \subseteq l.identity
    BY DEF ActivityFilters
<1>2. ASSUME NEW j \in l.ids, NEW x \in f PROVE rows[j].event[x[1]] = x[2]
    <2>1. x \in Identity(rows[l.lead].event)
        BY <1>1 DEF IsLeadOf
    <2>2. SameLead(rows, l.lead, j)
        BY DEF IsLeadOf
    <2>3. x \in Identity(rows[j].event)
        BY <2>1, <2>2 DEF SameLead
    <2> QED BY <2>3 DEF Identity
<1>3. \A j \in l.ids : j \in RawRows(rows)
    BY DEF IsLeadOf, Matches, RawRows
<1> QED BY <1>2, <1>3 DEF ScopeRows

LEMMA AnsweredLeadsAre ==
    ASSUME NEW rows, NEW M, NEW R, IsSeq(R.answers), \A k \in DOMAIN R.answers : LeadsOf(R.answers[k].leads, rows, M)
    PROVE  /\ IsSeq(AnsweredLeads(R))
           /\ \A k \in DOMAIN AnsweredLeads(R) : IsLeadOf(AnsweredLeads(R)[k], rows, M)
<1> DEFINE ss == [a \in DOMAIN R.answers |-> R.answers[a].leads]
           all == FlattenSeq(ss)
           D == {k \in DOMAIN all : \A j \in 1 .. k - 1 : all[j].lead # all[k].lead}
<1>1. DOMAIN R.answers = 1 .. Len(R.answers) /\ Len(R.answers) \in Nat
    BY SeqFacts
<1>2. ss = [k \in 1 .. Len(R.answers) |-> ss[k]] /\ DOMAIN ss = DOMAIN R.answers /\ \A k \in DOMAIN ss : ss[k] = R.answers[k].leads
    BY <1>1
<1>3. AnsweredLeads(R) = At(all, D)
    BY DEF AnsweredLeads, Ordered, Ascending, At
<1>4. D \in SUBSET DOMAIN all
    OBVIOUS
<1> HIDE DEF ss, D
<1>5. IsSeq(ss)
    BY <1>1, <1>2, FunctionIsSeq
<1>6. \A k \in DOMAIN ss : LeadsOf(ss[k], rows, M)
    BY <1>2
<1>7. \A k \in DOMAIN ss : IsSeq(ss[k]) /\ \A l \in Range(ss[k]) : IsLeadOf(l, rows, M)
    BY <1>6 DEF LeadsOf, GroupsOf, Range
<1>8. IsSeq(all) /\ Range(all) = UNION {Range(ss[k]) : k \in DOMAIN ss}
    BY <1>5, <1>7, FlattenIsSeq
<1> HIDE DEF all
<1>9. \A l \in Range(all) : IsLeadOf(l, rows, M)
    <2> TAKE l \in Range(all)
    <2>1. PICK k \in DOMAIN ss : l \in Range(ss[k])
        BY <1>8
    <2> QED BY <1>7, <2>1
<1>10. /\ IsSeq(At(all, D))
       /\ \A k \in DOMAIN At(all, D) : Ascending(D)[k] \in D /\ At(all, D)[k] = all[Ascending(D)[k]]
    BY <1>4, <1>8, AtIsSeq
<1>11. \A k \in DOMAIN At(all, D) : IsLeadOf(At(all, D)[k], rows, M)
    BY <1>4, <1>9, <1>10 DEF Range
<1> QED BY <1>3, <1>10, <1>11

LEMMA ActivitySuffices ==
    ASSUME TypeInv, AnswersInv
    PROVE  ActivityAddsUp
<1> DEFINE M == Matches(evidence, DOMAIN evidence)
<1> SUFFICES ASSUME NEW l \in Range(AnsweredLeads(Results)), NEW f \in ActivityFilters(evidence, l)
             PROVE  /\ l.ids \subseteq ScopeRows(evidence, f)
                    /\ OnRightSides(evidence, l, ScopeRows(evidence, f), Periods(evidence, l, f))
    BY DEF ActivityAddsUp, OnRightSides
<1>1. Results.answers = answers
    BY DEF Results
<1>2. IsSeq(Results.answers) /\ \A k \in DOMAIN Results.answers : LeadsOf(Results.answers[k].leads, evidence, M)
    BY <1>1 DEF AnswersInv, IsAnswer
<1>3. IsLeadOf(l, evidence, M)
    <2> HIDE DEF M
    <2>1. \A k \in DOMAIN AnsweredLeads(Results) : IsLeadOf(AnsweredLeads(Results)[k], evidence, M)
        BY <1>2, AnsweredLeadsAre
    <2> QED BY <2>1 DEF Range
<1>4. l.ids \subseteq DOMAIN evidence
    BY <1>3 DEF IsLeadOf, Matches
<1>5. l.ids \subseteq ScopeRows(evidence, f)
    BY <1>3, LeadInScope
<1>6. TimedRecords(evidence)
    BY EvidenceIsTimed
<1> QED BY <1>4, <1>5, <1>6, PeriodsAddUp

\* The activity reported around a lead puts every row of its scope on its right
\* side: earlier than the lead's first time, at it, later, or without a time.
\* retained_lead_activity sorts the known times and bisects them at the lead's.
THEOREM ActivityIsConsistent == Spec => []ActivityAddsUp
<1>1. Init => AnsweredInv
    BY AnsweredStart
<1>2. AnsweredInv /\ [Next]_vars => AnsweredInv'
    BY AnsweredStep
<1>3. AnsweredInv => ActivityAddsUp
    BY ActivitySuffices DEF AnsweredInv, RecordInv
<1> QED BY <1>1, <1>2, <1>3, PTL DEF Spec

-----------------------------------------------------------------------------
(* Whole quotients.                                                        *)

LEMMA Quotient ==
    ASSUME NEW a \in Nat, NEW d \in Nat \ {0}
    PROVE  /\ a \div d \in Nat
           /\ (a \div d) * d <= a /\ a < (a \div d) * d + d
OBVIOUS

LEMMA ProductGrows ==
    ASSUME NEW a \in Nat, NEW b \in Nat, a <= b, NEW c \in Nat
    PROVE  a * c <= b * c /\ a * c \in Nat /\ b * c \in Nat
<1>1. b - a \in Nat
    OBVIOUS
<1>2. (b - a) * c \in Nat
    BY <1>1
<1>3. b * c = a * c + (b - a) * c /\ a * c \in Nat
    OBVIOUS
<1> QED BY <1>2, <1>3

LEMMA ProductReflects ==
    ASSUME NEW a \in Nat, NEW b \in Nat, NEW c \in Nat, a * c < b * c
    PROVE  a < b
<1> SUFFICES ASSUME ~(a < b) PROVE FALSE
    OBVIOUS
<1>1. b <= a
    OBVIOUS
<1>2. b * c <= a * c /\ a * c \in Nat /\ b * c \in Nat
    BY <1>1, ProductGrows
<1> QED BY <1>2

LEMMA ShareBounded ==
    ASSUME NEW a \in Nat, NEW b \in Nat, NEW d \in Nat \ {0}, b <= d
    PROVE  (a * b) \div d \in Nat /\ (a * b) \div d <= a
<1> DEFINE q == (a * b) \div d
<1>1. a * b \in Nat /\ a * b <= a * d /\ a * d \in Nat
    <2>1. b * a <= d * a /\ b * a \in Nat /\ d * a \in Nat
        BY ProductGrows
    <2> QED BY <2>1
<1>2. q \in Nat /\ q * d <= a * b
    BY <1>1, Quotient
<1> HIDE DEF q
<1>3. q * d \in Nat /\ q * d < a * d + d /\ (a + 1) * d = a * d + d
    BY <1>1, <1>2
<1>4. q < a + 1
    BY <1>2, <1>3, ProductReflects
<1> QED BY <1>2, <1>4 DEF q

\* One more divisor, or more, is one more in the quotient.
LEMMA QuotientSteps ==
    ASSUME NEW a \in Nat, NEW b \in Nat, NEW d \in Nat \ {0}, a + d <= b
    PROVE  a \div d < b \div d
<1> DEFINE p == a \div d
           q == b \div d
<1>1. p \in Nat /\ p * d <= a /\ a < p * d + d
    BY Quotient
<1>2. q \in Nat /\ q * d <= b /\ b < q * d + d
    BY Quotient
<1> HIDE DEF p, q
<1>3. p * d \in Nat /\ q * d \in Nat /\ (q + 1) * d = q * d + d /\ (p + 1) * d = p * d + d
    BY <1>1, <1>2
<1>4. (p + 1) * d < (q + 1) * d
    BY <1>1, <1>2, <1>3
<1>5. p + 1 < q + 1
    BY <1>1, <1>2, <1>4, ProductReflects
<1> QED BY <1>1, <1>2, <1>5 DEF p, q

LEMMA QuotientExact ==
    ASSUME NEW a \in Nat, NEW d \in Nat \ {0}
    PROVE  (d * a) \div d = a
<1> DEFINE q == (d * a) \div d
<1>1. d * a \in Nat /\ d * a = a * d
    OBVIOUS
<1>2. q \in Nat /\ q * d <= a * d /\ a * d < q * d + d
    BY <1>1, Quotient
<1> HIDE DEF q
<1>3. (q + 1) * d = q * d + d /\ (a + 1) * d = a * d + d /\ q * d \in Nat /\ a * d \in Nat
    BY <1>2
<1>4. a < q + 1
    BY <1>2, <1>3, ProductReflects
<1>5. q < a + 1
    BY <1>2, <1>3, ProductReflects
<1> QED BY <1>2, <1>4, <1>5 DEF q

\* What a share leaves of the limit is no more than there is of the rest.
LEMMA RestSuffices ==
    ASSUME NEW limit \in Nat, NEW all \in Nat, limit < all, NEW some \in Nat, some <= all,
           NEW q \in Nat, q = (limit * some) \div all
    PROVE  limit - q <= all - some
<1> SUFFICES ASSUME all - some < limit - q PROVE FALSE
    OBVIOUS
<1>1. limit * some \in Nat /\ all \in Nat \ {0}
    OBVIOUS
<1>2. limit * some < q * all + all
    BY <1>1, Quotient
<1> DEFINE rest == all - some
           more == all - limit
<1>3. rest \in Nat /\ more \in Nat /\ q + 1 + rest <= limit
    OBVIOUS
<1>4. (q + 1 + rest) * all <= limit * all
    BY <1>3, ProductGrows
<1>5. (q + 1 + rest) * all = q * all + all + rest * all /\ q * all \in Nat /\ rest * all \in Nat
    <2> HIDE DEF rest
    <2> QED BY <1>3
<1>6. limit * all = limit * some + limit * rest
    OBVIOUS
<1>7. limit * rest <= all * rest /\ all * rest = rest * all /\ limit * rest \in Nat
    <2> HIDE DEF rest
    <2> QED BY <1>3, ProductGrows
<1> HIDE DEF rest, more
<1>8. limit * all \in Nat /\ limit * some \in Nat
    OBVIOUS
<1> QED BY <1>2, <1>4, <1>5, <1>6, <1>7, <1>8

-----------------------------------------------------------------------------
(* The excerpt of the timeline.                                            *)

\* s has `count' elements of part, none twice, the first and the last too.
Samples(s, part, count) ==
    /\ IsSeq(s) /\ Len(s) = count /\ DOMAIN s = 1 .. count
    /\ \A k \in DOMAIN s : s[k] \in Range(part)
    /\ \A j, k \in DOMAIN s : s[j] = s[k] => j = k
    /\ count > 0 => s[1] = part[1]
    /\ count > 1 => s[count] = part[Len(part)]

LEMMA SpreadSamples ==
    ASSUME NEW part, NEW P, Enumerates(part, P), NEW count \in Nat, count <= Len(part)
    PROVE  Samples(Spread(part, count), part, count)
<1> DEFINE n == Len(part)
           d == Longest(count - 1, 1)
           Place(k) == ((k - 1) * (n - 1)) \div d + 1
           s == Spread(part, count)
<1>1. n \in Nat /\ DOMAIN part = 1 .. n /\ count <= n
    BY SeqFacts DEF Enumerates
<1>2. s = [k \in 1 .. count |-> part[Place(k)]]
    BY DEF Spread
<1>3. d \in Nat \ {0} /\ (count > 1 => d = count - 1) /\ (count <= 1 => d = 1)
    BY DEF Longest
<1> HIDE DEF n, d, s
<1>4. ASSUME NEW k \in 1 .. count
      PROVE  Place(k) \in 1 .. n
    <2>1. k - 1 \in Nat /\ n - 1 \in Nat /\ k - 1 <= d
        BY <1>1, <1>3
    <2>2. (k - 1) * (n - 1) = (n - 1) * (k - 1)
        BY <2>1
    <2>3. ((n - 1) * (k - 1)) \div d \in Nat /\ ((n - 1) * (k - 1)) \div d <= n - 1
        BY <1>3, <2>1, ShareBounded
    <2>4. Place(k) = ((n - 1) * (k - 1)) \div d + 1
        BY <2>2
    <2> DEFINE q == ((n - 1) * (k - 1)) \div d
    <2>5. q \in Nat /\ q <= n - 1 /\ Place(k) = q + 1
        BY <2>3, <2>4
    <2> HIDE DEF q, Place
    <2> QED BY <1>1, <2>5
<1>5. ASSUME NEW j \in 1 .. count, NEW k \in 1 .. count, j < k
      PROVE  Place(j) # Place(k)
    <2>1. j - 1 \in Nat /\ k - 1 \in Nat /\ j <= k - 1 /\ j \in Nat /\ n - 1 \in Nat /\ count > 1
        BY <1>1, <1>5
    <2>2. d <= n - 1
        BY <1>1, <1>3, <2>1
    <2> DEFINE a == (j - 1) * (n - 1)
               b == (k - 1) * (n - 1)
    <2>3. j * (n - 1) = a + (n - 1) /\ a \in Nat
        <3> DEFINE m == n - 1
        <3>1. m \in Nat
            BY <2>1
        <3> HIDE DEF m
        <3>2. j * m = (j - 1) * m + m /\ (j - 1) * m \in Nat
            BY <2>1, <3>1
        <3> QED BY <3>2 DEF m
    <2>4. j * (n - 1) <= b /\ b \in Nat
        BY <2>1, ProductGrows
    <2> HIDE DEF a, b
    <2>5. a + d <= b
        BY <1>3, <2>1, <2>2, <2>3, <2>4
    <2>6. a \div d < b \div d /\ a \div d \in Nat /\ b \div d \in Nat
        BY <1>3, <2>3, <2>4, <2>5, QuotientSteps, Quotient
    <2>7. Place(j) = a \div d + 1 /\ Place(k) = b \div d + 1
        BY DEF a, b
    <2> DEFINE p == a \div d
               q == b \div d
    <2>8. p < q /\ p \in Nat /\ q \in Nat /\ Place(j) = p + 1 /\ Place(k) = q + 1
        BY <2>6, <2>7
    <2> HIDE DEF p, q, Place
    <2> QED BY <2>8
<1>6. count > 0 => Place(1) = 1
    <2>1. n \in Nat /\ d \in Nat \ {0}
        BY <1>1, <1>3
    <2>2. (1 - 1) * (n - 1) = 0
        BY <2>1
    <2>3. 0 \div d = 0
        BY <2>1
    <2> QED BY <2>2, <2>3
<1>7. count > 1 => Place(count) = n
    <2> SUFFICES ASSUME count > 1 PROVE Place(count) = n
        OBVIOUS
    <2>1. d = count - 1 /\ n - 1 \in Nat
        BY <1>1, <1>3
    <2>2. (d * (n - 1)) \div d = n - 1
        BY <1>3, <2>1, QuotientExact
    <2>3. Place(count) = (d * (n - 1)) \div d + 1
        BY <2>1
    <2>4. Place(count) = (n - 1) + 1
        BY <2>2, <2>3
    <2> HIDE DEF Place
    <2> QED BY <1>1, <2>4
<1> HIDE DEF Place
<1>8. DOMAIN s = 1 .. count /\ \A k \in DOMAIN s : s[k] = part[Place(k)]
    BY <1>2
<1>9. IsSeq(s) /\ Len(s) = count
    <2>1. s = [k \in 1 .. count |-> s[k]]
        BY <1>2
    <2> QED BY <2>1, FunctionIsSeq
<1>10. \A k \in DOMAIN s : s[k] \in Range(part)
    BY <1>1, <1>4, <1>8 DEF Range
<1>11. ASSUME NEW j \in DOMAIN s, NEW k \in DOMAIN s, s[j] = s[k] PROVE j = k
    <2>1. Place(j) = Place(k)
        BY <1>1, <1>4, <1>8, <1>11 DEF Enumerates
    <2>2. j \in 1 .. count /\ k \in 1 .. count /\ j \in Nat /\ k \in Nat
        BY <1>8
    <2>3. ~(j < k) /\ ~(k < j)
        BY <1>5, <2>1, <2>2
    <2> QED BY <2>2, <2>3
<1>12. (count > 0 => s[1] = part[1]) /\ (count > 1 => s[count] = part[n])
    <2>1. count > 0 => 1 \in DOMAIN s /\ count \in DOMAIN s
        BY <1>8
    <2> QED BY <1>6, <1>7, <1>8, <2>1
<1>13. Samples(s, part, count)
    BY <1>8, <1>9, <1>10, <1>11, <1>12 DEF Samples, n
<1> QED BY <1>13 DEF s

\* Two listings of a set by one order begin and end alike.
LEMMA EndsAgree ==
    ASSUME NEW S, NEW R, TotalOrder(S, R), NEW L, Lists(L, S, R), S # {},
           NEW s, Enumerates(s, S), \A j, k \in DOMAIN s : j < k => <<s[j], s[k]>> \in R
    PROVE  /\ Len(s) = Len(L) /\ Len(s) \in Nat \ {0}
           /\ Head(L) = s[1] /\ Last(L) = s[Len(s)]
<1> DEFINE n == Cardinality(S)
<1>1. /\ n \in Nat /\ DOMAIN L = 1 .. n /\ Len(L) = n /\ L \in Seq(S)
      /\ \A k \in DOMAIN L : L[k] \in S
      /\ \A x \in S : \E k \in DOMAIN L : L[k] = x
      /\ \A j, k \in DOMAIN L : j < k => <<L[j], L[k]>> \in R
    BY DEF Lists
<1>2. IsSeq(s) /\ Len(s) = n
    BY EnumeratesCardinality DEF Enumerates
<1>3. DOMAIN s = 1 .. n
    BY <1>2, SeqFacts
<1>4. /\ \A k \in DOMAIN s : s[k] \in S
      /\ \A x \in S : \E k \in DOMAIN s : s[k] = x
    BY DEF Enumerates, Range
<1>5. n # 0
    BY <1>1
<1> HIDE DEF n
<1>6. /\ \A x, y \in S : ~(<<x, y>> \in R /\ <<y, x>> \in R)
    BY DEF TotalOrder
<1>7. Head(L) = L[1] /\ Last(L) = L[n] /\ 1 \in 1 .. n /\ n \in 1 .. n
    BY <1>1, <1>5 DEF Last
<1>8. L[1] = s[1]
    <2>1. PICK j \in DOMAIN L : L[j] = s[1]
        BY <1>1, <1>3, <1>4, <1>7
    <2>2. PICK k \in DOMAIN s : s[k] = L[1]
        BY <1>1, <1>4, <1>7
    <2>3. j = 1 \/ 1 < j
        BY <1>1
    <2>4. k = 1 \/ 1 < k
        BY <1>1, <1>3
    <2>5. 1 < j => <<L[1], s[1]>> \in R
        BY <1>1, <1>7, <2>1
    <2>6. 1 < k => <<s[1], L[1]>> \in R
        BY <1>3, <1>7, <2>2
    <2>7. L[1] \in S /\ s[1] \in S
        BY <1>1, <1>3, <1>4, <1>7
    <2> QED BY <1>6, <2>1, <2>2, <2>3, <2>4, <2>5, <2>6, <2>7
<1>9. L[n] = s[n]
    <2>1. PICK j \in DOMAIN L : L[j] = s[n]
        BY <1>1, <1>3, <1>4, <1>7
    <2>2. PICK k \in DOMAIN s : s[k] = L[n]
        BY <1>1, <1>4, <1>7
    <2>3. j = n \/ j < n
        BY <1>1
    <2>4. k = n \/ k < n
        BY <1>1, <1>3
    <2>5. j < n => <<s[n], L[n]>> \in R
        BY <1>1, <1>7, <2>1
    <2>6. k < n => <<L[n], s[n]>> \in R
        BY <1>3, <1>7, <2>2
    <2>7. L[n] \in S /\ s[n] \in S
        BY <1>1, <1>3, <1>4, <1>7
    <2> QED BY <1>6, <2>1, <2>2, <2>3, <2>4, <2>5, <2>6, <2>7
<1> QED BY <1>1, <1>2, <1>5, <1>7, <1>8, <1>9

\* The excerpt of rows: none twice, as many as the limit allows, and the
\* earliest and latest of the timed ones.
ExcerptOf(shown, rows) ==
    /\ IsSeq(shown)
    /\ \A j, k \in DOMAIN shown : shown[j] = shown[k] => j = k
    /\ Len(shown) = Shortest(TimelineLimit, Cardinality(RawRows(rows)))
    /\ Timed(rows, RawRows(rows)) # {} =>
          /\ Head(InTimeOrder(rows, Timed(rows, RawRows(rows)))) \in Range(shown)
          /\ Last(InTimeOrder(rows, Timed(rows, RawRows(rows)))) \in Range(shown)

LEMMA LimitsAre ==
    /\ TimelineLimit \in Nat /\ TimelineLimit >= 2 /\ EvidenceLimit \in Nat /\ AppendixLimit \in Nat
    /\ FindingTarget \in Nat /\ MaxLimitations \in Nat
BY ReportAssumption

LEMMA ExcerptFacts ==
    ASSUME NEW rows, TimedRecords(rows)
    PROVE  ExcerptOf(TimelineExcerpt(rows), rows)
<1> DEFINE W == RawRows(rows)
           K == Timed(rows, W)
           R == Precedes(rows)
           refs == RetainedTimeline(rows)
           DK == {k \in DOMAIN refs : refs[k] \in K}
           known == At(refs, DK)
           unknown == At(refs, {k \in DOMAIN refs : refs[k] \in W \ K})
           L == InTimeOrder(rows, K)
           share == (TimelineLimit * Len(known)) \div Len(refs)
           few == Shortest(Len(known), Longest(2, share))
           shown == TimelineExcerpt(rows)
<1>1. W \in SUBSET DOMAIN rows /\ K \in SUBSET DOMAIN rows /\ K \subseteq W
    BY DEF RawRows, Timed
<1>2. Lists(refs, W, R) /\ Enumerates(refs, W)
    BY <1>1, InTimeOrderLists, ListsEnumerates DEF RetainedTimeline
<1>3. TotalOrder(K, R) /\ Lists(L, K, R)
    BY <1>1, EarlierOrder, InTimeOrderLists
<1>4. \A k \in DOMAIN refs : /\ refs[k] \in K <=> RawEventTime(rows[refs[k]]) # UnknownTime
                             /\ refs[k] \in W \ K <=> RawEventTime(rows[refs[k]]) = UnknownTime
    BY <1>2 DEF Enumerates, Range, Timed
<1>5. /\ Filtered(refs, LAMBDA i : RawEventTime(rows[i]) # UnknownTime) = known
      /\ Filtered(refs, LAMBDA i : RawEventTime(rows[i]) = UnknownTime) = unknown
    <2>1. /\ {k \in DOMAIN refs : RawEventTime(rows[refs[k]]) # UnknownTime} = {k \in DOMAIN refs : refs[k] \in K}
          /\ {k \in DOMAIN refs : RawEventTime(rows[refs[k]]) = UnknownTime} = {k \in DOMAIN refs : refs[k] \in W \ K}
        BY <1>4
    <2> HIDE DEF refs, K, W
    <2>2. Filtered(refs, LAMBDA i : RawEventTime(rows[i]) # UnknownTime)
          = At(refs, {k \in DOMAIN refs : RawEventTime(rows[refs[k]]) # UnknownTime})
        BY DEF Filtered, Ordered, Ascending, At
    <2>3. Filtered(refs, LAMBDA i : RawEventTime(rows[i]) = UnknownTime)
          = At(refs, {k \in DOMAIN refs : RawEventTime(rows[refs[k]]) = UnknownTime})
        BY DEF Filtered, Ordered, Ascending, At
    <2> QED BY <2>1, <2>2, <2>3
<1>6. shown = IF Len(refs) <= TimelineLimit THEN refs
              ELSE Spread(known, few) \o Spread(unknown, TimelineLimit - few)
    <2> HIDE DEF known, unknown, refs
    <2> QED BY <1>5 DEF TimelineExcerpt, refs
<1> HIDE DEF refs, R, L
<1>7. Enumerates(known, K) /\ Enumerates(unknown, W \ K)
    <2> HIDE DEF K, W
    <2>1. Enumerates(known, W \cap K) /\ Enumerates(unknown, W \cap (W \ K))
        BY <1>2, KeptEnumerates
    <2>2. W \cap K = K /\ W \cap (W \ K) = W \ K
        BY <1>1
    <2> QED BY <2>1, <2>2
<1>8. \A j, k \in DOMAIN known : j < k => <<known[j], known[k]>> \in R
    <2>1. DK \in SUBSET DOMAIN refs /\ IsSeq(refs)
        BY <1>2 DEF Enumerates
    <2> HIDE DEF DK
    <2>2. /\ \A k \in DOMAIN known : Ascending(DK)[k] \in DK /\ known[k] = refs[Ascending(DK)[k]]
          /\ \A j, k \in DOMAIN known : j < k => Ascending(DK)[j] < Ascending(DK)[k]
        BY <2>1, AtIsSeq
    <2>3. \A j, k \in DOMAIN refs : j < k => <<refs[j], refs[k]>> \in R
        BY <1>2 DEF Lists
    <2> HIDE DEF known
    <2> QED BY <2>1, <2>2, <2>3
<1> HIDE DEF known, unknown, K, W
<1>9. /\ Len(refs) = Cardinality(W) /\ Len(known) = Cardinality(K) /\ Len(unknown) = Cardinality(W \ K)
      /\ Len(refs) \in Nat /\ Len(known) \in Nat /\ Len(unknown) \in Nat
      /\ IsFiniteSet(W) /\ IsFiniteSet(K) /\ IsFiniteSet(W \ K)
    BY <1>2, <1>7, EnumeratesCardinality
<1>10. Len(refs) = Len(known) + Len(unknown)
    <2>1. K \cup (W \ K) = W /\ K \cap (W \ K) = {}
        BY <1>1
    <2>2. Cardinality(K \cup (W \ K)) = Cardinality(K) + Cardinality(W \ K) - Cardinality(K \cap (W \ K))
        BY <1>9, FS_Union
    <2>3. Cardinality(W) = Cardinality(K) + Cardinality(W \ K) - 0
        BY <2>1, <2>2, FS_EmptySet
    <2> QED BY <1>9, <2>3
<1>11. K # {} => /\ Len(known) \in Nat \ {0}
                 /\ Head(L) = known[1] /\ Last(L) = known[Len(known)]
    <2> SUFFICES ASSUME K # {} PROVE Len(known) \in Nat \ {0} /\ Head(L) = known[1] /\ Last(L) = known[Len(known)]
        OBVIOUS
    <2> QED BY <1>3, <1>7, <1>8, EndsAgree
<1>12. CASE Len(refs) <= TimelineLimit
    <2>1. shown = refs
        BY <1>6, <1>12
    <2>2. Len(refs) = Shortest(TimelineLimit, Cardinality(W))
        BY <1>9, <1>12, LimitsAre DEF Shortest
    <2>3. K # {} => Head(L) \in Range(refs) /\ Last(L) \in Range(refs)
        <3> SUFFICES ASSUME K # {} PROVE Head(L) \in Range(refs) /\ Last(L) \in Range(refs)
            OBVIOUS
        <3>1. DOMAIN known = 1 .. Len(known)
            BY <1>7, SeqFacts DEF Enumerates
        <3>2. 1 \in DOMAIN known /\ Len(known) \in DOMAIN known
            BY <1>11, <3>1
        <3>3. Head(L) \in K /\ Last(L) \in K
            BY <1>7, <1>11, <3>2 DEF Enumerates, Range
        <3> QED BY <1>1, <1>2, <3>3 DEF Enumerates
    <2> HIDE DEF shown
    <2>4. IsSeq(shown) /\ \A j, k \in DOMAIN shown : shown[j] = shown[k] => j = k
        BY <1>2, <2>1 DEF Enumerates
    <2> QED BY <2>1, <2>2, <2>3, <2>4 DEF ExcerptOf, shown, W, K, L
<1>13. CASE ~(Len(refs) <= TimelineLimit)
    <2> DEFINE more == TimelineLimit - few
               s == Spread(known, few)
               t == Spread(unknown, more)
    <2>1. shown = s \o t
        BY <1>6, <1>13
    <2>2. share \in Nat /\ share <= TimelineLimit /\ TimelineLimit - share <= Len(unknown)
        <3>1. Len(refs) \in Nat \ {0} /\ Len(known) <= Len(refs) /\ TimelineLimit < Len(refs)
            BY <1>9, <1>10, <1>13, LimitsAre
        <3>2. share \in Nat /\ share <= TimelineLimit
            BY <1>9, <3>1, LimitsAre, ShareBounded
        <3>3. TimelineLimit - share <= Len(refs) - Len(known)
            BY <1>9, <3>1, <3>2, LimitsAre, RestSuffices
        <3> HIDE DEF share
        <3> QED BY <1>9, <1>10, <3>2, <3>3
    <2> HIDE DEF share
    <2>3. /\ few \in Nat /\ few <= Len(known) /\ few <= TimelineLimit
          /\ Len(known) > 0 => few > 0
          /\ Len(known) > 1 => few > 1
          /\ TimelineLimit - few <= Len(unknown)
        BY <1>9, <1>10, <1>13, <2>2, LimitsAre DEF Shortest, Longest
    <2> HIDE DEF few
    <2>4. more \in Nat /\ more <= Len(unknown) /\ few + more = TimelineLimit
        BY <2>3, LimitsAre
    <2> HIDE DEF more
    <2>5. Samples(s, known, few) /\ Samples(t, unknown, more)
        BY <1>7, <2>3, <2>4, SpreadSamples
    <2> HIDE DEF s, t, shown
    <2>6. IsSeq(s) /\ IsSeq(t) /\ Len(s) = few /\ Len(t) = more
        BY <2>5 DEF Samples
    <2>7. Joined(shown, s, t)
        BY <2>1, <2>6, ConcatIsSeq
    <2>8. IsSeq(shown) /\ Len(shown) = TimelineLimit /\ Range(shown) = Range(s) \cup Range(t)
        BY <2>4, <2>6, <2>7 DEF Joined
    <2>9. TimelineLimit = Shortest(TimelineLimit, Cardinality(W))
        BY <1>9, <1>13, LimitsAre DEF Shortest
    <2>10. /\ \A k \in DOMAIN s : s[k] \in K
           /\ \A k \in DOMAIN t : t[k] \in W \ K
        BY <1>7, <2>5 DEF Samples, Enumerates
    <2>11. ASSUME NEW j \in DOMAIN shown, NEW k \in DOMAIN shown, shown[j] = shown[k] PROVE j = k
        <3>1. \A i \in DOMAIN shown : \/ i \in DOMAIN s /\ shown[i] = s[i]
                                      \/ i - Len(s) \in DOMAIN t /\ shown[i] = t[i - Len(s)]
            BY <2>7 DEF Joined
        <3>2. CASE j \in DOMAIN s /\ shown[j] = s[j] /\ k \in DOMAIN s /\ shown[k] = s[k]
            BY <2>5, <2>11, <3>2 DEF Samples
        <3>3. CASE j - Len(s) \in DOMAIN t /\ shown[j] = t[j - Len(s)] /\ k - Len(s) \in DOMAIN t /\ shown[k] = t[k - Len(s)]
            <4>1. j - Len(s) = k - Len(s)
                <5> DEFINE x == j - Len(s)
                           y == k - Len(s)
                <5>1. x \in DOMAIN t /\ y \in DOMAIN t /\ t[x] = t[y]
                    BY <2>11, <3>3
                <5> HIDE DEF x, y
                <5>2. x = y
                    BY <2>5, <5>1 DEF Samples
                <5> QED BY <5>2 DEF x, y
            <4>2. j \in Nat /\ k \in Nat /\ Len(s) \in Nat
                BY <2>6, <2>8, SeqFacts
            <4> QED BY <4>1, <4>2
        <3> QED BY <2>10, <2>11, <3>1, <3>2, <3>3
    <2>12. ASSUME K # {} PROVE Head(L) \in Range(shown) /\ Last(L) \in Range(shown)
        <3>1. Len(known) \in Nat \ {0} /\ Head(L) = known[1] /\ Last(L) = known[Len(known)]
            BY <1>11, <2>12
        <3>2. DOMAIN s = 1 .. few /\ few > 0 /\ few \in Nat
            BY <2>3, <2>5, <3>1 DEF Samples
        <3>3. s[1] = known[1] /\ 1 \in DOMAIN s
            BY <2>5, <3>2 DEF Samples
        <3>4. s[few] = known[Len(known)] /\ few \in DOMAIN s
            <4>1. CASE Len(known) = 1
                <5>1. few = 1
                    BY <2>3, <3>2, <4>1
                <5> QED BY <3>3, <4>1, <5>1
            <4>2. CASE Len(known) > 1
                <5>1. few > 1
                    BY <2>3, <4>2
                <5> QED BY <2>5, <3>2, <5>1 DEF Samples
            <4>3. Len(known) \in Nat \ {0}
                BY <3>1
            <4>4. Len(known) = 1 \/ Len(known) > 1
                <5> DEFINE n == Len(known)
                <5>1. n \in Nat \ {0}
                    BY <4>3
                <5> HIDE DEF n
                <5>2. n = 1 \/ n > 1
                    BY <5>1
                <5> QED BY <5>2 DEF n
            <4> QED BY <4>1, <4>2, <4>4
        <3>5. s[1] \in Range(shown) /\ s[few] \in Range(shown)
            BY <2>8, <3>3, <3>4 DEF Range
        <3> QED BY <3>1, <3>3, <3>4, <3>5
    <2> QED BY <2>8, <2>9, <2>11, <2>12 DEF ExcerptOf, shown, W, K, L
<1> QED BY <1>12, <1>13

LEMMA ExcerptSuffices ==
    ASSUME TypeInv
    PROVE  ExcerptSpansTimeline
<1> DEFINE shown == TimelineExcerpt(evidence)
           K == Timed(evidence, RawRows(evidence))
           L == InTimeOrder(evidence, K)
<1>1. ExcerptOf(shown, evidence)
    BY EvidenceIsTimed, ExcerptFacts
<1> HIDE DEF shown
<1>2. Enumerates(shown, Range(shown))
    BY <1>1 DEF ExcerptOf, Enumerates
<1>3. Cardinality(Range(shown)) = Len(shown)
    BY <1>2, EnumeratesCardinality
<1>4. Len(shown) = Shortest(TimelineLimit, Cardinality(RawRows(evidence)))
    BY <1>1 DEF ExcerptOf
<1>5. K # {} => Head(L) \in Range(shown) /\ Last(L) \in Range(shown)
    BY <1>1 DEF ExcerptOf
<1>6. K # {} => {Head(L), Last(L)} \subseteq Range(shown)
    BY <1>5
<1> QED BY <1>3, <1>4, <1>6 DEF ExcerptSpansTimeline, shown

\* The report's timeline shows no row twice, is as long as its limit allows
\* and keeps the first and the last known time, whatever the number of timed
\* and untimed rows: the whole quotients of _concise_report_content neither
\* collide nor run past an end.
THEOREM ExcerptsSpan == Spec => []ExcerptSpansTimeline
<1>1. Init => TypeInv
    BY TypeStart
<1>2. TypeInv /\ [Next]_vars => TypeInv'
    BY TypeStep
<1>3. TypeInv => ExcerptSpansTimeline
    BY ExcerptSuffices
<1> QED BY <1>1, <1>2, <1>3, PTL DEF Spec

-----------------------------------------------------------------------------
(* The draft and the check it must pass.                                   *)

\* Results of which a report may be drafted.
Reportable(R) ==
    /\ IsSeq(R.queries) /\ TimedRecords(R.evidence) /\ IsSeq(R.answers)
    /\ \A k \in DOMAIN R.answers : IsAnswer(R.answers[k], R.evidence)
    /\ \A j, k \in DOMAIN R.answers : R.answers[j].question = R.answers[k].question => j = k

LEMMA SelectedFits ==
    ASSUME NEW R, Reportable(R)
    PROVE  Len(SelectedEvidence(R)) <= EvidenceLimit /\ Range(SelectedEvidence(R)) \subseteq DOMAIN R.evidence
<1> DEFINE rows == R.evidence
           cited == UNION {R.findings[f].rows : f \in Range(DetailedFindings(R))}
           K == Timed(rows, RawRows(rows))
           s == InTimeOrder(rows, K \intersect cited)
           t == InTimeOrder(rows, K \ cited)
<1>1. SelectedEvidence(R) = Cut(s \o t, EvidenceLimit)
    BY DEF SelectedEvidence
<1>2. K \subseteq DOMAIN rows /\ TimedRecords(rows)
    BY DEF Timed, RawRows, Reportable
<1> HIDE DEF K, cited, rows
<1>3. (K \intersect cited) \in SUBSET DOMAIN rows /\ (K \ cited) \in SUBSET DOMAIN rows
    BY <1>2
<1>4. Enumerates(s, K \intersect cited) /\ Enumerates(t, K \ cited)
    BY <1>2, <1>3, TimelineEnumerates
<1> HIDE DEF s, t
<1>5. IsSeq(s) /\ IsSeq(t) /\ Range(s) \subseteq DOMAIN rows /\ Range(t) \subseteq DOMAIN rows
    BY <1>3, <1>4 DEF Enumerates
<1>6. Joined(s \o t, s, t)
    BY <1>5, ConcatIsSeq
<1> DEFINE u == s \o t
<1>7. IsSeq(u) /\ Range(u) \subseteq DOMAIN rows
    BY <1>5, <1>6 DEF Joined
<1> HIDE DEF u
<1>8. /\ Range(Cut(u, EvidenceLimit)) \subseteq Range(u)
      /\ Len(Cut(u, EvidenceLimit)) = IF EvidenceLimit < 0 THEN 0 ELSE Shortest(EvidenceLimit, Len(u))
    BY <1>7, LimitsAre, CutIsSeq
<1>9. Len(Cut(u, EvidenceLimit)) <= EvidenceLimit
    BY <1>7, <1>8, LimitsAre, SeqFacts DEF Shortest
<1> QED BY <1>1, <1>7, <1>8, <1>9 DEF u, rows

LEMMA AppendixFits ==
    ASSUME NEW R, Reportable(R)
    PROVE  Len(Cut(R.queries, AppendixLimit)) <= AppendixLimit
<1> DEFINE qs == R.queries
<1>1. IsSeq(qs)
    BY DEF Reportable
<1> HIDE DEF qs
<1>2. Len(Cut(qs, AppendixLimit)) = IF AppendixLimit < 0 THEN 0 ELSE Shortest(AppendixLimit, Len(qs))
    BY <1>1, LimitsAre, CutIsSeq
<1>3. Len(Cut(qs, AppendixLimit)) <= AppendixLimit
    BY <1>1, <1>2, LimitsAre, SeqFacts DEF Shortest
<1> QED BY <1>3 DEF qs

LEMMA TimelineFits ==
    ASSUME NEW R, Reportable(R)
    PROVE  Len(TimelineExcerpt(R.evidence)) <= TimelineLimit
<1> DEFINE shown == TimelineExcerpt(R.evidence)
           W == RawRows(R.evidence)
<1>1. ExcerptOf(shown, R.evidence)
    BY ExcerptFacts DEF Reportable
<1>2. Len(shown) = Shortest(TimelineLimit, Cardinality(W)) /\ IsSeq(shown)
    BY <1>1 DEF ExcerptOf
<1> HIDE DEF shown, W
<1>3. Len(shown) \in Nat
    BY <1>2, SeqFacts
<1>4. Len(shown) <= TimelineLimit
    BY <1>2, <1>3, LimitsAre DEF Shortest
<1> QED BY <1>4 DEF shown

LEMMA OwnAnswerAccepted ==
    ASSUME NEW R, Reportable(R), NEW a \in Range(R.answers)
    PROVE  AnswerAccepted(a, R)
<1>1. IsAnswer(a, R.evidence)
    BY DEF Range, Reportable
<1>2. Enumerates(a.findings, Range(a.findings))
    BY <1>1 DEF IsAnswer, Enumerates
<1>3. Len(a.findings) = Cardinality(Range(a.findings))
    BY <1>2, EnumeratesCardinality
<1>4. a.findings # <<>> \/ a.limited
    BY <1>1 DEF IsAnswer
<1> QED BY <1>3, <1>4 DEF AnswerAccepted

LEMMA DraftAccepted ==
    ASSUME NEW R, Reportable(R), ReportSize(ExecutionReportContent(R)) <= MaxReportSize
    PROVE  ValidateReportContent(ExecutionReportContent(R), R)
<1> DEFINE c == ExecutionReportContent(R)
<1>0. ReportSize(c) <= MaxReportSize
    OBVIOUS
<1>1. /\ c.selected = SelectedEvidence(R) /\ c.timeline = TimelineExcerpt(R.evidence)
      /\ c.appendix = Cut(R.queries, AppendixLimit) /\ c.answers = R.answers
      /\ c.activity = IF AnsweredLeads(R) = <<>> THEN {} ELSE {ObservedActivityReport(R)}
    BY DEF ExecutionReportContent
<1> HIDE DEF c
<1>2. c.activity \subseteq {ObservedActivityReport(R)}
    BY <1>1
<1>3. \A a \in Range(c.answers) : AnswerAccepted(a, R)
    BY <1>1, OwnAnswerAccepted
<1>4. \A a, b \in DOMAIN c.answers : c.answers[a].question = c.answers[b].question => a = b
    BY <1>1 DEF Reportable
<1>5. {a.question : a \in Range(c.answers)} = {a.question : a \in Range(R.answers)}
    BY <1>1
<1>6. /\ Len(c.selected) <= EvidenceLimit /\ Len(c.timeline) <= TimelineLimit /\ Len(c.appendix) <= AppendixLimit
      /\ Range(c.selected) \subseteq DOMAIN R.evidence
    BY <1>1, SelectedFits, TimelineFits, AppendixFits
<1>7. ValidateReportContent(c, R)
    BY <1>0, <1>2, <1>3, <1>4, <1>5, <1>6 DEF ValidateReportContent
<1> QED BY <1>7 DEF c

LEMMA DraftStep ==
    ASSUME AnsweredInv, DraftValidates, [Next]_vars
    PROVE  DraftValidates'
<1>1. CASE PublishReport
    <2> DEFINE R == [Results EXCEPT !.answers = InPlanOrder(answers)]
    <2>1. report' = ExecutionReportContent(R) /\ answers' = InPlanOrder(answers)
        BY <1>1 DEF PublishReport
    <2>2. R = Results'
        BY <1>1 DEF PublishReport, Results, searchVars, roundVars
    <2>3. R.queries = queries /\ R.evidence = evidence /\ R.answers = InPlanOrder(answers)
        BY DEF Results
    <2>4. TypeInv /\ AnswersInv
        BY DEF AnsweredInv, RecordInv
    <2>5. IsSeq(R.queries) /\ TimedRecords(R.evidence)
        BY <2>3, <2>4, EvidenceIsTimed DEF TypeInv, QueriesType
    <2>6. AnswersInv'
        BY AnsweredStep DEF AnsweredInv
    <2>7. evidence' = evidence
        BY <1>1 DEF PublishReport, searchVars
    <2>8. /\ IsSeq(R.answers)
          /\ \A k \in DOMAIN R.answers : IsAnswer(R.answers[k], R.evidence)
          /\ \A j, k \in DOMAIN R.answers : R.answers[j].question = R.answers[k].question => j = k
        BY <2>1, <2>3, <2>6, <2>7 DEF AnswersInv
    <2> HIDE DEF R
    <2>9. ReportSize(ExecutionReportContent(R)) <= MaxReportSize => ValidateReportContent(ExecutionReportContent(R), R)
        BY <2>5, <2>8, DraftAccepted DEF Reportable
    <2> QED BY <2>1, <2>2, <2>9 DEF DraftValidates
<1>2. CASE SaveReport
    <2>1. PICK content : ValidateReportContent(content, Results) /\ report' = content
        BY <1>2 DEF SaveReport
    <2>2. Results' = Results
        BY <1>2 DEF SaveReport, Results, searchVars, roundVars, answerVars
    <2>3. ValidateReportContent(report', Results')
        BY <2>1, <2>2
    <2> QED BY <2>3 DEF DraftValidates
<1>3. CASE FinalizeRefused \/ UNCHANGED vars
    <2>1. report' = report /\ Results' = Results /\ phase' = phase
        BY <1>3 DEF FinalizeRefused, vars, Results, searchVars, roundVars, answerVars
    <2> QED BY <2>1 DEF DraftValidates
<1>4. CASE InvestigationNext
    <2>1. fetch # Idle => phase = "search"
        BY DEF TypeInv, FetchRuns, AnsweredInv, RecordInv
    <2>2. phase' # "draft"
        BY <1>4, <2>1 DEF InvestigationNext, TimePasses, SkipSearch, StartSearch, FetchPage, FetchTimeout,
            RecordSearch, SearchesDone, CoverSources, Assess, NoMoreRounds, Decide, StopRounds, RoundExhausted,
            EndRounds, FinishRound
    <2> QED BY <2>2 DEF DraftValidates
<1>5. CASE Synthesize \/ FinalOnly \/ BudgetLimited \/ FinalizeReport \/ Finished
    <2>1. phase' # "draft"
        BY <1>5 DEF Synthesize, FinalOnly, BudgetLimited, FinalizeReport, Finished, vars
    <2> QED BY <2>1 DEF DraftValidates
<1> QED BY <1>1, <1>2, <1>3, <1>4, <1>5 DEF Next

\* A draft can be finalized unless it exceeds the size limit: what
\* _execution_report_content builds from any results passes every other test
\* validate_report_content makes against the same results, what an analyst saves
\* passes all, and nothing changes the results under a draft.
THEOREM DraftsValidate == Spec => []DraftValidates
<1>1. Init => AnsweredInv /\ DraftValidates
    BY AnsweredStart DEF Init, DraftValidates
<1>2. AnsweredInv /\ DraftValidates /\ [Next]_vars => (AnsweredInv /\ DraftValidates)'
    BY AnsweredStep, DraftStep
<1> QED BY <1>1, <1>2, PTL DEF Spec

-----------------------------------------------------------------------------
(* Pages of a lookup.                                                      *)

\* gs are groups of the elements of S, each element in one.
Partitions(gs, S) ==
    /\ IsSeq(gs)
    /\ \A k \in DOMAIN gs : gs[k] \subseteq S
    /\ \A x \in S : \E k \in DOMAIN gs : x \in gs[k]
    /\ \A x \in S : \A j, k \in DOMAIN gs : x \in gs[j] /\ x \in gs[k] => j = k

\* Places of ids whose rows represent one event.
Represent(qs, rows, ids) ==
    {p \in (DOMAIN ids) \X (DOMAIN ids) :
        p[1] = p[2] \/ SameRepresentation(qs, rows[ids[p[1]]], rows[ids[p[2]]])}

LEMMA RepresentRelation ==
    ASSUME NEW qs, NEW rows, NEW ids
    PROVE  LET D == DOMAIN ids
               E == Represent(qs, rows, ids)
           IN  /\ \A i \in D : <<i, i>> \in E
               /\ \A i, j \in D : <<i, j>> \in E => <<j, i>> \in E
               /\ \A i, j, k \in D : <<i, j>> \in E /\ <<j, k>> \in E => <<i, k>> \in E
<1> DEFINE D == DOMAIN ids
           E == Represent(qs, rows, ids)
           Rep(i, j) == SameRepresentation(qs, rows[ids[i]], rows[ids[j]])
<1>1. \A i, j \in D : <<i, j>> \in E <=> i = j \/ Rep(i, j)
    BY DEF Represent
<1>2. \A i, j \in D : Rep(i, j) => Rep(j, i)
    BY DEF SameRepresentation
<1>3. \A i, j, k \in D : Rep(i, j) /\ Rep(j, k) => Rep(i, k)
    BY DEF SameRepresentation
<1> HIDE DEF E, Rep
<1>4. \A i \in D : <<i, i>> \in E
    BY <1>1
<1>5. \A i, j \in D : <<i, j>> \in E => <<j, i>> \in E
    BY <1>1, <1>2
<1>6. \A i, j, k \in D : <<i, j>> \in E /\ <<j, k>> \in E => <<i, k>> \in E
    BY <1>1, <1>3
<1> QED BY <1>4, <1>5, <1>6 DEF E

LEMMA CompactPartitions ==
    ASSUME NEW qs, NEW rows, NEW ids, NEW S, Enumerates(ids, S)
    PROVE  /\ Partitions(CompactEvidenceRecords(qs, rows, ids), S)
           /\ Len(CompactEvidenceRecords(qs, rows, ids)) <= Len(ids)
<1> DEFINE D == DOMAIN ids
           E == Represent(qs, rows, ids)
           F == {i \in D : \A j \in 1 .. i - 1 : ~(j = i \/ SameRepresentation(qs, rows[ids[j]], rows[ids[i]]))}
           order == Ascending(F)
           gs == CompactEvidenceRecords(qs, rows, ids)
<1>1. D = 1 .. Len(ids) /\ Len(ids) \in Nat
    BY SeqFacts DEF Enumerates
<1>2. \A i, j \in D : <<i, j>> \in E <=> (i = j \/ SameRepresentation(qs, rows[ids[i]], rows[ids[j]]))
    BY DEF Represent
<1>3. /\ \A i \in D : <<i, i>> \in E
      /\ \A i, j \in D : <<i, j>> \in E => <<j, i>> \in E
      /\ \A i, j, k \in D : <<i, j>> \in E /\ <<j, k>> \in E => <<i, k>> \in E
    BY RepresentRelation
<1> HIDE DEF E
<1>4. F = {i \in D : \A j \in 1 .. i - 1 : <<j, i>> \notin E}
    <2>1. \A i \in D : \A j \in 1 .. i - 1 : j \in D
        BY <1>1
    <2> QED BY <1>2, <2>1
<1>5. gs = [k \in DOMAIN order |->
              {ids[j] : j \in {x \in D : order[k] = x \/ SameRepresentation(qs, rows[ids[order[k]]], rows[ids[x]])}}]
    BY DEF CompactEvidenceRecords, Ordered, Ascending
<1> HIDE DEF F, gs
<1>6. F \in SUBSET D /\ IsSeq(ids)
    BY <1>4 DEF Enumerates
<1>7. /\ IsFiniteSet(F) /\ Cardinality(F) \in Nat
      /\ DOMAIN order = 1 .. Cardinality(F) /\ DOMAIN At(ids, F) = 1 .. Cardinality(F)
      /\ \A k \in DOMAIN order : order[k] \in F
      /\ \A d \in F : \E k \in DOMAIN order : order[k] = d
      /\ \A j, k \in DOMAIN order : order[j] = order[k] => j = k
    BY <1>6, AtIsSeq
<1> HIDE DEF order, D
<1>8. DOMAIN gs = DOMAIN order /\ gs = [k \in 1 .. Cardinality(F) |-> gs[k]]
    BY <1>5, <1>7
<1>9. IsSeq(gs) /\ Len(gs) = Cardinality(F)
    BY <1>7, <1>8, FunctionIsSeq
<1>10. ASSUME NEW k \in DOMAIN gs
       PROVE  gs[k] = {ids[j] : j \in {x \in D : <<order[k], x>> \in E}}
    <2>1. order[k] \in D
        BY <1>6, <1>7, <1>8
    <2>2. {x \in D : <<order[k], x>> \in E}
          = {x \in D : order[k] = x \/ SameRepresentation(qs, rows[ids[order[k]]], rows[ids[x]])}
        BY <1>2, <2>1
    <2> QED BY <1>5, <1>8, <2>2
<1>11. \A k \in DOMAIN gs : \A j \in D : ids[j] \in gs[k] <=> <<order[k], j>> \in E
    <2> TAKE k \in DOMAIN gs
    <2> TAKE j \in D
    <2>1. \A i \in D : ids[i] = ids[j] => i = j
        BY DEF Enumerates, D
    <2> DEFINE P == {x \in D : <<order[k], x>> \in E}
    <2>2. gs[k] = {ids[i] : i \in P}
        BY <1>10
    <2>3. j \in P <=> <<order[k], j>> \in E
        OBVIOUS
    <2>4. P \subseteq D
        OBVIOUS
    <2> HIDE DEF P
    <2>5. ids[j] \in gs[k] <=> j \in P
        BY <2>1, <2>2, <2>4
    <2> QED BY <2>3, <2>5
<1>12. \A x \in S : \E j \in D : x = ids[j]
    BY DEF Enumerates, Range, D
<1>13. \A k \in DOMAIN gs : gs[k] \subseteq S
    <2> TAKE k \in DOMAIN gs
    <2>1. \A j \in D : ids[j] \in S
        BY DEF Enumerates, Range, D
    <2>2. gs[k] = {ids[j] : j \in {x \in D : <<order[k], x>> \in E}}
        BY <1>10
    <2> QED BY <2>1, <2>2
<1>14. ASSUME NEW x \in S PROVE \E k \in DOMAIN gs : x \in gs[k]
    <2>1. PICK j \in D : x = ids[j]
        BY <1>12
    <2> DEFINE T == {i \in D : <<i, j>> \in E}
    <2>2. T \in SUBSET Nat /\ T # {}
        BY <1>1, <1>3
    <2>3. PICK m \in T : \A i \in T : m <= i
        BY <2>2, LeastNumber
    <2>4. m \in D /\ <<m, j>> \in E
        BY <2>3
    <2>5. ASSUME NEW i \in 1 .. m - 1 PROVE <<i, m>> \notin E
        <3>1. i \in D /\ ~(m <= i)
            BY <1>1, <2>4
        <3>2. i \notin T
            BY <2>3, <3>1
        <3> QED BY <1>3, <2>4, <3>1, <3>2
    <2>6. m \in F
        BY <1>4, <2>4, <2>5
    <2>7. PICK k \in DOMAIN order : order[k] = m
        BY <1>7, <2>6
    <2>8. k \in DOMAIN gs /\ ids[j] \in gs[k]
        BY <1>8, <1>11, <2>4, <2>7
    <2> QED BY <2>1, <2>8
<1>15. ASSUME NEW x \in S, NEW j \in DOMAIN gs, NEW k \in DOMAIN gs, x \in gs[j], x \in gs[k] PROVE j = k
    <2>1. PICK i \in D : x = ids[i]
        BY <1>12
    <2>2. /\ order[j] \in D /\ order[k] \in D /\ order[j] \in F /\ order[k] \in F
          /\ <<order[j], i>> \in E /\ <<order[k], i>> \in E
        BY <1>6, <1>7, <1>8, <1>11, <1>15, <2>1
    <2>3. <<order[j], order[k]>> \in E /\ <<order[k], order[j]>> \in E
        BY <1>3, <2>2
    <2>4. order[j] \notin 1 .. order[k] - 1 /\ order[k] \notin 1 .. order[j] - 1
        BY <1>4, <2>2, <2>3
    <2>5. order[j] = order[k]
        BY <1>1, <2>2, <2>4
    <2> QED BY <1>7, <1>8, <2>5
<1>16. Partitions(gs, S)
    BY <1>9, <1>13, <1>14, <1>15 DEF Partitions
<1>17. Len(gs) <= Len(ids)
    <2>1. IsFiniteSet(D) /\ Cardinality(D) = Len(ids)
        BY <1>1, FS_Interval
    <2>2. Cardinality(F) <= Cardinality(D)
        BY <1>6, <2>1, FS_Subset
    <2> QED BY <1>9, <2>1, <2>2
<1> QED BY <1>16, <1>17 DEF gs

LEMMA MultipleOf ==
    ASSUME NEW q \in Nat, NEW d \in Nat \ {0}
    PROVE  (q * d) % d = 0 /\ q * d \in Nat
<1>1. q * d = d * q /\ d * q \in Nat
    OBVIOUS
<1>2. (d * q) \div d = q
    BY QuotientExact
<1> DEFINE a == d * q
<1>3. a \in Nat /\ a \div d = q /\ a = d * q
    BY <1>1, <1>2
<1> HIDE DEF a
<1>4. a = d * (a \div d) + (a % d)
    BY <1>3
<1>5. a % d \in 0 .. d - 1
    BY <1>3
<1>6. a % d = 0
    BY <1>3, <1>4, <1>5
<1> QED BY <1>1, <1>6 DEF a

\* Different multiples of d are at least d apart.
LEMMA MultiplesApart ==
    ASSUME NEW d \in Nat \ {0}, NEW a \in Nat, NEW b \in Nat, a % d = 0, b % d = 0, a < b
    PROVE  a + d <= b
<1> DEFINE p == a \div d
           q == b \div d
<1>1. p \in Nat /\ q \in Nat
    BY Quotient
<1>2. a = d * p + (a % d) /\ b = d * q + (b % d)
    OBVIOUS
<1> HIDE DEF p, q
<1>3. a = p * d /\ b = q * d
    BY <1>1, <1>2
<1>4. p < q
    BY <1>1, <1>3, ProductReflects
<1>5. p + 1 \in Nat /\ p + 1 <= q
    BY <1>1, <1>4
<1>6. (p + 1) * d <= q * d
    BY <1>1, <1>5, ProductGrows
<1>7. (p + 1) * d = p * d + d
    BY <1>1
<1> QED BY <1>3, <1>6, <1>7

\* The rows of the page of gs at o.
PageAt(gs, o) == UNION Range(Slice(gs, o, LookupLimit))

\* The page at a multiple o of the limit has the groups after o, and leads to
\* the next multiple when there are more.
LEMMA PageFollows ==
    ASSUME NEW gs, IsSeq(gs), NEW o \in Nat, o <= Len(gs)
    PROVE  /\ Len(Slice(gs, o, LookupLimit)) = Shortest(LookupLimit, Len(gs) - o)
           /\ \A k \in DOMAIN gs : o < k /\ k <= o + LookupLimit => gs[k] \subseteq PageAt(gs, o)
           /\ \A x \in PageAt(gs, o) : \E k \in DOMAIN gs : o < k /\ k <= o + LookupLimit /\ x \in gs[k]
<1> DEFINE p == Slice(gs, o, LookupLimit)
           l == LookupLimit
           n == Len(gs)
<1>1. l \in Nat \ {0}
    BY ConstantsAre
<1>2. gs \in Seq(Range(gs)) /\ n \in Nat /\ DOMAIN gs = 1 .. n
    BY SeqFacts
<1> HIDE DEF l, n
<1>3. /\ p \in Seq(Range(gs))
      /\ Len(p) = IF l < 0 THEN 0 ELSE Shortest(l, n - o)
      /\ \A k \in DOMAIN p : k + o \in DOMAIN gs /\ p[k] = gs[k + o]
    <2>1. LookupLimit \in Int /\ o <= Len(gs)
        BY ConstantsAre
    <2> QED BY <1>2, <2>1, SliceFacts DEF l, n
<1> HIDE DEF p
<1>4. o <= n
    BY DEF n
<1>5. Len(p) = Shortest(l, n - o) /\ DOMAIN p = 1 .. Len(p) /\ Len(p) \in Nat
    BY <1>1, <1>3
<1>6. Len(p) <= l /\ \A k \in DOMAIN gs : o < k /\ k <= o + l => k - o \in DOMAIN p
    BY <1>1, <1>2, <1>4, <1>5 DEF Shortest
<1>7. ASSUME NEW k \in DOMAIN gs, o < k, k <= o + l PROVE gs[k] \in Range(p)
    <2>1. k - o \in DOMAIN p /\ (k - o) + o = k
        BY <1>2, <1>6, <1>7
    <2>2. p[k - o] = gs[k]
        BY <1>3, <2>1
    <2> QED BY <2>1, <2>2 DEF Range
<1>8. ASSUME NEW x \in UNION Range(p) PROVE \E k \in DOMAIN gs : o < k /\ k <= o + l /\ x \in gs[k]
    <2>1. PICK i \in DOMAIN p : x \in p[i]
        BY <1>8 DEF Range
    <2>2. i + o \in DOMAIN gs /\ x \in gs[i + o]
        BY <1>3, <2>1
    <2>3. o < i + o /\ i + o <= o + l
        BY <1>1, <1>5, <1>6
    <2> QED BY <2>2, <2>3
<1>9. \A k \in DOMAIN gs : o < k /\ k <= o + l => gs[k] \subseteq UNION Range(p)
    BY <1>7
<1> QED BY <1>5, <1>8, <1>9 DEF PageAt, p, l, n

\* The offsets a reader reaches from the first page of n groups.
Offsets(gs, top) ==
    {o \in 0 .. top : /\ o % LookupLimit = 0
                      /\ \/ o = 0
                         \/ LET at == o - LookupLimit
                                next == at + Len(Slice(gs, at, LookupLimit))
                            IN  (IF next < Len(gs) THEN next ELSE NotReported) = o}

LEMMA OffsetsReached ==
    ASSUME NEW gs, IsSeq(gs), NEW top \in Nat, Len(gs) <= top, NEW o \in Nat,
           o % LookupLimit = 0, o < Len(gs)
    PROVE  o \in Offsets(gs, top)
<1> DEFINE l == LookupLimit
           n == Len(gs)
           at == o - l
<1>1. l \in Nat \ {0} /\ n \in Nat
    BY ConstantsAre, SeqFacts
<1>2. o \in 0 .. top
    BY SeqFacts
<1>3. CASE o = 0
    BY <1>2, <1>3 DEF Offsets
<1>4. CASE o # 0
    <2>1. 0 % l = 0
        BY <1>1
    <2>2. 0 + l <= o
        BY <1>1, <1>4, <2>1, MultiplesApart
    <2>3. at \in Nat /\ at <= n /\ at + l = o /\ l < n - at
        BY <1>1, <2>2
    <2> HIDE DEF at
    <2>4. Len(Slice(gs, at, l)) = Shortest(l, n - at)
        BY <2>3, PageFollows
    <2>5. at + Len(Slice(gs, at, l)) = o
        BY <1>1, <2>3, <2>4 DEF Shortest
    <2>6. (IF at + Len(Slice(gs, at, l)) < Len(gs) THEN at + Len(Slice(gs, at, l)) ELSE NotReported) = o
        BY <2>5
    <2> QED BY <1>2, <2>6 DEF Offsets, at
<1> QED BY <1>3, <1>4

LEMMA OffsetsWithin ==
    ASSUME NEW gs, IsSeq(gs), NEW top \in Nat, NEW o \in Offsets(gs, top)
    PROVE  o \in Nat /\ o % LookupLimit = 0 /\ o <= Len(gs)
<1>1. o \in Nat /\ o % LookupLimit = 0 /\ Len(gs) \in Nat
    BY SeqFacts DEF Offsets
<1> DEFINE next == (o - LookupLimit) + Len(Slice(gs, o - LookupLimit, LookupLimit))
<1>2. o = 0 \/ (IF next < Len(gs) THEN next ELSE NotReported) = o
    BY DEF Offsets
<1> HIDE DEF next
<1>3. CASE o = 0
    BY <1>1, <1>3
<1>4. CASE next < Len(gs) /\ o # 0
    <2>1. o = next
        BY <1>2, <1>4
    <2> QED BY <1>1, <1>4, <2>1
<1>5. CASE ~(next < Len(gs)) /\ o # 0
    <2>1. o = NotReported
        BY <1>2, <1>5
    <2> QED BY <1>1, <2>1 DEF NotReported
<1> QED BY <1>3, <1>4, <1>5

LEMMA PagesPartition ==
    ASSUME NEW gs, NEW S, Partitions(gs, S), NEW top \in Nat, Len(gs) <= top
    PROVE  /\ UNION {PageAt(gs, o) : o \in Offsets(gs, top)} = S
           /\ \A o, p \in Offsets(gs, top) : o # p => PageAt(gs, o) \intersect PageAt(gs, p) = {}
<1> DEFINE l == LookupLimit
           n == Len(gs)
           O == Offsets(gs, top)
<1>1. IsSeq(gs) /\ l \in Nat \ {0} /\ n \in Nat /\ DOMAIN gs = 1 .. n
    BY ConstantsAre, SeqFacts DEF Partitions
<1>2. \A o \in O : o \in Nat /\ o % l = 0 /\ o <= n
    BY <1>1, OffsetsWithin
<1>3. ASSUME NEW x \in S PROVE \E o \in O : x \in PageAt(gs, o)
    <2>1. PICK k \in DOMAIN gs : x \in gs[k]
        BY DEF Partitions
    <2> DEFINE q == (k - 1) \div l
               o == q * l
    <2>2. k \in Nat /\ k - 1 \in Nat /\ k <= n
        BY <1>1
    <2>3. q \in Nat /\ o <= k - 1 /\ k - 1 < o + l
        BY <1>1, <2>2, Quotient
    <2> HIDE DEF q
    <2>4. o \in Nat /\ o % l = 0
        BY <1>1, <2>3, MultipleOf
    <2> HIDE DEF o
    <2>5. o < n /\ o < k /\ k <= o + l /\ o <= n
        BY <1>1, <2>2, <2>3, <2>4
    <2>6. o \in O
        BY <1>1, <2>4, <2>5, OffsetsReached
    <2>7. gs[k] \subseteq PageAt(gs, o)
        BY <1>1, <2>4, <2>5, PageFollows
    <2> QED BY <2>1, <2>6, <2>7
<1>4. ASSUME NEW o \in O, NEW x \in PageAt(gs, o)
      PROVE  \E k \in DOMAIN gs : o < k /\ k <= o + l /\ x \in gs[k]
    BY <1>1, <1>2, <1>4, PageFollows
<1>5. ASSUME NEW o \in O, NEW x \in PageAt(gs, o) PROVE x \in S
    BY <1>4, <1>5 DEF Partitions
<1> HIDE DEF O
<1>6. UNION {PageAt(gs, o) : o \in O} = S
    BY <1>3, <1>5
<1>7. ASSUME NEW o \in O, NEW p \in O, o < p, NEW x, x \in PageAt(gs, o), x \in PageAt(gs, p) PROVE FALSE
    <2>1. PICK j \in DOMAIN gs : o < j /\ j <= o + l /\ x \in gs[j]
        BY <1>4, <1>7
    <2>2. PICK k \in DOMAIN gs : p < k /\ k <= p + l /\ x \in gs[k]
        BY <1>4, <1>7
    <2>3. x \in S
        BY <1>5, <1>7
    <2>4. j = k
        BY <2>1, <2>2, <2>3 DEF Partitions
    <2>5. o + l <= p
        BY <1>1, <1>2, <1>7, MultiplesApart
    <2> QED BY <1>1, <1>2, <2>1, <2>2, <2>4, <2>5
<1>8. \A o, p \in O : o # p => PageAt(gs, o) \intersect PageAt(gs, p) = {}
    <2> SUFFICES ASSUME NEW o \in O, NEW p \in O, o # p PROVE PageAt(gs, o) \intersect PageAt(gs, p) = {}
        OBVIOUS
    <2>1. o < p \/ p < o
        BY <1>2
    <2> QED BY <1>7, <2>1
<1> QED BY <1>6, <1>8 DEF O

LEMMA PagesSuffice ==
    ASSUME TypeInv
    PROVE  PagesCoverMatches
<1> SUFFICES ASSUME NEW r \in Requests, r.offset = 0
             PROVE  LET Found_(o) == LookupRetainedEvidence(queries, evidence, [r EXCEPT !.offset = o])
                        starts == {o \in 0..Len(evidence) : o % LookupLimit = 0 /\ (o = 0 \/ Found_(o - LookupLimit).next = o)}
                    IN  /\ UNION {UNION Range(Found_(o).records) : o \in starts} = Matching(evidence, r)
                        /\ \A o, p \in starts : o # p =>
                              (UNION Range(Found_(o).records)) \intersect (UNION Range(Found_(p).records)) = {}
    BY DEF PagesCoverMatches
<1> DEFINE S == Matching(evidence, r)
           ids == InTimeOrder(evidence, S)
           gs == CompactEvidenceRecords(queries, evidence, ids)
           Found_(o) == LookupRetainedEvidence(queries, evidence, [r EXCEPT !.offset = o])
           starts == {o \in 0..Len(evidence) : o % LookupLimit = 0 /\ (o = 0 \/ Found_(o - LookupLimit).next = o)}
           O == Offsets(gs, Len(evidence))
<1>1. r = [queries |-> r.queries, filter |-> r.filter, earliest |-> r.earliest, latest |-> r.latest,
           offset |-> r.offset, limit |-> r.limit] /\ r.limit = LookupLimit
    BY DEF Requests
<1>2. ASSUME NEW o
      PROVE  LET next == o + Len(Slice(gs, o, LookupLimit))
             IN  /\ Found_(o).records = Slice(gs, o, LookupLimit)
                 /\ Found_(o).next = IF next < Len(gs) THEN next ELSE NotReported
    <2> DEFINE t == [r EXCEPT !.offset = o]
    <2>1. /\ t.offset = o /\ t.limit = LookupLimit /\ t.queries = r.queries /\ t.filter = r.filter
          /\ t.earliest = r.earliest /\ t.latest = r.latest
        BY <1>1
    <2> HIDE DEF t
    <2>2. Matching(evidence, t) = S
        BY <2>1 DEF Matching, InWindow
    <2> HIDE DEF S
    <2>3. LookupRetainedEvidence(queries, evidence, t)
          = [records |-> Slice(gs, o, LookupLimit), total |-> Len(gs),
             next |-> IF o + Len(Slice(gs, o, LookupLimit)) < Len(gs)
                      THEN o + Len(Slice(gs, o, LookupLimit)) ELSE NotReported]
        BY <2>1, <2>2 DEF LookupRetainedEvidence
    <2> QED BY <2>3 DEF t
<1>3. S \in SUBSET DOMAIN evidence
    BY DEF Matching, RawRows
<1>4. TimedRecords(evidence) /\ IsSeq(evidence)
    BY EvidenceIsTimed DEF TimedRecords
<1> HIDE DEF S
<1>5. Enumerates(ids, S)
    BY <1>3, <1>4, TimelineEnumerates
<1> HIDE DEF ids
<1>6. Partitions(gs, S) /\ Len(gs) <= Len(ids)
    BY <1>5, CompactPartitions
<1> HIDE DEF gs, Found_
<1>7. Len(gs) <= Len(evidence) /\ Len(evidence) \in Nat
    <2>1. Len(ids) = Cardinality(S) /\ Len(ids) \in Nat
        BY <1>5, EnumeratesCardinality
    <2>2. DOMAIN evidence = 1 .. Len(evidence) /\ Len(evidence) \in Nat
        BY <1>4, SeqFacts
    <2>3. IsFiniteSet(DOMAIN evidence) /\ Cardinality(DOMAIN evidence) = Len(evidence)
        <3> DEFINE n == Len(evidence)
        <3>1. n \in Nat
            BY <2>2
        <3> HIDE DEF n
        <3>2. IsFiniteSet(1 .. n) /\ Cardinality(1 .. n) = n
            BY <3>1, FS_Interval
        <3> QED BY <2>2, <3>2 DEF n
    <2>4. Cardinality(S) <= Cardinality(DOMAIN evidence)
        BY <1>3, <2>3, FS_Subset
    <2>5. Len(gs) \in Nat
        BY <1>6, SeqFacts DEF Partitions
    <2> QED BY <1>6, <2>1, <2>2, <2>3, <2>4, <2>5
<1>8. starts = O
    BY <1>2 DEF Offsets
<1>9. \A o : UNION Range(Found_(o).records) = PageAt(gs, o)
    BY <1>2 DEF PageAt
<1>10. /\ UNION {PageAt(gs, o) : o \in O} = S
       /\ \A o, p \in O : o # p => PageAt(gs, o) \intersect PageAt(gs, p) = {}
    BY <1>6, <1>7, PagesPartition
<1> HIDE DEF O, starts
<1>11. UNION {UNION Range(Found_(o).records) : o \in starts} = S
    BY <1>8, <1>9, <1>10
<1>12. \A o, p \in starts : o # p => (UNION Range(Found_(o).records)) \intersect (UNION Range(Found_(p).records)) = {}
    BY <1>8, <1>9, <1>10
<1> QED BY <1>11, <1>12 DEF starts, Found_, S

\* Whoever follows next_offset from the first page of a lookup is shown every
\* matching row, none twice, for any page length: lookup_retained_evidence
\* counts offsets in the groups it shows, and the groups of identical
\* representations partition the matching rows.
THEOREM PagesAreComplete == Spec => []PagesCoverMatches
<1>1. Init => TypeInv
    BY TypeStart
<1>2. TypeInv /\ [Next]_vars => TypeInv'
    BY TypeStep
<1>3. TypeInv => PagesCoverMatches
    BY PagesSuffice
<1> QED BY <1>1, <1>2, <1>3, PTL DEF Spec

-----------------------------------------------------------------------------
(* The middles of the intervals: every interior place once.                *)

Pairs == Nat \X Nat
Span(interval) == interval[1] .. interval[2] - 1

LEMMA TakenIsSeq ==
    ASSUME NEW s \in Seq(Pairs)
    PROVE  Taken(s) \in Seq(Pairs)
<1>1. CASE s = <<>>
    BY <1>1 DEF Taken
<1>2. CASE s # <<>>
    <2> DEFINE h == Head(s)
               m == Middle(h)
    <2>1. h \in Pairs /\ Tail(s) \in Seq(Pairs)
        BY <1>2
    <2>2. h[1] \in Nat /\ h[2] \in Nat
        BY <2>1 DEF Pairs
    <2>3. m \in Nat
        BY <2>2 DEF Middle
    <2> HIDE DEF m
    <2>4. <<<<h[1], m>>, <<m + 1, h[2]>>>> \in Seq(Pairs)
        BY <2>2, <2>3 DEF Pairs
    <2>5. Taken(s) = IF h[1] >= h[2] THEN Tail(s) ELSE Tail(s) \o <<<<h[1], m>>, <<m + 1, h[2]>>>>
        BY <1>2 DEF Taken, m
    <2> HIDE DEF h
    <2> QED BY <2>1, <2>4, <2>5
<1> QED BY <1>1, <1>2

\* f is the deque for n rows after each of the first m turns.
Turns(f, n, m) ==
    /\ f = [k \in 0 .. m |-> IF k = 0 THEN <<<<1, n - 1>>>> ELSE Taken(f[k - 1])]
    /\ f \in [0 .. m -> Seq(Pairs)]

LEMMA TurnsExist ==
    ASSUME NEW n \in Nat, n >= 2
    PROVE  \A m \in Nat : \E f : Turns(f, n, m)
<1> DEFINE T == {m \in Nat : \E f : Turns(f, n, m)}
           start == <<<<1, n - 1>>>>
<1>0. start \in Seq(Pairs)
    <2>1. <<1, n - 1>> \in Pairs
        BY DEF Pairs
    <2> QED BY <2>1
<1> HIDE DEF start
<1>1. 0 \in T
    <2> DEFINE f == [k \in 0 .. 0 |-> IF k = 0 THEN start ELSE Taken(start)]
    <2>1. \A k \in 0 .. 0 : k = 0 /\ f[k] = start
        OBVIOUS
    <2>2. f \in [0 .. 0 -> Seq(Pairs)]
        BY <1>0
    <2>3. f = [k \in 0 .. 0 |-> IF k = 0 THEN start ELSE Taken(f[k - 1])]
        BY <2>1
    <2>4. Turns(f, n, 0)
        BY <2>2, <2>3, Zenon DEF Turns, start
    <2> QED BY <2>4
<1>2. ASSUME NEW m \in Nat, m \in T PROVE m + 1 \in T
    <2>1. PICK g : Turns(g, n, m)
        BY <1>2
    <2>2. g \in [0 .. m -> Seq(Pairs)] /\ m \in 0 .. m
        BY <2>1 DEF Turns
    <2>3. \A k \in 0 .. m : g[k] = IF k = 0 THEN start ELSE Taken(g[k - 1])
        BY <2>1 DEF Turns, start
    <2>4. Taken(g[m]) \in Seq(Pairs)
        BY <2>2, TakenIsSeq
    <2> DEFINE f == [k \in 0 .. m + 1 |-> IF k = m + 1 THEN Taken(g[m]) ELSE g[k]]
    <2>5. f \in [0 .. m + 1 -> Seq(Pairs)]
        BY <2>2, <2>4
    <2>6. ASSUME NEW k \in 0 .. m + 1 PROVE f[k] = IF k = 0 THEN start ELSE Taken(f[k - 1])
        <3>1. CASE k = m + 1
            <4>1. k # 0 /\ k - 1 = m /\ m \in 0 .. m + 1 /\ m # m + 1
                BY <3>1
            <4>2. f[k] = Taken(g[m]) /\ f[k - 1] = g[m]
                BY <3>1, <4>1
            <4> QED BY <4>1, <4>2
        <3>2. CASE k # m + 1
            <4>1. k \in 0 .. m /\ f[k] = g[k]
                BY <3>2
            <4>2. k # 0 => f[k - 1] = g[k - 1]
                BY <4>1
            <4> QED BY <2>3, <4>1, <4>2
        <3> QED BY <3>1, <3>2
    <2>7. f = [k \in 0 .. m + 1 |-> f[k]]
        OBVIOUS
    <2> HIDE DEF f
    <2>8. f = [k \in 0 .. m + 1 |-> IF k = 0 THEN start ELSE Taken(f[k - 1])]
        BY <2>6, <2>7
    <2>9. Turns(f, n, m + 1)
        BY <2>5, <2>8, Zenon DEF Turns, start
    <2> QED BY <2>9
<1> HIDE DEF T
<1>3. Nat \subseteq T
    BY <1>1, <1>2, NumbersByInduction
<1> QED BY <1>3 DEF T

IsDeque(d, n) ==
    /\ DOMAIN d = 0 .. 2 * n
    /\ d[0] = <<<<1, n - 1>>>>
    /\ \A k \in 0 .. 2 * n : k # 0 => d[k] = Taken(d[k - 1])
    /\ \A k \in 0 .. 2 * n : d[k] \in Seq(Pairs)

LEMMA DequeIs ==
    ASSUME NEW n \in Nat, n >= 2
    PROVE  IsDeque(Deque(n), n)
<1> DEFINE start == <<<<1, n - 1>>>>
           m == 2 * n
           d == CHOOSE f : f = [k \in 0 .. m |-> IF k = 0 THEN start ELSE Taken(f[k - 1])]
<1>1. Deque(n) = d
    BY DEF Deque
<1>2. m \in Nat
    OBVIOUS
<1>3. start \in Seq(Pairs)
    <2>1. <<1, n - 1>> \in Pairs
        BY DEF Pairs
    <2> QED BY <2>1
<1> HIDE DEF m, start
<1>4. \E f : f = [k \in 0 .. m |-> IF k = 0 THEN start ELSE Taken(f[k - 1])]
    <2>1. PICK f : Turns(f, n, m)
        BY <1>2, TurnsExist
    <2>2. f = [k \in 0 .. m |-> IF k = 0 THEN start ELSE Taken(f[k - 1])]
        BY <2>1, Zenon DEF Turns, start
    <2> QED BY <2>2
<1>5. d = [k \in 0 .. m |-> IF k = 0 THEN start ELSE Taken(d[k - 1])]
    BY <1>4
<1> HIDE DEF d
<1>6. DOMAIN d = 0 .. m /\ \A k \in 0 .. m : d[k] = IF k = 0 THEN start ELSE Taken(d[k - 1])
    <2> DEFINE G(k) == IF k = 0 THEN start ELSE Taken(d[k - 1])
    <2>1. d = [k \in 0 .. m |-> G(k)]
        BY <1>5
    <2> HIDE DEF G
    <2>2. DOMAIN d = 0 .. m /\ \A k \in 0 .. m : d[k] = G(k)
        BY <2>1
    <2> QED BY <2>2 DEF G
<1> DEFINE T == {k \in Nat : k \in 0 .. m => d[k] \in Seq(Pairs)}
<1>7. 0 \in T
    BY <1>3, <1>6
<1>8. ASSUME NEW k \in Nat, k \in T PROVE k + 1 \in T
    <2>1. CASE k + 1 \in 0 .. m
        <3>1. k \in 0 .. m /\ k + 1 # 0 /\ (k + 1) - 1 = k
            BY <1>2, <2>1
        <3>2. d[k + 1] = Taken(d[k])
            BY <1>6, <2>1, <3>1
        <3>3. d[k] \in Seq(Pairs)
            BY <1>8, <3>1
        <3>4. d[k + 1] \in Seq(Pairs)
            BY <3>2, <3>3, TakenIsSeq
        <3> QED BY <3>4
    <2>2. CASE k + 1 \notin 0 .. m
        BY <2>2
    <2> QED BY <2>1, <2>2
<1> HIDE DEF T
<1>9. Nat \subseteq T
    BY <1>7, <1>8, NumbersByInduction
<1>10. \A k \in 0 .. m : d[k] \in Seq(Pairs)
    BY <1>2, <1>9 DEF T
<1>11. 0 \in 0 .. m
    BY <1>2
<1>12. d[0] = start /\ \A k \in 0 .. m : k # 0 => d[k] = Taken(d[k - 1])
    BY <1>6, <1>11
<1> QED BY <1>1, <1>6, <1>10, <1>12 DEF IsDeque, m, start

\* No place is in two intervals.
Apart(s) == \A i, j \in DOMAIN s : \A x \in Nat : x \in Span(s[i]) /\ x \in Span(s[j]) => i = j
Held(s) == {x \in Nat : \E i \in DOMAIN s : x \in Span(s[i])}
Splits(s) == s # <<>> /\ Head(s)[1] < Head(s)[2]

LEMMA DropStep ==
    ASSUME NEW s \in Seq(Pairs), s # <<>>, ~Splits(s), Apart(s)
    PROVE  Taken(s) \in Seq(Pairs) /\ Len(Taken(s)) = Len(s) - 1 /\ Apart(Taken(s)) /\ Held(Taken(s)) = Held(s)
<1> DEFINE t == Tail(s)
<1>1. s[1] \in Pairs /\ Head(s) = s[1] /\ s[1][1] \in Nat /\ s[1][2] \in Nat
    BY DEF Pairs
<1>2. s[1][1] >= s[1][2]
    BY <1>1 DEF Splits
<1>3. Taken(s) = t
    BY <1>1, <1>2 DEF Taken
<1>4. /\ t \in Seq(Pairs) /\ Len(t) = Len(s) - 1 /\ Len(s) \in Nat \ {0}
      /\ DOMAIN s = 1 .. Len(s) /\ DOMAIN t = 1 .. Len(s) - 1
      /\ \A i \in DOMAIN t : i + 1 \in DOMAIN s /\ t[i] = s[i + 1]
    OBVIOUS
<1>5. Span(s[1]) = {}
    BY <1>1, <1>2 DEF Span
<1> HIDE DEF t
<1>6. Apart(t)
    <2> SUFFICES ASSUME NEW i \in DOMAIN t, NEW j \in DOMAIN t, NEW x \in Nat, x \in Span(t[i]), x \in Span(t[j])
                 PROVE  i = j
        BY DEF Apart
    <2>1. i + 1 = j + 1
        BY <1>4 DEF Apart
    <2> QED BY <1>4, <2>1
<1>7. Held(t) \subseteq Held(s)
    BY <1>4 DEF Held
<1>8. ASSUME NEW x \in Held(s) PROVE x \in Held(t)
    <2>1. PICK i \in DOMAIN s : x \in Span(s[i])
        BY DEF Held
    <2>2. i # 1
        BY <1>5, <2>1
    <2>3. i - 1 \in DOMAIN t /\ (i - 1) + 1 = i
        BY <1>4, <2>2
    <2>4. t[i - 1] = s[i]
        BY <1>4, <2>3
    <2> QED BY <2>1, <2>3, <2>4 DEF Held
<1> QED BY <1>3, <1>4, <1>6, <1>7, <1>8

LEMMA SplitStep ==
    ASSUME NEW s \in Seq(Pairs), Splits(s), Apart(s)
    PROVE  /\ Taken(s) \in Seq(Pairs) /\ Len(Taken(s)) = Len(s) + 1 /\ Apart(Taken(s))
           /\ Middle(Head(s)) \in Held(s)
           /\ Held(Taken(s)) = Held(s) \ {Middle(Head(s))}
<1> DEFINE h == Head(s)
           m == Middle(h)
           a == <<h[1], m>>
           b == <<m + 1, h[2]>>
           t == Taken(s)
           n == Len(s)
<1>1. s # <<>> /\ h[1] < h[2]
    BY DEF Splits
<1>2. h = s[1] /\ h \in Pairs /\ h[1] \in Nat /\ h[2] \in Nat /\ n \in Nat \ {0} /\ DOMAIN s = 1 .. n
    BY <1>1 DEF Pairs
<1>3. m \in Nat /\ h[1] <= m /\ m < h[2]
    BY <1>1, <1>2 DEF Middle
<1>4. t = Tail(s) \o <<a, b>>
    BY <1>1, <1>2 DEF Taken
<1>5. a \in Pairs /\ b \in Pairs /\ a[1] = h[1] /\ a[2] = m /\ b[1] = m + 1 /\ b[2] = h[2]
    BY <1>2, <1>3 DEF Pairs
<1> HIDE DEF h, m, a, b, t
<1>6. /\ t \in Seq(Pairs) /\ Len(t) = n + 1 /\ DOMAIN t = 1 .. n + 1
      /\ \A i \in 1 .. n - 1 : t[i] = s[i + 1]
      /\ t[n] = a /\ t[n + 1] = b
    BY <1>1, <1>2, <1>4, <1>5
<1> HIDE DEF n
<1>7. /\ \A x \in Nat : x \in Span(a) <=> h[1] <= x /\ x < m
      /\ \A x \in Nat : x \in Span(b) <=> m < x /\ x < h[2]
      /\ \A x \in Nat : x \in Span(s[1]) <=> h[1] <= x /\ x < h[2]
    BY <1>2, <1>3, <1>5 DEF Span
<1>8. ASSUME NEW i \in DOMAIN t, NEW x \in Nat, x \in Span(t[i])
      PROVE  /\ x # m /\ x \in Held(s)
             /\ i \in 1 .. n - 1 => i + 1 \in DOMAIN s /\ x \in Span(s[i + 1])
             /\ i \notin 1 .. n - 1 => x \in Span(s[1]) /\ 1 \in DOMAIN s
             /\ i = n => x < m
             /\ i = n + 1 => m < x
    <2>0. 1 \in DOMAIN s /\ m \in Span(s[1])
        BY <1>2, <1>3, <1>7
    <2>1. CASE i \in 1 .. n - 1
        <3>1. i + 1 \in DOMAIN s /\ x \in Span(s[i + 1]) /\ i + 1 # 1
            BY <1>2, <1>6, <1>8, <2>1
        <3>2. x # m
            BY <1>3, <2>0, <3>1 DEF Apart
        <3>3. i # n /\ i # n + 1
            BY <1>2, <2>1
        <3> QED BY <2>1, <3>1, <3>2, <3>3 DEF Held
    <2>2. CASE i = n
        <3>1. x \in Span(a) /\ i \notin 1 .. n - 1 /\ n # n + 1
            BY <1>2, <1>6, <1>8, <2>2
        <3>2. x < m /\ x \in Span(s[1])
            BY <1>2, <1>3, <1>7, <3>1
        <3> QED BY <1>3, <2>0, <2>2, <3>1, <3>2 DEF Held
    <2>3. CASE i = n + 1
        <3>1. x \in Span(b) /\ i \notin 1 .. n - 1 /\ n # n + 1
            BY <1>2, <1>6, <1>8, <2>3
        <3>2. m < x /\ x \in Span(s[1])
            BY <1>2, <1>3, <1>7, <3>1
        <3> QED BY <1>3, <2>0, <2>3, <3>1, <3>2 DEF Held
    <2>4. i \in 1 .. n - 1 \/ i = n \/ i = n + 1
        BY <1>2, <1>6
    <2> QED BY <2>1, <2>2, <2>3, <2>4
<1>9. Apart(t)
    <2> SUFFICES ASSUME NEW i \in DOMAIN t, NEW j \in DOMAIN t, NEW x \in Nat, x \in Span(t[i]), x \in Span(t[j])
                 PROVE  i = j
        BY DEF Apart
    <2>1. i \in Nat /\ j \in Nat
        BY <1>2, <1>6
    <2>2. CASE i \in 1 .. n - 1 /\ j \in 1 .. n - 1
        <3>1. i + 1 = j + 1
            BY <1>8, <2>2 DEF Apart
        <3> QED BY <2>1, <3>1
    <2>3. CASE i \in 1 .. n - 1 /\ j \notin 1 .. n - 1
        <3>1. i + 1 = 1
            BY <1>8, <2>3 DEF Apart
        <3> QED BY <2>3, <3>1
    <2>4. CASE i \notin 1 .. n - 1 /\ j \in 1 .. n - 1
        <3>1. j + 1 = 1
            BY <1>8, <2>4 DEF Apart
        <3> QED BY <2>4, <3>1
    <2>5. CASE i \notin 1 .. n - 1 /\ j \notin 1 .. n - 1
        <3>1. (i = n \/ i = n + 1) /\ (j = n \/ j = n + 1)
            BY <1>2, <1>6, <2>5
        <3>2. ~(i = n /\ j = n + 1) /\ ~(i = n + 1 /\ j = n)
            BY <1>3, <1>8
        <3> QED BY <3>1, <3>2
    <2> QED BY <2>2, <2>3, <2>4, <2>5
<1>10. m \in Held(s)
    <2>1. 1 \in DOMAIN s /\ m \in Span(s[1])
        BY <1>2, <1>3, <1>7
    <2> QED BY <1>3, <2>1 DEF Held
<1>11. Held(t) \subseteq Held(s) \ {m}
    BY <1>8 DEF Held
<1>12. ASSUME NEW x \in Held(s), x # m PROVE x \in Held(t)
    <2>1. PICK i \in DOMAIN s : x \in Span(s[i])
        BY DEF Held
    <2>2. x \in Nat
        BY DEF Held
    <2>3. CASE i = 1
        <3>1. x \in Span(a) \/ x \in Span(b)
            BY <1>2, <1>3, <1>7, <1>12, <2>1, <2>2, <2>3
        <3>2. n \in DOMAIN t /\ n + 1 \in DOMAIN t
            BY <1>2, <1>6
        <3> QED BY <1>6, <2>2, <3>1, <3>2 DEF Held
    <2>4. CASE i # 1
        <3>1. i - 1 \in 1 .. n - 1 /\ (i - 1) + 1 = i
            BY <1>2, <2>4
        <3>2. i - 1 \in DOMAIN t
            BY <1>2, <1>6, <3>1
        <3>3. t[i - 1] = s[i]
            BY <1>6, <3>1
        <3> QED BY <2>1, <2>2, <3>2, <3>3 DEF Held
    <2> QED BY <2>3, <2>4
<1>13. Held(t) = Held(s) \ {m}
    BY <1>11, <1>12
<1> QED BY <1>6, <1>9, <1>10, <1>13 DEF t, n, m, h

\* After k turns: what is still to be taken, counted exactly.
DequeOK(s, n, k) ==
    /\ s \in Seq(Pairs) /\ Apart(s) /\ Held(s) \subseteq 1 .. n - 2
    /\ 2 * Cardinality(Held(s)) + Len(s) = IF k <= 2 * n - 3 THEN 2 * n - 3 - k ELSE 0

LEMMA DequeTurn ==
    ASSUME NEW n \in Nat, n >= 2, NEW k \in Nat, NEW s, DequeOK(s, n, k)
    PROVE  /\ DequeOK(Taken(s), n, k + 1)
           /\ ~Splits(s) => Held(Taken(s)) = Held(s)
           /\ Splits(s) => Middle(Head(s)) \in Held(s) /\ Held(Taken(s)) = Held(s) \ {Middle(Head(s))}
<1> DEFINE c == Cardinality(Held(s))
           t == Taken(s)
<1>1. s \in Seq(Pairs) /\ Apart(s) /\ Held(s) \subseteq 1 .. n - 2 /\ Len(s) \in Nat
    BY DEF DequeOK
<1>2. IsFiniteSet(1 .. n - 2)
    BY FS_Interval
<1>3. IsFiniteSet(Held(s)) /\ c \in Nat
    BY <1>1, <1>2, FS_Subset, FS_CardinalityType
<1>4. 2 * c + Len(s) = IF k <= 2 * n - 3 THEN 2 * n - 3 - k ELSE 0
    BY DEF DequeOK
<1> HIDE DEF c
<1>5. CASE s = <<>>
    <2>1. t = <<>> /\ ~Splits(s) /\ Len(s) = 0 /\ t = s
        BY <1>5 DEF Taken, Splits
    <2>2. Held(s) = {}
        BY <1>5 DEF Held
    <2>3. c = 0
        BY <2>2, FS_EmptySet DEF c
    <2>4. 0 = IF k + 1 <= 2 * n - 3 THEN 2 * n - 3 - (k + 1) ELSE 0
        BY <1>4, <2>1, <2>3
    <2>5. 2 * c + Len(s) = 0
        BY <2>1, <2>3
    <2> HIDE DEF t
    <2>6. DequeOK(t, n, k + 1)
        BY <1>1, <2>1, <2>4, <2>5 DEF DequeOK, c
    <2> QED BY <2>1, <2>6 DEF t
<1>6. CASE s # <<>> /\ ~Splits(s)
    <2>1. t \in Seq(Pairs) /\ Len(t) = Len(s) - 1 /\ Apart(t) /\ Held(t) = Held(s)
        BY <1>1, <1>6, DropStep
    <2>2. Len(s) > 0
        BY <1>1, <1>6
    <2>3. 2 * c + (Len(s) - 1) = IF k + 1 <= 2 * n - 3 THEN 2 * n - 3 - (k + 1) ELSE 0
        BY <1>1, <1>3, <1>4, <2>2
    <2> HIDE DEF t
    <2>4. DequeOK(t, n, k + 1)
        BY <1>1, <2>1, <2>3 DEF DequeOK, c
    <2> QED BY <1>6, <2>1, <2>4 DEF t
<1>7. CASE Splits(s)
    <2> DEFINE m == Middle(Head(s))
    <2>1. t \in Seq(Pairs) /\ Len(t) = Len(s) + 1 /\ Apart(t) /\ m \in Held(s) /\ Held(t) = Held(s) \ {m}
        BY <1>1, <1>7, SplitStep
    <2> HIDE DEF t, m
    <2>2. Cardinality(Held(t)) = c - 1
        BY <1>3, <2>1, FS_RemoveElement DEF c
    <2>3. c > 0
        BY <1>3, <2>1, FS_EmptySet DEF c
    <2>4. 2 * (c - 1) + (Len(s) + 1) = IF k + 1 <= 2 * n - 3 THEN 2 * n - 3 - (k + 1) ELSE 0
        BY <1>1, <1>3, <1>4, <2>3
    <2>5. 2 * Cardinality(Held(t)) + Len(t) = IF k + 1 <= 2 * n - 3 THEN 2 * n - 3 - (k + 1) ELSE 0
        BY <2>1, <2>2, <2>4
    <2>6. Held(t) \subseteq 1 .. n - 2
        BY <1>1, <2>1
    <2>7. DequeOK(t, n, k + 1)
        BY <2>1, <2>5, <2>6 DEF DequeOK
    <2> QED BY <1>7, <2>1, <2>7 DEF t, m
<1>8. s # <<>> \/ s = <<>>
    OBVIOUS
<1> QED BY <1>5, <1>6, <1>7, <1>8

LEMMA DequeStart ==
    ASSUME NEW n \in Nat, n >= 2
    PROVE  DequeOK(<<<<1, n - 1>>>>, n, 0) /\ Held(<<<<1, n - 1>>>>) = 1 .. n - 2
<1> DEFINE p == <<1, n - 1>>
           s == <<p>>
<1>1. p \in Pairs /\ p[1] = 1 /\ p[2] = n - 1
    BY DEF Pairs
<1> HIDE DEF p
<1>2. s \in Seq(Pairs) /\ Len(s) = 1 /\ DOMAIN s = {1} /\ s[1] = p
    BY <1>1
<1> HIDE DEF s
<1>3. Span(p) = 1 .. n - 2
    BY <1>1 DEF Span
<1>4. Held(s) = 1 .. n - 2
    BY <1>2, <1>3 DEF Held
<1>5. Apart(s)
    BY <1>2 DEF Apart
<1>6. Cardinality(1 .. n - 2) = n - 2
    <2> DEFINE m == n - 2
    <2>1. m \in Nat
        OBVIOUS
    <2> HIDE DEF m
    <2>2. Cardinality(1 .. m) = m
        BY <2>1, FS_Interval
    <2> QED BY <2>2 DEF m
<1>7. 2 * Cardinality(Held(s)) + Len(s) = 2 * n - 3 - 0 /\ 0 <= 2 * n - 3
    BY <1>2, <1>4, <1>6
<1>8. DequeOK(s, n, 0)
    BY <1>2, <1>4, <1>5, <1>7 DEF DequeOK
<1> QED BY <1>4, <1>8 DEF s, p

LEMMA DequeRuns ==
    ASSUME NEW n \in Nat, n >= 2, NEW d, IsDeque(d, n)
    PROVE  \A k \in 0 .. 2 * n : DequeOK(d[k], n, k)
<1> DEFINE T == {k \in Nat : k \in 0 .. 2 * n => DequeOK(d[k], n, k)}
<1>1. 0 \in T
    BY DequeStart DEF IsDeque
<1>2. ASSUME NEW k \in Nat, k \in T PROVE k + 1 \in T
    <2>1. CASE k + 1 \in 0 .. 2 * n
        <3>1. k \in 0 .. 2 * n /\ k + 1 # 0 /\ (k + 1) - 1 = k
            BY <2>1
        <3>2. d[k + 1] = Taken(d[k])
            BY <2>1, <3>1 DEF IsDeque
        <3>3. DequeOK(d[k], n, k)
            BY <1>2, <3>1
        <3>4. DequeOK(d[k + 1], n, k + 1)
            BY <3>2, <3>3, DequeTurn
        <3> QED BY <3>4
    <2>2. CASE k + 1 \notin 0 .. 2 * n
        BY <2>2
    <2> QED BY <2>1, <2>2
<1> HIDE DEF T
<1>3. Nat \subseteq T
    BY <1>1, <1>2, NumbersByInduction
<1>4. ASSUME NEW k \in 0 .. 2 * n PROVE DequeOK(d[k], n, k)
    <2>1. k \in T
        BY <1>3
    <2> QED BY <2>1 DEF T
<1> QED BY <1>4

\* What is held only shrinks.
LEMMA HeldShrinks ==
    ASSUME NEW n \in Nat, n >= 2, NEW d, IsDeque(d, n), NEW j \in 0 .. 2 * n
    PROVE  \A k \in 0 .. 2 * n : j <= k => Held(d[k]) \subseteq Held(d[j])
<1> DEFINE T == {i \in Nat : j + i \in 0 .. 2 * n => Held(d[j + i]) \subseteq Held(d[j])}
<1>1. 0 \in T
    <2>1. j + 0 = j
        OBVIOUS
    <2> QED BY <2>1
<1>2. ASSUME NEW i \in Nat, i \in T PROVE i + 1 \in T
    <2> DEFINE k == j + i
    <2>0. k \in Nat /\ j + (i + 1) = k + 1
        OBVIOUS
    <2>1. CASE k + 1 \in 0 .. 2 * n
        <3>1. k \in 0 .. 2 * n /\ k + 1 # 0 /\ (k + 1) - 1 = k
            BY <2>1
        <3>2. Held(d[k]) \subseteq Held(d[j])
            BY <1>2, <3>1
        <3> HIDE DEF k
        <3>3. d[k + 1] = Taken(d[k])
            BY <2>1, <3>1 DEF IsDeque
        <3>4. DequeOK(d[k], n, k)
            BY <3>1, DequeRuns
        <3>5. Held(Taken(d[k])) \subseteq Held(d[k])
            BY <2>0, <3>4, DequeTurn
        <3>6. Held(d[k + 1]) \subseteq Held(d[j])
            BY <3>2, <3>3, <3>5
        <3> QED BY <2>0, <3>6
    <2>2. CASE k + 1 \notin 0 .. 2 * n
        BY <2>0, <2>2
    <2> QED BY <2>1, <2>2
<1> HIDE DEF T
<1>3. Nat \subseteq T
    BY <1>1, <1>2, NumbersByInduction
<1>4. ASSUME NEW k \in 0 .. 2 * n, j <= k PROVE Held(d[k]) \subseteq Held(d[j])
    <2>1. k - j \in T /\ j + (k - j) = k
        BY <1>3, <1>4
    <2> QED BY <2>1 DEF T
<1> QED BY <1>4

LEMMA MiddlesEnumerate ==
    ASSUME NEW n \in Nat, n >= 2
    PROVE  Enumerates(Middles(n), 1 .. n - 2)
<1> DEFINE d == Deque(n)
           E == {k \in DOMAIN d : d[k] # <<>> /\ Head(d[k])[1] < Head(d[k])[2]}
           turns == Ascending(E)
           ms == Middles(n)
           Mid(k) == Middle(Head(d[k]))
<1>1. IsDeque(d, n)
    BY DequeIs
<1>2. ms = [k \in DOMAIN turns |-> Mid(turns[k])]
    BY DEF Middles, Ordered, Ascending
<1> HIDE DEF d, ms
<1>3. DOMAIN d = 0 .. 2 * n
    BY <1>1 DEF IsDeque
<1>4. \A k \in 0 .. 2 * n : DequeOK(d[k], n, k)
    BY <1>1, DequeRuns
<1>5. \A k \in DOMAIN d : k \in E <=> Splits(d[k])
    BY DEF Splits
<1>6. E \in SUBSET (0 .. 2 * n)
    BY <1>3
<1> HIDE DEF E
<1>7. IsFiniteSet(E) /\ E \in SUBSET Nat
    <2>1. IsFiniteSet(0 .. 2 * n)
        BY FS_Interval
    <2>2. IsFiniteSet(E)
        BY <1>6, <2>1, FS_Subset
    <2>3. 0 .. 2 * n \subseteq Nat
        OBVIOUS
    <2> QED BY <1>6, <2>2, <2>3
<1>8. /\ Cardinality(E) \in Nat /\ DOMAIN turns = 1 .. Cardinality(E)
      /\ \A k \in DOMAIN turns : turns[k] \in E
      /\ \A x \in E : \E k \in DOMAIN turns : turns[k] = x
      /\ \A j, k \in DOMAIN turns : turns[j] = turns[k] => j = k
    <2>1. PICK R : Lists(turns, E, R)
        BY <1>7, NumbersListed
    <2> HIDE DEF turns
    <2> QED BY <2>1 DEF Lists
<1> HIDE DEF turns
<1>9. ASSUME NEW k \in E, k + 1 \in 0 .. 2 * n
      PROVE  Mid(k) \in Held(d[k]) /\ Held(d[k + 1]) = Held(d[k]) \ {Mid(k)}
    <2>1. k \in 0 .. 2 * n /\ k \in Nat /\ k + 1 # 0 /\ (k + 1) - 1 = k
        BY <1>6
    <2>2. d[k + 1] = Taken(d[k])
        BY <1>1, <1>9, <2>1 DEF IsDeque
    <2>3. Splits(d[k]) /\ DequeOK(d[k], n, k)
        BY <1>3, <1>4, <1>5, <2>1
    <2> QED BY <2>1, <2>2, <2>3, DequeTurn
<1>10. ASSUME NEW k \in 0 .. 2 * n, 2 * n - 3 <= k PROVE d[k] = <<>> /\ Held(d[k]) = {}
    <2> DEFINE c == Cardinality(Held(d[k]))
    <2>1. d[k] \in Seq(Pairs) /\ Held(d[k]) \subseteq 1 .. n - 2 /\ Len(d[k]) \in Nat
        BY <1>4 DEF DequeOK
    <2>2. IsFiniteSet(Held(d[k]))
        <3>1. IsFiniteSet(1 .. n - 2)
            BY FS_Interval
        <3> QED BY <2>1, <3>1, FS_Subset
    <2>3. c \in Nat
        BY <2>2, FS_CardinalityType
    <2> HIDE DEF c
    <2>4. 2 * c + Len(d[k]) = IF k <= 2 * n - 3 THEN 2 * n - 3 - k ELSE 0
        BY <1>4 DEF DequeOK, c
    <2> DEFINE l == Len(d[k])
    <2>5. l = 0
        <3>1. l \in Nat /\ 2 * c + l = IF k <= 2 * n - 3 THEN 2 * n - 3 - k ELSE 0
            BY <2>1, <2>4
        <3> HIDE DEF l
        <3>2. 2 * c + l = 0
            BY <1>10, <3>1
        <3> QED BY <2>3, <3>1, <3>2
    <2>6. d[k] = <<>>
        BY <2>1, <2>5
    <2> QED BY <2>6 DEF Held
<1>11. \A k \in E : k \in Nat /\ k + 1 \in 0 .. 2 * n /\ k \in 0 .. 2 * n
    <2> TAKE k \in E
    <2>1. k \in 0 .. 2 * n /\ d[k] # <<>>
        BY <1>3, <1>5, <1>6 DEF Splits
    <2>2. ~(2 * n - 3 <= k)
        BY <1>10, <2>1
    <2> QED BY <2>1, <2>2
<1>12. ASSUME NEW j \in E, NEW k \in E, j < k PROVE Mid(j) # Mid(k)
    <2>1. j + 1 <= k
        BY <1>11, <1>12
    <2>2. Held(d[k]) \subseteq Held(d[j + 1])
        BY <1>1, <1>11, <2>1, HeldShrinks
    <2> QED BY <1>9, <1>11, <2>2
<1>13. Held(d[0]) = 1 .. n - 2
    BY <1>1, DequeStart DEF IsDeque
<1>14. ASSUME NEW x \in 1 .. n - 2 PROVE \E k \in E : Mid(k) = x
    <2> DEFINE G == {k \in 0 .. 2 * n : x \notin Held(d[k])}
    <2>1. 2 * n \in 0 .. 2 * n /\ 2 * n - 3 <= 2 * n
        OBVIOUS
    <2>2. 2 * n \in G
        BY <1>10, <2>1
    <2>3. G \in SUBSET Nat /\ G # {}
        BY <2>2
    <2>4. PICK k \in G : \A i \in G : k <= i
        <3> HIDE DEF G
        <3> QED BY <2>3, LeastNumber
    <2>5. k \in 0 .. 2 * n /\ x \notin Held(d[k]) /\ k # 0
        BY <1>13, <2>4
    <2> DEFINE j == k - 1
    <2>6. j \in 0 .. 2 * n /\ j \in Nat /\ j + 1 = k /\ ~(k <= j)
        BY <2>5
    <2>7. x \in Held(d[j])
        BY <2>4, <2>6
    <2> HIDE DEF j
    <2>8. d[k] = Taken(d[j])
        <3>1. k - 1 = j
            BY DEF j
        <3> QED BY <1>1, <2>5, <3>1 DEF IsDeque
    <2>9. DequeOK(d[j], n, j)
        BY <1>4, <2>6
    <2>10. Splits(d[j])
        BY <2>5, <2>6, <2>7, <2>8, <2>9, DequeTurn
    <2>11. j \in E
        BY <1>3, <1>5, <2>6, <2>10
    <2>12. Held(d[k]) = Held(d[j]) \ {Mid(j)}
        BY <1>9, <2>5, <2>6, <2>11
    <2>13. Mid(j) = x
        BY <2>5, <2>7, <2>12
    <2> QED BY <2>11, <2>13
<1>15. \A k \in E : Mid(k) \in 1 .. n - 2
    <2> TAKE k \in E
    <2>1. 0 \in 0 .. 2 * n /\ 0 <= k
        BY <1>11
    <2>2. Held(d[k]) \subseteq Held(d[0])
        BY <1>1, <1>11, <2>1, HeldShrinks
    <2> QED BY <1>9, <1>11, <1>13, <2>2
<1> HIDE DEF Mid
<1>16. DOMAIN ms = DOMAIN turns /\ ms = [k \in 1 .. Cardinality(E) |-> ms[k]] /\ \A k \in DOMAIN ms : ms[k] = Mid(turns[k])
    BY <1>2, <1>8
<1>17. IsSeq(ms)
    BY <1>8, <1>16, FunctionIsSeq
<1>18. \A k \in DOMAIN ms : ms[k] \in 1 .. n - 2
    BY <1>8, <1>15, <1>16
<1>19. ASSUME NEW x \in 1 .. n - 2 PROVE \E k \in DOMAIN ms : ms[k] = x
    <2>1. PICK j \in E : Mid(j) = x
        BY <1>14
    <2>2. PICK k \in DOMAIN turns : turns[k] = j
        BY <1>8
    <2> QED BY <1>16, <2>1, <2>2
<1>20. ASSUME NEW j \in DOMAIN ms, NEW k \in DOMAIN ms, ms[j] = ms[k] PROVE j = k
    <2>1. turns[j] \in E /\ turns[k] \in E /\ Mid(turns[j]) = Mid(turns[k])
        BY <1>8, <1>16, <1>20
    <2>2. ~(turns[j] < turns[k]) /\ ~(turns[k] < turns[j])
        BY <1>12, <2>1
    <2>3. turns[j] = turns[k]
        BY <1>11, <2>1, <2>2
    <2> QED BY <1>8, <1>16, <2>3
<1>21. Range(ms) = 1 .. n - 2
    BY <1>18, <1>19 DEF Range
<1> QED BY <1>17, <1>20, <1>21 DEF Enumerates, ms

-----------------------------------------------------------------------------
(* Rearrangements.                                                         *)

LEMMA JoinEnumerates ==
    ASSUME NEW s, NEW S, Enumerates(s, S), NEW t, NEW T, Enumerates(t, T), S \cap T = {}
    PROVE  Enumerates(s \o t, S \cup T)
<1> DEFINE u == s \o t
<1>1. IsSeq(s) /\ IsSeq(t)
    BY DEF Enumerates
<1>2. Joined(u, s, t)
    BY <1>1, ConcatIsSeq
<1> HIDE DEF u
<1>3. IsSeq(u) /\ Range(u) = S \cup T
    BY <1>2 DEF Joined, Enumerates
<1>4. ASSUME NEW j \in DOMAIN u, NEW k \in DOMAIN u, u[j] = u[k] PROVE j = k
    <2>1. /\ \A i \in DOMAIN s : s[i] \in S
          /\ \A i \in DOMAIN t : t[i] \in T
        BY DEF Enumerates, Range
    <2>2. \A i \in DOMAIN u : \/ i \in DOMAIN s /\ u[i] = s[i]
                              \/ i - Len(s) \in DOMAIN t /\ u[i] = t[i - Len(s)]
        BY <1>2 DEF Joined
    <2>3. CASE j \in DOMAIN s /\ u[j] = s[j] /\ k \in DOMAIN s /\ u[k] = s[k]
        BY <1>4, <2>3 DEF Enumerates
    <2>4. CASE j - Len(s) \in DOMAIN t /\ u[j] = t[j - Len(s)] /\ k - Len(s) \in DOMAIN t /\ u[k] = t[k - Len(s)]
        <3>1. j - Len(s) = k - Len(s)
            <4> DEFINE x == j - Len(s)
                       y == k - Len(s)
            <4>1. x \in DOMAIN t /\ y \in DOMAIN t /\ t[x] = t[y]
                BY <1>4, <2>4
            <4> HIDE DEF x, y
            <4>2. x = y
                BY <4>1 DEF Enumerates
            <4> QED BY <4>2 DEF x, y
        <3>2. j \in Nat /\ k \in Nat /\ Len(s) \in Nat
            BY <1>1, <1>3, SeqFacts
        <3> QED BY <3>1, <3>2
    <2> QED BY <1>4, <2>1, <2>2, <2>3, <2>4
<1> QED BY <1>3, <1>4 DEF Enumerates, u

\* u goes along the list o of P, with one element of S for each of P.
Along(u, o, P, v, S) ==
    /\ Enumerates(o, P)
    /\ \A x \in P : v[x] \in S
    /\ \A y \in S : \E x \in P : v[x] = y
    /\ \A x, y \in P : v[x] = v[y] => x = y
    /\ u = [k \in DOMAIN o |-> u[k]]
    /\ \A k \in DOMAIN o : u[k] = v[o[k]]

LEMMA MappedEnumerates ==
    ASSUME NEW u, NEW o, NEW P, NEW v, NEW S, Along(u, o, P, v, S)
    PROVE  Enumerates(u, S) /\ Len(u) = Len(o) /\ DOMAIN u = DOMAIN o
<1>0. /\ Enumerates(o, P)
      /\ \A x \in P : v[x] \in S
      /\ \A y \in S : \E x \in P : v[x] = y
      /\ \A x, y \in P : v[x] = v[y] => x = y
      /\ u = [k \in DOMAIN o |-> u[k]]
      /\ \A k \in DOMAIN o : u[k] = v[o[k]]
    BY DEF Along
<1>1. DOMAIN o = 1 .. Len(o) /\ Len(o) \in Nat
    BY <1>0, SeqFacts DEF Enumerates
<1>2. IsSeq(u) /\ Len(u) = Len(o) /\ DOMAIN u = DOMAIN o
    <2>1. u = [k \in 1 .. Len(o) |-> u[k]]
        BY <1>0, <1>1
    <2> QED BY <1>1, <2>1, FunctionIsSeq
<1>3. \A k \in DOMAIN o : o[k] \in P
    BY <1>0 DEF Enumerates, Range
<1>4. \A x \in P : \E k \in DOMAIN o : o[k] = x
    BY <1>0 DEF Enumerates, Range
<1>5. \A k \in DOMAIN u : u[k] \in S
    BY <1>0, <1>2, <1>3
<1>6. \A y \in S : \E k \in DOMAIN u : u[k] = y
    <2> TAKE y \in S
    <2>1. PICK x \in P : v[x] = y
        BY <1>0
    <2>2. PICK k \in DOMAIN o : o[k] = x
        BY <1>4
    <2> QED BY <1>0, <1>2, <2>1, <2>2
<1>7. Range(u) = S
    BY <1>5, <1>6 DEF Range
<1>8. \A j, k \in DOMAIN u : u[j] = u[k] => j = k
    <2> SUFFICES ASSUME NEW j \in DOMAIN u, NEW k \in DOMAIN u, u[j] = u[k] PROVE j = k
        OBVIOUS
    <2>1. o[j] = o[k]
        BY <1>0, <1>2, <1>3
    <2> QED BY <1>0, <1>2, <2>1 DEF Enumerates
<1> QED BY <1>2, <1>7, <1>8 DEF Enumerates

LEMMA SlotsListed ==
    ASSUME NEW P \in SUBSET (Nat \X Nat), IsFiniteSet(P)
    PROVE  Enumerates(Ordered(P, LAMBDA a, b : a[1] < b[1] \/ (a[1] = b[1] /\ a[2] < b[2])), P)
<1> DEFINE Less(a, b) == a[1] < b[1] \/ (a[1] = b[1] /\ a[2] < b[2])
           R == {p \in P \X P : Less(p[1], p[2])}
           Choice(k) == CHOOSE x \in P : Cardinality({y \in P : Less(y, x)}) = k - 1
           order == [k \in 1 .. Cardinality(P) |-> Choice(k)]
<1>1. \A x, y \in P : <<x, y>> \in R <=> Less(x, y)
    OBVIOUS
<1>2. \A x \in P : x[1] \in Nat /\ x[2] \in Nat /\ x = <<x[1], x[2]>>
    OBVIOUS
<1>3. TotalOrder(P, R)
    <2>1. \A x \in P : ~Less(x, x)
        BY <1>2
    <2>2. ASSUME NEW x \in P, NEW y \in P, x # y PROVE Less(x, y) \/ Less(y, x)
        <3>1. x[1] # y[1] \/ x[2] # y[2]
            BY <1>2, <2>2
        <3> QED BY <1>2, <3>1
    <2>3. \A x, y, z \in P : Less(x, y) /\ Less(y, z) => Less(x, z)
        BY <1>2
    <2> HIDE DEF R, Less
    <2> QED BY <1>1, <2>1, <2>2, <2>3 DEF TotalOrder
<1>4. \A x \in P : Below(P, R, x) = {y \in P : Less(y, x)}
    <2> HIDE DEF R, Less
    <2> QED BY <1>1 DEF Below
<1>5. Ordered(P, LAMBDA a, b : a[1] < b[1] \/ (a[1] = b[1] /\ a[2] < b[2])) = order
    BY DEF Ordered
<1> HIDE DEF R, Less
<1>6. ASSUME NEW k \in 1 .. Cardinality(P) PROVE order[k] = Listing(P, R)[k]
    <2>1. (CHOOSE x \in P : Cardinality(Below(P, R, x)) = k - 1) = Choice(k)
        BY <1>4
    <2>2. Listing(P, R)[k] = CHOOSE x \in P : Cardinality(Below(P, R, x)) = k - 1
        BY DEF Listing
    <2>3. order[k] = Choice(k)
        <3> HIDE DEF Choice
        <3> QED OBVIOUS
    <2> QED BY <2>1, <2>2, <2>3, Zenon
<1>7. order = Listing(P, R)
    <2>1. Listing(P, R) = [k \in 1 .. Cardinality(P) |-> Listing(P, R)[k]]
        BY DEF Listing
    <2>2. order = [k \in 1 .. Cardinality(P) |-> order[k]]
        <3> HIDE DEF Choice
        <3> QED OBVIOUS
    <2> HIDE DEF order
    <2> QED BY <1>6, <2>1, <2>2
<1> HIDE DEF order
<1>8. Lists(order, P, R)
    BY <1>3, <1>7, Listed
<1>9. Enumerates(order, P)
    BY <1>8, ListsEnumerates
<1> QED BY <1>5, <1>9

\* Two lists by turns.
Slots2(s, t) == {<<k, 1>> : k \in DOMAIN s} \cup {<<k, 2>> : k \in DOMAIN t}
Interleaved(s, t, order) == [k \in DOMAIN order |-> IF order[k][2] = 1 THEN s[order[k][1]] ELSE t[order[k][1]]]

LEMMA InterleaveEnumerates ==
    ASSUME NEW s, NEW S, Enumerates(s, S), NEW t, NEW T, Enumerates(t, T), S \cap T = {},
           NEW order, Enumerates(order, Slots2(s, t))
    PROVE  Enumerates(Interleaved(s, t, order), S \cup T)
<1> DEFINE P == Slots2(s, t)
           v == [x \in P |-> IF x[2] = 1 THEN s[x[1]] ELSE t[x[1]]]
           u == Interleaved(s, t, order)
<1>1. \A x \in P : \/ x[2] = 1 /\ x[1] \in DOMAIN s /\ x = <<x[1], 1>>
                   \/ x[2] = 2 /\ x[1] \in DOMAIN t /\ x = <<x[1], 2>>
    BY DEF Slots2
<1>2. /\ \A k \in DOMAIN s : <<k, 1>> \in P /\ <<k, 1>>[1] = k /\ <<k, 1>>[2] = 1
      /\ \A k \in DOMAIN t : <<k, 2>> \in P /\ <<k, 2>>[1] = k /\ <<k, 2>>[2] = 2
    BY DEF Slots2
<1>3. \A x \in P : v[x] = IF x[2] = 1 THEN s[x[1]] ELSE t[x[1]]
    OBVIOUS
<1>4. u = [k \in DOMAIN order |-> u[k]]
    BY DEF Interleaved
<1>5. \A k \in DOMAIN order : order[k] \in P /\ u[k] = IF order[k][2] = 1 THEN s[order[k][1]] ELSE t[order[k][1]]
    BY DEF Interleaved, Enumerates, Range
<1> HIDE DEF v, u, P
<1>6. \A k \in DOMAIN order : u[k] = v[order[k]]
    BY <1>3, <1>5
<1>7. /\ \A k \in DOMAIN s : s[k] \in S
      /\ \A k \in DOMAIN t : t[k] \in T
      /\ \A y \in S : \E k \in DOMAIN s : s[k] = y
      /\ \A y \in T : \E k \in DOMAIN t : t[k] = y
      /\ \A j, k \in DOMAIN s : s[j] = s[k] => j = k
      /\ \A j, k \in DOMAIN t : t[j] = t[k] => j = k
    BY DEF Enumerates, Range
<1>8. \A x \in P : v[x] \in S \cup T
    BY <1>1, <1>3, <1>7
<1>9. ASSUME NEW y \in S \cup T PROVE \E x \in P : v[x] = y
    <2>1. CASE y \in S
        <3>1. PICK k \in DOMAIN s : s[k] = y
            BY <1>7, <2>1
        <3>2. <<k, 1>> \in P /\ v[<<k, 1>>] = y
            BY <1>2, <1>3, <3>1
        <3> QED BY <3>2
    <2>2. CASE y \in T
        <3>1. PICK k \in DOMAIN t : t[k] = y
            BY <1>7, <2>2
        <3>2. <<k, 2>> \in P /\ v[<<k, 2>>] = y
            BY <1>2, <1>3, <3>1
        <3> QED BY <3>2
    <2> QED BY <2>1, <2>2
<1>10. ASSUME NEW x \in P, NEW y \in P, v[x] = v[y] PROVE x = y
    <2>1. CASE x[2] = 1 /\ y[2] = 1
        <3>1. x[1] = y[1]
            BY <1>1, <1>3, <1>7, <1>10, <2>1
        <3> QED BY <1>1, <2>1, <3>1
    <2>2. CASE x[2] = 2 /\ y[2] = 2
        <3>1. x[1] = y[1]
            BY <1>1, <1>3, <1>7, <1>10, <2>2
        <3> QED BY <1>1, <2>2, <3>1
    <2>3. ~(x[2] = 1 /\ y[2] = 2) /\ ~(x[2] = 2 /\ y[2] = 1)
        BY <1>1, <1>3, <1>7, <1>10
    <2> QED BY <1>1, <2>1, <2>2, <2>3
<1>11. Enumerates(order, P)
    BY DEF P
<1>12. Enumerates(u, S \cup T)
    <2>1. Along(u, order, P, v, S \cup T)
        BY <1>4, <1>6, <1>8, <1>9, <1>10, <1>11 DEF Along
    <2> QED BY <2>1, MappedEnumerates
<1> QED BY <1>12 DEF u

LEMMA PlacesEnumerate ==
    ASSUME NEW n \in Nat, n >= 2
    PROVE  Enumerates(<<0, n - 1>> \o Middles(n), 0 .. n - 1)
<1> DEFINE e == <<0, n - 1>>
<1>1. DOMAIN e = 1 .. 2 /\ Len(e) = 2 /\ e[1] = 0 /\ e[2] = n - 1 /\ e = [k \in 1 .. 2 |-> e[k]]
    OBVIOUS
<1> HIDE DEF e
<1>2. IsSeq(e)
    BY <1>1, FunctionIsSeq
<1>3. Range(e) = {0, n - 1}
    BY <1>1 DEF Range
<1>4. \A j, k \in DOMAIN e : e[j] = e[k] => j = k
    BY <1>1
<1>5. Enumerates(e, {0, n - 1})
    BY <1>2, <1>3, <1>4 DEF Enumerates
<1>6. Enumerates(Middles(n), 1 .. n - 2)
    BY MiddlesEnumerate
<1>7. {0, n - 1} \cap (1 .. n - 2) = {} /\ {0, n - 1} \cup (1 .. n - 2) = 0 .. n - 1
    OBVIOUS
<1>8. Enumerates(e \o Middles(n), {0, n - 1} \cup (1 .. n - 2))
    BY <1>5, <1>6, <1>7, JoinEnumerates
<1> QED BY <1>7, <1>8 DEF e

LEMMA SpreadInTimeEnumerates ==
    ASSUME NEW rows, TimedRecords(rows), NEW S \in SUBSET DOMAIN rows, NEW list, Enumerates(list, S)
    PROVE  Enumerates(SpreadEvidenceInTime(rows, list), S)
<1> DEFINE K == Timed(rows, S)
           timed == InTimeOrder(rows, K)
           unknown == At(list, {k \in DOMAIN list : list[k] \in S \ K})
           n == Len(timed)
           at == <<0, n - 1>> \o Middles(n)
           ordered == [k \in DOMAIN at |-> timed[at[k] + 1]]
           order == Ordered(Slots2(ordered, unknown), LAMBDA a, b : a[1] < b[1] \/ (a[1] = b[1] /\ a[2] < b[2]))
           shown == SpreadEvidenceInTime(rows, list)
<1>1. Range(list) = S /\ IsSeq(list)
    BY DEF Enumerates
<1>2. {k \in DOMAIN list : RawEventTime(rows[list[k]]) = UnknownTime} = {k \in DOMAIN list : list[k] \in S \ K}
    BY <1>1 DEF Range, Timed
<1>3. Filtered(list, LAMBDA i : RawEventTime(rows[i]) = UnknownTime) = unknown
    <2> HIDE DEF K
    <2>1. Filtered(list, LAMBDA i : RawEventTime(rows[i]) = UnknownTime)
          = At(list, {k \in DOMAIN list : RawEventTime(rows[list[k]]) = UnknownTime})
        BY DEF Filtered, Ordered, Ascending, At
    <2> QED BY <1>2, <2>1
<1>4. shown = IF n < 2 THEN list ELSE Interleaved(ordered, unknown, order)
    <2> DEFINE t == InTimeOrder(rows, Timed(rows, Range(list)))
               o == [k \in DOMAIN (<<0, Len(t) - 1>> \o Middles(Len(t))) |-> t[(<<0, Len(t) - 1>> \o Middles(Len(t)))[k] + 1]]
               w == Filtered(list, LAMBDA i : RawEventTime(rows[i]) = UnknownTime)
               slots == {<<k, 1>> : k \in DOMAIN o} \union {<<k, 2>> : k \in DOMAIN w}
               r == Ordered(slots, LAMBDA a, b : a[1] < b[1] \/ (a[1] = b[1] /\ a[2] < b[2]))
    <2>1. shown = IF Len(t) < 2 THEN list ELSE [k \in DOMAIN r |-> IF r[k][2] = 1 THEN o[r[k][1]] ELSE w[r[k][1]]]
        BY DEF SpreadEvidenceInTime
    <2>2. t = timed /\ w = unknown
        BY <1>1, <1>3
    <2>3. o = ordered
        BY <2>2
    <2> HIDE DEF o, w, ordered, unknown, t, timed
    <2>4. r = order
        BY <2>2, <2>3 DEF Slots2
    <2> HIDE DEF r, order, shown
    <2>5. Len(t) = n
        BY <2>2
    <2> QED BY <2>1, <2>2, <2>3, <2>4, <2>5 DEF Interleaved
<1> HIDE DEF shown
<1>5. CASE n < 2
    BY <1>4, <1>5 DEF shown
<1>6. CASE ~(n < 2)
    <2>1. K \in SUBSET DOMAIN rows /\ K \subseteq S
        BY DEF Timed
    <2> HIDE DEF K
    <2>2. Enumerates(timed, K)
        BY <2>1, TimelineEnumerates
    <2>3. Enumerates(unknown, S \ K)
        <3>1. Enumerates(unknown, S \cap (S \ K))
            BY KeptEnumerates
        <3>2. S \cap (S \ K) = S \ K
            OBVIOUS
        <3> QED BY <3>1, <3>2
    <2> HIDE DEF timed, unknown
    <2>4. n \in Nat /\ n >= 2 /\ DOMAIN timed = 1 .. n
        BY <1>6, <2>2, SeqFacts DEF Enumerates
    <2>5. Enumerates(at, 0 .. n - 1)
        <3> HIDE DEF n
        <3> QED BY <2>4, PlacesEnumerate
    <2> HIDE DEF at
    <2>6. Enumerates(ordered, K)
        <3> DEFINE v == [x \in 0 .. n - 1 |-> timed[x + 1]]
        <3>1. \A x \in 0 .. n - 1 : x + 1 \in DOMAIN timed /\ v[x] = timed[x + 1]
            BY <2>4
        <3>2. \A k \in DOMAIN at : at[k] \in 0 .. n - 1
            BY <2>5 DEF Enumerates, Range
        <3>3. \A k \in DOMAIN at : ordered[k] = v[at[k]]
            BY <3>2
        <3>4. ordered = [k \in DOMAIN at |-> ordered[k]]
            OBVIOUS
        <3> HIDE DEF v, ordered, n
        <3>5. \A x \in 0 .. n - 1 : v[x] \in K
            BY <2>2, <3>1 DEF Enumerates, Range
        <3>6. \A y \in K : \E x \in 0 .. n - 1 : v[x] = y
            <4> TAKE y \in K
            <4>1. PICK k \in DOMAIN timed : timed[k] = y
                BY <2>2 DEF Enumerates, Range
            <4>2. k - 1 \in 0 .. n - 1 /\ (k - 1) + 1 = k
                BY <2>4
            <4> QED BY <3>1, <4>1, <4>2
        <3>7. \A x, y \in 0 .. n - 1 : v[x] = v[y] => x = y
            <4> SUFFICES ASSUME NEW x \in 0 .. n - 1, NEW y \in 0 .. n - 1, v[x] = v[y] PROVE x = y
                OBVIOUS
            <4>1. x + 1 = y + 1
                BY <2>2, <3>1 DEF Enumerates
            <4> QED BY <4>1
        <3> DEFINE P == 0 .. n - 1
        <3>8. /\ Enumerates(at, P) /\ \A x \in P : v[x] \in K
              /\ \A y \in K : \E x \in P : v[x] = y
              /\ \A x, y \in P : v[x] = v[y] => x = y
            BY <2>5, <3>5, <3>6, <3>7
        <3> HIDE DEF P
        <3>9. Along(ordered, at, P, v, K)
            BY <3>3, <3>4, <3>8 DEF Along
        <3> QED BY <3>9, MappedEnumerates
    <2> HIDE DEF ordered
    <2>7. Slots2(ordered, unknown) \in SUBSET (Nat \X Nat) /\ IsFiniteSet(Slots2(ordered, unknown))
        <3> DEFINE m == Len(ordered)
                   l == Len(unknown)
                   P == Slots2(ordered, unknown)
        <3>1. DOMAIN ordered = 1 .. m /\ DOMAIN unknown = 1 .. l /\ m \in Nat /\ l \in Nat
            BY <2>3, <2>6, SeqFacts DEF Enumerates
        <3> HIDE DEF m, l
        <3>2. P \in SUBSET ((1 .. m + l) \X (1 .. 2))
            BY <3>1 DEF Slots2
        <3> HIDE DEF P
        <3>3. IsFiniteSet(1 .. m + l) /\ IsFiniteSet(1 .. 2)
            <4>1. m + l \in Int /\ 1 \in Int /\ 2 \in Int
                BY <3>1
            <4> QED BY <4>1, FS_Interval
        <3>4. IsFiniteSet((1 .. m + l) \X (1 .. 2))
            BY <3>3, FS_Product
        <3>5. IsFiniteSet(P)
            BY <3>2, <3>4, FS_Subset
        <3>6. (1 .. m + l) \X (1 .. 2) \subseteq Nat \X Nat
            OBVIOUS
        <3>7. P \in SUBSET (Nat \X Nat)
            BY <3>2, <3>6
        <3> QED BY <3>5, <3>7 DEF P
    <2>8. Enumerates(order, Slots2(ordered, unknown))
        <3> DEFINE P == Slots2(ordered, unknown)
        <3>1. P \in SUBSET (Nat \X Nat) /\ IsFiniteSet(P)
            BY <2>7
        <3> HIDE DEF P
        <3>2. Enumerates(Ordered(P, LAMBDA a, b : a[1] < b[1] \/ (a[1] = b[1] /\ a[2] < b[2])), P)
            BY <3>1, SlotsListed
        <3> QED BY <3>2 DEF P
    <2> HIDE DEF order
    <2>9. K \cap (S \ K) = {} /\ K \cup (S \ K) = S
        BY <2>1
    <2>10. Enumerates(Interleaved(ordered, unknown, order), K \cup (S \ K))
        BY <2>3, <2>6, <2>8, <2>9, InterleaveEnumerates
    <2> QED BY <1>4, <1>6, <2>9, <2>10 DEF shown
<1> QED BY <1>5, <1>6 DEF shown

LEMMA PreferredEnumerates ==
    ASSUME NEW list, NEW S, Enumerates(list, S), NEW preferred
    PROVE  Enumerates(PreferredFirst(list, preferred), S)
<1> DEFINE s == At(list, {k \in DOMAIN list : list[k] \in preferred})
           t == At(list, {k \in DOMAIN list : list[k] \in S \ preferred})
<1>1. \A k \in DOMAIN list : list[k] \notin preferred <=> list[k] \in S \ preferred
    BY DEF Enumerates, Range
<1>2. {k \in DOMAIN list : list[k] \notin preferred} = {k \in DOMAIN list : list[k] \in S \ preferred}
    BY <1>1
<1>3. Filtered(list, LAMBDA i : i \in preferred) = s
    BY DEF Filtered, Ordered, Ascending, At
<1>4. Filtered(list, LAMBDA i : i \notin preferred) = t
    <2>1. Filtered(list, LAMBDA i : i \notin preferred) = At(list, {k \in DOMAIN list : list[k] \notin preferred})
        BY DEF Filtered, Ordered, Ascending, At
    <2> QED BY <1>2, <2>1
<1>5. PreferredFirst(list, preferred) = s \o t
    BY <1>3, <1>4 DEF PreferredFirst
<1>6. Enumerates(s, S \cap preferred) /\ Enumerates(t, S \cap (S \ preferred))
    BY KeptEnumerates
<1>7. (S \cap preferred) \cap (S \cap (S \ preferred)) = {} /\ (S \cap preferred) \cup (S \cap (S \ preferred)) = S
    OBVIOUS
<1> HIDE DEF s, t
<1>8. Enumerates(s \o t, (S \cap preferred) \cup (S \cap (S \ preferred)))
    BY <1>6, <1>7, JoinEnumerates
<1> QED BY <1>5, <1>7, <1>8

-----------------------------------------------------------------------------
(* Turns over groups.                                                      *)

RankOf(group, k) == Cardinality({j \in 1 .. k : group[j] = group[k]})
FirstOf(group, k) == CHOOSE j \in 1 .. k : /\ group[j] = group[k]
                                          /\ \A x \in 1 .. j - 1 : group[x] # group[k]
Sooner(group, D) ==
    {p \in D \X D : \/ RankOf(group, p[1]) < RankOf(group, p[2])
                    \/ RankOf(group, p[1]) = RankOf(group, p[2]) /\ FirstOf(group, p[1]) < FirstOf(group, p[2])}

LEMMA FirstFacts ==
    ASSUME NEW group, NEW k \in Nat \ {0}
    PROVE  FirstOf(group, k) \in 1 .. k /\ group[FirstOf(group, k)] = group[k]
<1> DEFINE T == {j \in 1 .. k : group[j] = group[k]}
<1>1. T \in SUBSET Nat /\ k \in T
    OBVIOUS
<1>2. PICK j \in T : \A i \in T : j <= i
    <2> HIDE DEF T
    <2> QED BY <1>1, LeastNumber
<1>3. j \in 1 .. k /\ group[j] = group[k]
    BY <1>2
<1>4. ASSUME NEW x \in 1 .. j - 1 PROVE group[x] # group[k]
    <2>1. x \in 1 .. k /\ ~(j <= x)
        BY <1>3
    <2> QED BY <1>2, <2>1
<1>5. \E i \in 1 .. k : group[i] = group[k] /\ \A x \in 1 .. i - 1 : group[x] # group[k]
    BY <1>3, <1>4
<1> QED BY <1>5 DEF FirstOf

LEMMA RankFacts ==
    ASSUME NEW group, NEW k \in Nat \ {0}
    PROVE  /\ RankOf(group, k) \in Nat \ {0}
           /\ IsFiniteSet({j \in 1 .. k : group[j] = group[k]})
           /\ \A j \in 1 .. k - 1 : group[j] = group[k] => RankOf(group, j) < RankOf(group, k)
<1> DEFINE T(i) == {j \in 1 .. i : group[j] = group[i]}
<1>1. \A i \in Nat : IsFiniteSet(T(i)) /\ Cardinality(T(i)) \in Nat
    <2> TAKE i \in Nat
    <2>1. IsFiniteSet(1 .. i)
        BY FS_Interval
    <2>2. T(i) \subseteq 1 .. i
        OBVIOUS
    <2> HIDE DEF T
    <2> QED BY <2>1, <2>2, FS_Subset, FS_CardinalityType
<1>2. k \in T(k)
    OBVIOUS
<1>3. ASSUME NEW j \in 1 .. k - 1, group[j] = group[k] PROVE T(j) \subseteq T(k) /\ k \notin T(j) /\ j \in Nat
    BY <1>3
<1>4. \A i \in Nat : RankOf(group, i) = Cardinality(T(i))
    BY DEF RankOf
<1>5. IsFiniteSet({j \in 1 .. k : group[j] = group[k]})
    BY <1>1
<1> HIDE DEF T
<1>6. Cardinality(T(k)) # 0
    BY <1>1, <1>2, FS_EmptySet
<1>7. ASSUME NEW j \in 1 .. k - 1, group[j] = group[k] PROVE Cardinality(T(j)) < Cardinality(T(k))
    <2>1. T(j) \subseteq T(k) /\ k \notin T(j) /\ j \in Nat
        BY <1>3, <1>7
    <2>2. T(j) # T(k)
        BY <1>2, <2>1
    <2>3. Cardinality(T(j)) <= Cardinality(T(k)) /\ (Cardinality(T(j)) = Cardinality(T(k)) => T(j) = T(k))
        BY <1>1, <2>1, FS_Subset
    <2> QED BY <1>1, <2>1, <2>2, <2>3
<1>8. k \in Nat /\ \A j \in 1 .. k - 1 : j \in Nat
    OBVIOUS
<1> QED BY <1>1, <1>4, <1>5, <1>6, <1>7, <1>8

LEMMA SoonerOrder ==
    ASSUME NEW n \in Nat, NEW group
    PROVE  TotalOrder(1 .. n, Sooner(group, 1 .. n))
<1> DEFINE D == 1 .. n
           R == Sooner(group, D)
           r == [k \in D |-> RankOf(group, k)]
           f == [k \in D |-> FirstOf(group, k)]
<1>1. \A k \in D : k \in Nat \ {0}
    OBVIOUS
<1>2. \A k \in D : r[k] \in Nat /\ f[k] \in Nat /\ group[f[k]] = group[k]
    <2> TAKE k \in D
    <2>1. FirstOf(group, k) \in 1 .. k /\ group[FirstOf(group, k)] = group[k]
        BY <1>1, FirstFacts
    <2>2. RankOf(group, k) \in Nat \ {0}
        BY <1>1, RankFacts
    <2>3. r[k] = RankOf(group, k) /\ f[k] = FirstOf(group, k)
        OBVIOUS
    <2> HIDE DEF r, f
    <2> QED BY <1>1, <2>1, <2>2, <2>3
<1>3. \A x, y \in D : <<x, y>> \in R <=> r[x] < r[y] \/ (r[x] = r[y] /\ f[x] < f[y])
    BY DEF Sooner
<1>4. ASSUME NEW x \in D, NEW y \in D, x < y, r[x] = r[y] PROVE f[x] # f[y]
    <2>1. x \in 1 .. y - 1
        BY <1>4
    <2>2. CASE group[x] = group[y]
        <3>1. RankOf(group, x) < RankOf(group, y)
            BY <1>1, <2>1, <2>2, RankFacts
        <3>2. r[x] < r[y]
            BY <3>1
        <3> QED BY <1>2, <1>4, <3>2
    <2>3. CASE group[x] # group[y]
        BY <1>2, <2>3
    <2> QED BY <2>2, <2>3
<1> HIDE DEF R, r, f
<1>5. \A x \in D : <<x, x>> \notin R
    BY <1>2, <1>3
<1>6. ASSUME NEW x \in D, NEW y \in D, x # y PROVE <<x, y>> \in R \/ <<y, x>> \in R
    <2>1. x < y \/ y < x
        BY <1>1, <1>6
    <2>2. r[x] # r[y] \/ f[x] # f[y]
        BY <1>4, <2>1
    <2> QED BY <1>2, <1>3, <2>2
<1>7. ASSUME NEW x \in D, NEW y \in D, NEW z \in D, <<x, y>> \in R, <<y, z>> \in R PROVE <<x, z>> \in R
    <2>1. /\ r[x] < r[y] \/ (r[x] = r[y] /\ f[x] < f[y])
          /\ r[y] < r[z] \/ (r[y] = r[z] /\ f[y] < f[z])
        BY <1>3, <1>7
    <2>2. r[x] < r[z] \/ (r[x] = r[z] /\ f[x] < f[z])
        BY <1>2, <2>1
    <2> QED BY <1>3, <2>2
<1> HIDE DEF D
<1>8. TotalOrder(D, R)
    BY <1>5, <1>6, <1>7 DEF TotalOrder
<1> QED BY <1>8 DEF D, R

\* u takes the rows in the order of their turns.
ByTurns(u, rows, group, order) ==
    /\ Lists(order, DOMAIN rows, Sooner(group, DOMAIN rows))
    /\ TotalOrder(DOMAIN rows, Sooner(group, DOMAIN rows))
    /\ u = [k \in DOMAIN order |-> rows[order[k]]]

LEMMA RoundRobinTurns ==
    ASSUME NEW rows, IsSeq(rows), NEW group
    PROVE  \E order : ByTurns(RoundRobin(rows, group), rows, group, order)
<1> DEFINE D == DOMAIN rows
           R == Sooner(group, D)
           Less(a, b) == \/ RankOf(group, a) < RankOf(group, b)
                         \/ RankOf(group, a) = RankOf(group, b) /\ FirstOf(group, a) < FirstOf(group, b)
           Choice(k) == CHOOSE x \in D : Cardinality({y \in D : Less(y, x)}) = k - 1
           order == [k \in 1 .. Cardinality(D) |-> Choice(k)]
<1>1. D = 1 .. Len(rows) /\ Len(rows) \in Nat
    BY SeqFacts
<1>2. RoundRobin(rows, group) = [k \in DOMAIN order |-> rows[order[k]]]
    BY DEF RoundRobin, Ordered, RankOf, FirstOf
<1>3. \A x, y \in D : <<x, y>> \in R <=> Less(x, y)
    BY DEF Sooner
<1> HIDE DEF Less, R
<1>4. \A x \in D : Below(D, R, x) = {y \in D : Less(y, x)}
    BY <1>3 DEF Below
<1>5. TotalOrder(D, R) /\ IsFiniteSet(D)
    BY <1>1, SoonerOrder, RangeFinite DEF R
<1> HIDE DEF D
<1>6. ASSUME NEW k \in 1 .. Cardinality(D) PROVE order[k] = Listing(D, R)[k]
    <2>1. (CHOOSE x \in D : Cardinality(Below(D, R, x)) = k - 1) = Choice(k)
        BY <1>4
    <2>2. Listing(D, R)[k] = CHOOSE x \in D : Cardinality(Below(D, R, x)) = k - 1
        BY DEF Listing
    <2>3. order[k] = Choice(k)
        <3> HIDE DEF Choice
        <3> QED OBVIOUS
    <2> QED BY <2>1, <2>2, <2>3, Zenon
<1>7. order = Listing(D, R)
    <2>1. Listing(D, R) = [k \in 1 .. Cardinality(D) |-> Listing(D, R)[k]]
        BY DEF Listing
    <2>2. order = [k \in 1 .. Cardinality(D) |-> order[k]]
        <3> HIDE DEF Choice
        <3> QED OBVIOUS
    <2> HIDE DEF order
    <2> QED BY <1>6, <2>1, <2>2
<1> HIDE DEF order
<1>8. Lists(order, D, R)
    BY <1>5, <1>7, Listed
<1>9. ByTurns(RoundRobin(rows, group), rows, group, order)
    BY <1>2, <1>5, <1>8 DEF ByTurns, D, R
<1> QED BY <1>9

LEMMA TurnsEnumerate ==
    ASSUME NEW rows, NEW S, Enumerates(rows, S), NEW group, NEW u, NEW order, ByTurns(u, rows, group, order)
    PROVE  /\ Enumerates(u, S) /\ Len(u) = Len(order) /\ DOMAIN u = DOMAIN order
           /\ \A k \in DOMAIN u : u[k] = rows[order[k]]
<1> DEFINE D == DOMAIN rows
<1>1. Enumerates(order, D)
    BY ListsEnumerates DEF ByTurns
<1>2. u = [k \in DOMAIN order |-> u[k]] /\ \A k \in DOMAIN order : u[k] = rows[order[k]]
    BY DEF ByTurns
<1>3. /\ \A x \in D : rows[x] \in S
      /\ \A y \in S : \E x \in D : rows[x] = y
      /\ \A x, y \in D : rows[x] = rows[y] => x = y
    BY DEF Enumerates, Range
<1> HIDE DEF D
<1>4. Along(u, order, D, rows, S)
    BY <1>1, <1>2, <1>3 DEF Along
<1> QED BY <1>2, <1>4, MappedEnumerates

LEMMA RoundRobinEnumerates ==
    ASSUME NEW rows, NEW S, Enumerates(rows, S), NEW group
    PROVE  Enumerates(RoundRobin(rows, group), S)
<1>1. IsSeq(rows)
    BY DEF Enumerates
<1>2. PICK order : ByTurns(RoundRobin(rows, group), rows, group, order)
    BY <1>1, RoundRobinTurns
<1> QED BY <1>2, TurnsEnumerate

-----------------------------------------------------------------------------
(* Sequences one after the other, and what begins them.                    *)

\* c[i] is the first i of ss, joined.
Chains(c, ss) ==
    /\ c[1] = ss[1]
    /\ \A i \in 2 .. Len(ss) : c[i] = c[i - 1] \o ss[i]

LEMMA FlattenChain ==
    ASSUME NEW ss, IsSeq(ss), \A k \in DOMAIN ss : IsSeq(ss[k]), Len(ss) # 0
    PROVE  \E c : Chains(c, ss) /\ FlattenSeq(ss) = c[Len(ss)]
<1> DEFINE n == Len(ss)
           S == UNION {Range(ss[k]) : k \in DOMAIN ss}
           c == CHOOSE f : f = [i \in 1 .. n |-> IF i = 1 THEN ss[i] ELSE f[i - 1] \o ss[i]]
<1>0. n \in Nat /\ DOMAIN ss = 1 .. n /\ ss = [k \in 1 .. n |-> ss[k]]
    BY SeqFacts
<1>1. ss \in Seq(Seq(S))
    <2>1. ASSUME NEW k \in DOMAIN ss PROVE ss[k] \in Seq(S)
        <3>1. Range(ss[k]) \subseteq S
            OBVIOUS
        <3>2. ss[k] \in Seq(Range(ss[k]))
            BY DEF IsSeq
        <3> HIDE DEF S
        <3> QED BY <3>1, <3>2
    <2> HIDE DEF S, n
    <2>2. ss \in [1 .. n -> Seq(S)]
        BY <1>0, <2>1
    <2> QED BY <1>0, <2>2
<1>2. PICK g : Joins(g, ss, n)
    <2> HIDE DEF n, S
    <2>1. n \in Nat /\ n <= Len(ss)
        BY <1>0 DEF n
    <2> QED BY <1>1, <2>1, JoinExists
<1>3. \E f : f = [i \in 1 .. n |-> IF i = 1 THEN ss[i] ELSE f[i - 1] \o ss[i]]
    BY <1>2, Zenon DEF Joins
<1>4. c = [i \in 1 .. n |-> IF i = 1 THEN ss[i] ELSE c[i - 1] \o ss[i]]
    BY <1>3
<1>5. FlattenSeq(ss) = c[n]
    BY DEF FlattenSeq
<1> HIDE DEF c
<1>6. c[1] = ss[1] /\ \A i \in 2 .. n : c[i] = c[i - 1] \o ss[i]
    <2>1. 1 \in 1 .. n /\ \A i \in 2 .. n : i \in 1 .. n /\ i # 1
        BY <1>0
    <2> DEFINE G(i) == IF i = 1 THEN ss[i] ELSE c[i - 1] \o ss[i]
    <2>2. c = [i \in 1 .. n |-> G(i)]
        BY <1>4
    <2> HIDE DEF G
    <2>3. \A i \in 1 .. n : c[i] = G(i)
        BY <2>2
    <2> QED BY <2>1, <2>3 DEF G
<1> QED BY <1>5, <1>6 DEF Chains

\* ss[k] enumerates X[k], and no two of them meet.
Separates(ss, X) ==
    /\ IsSeq(ss)
    /\ \A k \in DOMAIN ss : Enumerates(ss[k], X[k])
    /\ \A j, k \in DOMAIN ss : j # k => X[j] \cap X[k] = {}

\* u begins with s.
Begins(u, s) == IsSeq(u) /\ IsSeq(s) /\ \A k \in DOMAIN s : k \in DOMAIN u /\ u[k] = s[k]

LEMMA FlattenEnumerates ==
    ASSUME NEW ss, NEW X, Separates(ss, X)
    PROVE  /\ Enumerates(FlattenSeq(ss), UNION {X[k] : k \in DOMAIN ss})
           /\ Len(ss) # 0 => Begins(FlattenSeq(ss), ss[1])
           /\ Len(ss) = 1 => FlattenSeq(ss) = ss[1]
<1> DEFINE n == Len(ss)
<1>0. n \in Nat /\ DOMAIN ss = 1 .. n /\ \A k \in 1 .. n : Enumerates(ss[k], X[k]) /\ IsSeq(ss[k])
    BY SeqFacts DEF Separates, Enumerates
<1>1. CASE n = 0
    <2>1. FlattenSeq(ss) = ss /\ ss = <<>> /\ DOMAIN ss = {}
        BY <1>0, <1>1, SeqFacts DEF FlattenSeq, Separates
    <2>2. Enumerates(<<>>, {})
        BY EmptyIsSeq DEF Enumerates, Range
    <2>3. UNION {X[k] : k \in DOMAIN ss} = {}
        BY <2>1
    <2> QED BY <1>1, <2>1, <2>2, <2>3
<1>2. CASE n # 0
    <2>1. PICK c : Chains(c, ss) /\ FlattenSeq(ss) = c[n]
        <3>1. IsSeq(ss) /\ \A k \in DOMAIN ss : IsSeq(ss[k])
            BY <1>0 DEF Separates
        <3> QED BY <1>2, <3>1, FlattenChain
    <2>2. c[1] = ss[1] /\ \A i \in 2 .. n : c[i] = c[i - 1] \o ss[i]
        BY <2>1 DEF Chains
    <2> DEFINE U(i) == UNION {X[k] : k \in 1 .. i}
               T == {i \in Nat : i + 1 \in 1 .. n => Enumerates(c[i + 1], U(i + 1)) /\ Begins(c[i + 1], ss[1])}
    <2>3. 0 \in T
        <3>1. 0 + 1 = 1 /\ 1 \in 1 .. n /\ {X[k] : k \in 1 .. 1} = {X[1]}
            BY <1>0, <1>2
        <3>2. U(1) = X[1]
            BY <3>1
        <3> HIDE DEF U
        <3>3. Enumerates(c[1], U(1)) /\ Begins(c[1], ss[1])
            BY <1>0, <2>2, <3>1, <3>2 DEF Begins
        <3> QED BY <3>1, <3>3
    <2>4. ASSUME NEW i \in Nat, i \in T PROVE i + 1 \in T
        <3> DEFINE j == i + 1
        <3> SUFFICES ASSUME j + 1 \in 1 .. n PROVE Enumerates(c[j + 1], U(j + 1)) /\ Begins(c[j + 1], ss[1])
            OBVIOUS
        <3>1. j \in 1 .. n /\ j + 1 \in 2 .. n /\ (j + 1) - 1 = j /\ 1 .. j + 1 = (1 .. j) \cup {j + 1} /\ j + 1 \notin 1 .. j
            BY <1>0
        <3>2. Enumerates(c[j], U(j)) /\ Begins(c[j], ss[1])
            BY <2>4, <3>1
        <3>3. c[j + 1] = c[j] \o ss[j + 1] /\ Enumerates(ss[j + 1], X[j + 1])
            BY <1>0, <2>2, <3>1
        <3>4. U(j + 1) = U(j) \cup X[j + 1]
            <4> HIDE DEF j
            <4> QED BY <3>1, Zenon
        <3>5. U(j) \cap X[j + 1] = {}
            <4>1. \A k \in 1 .. j : X[k] \cap X[j + 1] = {}
                <5> TAKE k \in 1 .. j
                <5>1. k \in DOMAIN ss /\ j + 1 \in DOMAIN ss /\ k # j + 1
                    BY <1>0, <3>1
                <5> QED BY <5>1 DEF Separates
            <4> HIDE DEF j
            <4> QED BY <4>1
        <3> HIDE DEF U, j
        <3>6. Enumerates(c[j] \o ss[j + 1], U(j) \cup X[j + 1])
            BY <3>2, <3>3, <3>5, JoinEnumerates
        <3>7. Joined(c[j] \o ss[j + 1], c[j], ss[j + 1])
            BY <3>2, <3>3, ConcatIsSeq DEF Enumerates
        <3>8. Begins(c[j + 1], ss[1])
            BY <3>2, <3>3, <3>7, Zenon DEF Begins, Joined
        <3> QED BY <3>3, <3>4, <3>6, <3>8
    <2> HIDE DEF T
    <2>5. Nat \subseteq T
        BY <2>3, <2>4, NumbersByInduction
    <2>6. n - 1 \in Nat /\ (n - 1) + 1 = n /\ n \in 1 .. n
        BY <1>0, <1>2
    <2>7. Enumerates(c[n], U(n)) /\ Begins(c[n], ss[1])
        BY <2>5, <2>6 DEF T
    <2>8. n = 1 => c[n] = ss[1]
        BY <2>2
    <2> QED BY <1>0, <2>1, <2>7, <2>8
<1> QED BY <1>1, <1>2

LEMMA OfferedEnumerates ==
    ASSUME NEW rows, TimedRecords(rows), NEW q, NEW preferred
    PROVE  Enumerates(OfferedRows(rows, q, preferred), RowsOf(rows, q.id))
<1> DEFINE S == RowsOf(rows, q.id)
           listed == Ordered(S, <)
           spread == SpreadEvidenceInTime(rows, listed)
           first == PreferredFirst(spread, preferred)
<1>1. IsSeq(rows) /\ IsFiniteSet(DOMAIN rows) /\ DOMAIN rows \subseteq Nat
    BY RangeFinite, SeqFacts DEF TimedRecords
<1>2. S \in SUBSET DOMAIN rows
    BY DEF RowsOf
<1>3. OfferedRows(rows, q, preferred) = BySource(rows, first, q.pairs)
    BY DEF OfferedRows
<1> HIDE DEF S
<1>4. S \in SUBSET Nat /\ IsFiniteSet(S)
    BY <1>1, <1>2, FS_Subset
<1>5. Enumerates(listed, S)
    <2>1. PICK R : Lists(Ascending(S), S, R)
        BY <1>4, NumbersListed
    <2> QED BY <2>1, OrderedNumbers, ListsEnumerates
<1> HIDE DEF listed
<1>6. Enumerates(spread, S)
    BY <1>2, <1>5, SpreadInTimeEnumerates
<1> HIDE DEF spread
<1>7. Enumerates(first, S)
    BY <1>6, PreferredEnumerates
<1> HIDE DEF first
<1>8. Enumerates(BySource(rows, first, q.pairs), S)
    BY <1>7, RoundRobinEnumerates DEF BySource
<1> QED BY <1>3, <1>8 DEF S

\* The rows of the searches ids, in the order they are offered.
Offer(qs, rows, ids, preferred) ==
    LET chosen == Filtered(qs, LAMBDA q : q.id \in ids)
    IN  FlattenSeq([k \in DOMAIN chosen |-> OfferedRows(rows, chosen[k], preferred)])

\* Every row is of one of the searches, which have an id each.
RowsOfSearches(qs, rows) ==
    /\ IsSeq(qs) /\ TimedRecords(rows)
    /\ \A j, k \in DOMAIN qs : qs[j].id = qs[k].id => j = k
    /\ \A i \in DOMAIN rows : rows[i].query \in {q.id : q \in Range(qs)}

LEMMA OfferEnumerates ==
    ASSUME NEW qs, NEW rows, RowsOfSearches(qs, rows), NEW preferred
    PROVE  Enumerates(Offer(qs, rows, {q.id : q \in Range(qs)}, preferred), DOMAIN rows)
<1> DEFINE ids == {q.id : q \in Range(qs)}
           D == {k \in DOMAIN qs : qs[k].id \in ids}
           chosen == At(qs, D)
           ss == [k \in DOMAIN chosen |-> OfferedRows(rows, chosen[k], preferred)]
           X == [k \in DOMAIN chosen |-> RowsOf(rows, chosen[k].id)]
<1>0. IsSeq(qs) /\ TimedRecords(rows)
    BY DEF RowsOfSearches
<1>1. Filtered(qs, LAMBDA q : q.id \in ids) = chosen
    BY DEF Filtered, Ordered, Ascending, At
<1>2. Offer(qs, rows, ids, preferred) = FlattenSeq(ss)
    <2> DEFINE f == Filtered(qs, LAMBDA q : q.id \in ids)
    <2>1. Offer(qs, rows, ids, preferred) = FlattenSeq([k \in DOMAIN f |-> OfferedRows(rows, f[k], preferred)])
        BY DEF Offer
    <2> HIDE DEF f, chosen
    <2>2. f = chosen
        BY <1>1 DEF f
    <2> QED BY <2>1, <2>2
<1>3. \A k \in DOMAIN qs : k \in D
    BY DEF Range
<1>4. D \in SUBSET DOMAIN qs
    OBVIOUS
<1> HIDE DEF D
<1>5. /\ IsSeq(chosen)
      /\ \A k \in DOMAIN chosen : Ascending(D)[k] \in D /\ chosen[k] = qs[Ascending(D)[k]]
      /\ \A d \in D : \E k \in DOMAIN chosen : Ascending(D)[k] = d
      /\ \A j, k \in DOMAIN chosen : j < k => Ascending(D)[j] < Ascending(D)[k]
    BY <1>0, <1>4, AtIsSeq
<1> HIDE DEF chosen
<1>6. DOMAIN chosen = 1 .. Len(chosen) /\ Len(chosen) \in Nat
    BY <1>5, SeqFacts
<1>7. \A j, k \in DOMAIN chosen : chosen[j].id = chosen[k].id => j = k
    <2> SUFFICES ASSUME NEW j \in DOMAIN chosen, NEW k \in DOMAIN chosen, chosen[j].id = chosen[k].id, j # k PROVE FALSE
        OBVIOUS
    <2>1. j < k \/ k < j
        BY <1>6
    <2>2. Ascending(D)[j] \in DOMAIN qs /\ Ascending(D)[k] \in DOMAIN qs
        BY <1>4, <1>5
    <2>3. Ascending(D)[j] \in Nat /\ Ascending(D)[k] \in Nat
        BY <1>0, <2>2, SeqFacts
    <2>4. Ascending(D)[j] = Ascending(D)[k]
        BY <1>5, <2>2 DEF RowsOfSearches
    <2> QED BY <1>5, <2>1, <2>3, <2>4
<1>8. DOMAIN ss = DOMAIN chosen /\ DOMAIN X = DOMAIN chosen
    OBVIOUS
<1>9. IsSeq(ss)
    <2>1. ss = [k \in 1 .. Len(chosen) |-> ss[k]]
        BY <1>6
    <2> HIDE DEF ss
    <2> QED BY <1>6, <2>1, FunctionIsSeq
<1>10. \A k \in DOMAIN ss : Enumerates(ss[k], X[k])
    BY <1>0, OfferedEnumerates
<1>11. \A j, k \in DOMAIN ss : j # k => X[j] \cap X[k] = {}
    BY <1>7 DEF RowsOf
<1>12. UNION {X[k] : k \in DOMAIN ss} = DOMAIN rows
    <2>1. \A k \in DOMAIN chosen : X[k] \subseteq DOMAIN rows
        BY DEF RowsOf
    <2>2. ASSUME NEW i \in DOMAIN rows PROVE \E k \in DOMAIN chosen : i \in X[k]
        <3>1. PICK d \in DOMAIN qs : rows[i].query = qs[d].id
            BY DEF RowsOfSearches, Range
        <3>2. PICK k \in DOMAIN chosen : chosen[k] = qs[d]
            BY <1>3, <1>5
        <3> QED BY <3>1, <3>2 DEF RowsOf
    <2> HIDE DEF X, ss
    <2> QED BY <1>8, <2>1, <2>2
<1> HIDE DEF ss, X
<1>13. Separates(ss, X)
    BY <1>9, <1>10, <1>11 DEF Separates
<1>14. Enumerates(FlattenSeq(ss), DOMAIN rows)
    BY <1>12, <1>13, FlattenEnumerates
<1> QED BY <1>2, <1>14

-----------------------------------------------------------------------------
(* The passes of a sample.                                                 *)

LEMMA PassIs ==
    ASSUME NEW requested, IsSeq(requested), NEW i
    PROVE  /\ Pass(i, requested) \in 1 .. Len(requested) + 1
           /\ Pass(i, requested) <= Len(requested) => i \in requested[Pass(i, requested)]
           /\ \A h \in 1 .. Pass(i, requested) - 1 : i \notin requested[h]
<1> DEFINE n == Len(requested)
           T == {g \in 1 .. n + 1 : g <= n => i \in requested[g]}
           First(g) == (g <= n => i \in requested[g]) /\ \A h \in 1 .. g - 1 : i \notin requested[h]
<1>1. n \in Nat
    BY SeqFacts
<1>2. Pass(i, requested) = CHOOSE g \in 1 .. n + 1 : First(g)
    BY DEF Pass
<1> HIDE DEF n
<1>3. T \in SUBSET Nat /\ n + 1 \in T
    BY <1>1
<1>4. PICK g \in T : \A h \in T : g <= h
    <2> HIDE DEF T
    <2> QED BY <1>3, LeastNumber
<1>5. g \in 1 .. n + 1 /\ (g <= n => i \in requested[g])
    BY <1>4
<1>6. ASSUME NEW h \in 1 .. g - 1 PROVE i \notin requested[h]
    <2>1. h \in 1 .. n + 1 /\ ~(g <= h)
        BY <1>1, <1>5
    <2> QED BY <1>4, <2>1
<1>7. \E x \in 1 .. n + 1 : First(x)
    BY <1>5, <1>6
<1>8. Pass(i, requested) \in 1 .. n + 1 /\ First(Pass(i, requested))
    <2> HIDE DEF First
    <2> QED BY <1>2, <1>7
<1> QED BY <1>8 DEF n

\* The rows each pass takes, and in which order.
PassesAre(ss, X, rows, offered, S, requested) ==
    /\ Len(ss) = Len(requested) + 1 /\ Separates(ss, X)
    /\ InPasses(rows, offered, requested) = FlattenSeq(ss)
    /\ \A g \in DOMAIN ss : /\ X[g] = {i \in S : Pass(i, requested) = g}
                            /\ ss[g] = BySearch(rows, At(offered, {k \in DOMAIN offered : offered[k] \in X[g]}))
    /\ UNION {X[g] : g \in DOMAIN ss} = S

LEMMA PassesExist ==
    ASSUME NEW rows, NEW S, NEW offered, Enumerates(offered, S), NEW requested, IsSeq(requested)
    PROVE  \E ss, X : PassesAre(ss, X, rows, offered, S, requested)
<1> DEFINE n == Len(requested)
           X == [g \in 1 .. n + 1 |-> {i \in S : Pass(i, requested) = g}]
           Kept(g) == At(offered, {k \in DOMAIN offered : offered[k] \in X[g]})
           ss == [g \in 1 .. n + 1 |-> BySearch(rows, Kept(g))]
           Passing(g) == Filtered(offered, LAMBDA i : Pass(i, requested) = g)
<1>1. n \in Nat /\ n + 1 \in Nat
    BY SeqFacts
<1>2. \A k \in DOMAIN offered : offered[k] \in S
    BY DEF Enumerates, Range
<1>3. ASSUME NEW g \in 1 .. n + 1 PROVE Passing(g) = Kept(g)
    <2>1. {k \in DOMAIN offered : Pass(offered[k], requested) = g} = {k \in DOMAIN offered : offered[k] \in X[g]}
        BY <1>2
    <2>2. Passing(g) = At(offered, {k \in DOMAIN offered : Pass(offered[k], requested) = g})
        BY DEF Filtered, Ordered, Ascending, At
    <2> HIDE DEF X
    <2> QED BY <2>1, <2>2
<1>4. InPasses(rows, offered, requested) = FlattenSeq([g \in 1 .. n + 1 |-> BySearch(rows, Passing(g))])
    BY DEF InPasses
<1>5. \A g \in 1 .. n + 1 : Enumerates(Kept(g), X[g])
    <2> TAKE g \in 1 .. n + 1
    <2>1. Enumerates(Kept(g), S \cap X[g])
        <3> HIDE DEF X
        <3> QED BY KeptEnumerates
    <2>2. S \cap X[g] = X[g]
        OBVIOUS
    <2> HIDE DEF X, Kept
    <2> QED BY <2>1, <2>2
<1> HIDE DEF Passing, Kept
<1>6. [g \in 1 .. n + 1 |-> BySearch(rows, Passing(g))] = ss
    BY <1>3
<1>7. DOMAIN ss = 1 .. n + 1 /\ \A g \in 1 .. n + 1 : ss[g] = BySearch(rows, Kept(g))
    OBVIOUS
<1>8. IsSeq(ss) /\ Len(ss) = n + 1
    <2>1. ss = [g \in 1 .. n + 1 |-> ss[g]]
        OBVIOUS
    <2> DEFINE m == n + 1
    <2>2. m \in Nat /\ ss = [g \in 1 .. m |-> ss[g]]
        BY <1>1, <2>1
    <2> HIDE DEF ss, m
    <2>3. IsSeq(ss) /\ Len(ss) = m
        BY <2>2, FunctionIsSeq
    <2> QED BY <2>3 DEF m
<1>9. \A g \in DOMAIN ss : Enumerates(ss[g], X[g])
    <2> TAKE g \in DOMAIN ss
    <2>1. Enumerates(Kept(g), X[g]) /\ ss[g] = BySearch(rows, Kept(g))
        BY <1>5, <1>7
    <2> HIDE DEF X, ss
    <2> QED BY <2>1, RoundRobinEnumerates DEF BySearch
<1>10. \A j, k \in DOMAIN ss : j # k => X[j] \cap X[k] = {}
    BY <1>7
<1>11. UNION {X[g] : g \in DOMAIN ss} = S
    <2>1. \A g \in DOMAIN ss : X[g] \subseteq S
        BY <1>7
    <2>2. ASSUME NEW i \in S PROVE \E g \in DOMAIN ss : i \in X[g]
        <3>1. Pass(i, requested) \in 1 .. n + 1
            BY PassIs
        <3> HIDE DEF n
        <3> QED BY <1>7, <3>1
    <2> HIDE DEF ss, X
    <2> QED BY <2>1, <2>2
<1>12. \A g \in DOMAIN ss : X[g] = {i \in S : Pass(i, requested) = g}
    BY <1>7
<1>13. \A g \in DOMAIN ss : ss[g] = BySearch(rows, At(offered, {k \in DOMAIN offered : offered[k] \in X[g]}))
    BY <1>7 DEF Kept
<1> HIDE DEF ss, X
<1>14. PassesAre(ss, X, rows, offered, S, requested)
    BY <1>4, <1>6, <1>8, <1>9, <1>10, <1>11, <1>12, <1>13 DEF PassesAre, Separates
<1> QED BY <1>14

\* u has all rows, those of the first requested page first; without a page,
\* the searches take turns.
Supplies(u, rows, S, requested) ==
    /\ Enumerates(u, S)
    /\ Len(requested) # 0 => \E s : Enumerates(s, S \cap requested[1]) /\ Begins(u, s)
    /\ Len(requested) = 0 => \E f : Enumerates(f, S) /\ u = BySearch(rows, f)

LEMMA PassesEnumerate ==
    ASSUME NEW rows, NEW S, NEW offered, Enumerates(offered, S), NEW requested, IsSeq(requested)
    PROVE  Supplies(InPasses(rows, offered, requested), rows, S, requested)
<1> DEFINE u == InPasses(rows, offered, requested)
<1>0. Len(requested) \in Nat
    BY SeqFacts
<1>1. PICK ss, X : PassesAre(ss, X, rows, offered, S, requested)
    BY PassesExist
<1>2. Separates(ss, X) /\ u = FlattenSeq(ss) /\ Len(ss) = Len(requested) + 1 /\ UNION {X[g] : g \in DOMAIN ss} = S
    BY <1>1 DEF PassesAre
<1>3. /\ Enumerates(u, UNION {X[g] : g \in DOMAIN ss}) /\ Begins(u, ss[1])
      /\ Len(ss) = 1 => u = ss[1]
    <2>1. Len(ss) # 0
        BY <1>0, <1>2
    <2> HIDE DEF u
    <2>2. /\ Enumerates(FlattenSeq(ss), UNION {X[g] : g \in DOMAIN ss}) /\ Begins(FlattenSeq(ss), ss[1])
          /\ Len(ss) = 1 => FlattenSeq(ss) = ss[1]
        BY <1>2, <2>1, FlattenEnumerates
    <2> QED BY <1>2, <2>2
<1>4. 1 \in DOMAIN ss /\ DOMAIN ss = 1 .. Len(requested) + 1
    <2>1. DOMAIN ss = 1 .. Len(ss)
        BY <1>2, SeqFacts DEF Separates
    <2> QED BY <1>0, <1>2, <2>1
<1>5. Enumerates(ss[1], X[1]) /\ X[1] = {i \in S : Pass(i, requested) = 1}
    BY <1>1, <1>4 DEF PassesAre, Separates
<1>6. ASSUME Len(requested) # 0 PROVE X[1] = S \cap requested[1]
    <2>1. ASSUME NEW i PROVE Pass(i, requested) = 1 <=> i \in requested[1]
        <3>1. /\ Pass(i, requested) \in 1 .. Len(requested) + 1
              /\ Pass(i, requested) <= Len(requested) => i \in requested[Pass(i, requested)]
              /\ \A h \in 1 .. Pass(i, requested) - 1 : i \notin requested[h]
            BY PassIs
        <3>2. CASE Pass(i, requested) = 1
            BY <1>0, <1>6, <3>1, <3>2
        <3>3. CASE Pass(i, requested) # 1
            <4>1. 1 \in 1 .. Pass(i, requested) - 1
                BY <1>0, <3>1, <3>3
            <4> QED BY <3>1, <3>3, <4>1
        <3> QED BY <3>2, <3>3
    <2> QED BY <1>5, <2>1
<1>7. ASSUME Len(requested) = 0 PROVE X[1] = S
    <2>1. DOMAIN ss = {1}
        BY <1>4, <1>7
    <2> QED BY <1>2, <2>1
<1>8. ASSUME Len(requested) = 0 PROVE \E f : Enumerates(f, S) /\ u = BySearch(rows, f)
    <2> DEFINE f == At(offered, {k \in DOMAIN offered : offered[k] \in X[1]})
    <2>1. ss[1] = BySearch(rows, f)
        BY <1>1, <1>4 DEF PassesAre
    <2>2. Enumerates(f, S \cap X[1])
        BY KeptEnumerates
    <2>3. Len(ss) = 1 /\ S \cap X[1] = S
        BY <1>2, <1>7, <1>8
    <2> HIDE DEF f, u
    <2> QED BY <1>3, <2>1, <2>2, <2>3
<1> HIDE DEF u
<1>9. Len(requested) # 0 => \E s : Enumerates(s, S \cap requested[1]) /\ Begins(u, s)
    BY <1>3, <1>5, <1>6
<1>10. Enumerates(u, S)
    BY <1>2, <1>3
<1>11. Supplies(u, rows, S, requested)
    BY <1>8, <1>9, <1>10 DEF Supplies
<1> QED BY <1>11 DEF u

-----------------------------------------------------------------------------
(* The rows a sample is cut to.                                            *)

LEMMA CutEnumerates ==
    ASSUME NEW u, NEW S, Enumerates(u, S), NEW limit \in Nat
    PROVE  LET sample == Cut(u, limit) IN
           /\ Enumerates(sample, Range(sample)) /\ Range(sample) \subseteq S
           /\ Len(sample) = Shortest(limit, Cardinality(S)) /\ Cardinality(Range(sample)) = Len(sample)
           /\ DOMAIN sample = 1 .. Len(sample) /\ Len(sample) \in Nat /\ Len(sample) <= Len(u)
           /\ \A k \in DOMAIN sample : k \in DOMAIN u /\ sample[k] = u[k]
           /\ \A s, N : Enumerates(s, N) /\ Begins(u, s) => N \subseteq Range(sample) \/ Range(sample) \subseteq N
<1> DEFINE sample == Cut(u, limit)
<1>1. IsSeq(u) /\ Range(u) = S /\ \A j, k \in DOMAIN u : u[j] = u[k] => j = k
    BY DEF Enumerates
<1>2. /\ IsSeq(sample) /\ Range(sample) \subseteq S
      /\ Len(sample) = Shortest(limit, Len(u))
      /\ \A k \in DOMAIN sample : k \in DOMAIN u /\ sample[k] = u[k]
    <2>1. limit \in Int /\ ~(limit < 0)
        OBVIOUS
    <2> QED BY <1>1, <2>1, CutIsSeq
<1>3. Len(u) = Cardinality(S) /\ Len(u) \in Nat
    BY EnumeratesCardinality
<1> HIDE DEF sample
<1>4. Enumerates(sample, Range(sample))
    BY <1>1, <1>2 DEF Enumerates
<1>5. Cardinality(Range(sample)) = Len(sample) /\ Len(sample) \in Nat
    BY <1>4, EnumeratesCardinality
<1>6. DOMAIN sample = 1 .. Len(sample)
    BY <1>2, SeqFacts
<1>7. Len(sample) <= Len(u)
    BY <1>2, <1>3 DEF Shortest
<1>8. ASSUME NEW s, NEW N, Enumerates(s, N), Begins(u, s) PROVE N \subseteq Range(sample) \/ Range(sample) \subseteq N
    <2>1. DOMAIN s = 1 .. Len(s) /\ Len(s) \in Nat /\ Range(s) = N
        BY <1>8, SeqFacts DEF Enumerates
    <2>2. CASE Len(s) <= Len(sample)
        <3>1. ASSUME NEW x \in N PROVE x \in Range(sample)
            <4>1. PICK k \in DOMAIN s : s[k] = x
                BY <2>1 DEF Range
            <4>2. k \in DOMAIN sample
                BY <1>5, <1>6, <2>1, <2>2
            <4>3. sample[k] = x
                BY <1>2, <1>8, <4>1, <4>2 DEF Begins
            <4> QED BY <4>2, <4>3 DEF Range
        <3> QED BY <3>1
    <2>3. CASE ~(Len(s) <= Len(sample))
        <3>1. ASSUME NEW x \in Range(sample) PROVE x \in N
            <4>1. PICK k \in DOMAIN sample : sample[k] = x
                BY DEF Range
            <4>2. k \in DOMAIN s
                BY <1>5, <1>6, <2>1, <2>3
            <4>3. s[k] = x
                BY <1>2, <1>8, <4>1, <4>2 DEF Begins
            <4> QED BY <2>1, <4>2, <4>3 DEF Range
        <3> QED BY <3>1
    <2> QED BY <2>2, <2>3
<1> QED BY <1>2, <1>3, <1>4, <1>5, <1>6, <1>7, <1>8 DEF sample

\* A place is taken after every sooner one.
InTurn(A, group, n) == \A x \in A : \A y \in 1 .. n : <<y, x>> \in Sooner(group, 1 .. n) => y \in A

\* q is short of a place of 1 .. n.
Short(A, group, n, q) ==
    /\ n \in Nat /\ A \in SUBSET (1 .. n) /\ InTurn(A, group, n)
    /\ \E z \in 1 .. n : z \notin A /\ group[z] = q

Of(A, group, x) == {j \in A : group[j] = x}

\* Of places taken by turns, a group that misses one has at most one fewer.
LEMMA TurnsBalance ==
    ASSUME NEW n, NEW group, NEW A, NEW p, NEW q, Short(A, group, n, q)
    PROVE  Cardinality(Of(A, group, p)) <= Cardinality(Of(A, group, q)) + 1
<1> DEFINE Ap == {j \in A : group[j] = p}
           Aq == {j \in A : group[j] = q}
           M == {j \in 1 .. n : j \notin A /\ group[j] = q}
<1>0. n \in Nat /\ A \in SUBSET (1 .. n) /\ InTurn(A, group, n) /\ \E z \in 1 .. n : z \notin A /\ group[z] = q
    BY DEF Short
<1>1. M \in SUBSET Nat /\ M # {}
    BY <1>0
<1>2. PICK z \in M : \A j \in M : z <= j
    <2> HIDE DEF M
    <2> QED BY <1>1, LeastNumber
<1>3. z \in 1 .. n /\ z \notin A /\ group[z] = q /\ z \in Nat \ {0}
    BY <1>0, <1>2
<1> DEFINE B == {j \in 1 .. z - 1 : group[j] = q}
           rho == RankOf(group, z)
<1>4. B \subseteq Aq
    <2> SUFFICES ASSUME NEW j \in B PROVE j \in Aq
        OBVIOUS
    <2>1. j \in 1 .. n /\ ~(z <= j) /\ group[j] = q
        BY <1>0, <1>3
    <2>2. j \notin M
        BY <1>2, <2>1
    <2> QED BY <2>1, <2>2
<1>5. IsFiniteSet(A) /\ IsFiniteSet(1 .. n)
    <2>1. IsFiniteSet(1 .. n)
        BY <1>0, FS_Interval
    <2> QED BY <1>0, <2>1, FS_Subset
<1>6. Ap \subseteq A /\ Aq \subseteq A
    OBVIOUS
<1>7. {j \in 1 .. z : group[j] = group[z]} = B \cup {z} /\ z \notin B
    BY <1>3
<1>8. rho = Cardinality(B \cup {z})
    BY <1>7 DEF RankOf
<1>9. rho \in Nat \ {0}
    BY <1>3, RankFacts
<1>10. \A j \in 1 .. n : RankOf(group, j) \in Nat \ {0}
    <2> TAKE j \in 1 .. n
    <2>1. j \in Nat \ {0}
        BY <1>0
    <2> QED BY <2>1, RankFacts
<1>11. ASSUME NEW x \in Ap PROVE RankOf(group, x) \in 1 .. rho
    <2>1. x \in 1 .. n /\ x \in A
        BY <1>0
    <2>2. ~(rho < RankOf(group, x))
        <3> SUFFICES ASSUME rho < RankOf(group, x) PROVE FALSE
            OBVIOUS
        <3>1. <<z, x>> \in Sooner(group, 1 .. n)
            BY <1>3, <2>1 DEF Sooner
        <3> QED BY <1>0, <1>3, <2>1, <3>1 DEF InTurn
    <2>3. RankOf(group, x) \in Nat \ {0}
        BY <1>10, <2>1
    <2> HIDE DEF rho
    <2> QED BY <1>9, <2>2, <2>3
<1>12. ASSUME NEW x \in Ap, NEW y \in Ap, x < y PROVE RankOf(group, x) # RankOf(group, y)
    <2>1. x \in 1 .. n /\ y \in 1 .. n /\ group[x] = group[y]
        BY <1>0
    <2>2. x \in 1 .. y - 1 /\ y \in Nat \ {0}
        BY <1>12, <2>1
    <2>3. RankOf(group, x) < RankOf(group, y)
        BY <2>1, <2>2, RankFacts
    <2> QED BY <1>10, <2>1, <2>3
<1> DEFINE g == [x \in Ap |-> RankOf(group, x)]
<1>13. g \in Injection(Ap, 1 .. rho)
    <2>1. g \in [Ap -> 1 .. rho]
        <3> HIDE DEF rho, Ap
        <3> QED BY <1>11
    <2>2. ASSUME NEW x \in Ap, NEW y \in Ap, g[x] = g[y] PROVE x = y
        <3>1. RankOf(group, x) = RankOf(group, y)
            BY <2>2
        <3>2. x \in Nat /\ y \in Nat
            BY <1>0
        <3>3. ~(x < y) /\ ~(y < x)
            BY <1>12, <3>1
        <3> QED BY <3>2, <3>3
    <2>3. IsInjective(g)
        <3> HIDE DEF Ap
        <3>1. DOMAIN g = Ap
            OBVIOUS
        <3> HIDE DEF g
        <3> QED BY <2>2, <3>1 DEF IsInjective
    <2> HIDE DEF g, Ap, rho
    <2> QED BY <2>1, <2>3 DEF Injection
<1> HIDE DEF Ap, Aq, B, rho, g, M
<1>14. IsFiniteSet(1 .. rho) /\ Cardinality(1 .. rho) = rho
    <2>1. rho \in Nat
        BY <1>9
    <2> QED BY <2>1, FS_Interval
<1>15. Cardinality(Ap) <= Cardinality(1 .. rho)
    BY <1>13, <1>14, FS_Injection
<1>16. /\ IsFiniteSet(Ap) /\ IsFiniteSet(Aq) /\ Cardinality(Ap) \in Nat /\ Cardinality(Aq) \in Nat
    BY <1>5, <1>6, FS_Subset, FS_CardinalityType
<1>17. IsFiniteSet(B) /\ Cardinality(B) <= Cardinality(Aq) /\ Cardinality(B) \in Nat
    BY <1>4, <1>16, FS_Subset, FS_CardinalityType
<1>18. rho = Cardinality(B) + 1
    BY <1>7, <1>8, <1>17, FS_AddElement
<1>19. Cardinality(Ap) <= Cardinality(Aq) + 1
    BY <1>9, <1>14, <1>15, <1>16, <1>17, <1>18
<1> QED BY <1>19 DEF Ap, Aq, Of

LEMMA SearchesBalance ==
    ASSUME NEW rows, NEW f, Enumerates(f, DOMAIN rows), NEW limit \in Nat, NEW p, NEW q,
           NEW sample, sample = Cut(BySearch(rows, f), limit), ~(RowsOf(rows, q) \subseteq Range(sample))
    PROVE  Cardinality(Range(sample) \cap RowsOf(rows, p)) <= Cardinality(Range(sample) \cap RowsOf(rows, q)) + 1
<1> DEFINE D == DOMAIN f
           n == Len(f)
           m == Len(sample)
           group == [k \in D |-> rows[f[k]].query]
           u == BySearch(rows, f)
           R == Sooner(group, D)
<1>0. n \in Nat /\ D = 1 .. n /\ IsSeq(f) /\ Range(f) = DOMAIN rows /\ \A j, k \in D : f[j] = f[k] => j = k
    BY SeqFacts DEF Enumerates
<1>1. u = RoundRobin(f, group)
    BY DEF BySearch
<1>2. \A k \in D : group[k] = rows[f[k]].query /\ f[k] \in DOMAIN rows
    BY <1>0 DEF Range
<1> HIDE DEF u, group
<1>3. PICK order : ByTurns(u, f, group, order)
    BY <1>0, <1>1, RoundRobinTurns
<1>4. Enumerates(u, DOMAIN rows) /\ DOMAIN u = DOMAIN order /\ \A k \in DOMAIN u : u[k] = f[order[k]]
    BY <1>3, TurnsEnumerate
<1>5. /\ DOMAIN sample = 1 .. m /\ m \in Nat
      /\ \A k \in DOMAIN sample : k \in DOMAIN u /\ sample[k] = u[k]
    <2>1. sample = Cut(u, limit)
        BY DEF u
    <2> QED BY <1>4, <2>1, CutEnumerates
<1>6. TotalOrder(D, R) /\ Lists(order, D, R)
    BY <1>3 DEF ByTurns
<1>7. /\ \A k \in DOMAIN order : order[k] \in D
      /\ \A x \in D : \E k \in DOMAIN order : order[k] = x
      /\ \A j, k \in DOMAIN order : j < k => <<order[j], order[k]>> \in R
      /\ DOMAIN order \subseteq Nat
    BY <1>6 DEF Lists
<1> DEFINE A == {order[k] : k \in 1 .. m}
<1>8. A \in SUBSET (1 .. n)
    BY <1>0, <1>4, <1>5, <1>7
<1> HIDE DEF R
<1>9. ASSUME NEW x \in A, NEW y \in 1 .. n, <<y, x>> \in Sooner(group, 1 .. n) PROVE y \in A
    <2>1. <<y, x>> \in R /\ y \in D /\ x \in D
        BY <1>0, <1>8, <1>9 DEF R
    <2>2. PICK k \in 1 .. m : x = order[k]
        OBVIOUS
    <2>3. PICK j \in DOMAIN order : y = order[j]
        BY <1>7, <2>1
    <2>4. ~(k < j)
        <3> SUFFICES ASSUME k < j PROVE FALSE
            OBVIOUS
        <3>1. k \in DOMAIN order
            BY <1>4, <1>5
        <3>2. <<x, y>> \in R
            BY <1>7, <2>2, <2>3, <3>1
        <3>3. <<x, x>> \in R
            BY <1>6, <2>1, <3>2 DEF TotalOrder
        <3> QED BY <1>6, <2>1, <3>3 DEF TotalOrder
    <2>5. j \in 1 .. m
        <3>1. j \in Nat /\ k \in Nat /\ DOMAIN order = 1 .. Len(order) /\ Len(order) \in Nat
            BY <1>6, <1>7, <2>3 DEF Lists
        <3> QED BY <1>5, <2>2, <2>3, <2>4, <3>1
    <2> QED BY <2>3, <2>5
<1>10. Range(sample) = {f[a] : a \in A}
    <2>1. ASSUME NEW x \in Range(sample) PROVE \E a \in A : x = f[a]
        <3>1. PICK k \in DOMAIN sample : x = sample[k]
            BY DEF Range
        <3> QED BY <1>4, <1>5, <3>1
    <2>2. ASSUME NEW a \in A PROVE f[a] \in Range(sample)
        <3>1. PICK k \in 1 .. m : a = order[k]
            OBVIOUS
        <3>2. k \in DOMAIN sample /\ sample[k] = f[a]
            BY <1>4, <1>5, <3>1
        <3> QED BY <3>2 DEF Range
    <2> QED BY <2>1, <2>2
<1> HIDE DEF A
<1>11. ASSUME NEW x PROVE Cardinality(Range(sample) \cap RowsOf(rows, x)) = Cardinality(Of(A, group, x))
    <2> DEFINE T == Of(A, group, x)
               W == Range(sample) \cap RowsOf(rows, x)
               h == [j \in T |-> f[j]]
    <2>1. \A j \in A : j \in D
        BY <1>0, <1>8
    <2>2. \A j \in T : f[j] \in W
        BY <1>2, <1>10, <2>1 DEF RowsOf, Of
    <2>3. \A y \in W : \E j \in T : f[j] = y
        BY <1>2, <1>10, <2>1 DEF RowsOf, Of
    <2>4. \A i, j \in T : f[i] = f[j] => i = j
        BY <1>0, <2>1 DEF Of
    <2>5. T \subseteq 1 .. n
        BY <1>8 DEF Of
    <2> HIDE DEF T, W
    <2>6. h \in Bijection(T, W)
        BY <2>2, <2>3, <2>4 DEF Bijection, Injection, Surjection, IsInjective
    <2>7. IsFiniteSet(T)
        <3> HIDE DEF n
        <3>1. IsFiniteSet(1 .. n)
            BY <1>0, FS_Interval
        <3> QED BY <2>5, <3>1, FS_Subset
    <2>8. ExistsBijection(T, W)
        <3> HIDE DEF h
        <3> QED BY <2>6 DEF ExistsBijection
    <2>9. Cardinality(W) = Cardinality(T)
        BY <2>7, <2>8, FS_Bijection
    <2> QED BY <2>9 DEF T, W
<1>12. \E z \in 1 .. n : z \notin A /\ group[z] = q
    <2>1. PICK i \in RowsOf(rows, q) : i \notin Range(sample)
        OBVIOUS
    <2>2. i \in DOMAIN rows /\ rows[i].query = q
        BY DEF RowsOf
    <2>3. PICK z \in D : f[z] = i
        BY <1>0, <2>2 DEF Range
    <2>4. z \notin A
        BY <1>10, <2>1, <2>3
    <2> QED BY <1>0, <1>2, <2>2, <2>3, <2>4
<1>13. Cardinality(Of(A, group, p)) <= Cardinality(Of(A, group, q)) + 1
    <2>1. InTurn(A, group, n)
        BY <1>9 DEF InTurn
    <2>2. Short(A, group, n, q)
        BY <1>0, <1>8, <1>12, <2>1 DEF Short
    <2> QED BY <2>2, TurnsBalance
<1> QED BY <1>11, <1>13

-----------------------------------------------------------------------------
(* Newest pages first.                                                     *)

LEMMA LargestFirst ==
    ASSUME NEW S \in SUBSET Nat, IsFiniteSet(S)
    PROVE  LET L == Ordered(S, >) IN
           /\ IsSeq(L) /\ Range(L) = S
           /\ S # {} => 1 \in DOMAIN L /\ \A x \in S : x <= L[1]
<1> DEFINE L == Ordered(S, >)
           R == {p \in S \X S : p[1] > p[2]}
           Choice(k) == CHOOSE x \in S : Cardinality({y \in S : y > x}) = k - 1
<1>1. \A x, y \in S : <<x, y>> \in R <=> x > y
    OBVIOUS
<1>2. TotalOrder(S, R)
    BY <1>1 DEF TotalOrder
<1>3. \A x \in S : Below(S, R, x) = {y \in S : y > x}
    BY <1>1 DEF Below
<1>4. L = [k \in 1 .. Cardinality(S) |-> Choice(k)]
    BY DEF Ordered
<1> HIDE DEF L, R
<1>5. ASSUME NEW k \in 1 .. Cardinality(S) PROVE L[k] = Listing(S, R)[k]
    <2>1. (CHOOSE x \in S : Cardinality(Below(S, R, x)) = k - 1) = Choice(k)
        BY <1>3
    <2>2. Listing(S, R)[k] = CHOOSE x \in S : Cardinality(Below(S, R, x)) = k - 1
        BY DEF Listing
    <2>3. L[k] = Choice(k)
        <3> HIDE DEF Choice
        <3> QED BY <1>4
    <2> QED BY <2>1, <2>2, <2>3, Zenon
<1>6. L = Listing(S, R)
    <2>1. Listing(S, R) = [k \in 1 .. Cardinality(S) |-> Listing(S, R)[k]]
        BY DEF Listing
    <2>2. L = [k \in 1 .. Cardinality(S) |-> L[k]]
        <3> HIDE DEF Choice
        <3> QED BY <1>4
    <2> QED BY <1>5, <2>1, <2>2
<1>7. Lists(L, S, R)
    BY <1>2, <1>6, Listed
<1>8. IsSeq(L) /\ Range(L) = S
    BY <1>7, ListsEnumerates DEF Enumerates
<1>9. ASSUME S # {} PROVE 1 \in DOMAIN L /\ \A x \in S : x <= L[1]
    <2>1. /\ DOMAIN L = 1 .. Cardinality(S) /\ Cardinality(S) \in Nat
          /\ \A k \in DOMAIN L : L[k] \in S
          /\ \A x \in S : \E k \in DOMAIN L : L[k] = x
          /\ \A j, k \in DOMAIN L : j < k => <<L[j], L[k]>> \in R
        BY <1>7 DEF Lists
    <2>2. 1 \in DOMAIN L
        <3>1. PICK k \in DOMAIN L : TRUE
            BY <1>9, <2>1
        <3> QED BY <2>1, <3>1
    <2>3. ASSUME NEW x \in S PROVE x <= L[1]
        <3>1. PICK k \in DOMAIN L : L[k] = x
            BY <2>1
        <3>2. L[1] \in S /\ L[1] \in Nat /\ x \in Nat
            BY <2>1, <2>2
        <3>3. k = 1 \/ 1 < k
            BY <2>1
        <3>4. CASE k = 1
            BY <3>1, <3>2, <3>4
        <3>5. CASE 1 < k
            <4>1. <<L[1], x>> \in R
                BY <2>1, <2>2, <3>1, <3>5
            <4>2. L[1] > x
                BY <1>1, <3>2, <4>1
            <4> QED BY <3>2, <4>2
        <3> QED BY <3>3, <3>4, <3>5
    <2> QED BY <2>2, <2>3
<1> QED BY <1>8, <1>9 DEF L

\* The rows of the newest of the pages.
Newest(P) == UNION {p.ids : p \in {x \in P : \A y \in P : y.round <= x.round}}

LEMMA GroupsAre ==
    ASSUME NEW ps, IsSeq(ps), \A p \in Range(ps) : p.round \in Nat
    PROVE  LET asked == RequestedGroups(ps) IN
           /\ IsSeq(asked) /\ (Len(asked) = 0 <=> Range(ps) = {})
           /\ Range(ps) # {} => asked[1] = Newest(Range(ps))
<1> DEFINE P == Range(ps)
           rounds == {p.round : p \in P}
           order == Ordered(rounds, >)
           asked == RequestedGroups(ps)
           G(r) == UNION {p.ids : p \in {x \in P : x.round = r}}
<1>1. asked = [k \in DOMAIN order |-> G(order[k])]
    BY DEF RequestedGroups
<1>2. rounds \in SUBSET Nat
    OBVIOUS
<1>3. IsFiniteSet(rounds)
    <2>1. IsFiniteSet(P)
        BY RangeFinite
    <2> DEFINE f == [p \in P |-> p.round]
    <2> HIDE DEF P
    <2>2. f \in Surjection(P, rounds)
        BY DEF Surjection
    <2> HIDE DEF f, rounds
    <2> QED BY <2>1, <2>2, FS_Surjection
<1>4. rounds = {} <=> P = {}
    <2> HIDE DEF P
    <2> QED OBVIOUS
<1>5. ASSUME NEW r \in rounds, \A x \in rounds : x <= r PROVE G(r) = Newest(P)
    <2> HIDE DEF P
    <2>1. ASSUME NEW x \in P PROVE x.round = r <=> \A y \in P : y.round <= x.round
        <3>1. x.round \in rounds /\ x.round \in Nat /\ r \in Nat /\ x.round <= r
            BY <1>2, <1>5
        <3>2. PICK z \in P : z.round = r
            OBVIOUS
        <3>3. ASSUME \A y \in P : y.round <= x.round PROVE x.round = r
            BY <3>1, <3>2, <3>3
        <3>4. ASSUME x.round = r PROVE \A y \in P : y.round <= x.round
            BY <1>5, <3>4
        <3> QED BY <3>3, <3>4
    <2>2. {x \in P : x.round = r} = {x \in P : \A y \in P : y.round <= x.round}
        BY <2>1
    <2> QED BY <2>2 DEF Newest
<1> HIDE DEF rounds, G
<1>6. /\ IsSeq(order) /\ Range(order) = rounds
      /\ rounds # {} => 1 \in DOMAIN order /\ \A x \in rounds : x <= order[1]
    BY <1>2, <1>3, LargestFirst
<1> HIDE DEF order, asked
<1>7. DOMAIN order = 1 .. Len(order) /\ Len(order) \in Nat /\ \A k \in DOMAIN order : order[k] \in rounds
    BY <1>6, SeqFacts DEF Range
<1>8. IsSeq(asked) /\ Len(asked) = Len(order) /\ DOMAIN asked = DOMAIN order
    <2>1. asked = [k \in 1 .. Len(order) |-> asked[k]]
        BY <1>1, <1>7
    <2> QED BY <1>7, <2>1, FunctionIsSeq
<1>9. Len(asked) = 0 <=> P = {}
    <2>1. Len(order) = 0 => rounds = {}
        BY <1>6, <1>7 DEF Range
    <2>2. rounds = {} => Len(order) = 0
        BY <1>7
    <2> QED BY <1>4, <1>8, <2>1, <2>2
<1>10. ASSUME P # {} PROVE asked[1] = Newest(P)
    <2>1. 1 \in DOMAIN order /\ order[1] \in rounds /\ \A x \in rounds : x <= order[1]
        BY <1>4, <1>6, <1>7, <1>10
    <2>2. asked[1] = G(order[1])
        BY <1>1, <2>1
    <2> QED BY <1>5, <2>1, <2>2
<1> QED BY <1>8, <1>9, <1>10 DEF asked

-----------------------------------------------------------------------------
(* Searches have an id each, and pages show retained rows.                 *)

\* A query's entry is not open again, so no other query takes its id.
IdsApart ==
    /\ \A j, k \in DOMAIN queries : queries[j].id = queries[k].id => j = k
    /\ \A k \in DOMAIN queries : ledger[queries[k].id].status # "planned"
    /\ fetch # Idle => ledger[fetch.entry].status = "planned"

PageFits(p, rows) ==
    /\ p = [request |-> p.request, question |-> p.question, ids |-> p.ids, next |-> p.next,
            total |-> p.total, round |-> p.round]
    /\ p.ids \subseteq DOMAIN rows /\ p.next \in Int /\ p.round \in Nat

PagesFit == IsSeq(pages) /\ \A k \in DOMAIN pages : PageFits(pages[k], evidence)

SampleInv == calls \in Nat /\ PagesFit /\ IdsApart

\* What a step may do to the searches that are open.
Closes ==
    /\ \A e \in DOMAIN ledger : ledger'[e].status = "planned" => ledger[e].status = "planned"
    /\ fetch' = Idle \/ ledger'[fetch'.entry].status = "planned"

LEMMA EntryCloses ==
    ASSUME LedgerType, NEW e \in DOMAIN ledger, NEW how, how # "planned",
           ledger' = [ledger EXCEPT ![e].status = how]
    PROVE  /\ \A x \in DOMAIN ledger : ledger'[x].status = "planned" => ledger[x].status = "planned"
           /\ ledger'[e].status = how
<1>1. ledger[e] = [question |-> ledger[e].question, spl |-> ledger[e].spl, status |-> ledger[e].status,
                   phase |-> ledger[e].phase, of |-> ledger[e].of, source |-> ledger[e].source]
    BY DEF LedgerType, IsEntry
<1>2. ledger'[e] = [ledger[e] EXCEPT !.status = how]
    OBVIOUS
<1>3. ledger'[e].status = how
    BY <1>1, <1>2
<1>4. \A x \in DOMAIN ledger : x # e => ledger'[x] = ledger[x]
    OBVIOUS
<1> QED BY <1>3, <1>4

LEMMA EntriesAdded ==
    ASSUME LedgerType, NEW new, IsSeq(new), ledger' = ledger \o new, fetch' = Idle
    PROVE  Closes
<1>1. Joined(ledger', ledger, new)
    BY ConcatIsSeq DEF LedgerType
<1>2. \A e \in DOMAIN ledger : ledger'[e] = ledger[e]
    BY <1>1 DEF Joined
<1> QED BY <1>2 DEF Closes

LEMMA NextIsPlanned ==
    ASSUME LedgerType, Open # {}
    PROVE  NextEntry \in DOMAIN ledger /\ ledger[NextEntry].status = "planned"
<1>1. Open \in SUBSET Nat
    <2>1. DOMAIN ledger \subseteq Nat
        BY SeqFacts DEF LedgerType
    <2> QED BY <2>1 DEF Open
<1>2. \E e \in Open : \A x \in Open : e <= x
    BY <1>1, LeastNumber
<1>3. NextEntry \in Open
    BY <1>2 DEF NextEntry
<1> QED BY <1>3 DEF Open

LEMMA ClosesStep ==
    ASSUME TypeInv, IdsApart, [Next]_vars
    PROVE  Closes
<1>0. LedgerType
    BY DEF TypeInv
<1>1. CASE SkipSearch
    <2>1. NextEntry \in DOMAIN ledger
        BY <1>0, <1>1, NextIsPlanned DEF SkipSearch
    <2>2. PICK how \in {"skipped_time_cutoff", "skipped_budget"} : CloseEntry(NextEntry, how)
        BY <1>1 DEF SkipSearch
    <2>3. ledger' = [ledger EXCEPT ![NextEntry].status = how] /\ fetch' = Idle /\ how # "planned"
        BY <2>2 DEF CloseEntry
    <2> QED BY <1>0, <2>1, <2>3, EntryCloses DEF Closes
<1>2. CASE StartSearch
    <2>1. ledger[NextEntry].status = "planned"
        BY <1>0, <1>2, NextIsPlanned DEF StartSearch
    <2>2. UNCHANGED ledger /\ fetch'.entry = NextEntry
        BY <1>2 DEF StartSearch, Idle
    <2> QED BY <2>1, <2>2 DEF Closes
<1>3. CASE FetchPage
    <2>1. fetch # Idle /\ UNCHANGED ledger
        BY <1>3 DEF FetchPage
    <2>2. FetchRuns
        BY <2>1 DEF TypeInv
    <2> DEFINE asked == Shortest(PageMax, fetch.limit)
               Rows(size, kept) == fetch.rows \o Cut(PageRows(size), kept)
               Stop(size, kept) == IF kept < Len(PageRows(size)) THEN "byte_limit"
                                   ELSE IF size < asked /\ fetch.reported # NotReported /\ Len(Rows(size, kept)) < fetch.reported
                                   THEN "incomplete_page" ELSE "none"
               Ended(size, kept) == Stop(size, kept) # "none" \/ size < asked
    <2>3. PICK size, kept :
             fetch' = [fetch EXCEPT !.rows = Rows(size, kept), !.pages = @ + 1, !.stop = Stop(size, kept),
                                    !.ended = Ended(size, kept)]
        BY <1>3 DEF FetchPage
    <2> HIDE DEF Rows, Stop, Ended
    <2>4. fetch'.entry = fetch.entry
        BY <2>2, <2>3 DEF FetchRuns
    <2> QED BY <2>1, <2>4 DEF Closes, IdsApart
<1>4. CASE FetchTimeout
    <2>1. fetch # Idle /\ FetchRuns
        BY <1>4 DEF FetchTimeout, TypeInv
    <2>2. CASE fetch.rows # <<>>
        <3>1. fetch' = [fetch EXCEPT !.stop = "query_timeout", !.ended = TRUE] /\ UNCHANGED ledger
            BY <1>4, <2>2 DEF FetchTimeout
        <3>2. fetch'.entry = fetch.entry
            BY <2>1, <3>1 DEF FetchRuns
        <3> QED BY <2>1, <3>1, <3>2 DEF Closes, IdsApart
    <2>3. CASE fetch.rows = <<>>
        <3>1. ledger' = [ledger EXCEPT ![fetch.entry].status = "timed_out"] /\ fetch' = Idle
            BY <1>4, <2>3 DEF FetchTimeout, CloseEntry
        <3>2. fetch.entry \in DOMAIN ledger
            BY <2>1 DEF FetchRuns
        <3> QED BY <1>0, <3>1, <3>2, EntryCloses DEF Closes
    <2> QED BY <2>2, <2>3
<1>5. CASE RecordSearch
    <2>1. FetchRuns
        BY <1>5 DEF RecordSearch, TypeInv
    <2>2. ledger' = [ledger EXCEPT ![fetch.entry].status = "completed"] /\ fetch' = Idle
        BY <1>5 DEF RecordSearch
    <2>3. fetch.entry \in DOMAIN ledger
        BY <2>1 DEF FetchRuns
    <2> QED BY <1>0, <2>2, <2>3, EntryCloses DEF Closes
<1>6. CASE CoverSources
    <2>1. fetch = Idle
        BY <1>6, OutsideSearch DEF CoverSources
    <2>2. ledger' = ledger \o SourceChecksWanted /\ fetch' = Idle
        BY <1>6, <2>1 DEF CoverSources
    <2> QED BY <1>0, <2>2, SourceChecksAreEntries, EntriesAdded
<1>7. CASE Decide
    <2>1. fetch = Idle
        BY <1>7, OutsideSearch DEF Decide
    <2>2. PICK proposed \in Decided : ledger' = ledger \o NewSearches(WidenedDecisions(proposed))
        BY <1>7, DecideIs DEF FinishRound
    <2>3. IsSeq(NewSearches(WidenedDecisions(proposed)))
        BY DecideAdds
    <2>4. fetch' = Idle
        BY <1>7, <2>1 DEF Decide
    <2> QED BY <1>0, <2>2, <2>3, <2>4, EntriesAdded
<1>8. CASE UNCHANGED <<ledger, fetch>>
    BY <1>8 DEF Closes, IdsApart
<1>9. \/ SkipSearch \/ StartSearch \/ FetchPage \/ FetchTimeout \/ RecordSearch \/ CoverSources \/ Decide
      \/ UNCHANGED <<ledger, fetch>>
    BY DEF Next, InvestigationNext, TimePasses, SearchesDone, Assess, FinishRound, NoMoreRounds, StopRounds,
           RoundExhausted, EndRounds, Synthesize, FinalOnly, BudgetLimited, PublishReport, SaveReport,
           FinalizeReport, FinalizeRefused, Finished, vars, searchVars
<1> QED BY <1>1, <1>2, <1>3, <1>4, <1>5, <1>6, <1>7, <1>8, <1>9

LEMMA IdsStep ==
    ASSUME TypeInv, IdsApart, [Next]_vars
    PROVE  IdsApart'
<1>1. Closes /\ Idle' = Idle
    BY ClosesStep DEF Idle
<1>2. \A k \in DOMAIN queries : queries[k].id \in DOMAIN ledger
    BY DEF TypeInv, QueriesType
<1>3. CASE UNCHANGED queries
    BY <1>1, <1>2, <1>3 DEF Closes, IdsApart
<1>4. CASE RecordSearch
    <2>1. FetchRuns /\ Joined(queries', queries, <<Completed>>)
        BY <1>4, RecordSearchAdds
    <2>2. fetch # Idle /\ fetch' = Idle /\ ledger' = [ledger EXCEPT ![fetch.entry].status = "completed"]
        BY <1>4 DEF RecordSearch
    <2>3. fetch.entry \in DOMAIN ledger /\ LedgerType
        BY <2>1 DEF FetchRuns, TypeInv
    <2>4. ledger'[fetch.entry].status = "completed"
        BY <2>2, <2>3, EntryCloses
    <2>5. ledger[fetch.entry].status = "planned"
        BY <2>2 DEF IdsApart
    <2>6. \A k \in DOMAIN queries : queries[k].id # fetch.entry
        BY <2>5 DEF IdsApart
    <2>7. Completed.id = fetch.entry
        BY DEF Completed
    <2> DEFINE n == Len(queries)
    <2>8. n \in Nat /\ DOMAIN queries = 1 .. n /\ DOMAIN queries' = 1 .. n + 1
        <3>1. IsSeq(queries) /\ Len(<<Completed>>) = 1
            BY DEF TypeInv, QueriesType
        <3> QED BY <2>1, <3>1, SeqFacts DEF Joined
    <2>9. \A k \in DOMAIN queries : queries'[k] = queries[k]
        BY <2>1 DEF Joined
    <2>10. queries'[n + 1] = Completed
        <3>1. 1 \in DOMAIN <<Completed>> /\ <<Completed>>[1] = Completed
            OBVIOUS
        <3> QED BY <2>1, <3>1 DEF Joined
    <2> HIDE DEF n
    <2>11. \A k \in DOMAIN queries' : k \in DOMAIN queries \/ k = n + 1
        BY <2>8
    <2>12. n + 1 \notin DOMAIN queries
        BY <2>8
    <2>13. \A k \in DOMAIN queries' : ledger'[queries'[k].id].status # "planned"
        <3> TAKE k \in DOMAIN queries'
        <3>1. CASE k \in DOMAIN queries
            BY <1>1, <1>2, <2>9, <3>1 DEF Closes, IdsApart
        <3>2. CASE k = n + 1
            BY <2>4, <2>7, <2>10, <3>2
        <3> QED BY <2>11, <3>1, <3>2
    <2>14. \A j, k \in DOMAIN queries' : queries'[j].id = queries'[k].id => j = k
        <3> SUFFICES ASSUME NEW j \in DOMAIN queries', NEW k \in DOMAIN queries', queries'[j].id = queries'[k].id
                     PROVE  j = k
            OBVIOUS
        <3>1. CASE j \in DOMAIN queries /\ k \in DOMAIN queries
            BY <2>9, <3>1 DEF IdsApart
        <3>2. CASE j \in DOMAIN queries /\ k = n + 1
            BY <2>6, <2>7, <2>9, <2>10, <3>2
        <3>3. CASE k \in DOMAIN queries /\ j = n + 1
            BY <2>6, <2>7, <2>9, <2>10, <3>3
        <3> QED BY <2>11, <3>1, <3>2, <3>3
    <2> QED BY <1>1, <2>2, <2>13, <2>14 DEF IdsApart
<1> QED BY <1>3, <1>4, RecordGrows

\* What a page asked for now shows.
LEMMA PageShows ==
    ASSUME TypeInv, PagesFit, calls \in Nat, NEW r \in Requests, LookupAllowed(queries, r), NEW question
    PROVE  PageFits(Page(r, question), evidence) /\ Page(r, question).round = calls + 1
<1> DEFINE S == Matching(evidence, r)
           ids == InTimeOrder(evidence, S)
           gs == CompactEvidenceRecords(queries, evidence, ids)
           part == Slice(gs, r.offset, r.limit)
           next == IF r.offset + Len(part) < Len(gs) THEN r.offset + Len(part) ELSE NotReported
           page == Page(r, question)
<1>1. r.offset \in Nat /\ r.limit = LookupLimit /\ LookupLimit \in Nat
    <2>1. r.offset \in {0} \cup {p.next : p \in Range(pages)} /\ r.limit = LookupLimit
        BY DEF Requests
    <2>2. \A p \in Range(pages) : p.next \in Int
        BY DEF PagesFit, PageFits, Range
    <2>3. r.offset \in Int
        BY <2>1, <2>2
    <2>4. r.offset >= 0
        BY DEF LookupAllowed
    <2> QED BY <2>1, <2>3, <2>4, ConstantsAre
<1>2. page = [request |-> r, question |-> question, ids |-> UNION Range(part), next |-> next,
              total |-> Len(gs), round |-> calls + 1]
    BY DEF Page, LookupRetainedEvidence
<1>3. S \in SUBSET DOMAIN evidence
    BY DEF Matching, RawRows
<1> HIDE DEF S
<1>4. Enumerates(ids, S)
    BY <1>3, EvidenceIsTimed, TimelineEnumerates
<1> HIDE DEF ids
<1>5. Partitions(gs, S)
    BY <1>4, CompactPartitions
<1> HIDE DEF gs
<1>6. IsSeq(gs) /\ Len(gs) \in Nat /\ \A k \in DOMAIN gs : gs[k] \subseteq S
    BY <1>5, SeqFacts DEF Partitions
<1>7. IsSeq(part) /\ \A k \in DOMAIN part : k + r.offset \in DOMAIN gs /\ part[k] = gs[k + r.offset]
    <2>1. gs \in Seq(Range(gs)) /\ r.limit \in Int
        BY <1>1, <1>6 DEF IsSeq
    <2>2. /\ part \in Seq(Range(gs))
          /\ \A k \in DOMAIN part : k + r.offset \in DOMAIN gs /\ part[k] = gs[k + r.offset]
        BY <1>1, <2>1, SliceFacts
    <2> HIDE DEF part
    <2> QED BY <2>2, SeqIs
<1> HIDE DEF part
<1>8. UNION Range(part) \subseteq DOMAIN evidence
    <2>1. \A k \in DOMAIN part : part[k] \subseteq DOMAIN evidence
        BY <1>3, <1>6, <1>7
    <2> QED BY <2>1 DEF Range
<1>9. next \in Int
    <2>1. Len(part) \in Nat
        BY <1>7, SeqFacts
    <2> QED BY <1>1, <1>6, <2>1 DEF NotReported
<1> HIDE DEF next, page
<1>10. PageFits(page, evidence) /\ page.round = calls + 1
    BY <1>2, <1>8, <1>9 DEF PageFits
<1> QED BY <1>10 DEF page

\* What the model may put in a slot.
Fillings(labels) == {DecodeSlot(s, labels, evidence) : s \in {x \in Slots(labels) : SlotAllowed(x, labels)}}

LEMMA SlotsFilled ==
    ASSUME NEW labels, NEW slots \in SlotChoices(labels)
    PROVE  \A n \in DOMAIN slots : slots[n] \in Fillings(labels)
<1> DEFINE allowed == {DecodeSlot(s, labels, evidence) : s \in {x \in Slots(labels) : SlotAllowed(x, labels)}}
           empty == {s \in allowed : s.request = <<>> /\ s.found = <<>>}
<1>1. slots \in {[j \in DOMAIN Unanswered |-> IF j = k THEN s ELSE other] :
                    k \in DOMAIN Unanswered, s \in allowed, other \in empty}
    BY DEF SlotChoices
<1>2. empty \subseteq allowed /\ allowed = Fillings(labels)
    BY DEF Fillings
<1> HIDE DEF allowed, empty
<1> QED BY <1>1, <1>2

LEMMA SlotRequests ==
    ASSUME TypeInv, NEW labels, NEW slots \in SlotChoices(labels), NEW n \in DOMAIN slots, slots[n].request # <<>>
    PROVE  slots[n].request[1] \in Requests /\ LookupAllowed(queries, slots[n].request[1])
<1>1. slots[n] \in Fillings(labels)
    BY SlotsFilled
<1>2. PICK s \in Slots(labels) : SlotAllowed(s, labels) /\ slots[n] = DecodeSlot(s, labels, evidence)
    BY <1>1 DEF Fillings
<1>3. slots[n].request = s.request
    BY <1>2 DEF DecodeSlot
<1>4. \A r \in Range(s.request) : LookupAllowed(queries, r)
    BY <1>2 DEF SlotAllowed
<1> DEFINE Negative(S) == [negative |-> TRUE, lead |-> FALSE, rows |-> {}, queries |-> S]
           Positive(j, lead) == [negative |-> FALSE, lead |-> lead, rows |-> {j}, queries |-> {}]
           leads == AdvisoryLeadGroups(evidence, Range(labels))
           Label(i) == CHOOSE j \in DOMAIN labels : labels[j] = i
           Accounts(found) == {<<>>} \cup
             {[j \in DOMAIN leads |-> [row |-> Label(leads[j].lead), findings |-> about[j]]] :
                about \in [DOMAIN leads -> SUBSET DOMAIN found]}
           Answer(found) == {[request |-> <<>>, found |-> found, dispositions |-> d] : d \in Accounts(found)}
<1>5. \/ s \in Answer(<<>>)
      \/ \E q \in QueryIds : s \in Answer(<<Negative({q})>>)
      \/ \E j \in 1 .. Len(labels) + 1, lead \in BOOLEAN : s \in Answer(<<Positive(j, lead)>>)
      \/ \E r \in Requests : s = [request |-> <<r>>, found |-> <<>>, dispositions |-> <<>>]
    BY DEF Slots
<1>6. ASSUME NEW f, s \in Answer(f) PROVE s.request = <<>>
    <2> HIDE DEF Accounts
    <2> QED BY <1>6
<1> HIDE DEF Answer, Negative, Positive
<1>7. PICK r \in Requests : s = [request |-> <<r>>, found |-> <<>>, dispositions |-> <<>>]
    BY <1>3, <1>5, <1>6
<1>8. s.request = <<r>> /\ <<r>>[1] = r
    BY <1>7
<1>9. Range(<<r>>) = {r}
    BY AppendIsSeq, EmptyIsSeq
<1> QED BY <1>3, <1>4, <1>8, <1>9

LEMMA PagesAdd ==
    ASSUME PagesFit, calls \in Nat, UNCHANGED evidence, NEW new, IsFiniteSet(new), AddPages(new),
           \A p \in new : PageFits(p, evidence)
    PROVE  PagesFit'
<1> DEFINE Is(p, page) == [p EXCEPT !.round = calls + 1] = page
           F == {page \in new : \A k \in DOMAIN pages : ~Is(pages[k], page)}
           fresh == SetToSeq(F)
           moved == [k \in DOMAIN pages |-> IF \E page \in new : Is(pages[k], page)
                                            THEN [pages[k] EXCEPT !.round = calls + 1] ELSE pages[k]]
<1>1. pages' = moved \o fresh
    BY DEF AddPages
<1>2. F \subseteq new
    OBVIOUS
<1> HIDE DEF F
<1>3. IsSeq(fresh) /\ Range(fresh) \subseteq F
    BY <1>2, FS_Subset, SetToSeqIsSeq
<1>4. IsSeq(pages) /\ Len(pages) \in Nat /\ DOMAIN pages = 1 .. Len(pages)
    BY SeqFacts DEF PagesFit
<1>5. DOMAIN moved = DOMAIN pages
    OBVIOUS
<1>6. IsSeq(moved)
    <2>1. moved = [k \in 1 .. Len(pages) |-> moved[k]]
        BY <1>4
    <2> HIDE DEF moved
    <2> QED BY <1>4, <2>1, FunctionIsSeq
<1>7. ASSUME NEW k \in DOMAIN pages PROVE PageFits(moved[k], evidence)
    <2>1. PageFits(pages[k], evidence)
        BY DEF PagesFit
    <2>2. moved[k] = pages[k] \/ moved[k] = [pages[k] EXCEPT !.round = calls + 1]
        OBVIOUS
    <2> HIDE DEF moved
    <2>3. PageFits([pages[k] EXCEPT !.round = calls + 1], evidence)
        BY <2>1 DEF PageFits
    <2> QED BY <2>1, <2>2, <2>3
<1> HIDE DEF moved, fresh
<1>8. Joined(pages', moved, fresh)
    BY <1>1, <1>3, <1>6, ConcatIsSeq
<1>9. Range(pages') = Range(moved) \cup Range(fresh) /\ IsSeq(pages')
    BY <1>8 DEF Joined
<1>10. ASSUME NEW k \in DOMAIN pages' PROVE PageFits(pages'[k], evidence)
    <2>1. pages'[k] \in Range(moved) \cup Range(fresh)
        BY <1>9 DEF Range
    <2>2. CASE pages'[k] \in Range(moved)
        BY <1>5, <1>7, <2>2 DEF Range
    <2>3. CASE pages'[k] \in Range(fresh)
        BY <1>2, <1>3, <2>3
    <2> QED BY <2>1, <2>2, <2>3
<1>11. \A k \in DOMAIN pages' : PageFits(pages'[k], evidence')
    BY <1>10
<1> QED BY <1>9, <1>11 DEF PagesFit

LEMMA PagesStep ==
    ASSUME TypeInv, PagesFit, calls \in Nat, [Next]_vars
    PROVE  PagesFit' /\ calls' \in Nat
<1>1. CASE Synthesize
    <2>1. PICK slots \in SlotChoices(SynthesisLabels) : AddPages(RetainedSynthesisPages(slots))
        BY <1>1 DEF Synthesize
    <2>2. UNCHANGED evidence /\ calls' = calls + 1
        BY <1>1 DEF Synthesize, searchVars
    <2> DEFINE K == {j \in DOMAIN slots : slots[j].request # <<>>}
               new == RetainedSynthesisPages(slots)
               f == [k \in K |-> Page(slots[k].request[1], Unanswered[k].id)]
    <2>3. new = {f[k] : k \in K}
        BY DEF RetainedSynthesisPages
    <2>4. ASSUME NEW k \in K PROVE PageFits(f[k], evidence)
        <3>1. slots[k].request[1] \in Requests /\ LookupAllowed(queries, slots[k].request[1])
            BY SlotRequests
        <3> QED BY <3>1, PageShows
    <2>5. IsFiniteSet(K)
        <3>1. IsSeq(slots)
            BY SlotChoicesAre
        <3>2. IsFiniteSet(DOMAIN slots) /\ K \subseteq DOMAIN slots
            BY <3>1, RangeFinite
        <3> HIDE DEF K
        <3> QED BY <3>2, FS_Subset
    <2>6. DOMAIN f = K
        OBVIOUS
    <2> HIDE DEF f, K
    <2>7. f \in Surjection(K, new)
        <3>1. f \in [K -> new]
            <4>1. f = [k \in K |-> f[k]]
                BY DEF f
            <4> QED BY <2>3, <4>1
        <3> QED BY <2>3, <3>1 DEF Surjection
    <2> HIDE DEF new
    <2>8. IsFiniteSet(new)
        BY <2>5, <2>7, FS_Surjection
    <2>9. \A p \in new : PageFits(p, evidence)
        BY <2>3, <2>4
    <2>10. AddPages(new)
        BY <2>1 DEF new
    <2> QED BY <2>2, <2>8, <2>9, <2>10, PagesAdd
<1>2. CASE ~Synthesize
    <2>1. UNCHANGED pages
        BY <1>2 DEF Next, InvestigationNext, TimePasses, SkipSearch, StartSearch, FetchPage, FetchTimeout, RecordSearch,
               SearchesDone, CoverSources, Assess, FinishRound, NoMoreRounds, Decide, StopRounds,
               RoundExhausted, EndRounds, FinalOnly, BudgetLimited, PublishReport, SaveReport,
               FinalizeReport, FinalizeRefused, Finished, vars, answerVars
    <2>2. calls' \in {calls, calls + 1, calls + 0}
        BY <1>2 DEF Next, InvestigationNext, TimePasses, SkipSearch, StartSearch, FetchPage, FetchTimeout, RecordSearch,
               SearchesDone, CoverSources, Assess, FinishRound, NoMoreRounds, Decide, StopRounds,
               RoundExhausted, EndRounds, FinalOnly, BudgetLimited, PublishReport, SaveReport,
               FinalizeReport, FinalizeRefused, Finished, vars
    <2>3. DOMAIN evidence \subseteq DOMAIN evidence'
        BY RecordGrows DEF EvidenceKept
    <2>4. \A k \in DOMAIN pages : PageFits(pages[k], evidence')
        BY <2>3 DEF PagesFit, PageFits
    <2>5. calls' \in Nat
        BY <2>2
    <2> QED BY <2>1, <2>4, <2>5 DEF PagesFit
<1> QED BY <1>1, <1>2

-----------------------------------------------------------------------------
(* The sample is balanced.                                                 *)

LEMMA SampleSuffices ==
    ASSUME TypeInv, SampleInv
    PROVE  SampleBalanced
<1> DEFINE Asks(p) == \E x \in Range(Unanswered) : x.id = p.question
           K == {k \in DOMAIN pages : Asks(pages[k])}
           ps == At(pages, K)
           open == {p \in Range(pages) : Asks(p)}
           asked == RequestedGroups(ps)
           preferred == (UNION Range(asked)) \cup {i \in DOMAIN evidence : evidence[i].event.ioc}
           offered == Offer(queries, evidence, QueryIds, preferred)
           u == InPasses(evidence, offered, asked)
           sample == SynthesisSample
<1>1. Filtered(pages, LAMBDA p : \E x \in Range(Unanswered) : x.id = p.question) = ps
    BY DEF Filtered, Ordered, Ascending, At
<1>2. sample = Cut(u, SampleLimit)
    <2> DEFINE a == RequestedGroups(Filtered(pages, LAMBDA p : \E x \in Range(Unanswered) : x.id = p.question))
    <2>1. sample = BalancedEvidenceSample(queries, evidence, QueryIds, SampleLimit,
                      (UNION Range(a)) \cup {i \in DOMAIN evidence : evidence[i].event.ioc}, a)
        BY DEF SynthesisSample
    <2>2. a = asked
        BY <1>1
    <2> HIDE DEF a, asked
    <2>3. sample = BalancedEvidenceSample(queries, evidence, QueryIds, SampleLimit, preferred, asked)
        BY <2>1, <2>2
    <2> QED BY <2>3 DEF BalancedEvidenceSample, Offer
<1> HIDE DEF Asks
<1>3. RowsOfSearches(queries, evidence)
    BY EvidenceIsTimed DEF RowsOfSearches, SampleInv, IdsApart, TypeInv, QueriesType, EvidenceType, QueryIds
<1>4. IsSeq(ps) /\ Range(ps) = open
    <2>1. IsSeq(pages) /\ K \in SUBSET DOMAIN pages
        BY DEF SampleInv, PagesFit
    <2>2. {pages[k] : k \in K} = open
        BY DEF Range
    <2> HIDE DEF K, open
    <2>3. IsSeq(At(pages, K)) /\ Range(At(pages, K)) = {pages[k] : k \in K}
        BY <2>1, AtIsSeq
    <2> QED BY <2>2, <2>3
<1>5. \A p \in open : p.ids \subseteq DOMAIN evidence /\ p.round \in Nat
    BY DEF SampleInv, PagesFit, PageFits, Range
<1> HIDE DEF ps, open
<1>6. /\ IsSeq(asked) /\ (Len(asked) = 0 <=> open = {})
      /\ open # {} => asked[1] = Newest(open)
    <2>1. \A p \in Range(ps) : p.round \in Nat
        BY <1>4, <1>5
    <2> QED BY <1>4, <2>1, GroupsAre
<1> HIDE DEF asked, preferred
<1>7. Enumerates(offered, DOMAIN evidence)
    BY <1>3, OfferEnumerates DEF QueryIds
<1> HIDE DEF offered
<1>8. /\ Enumerates(u, DOMAIN evidence)
      /\ Len(asked) # 0 => \E s : Enumerates(s, DOMAIN evidence \cap asked[1]) /\ Begins(u, s)
      /\ Len(asked) = 0 => \E f : Enumerates(f, DOMAIN evidence) /\ u = BySearch(evidence, f)
    <2>1. Supplies(u, evidence, DOMAIN evidence, asked)
        BY <1>6, <1>7, PassesEnumerate
    <2> HIDE DEF u
    <2> QED BY <2>1 DEF Supplies
<1> HIDE DEF u, sample
<1>9. SampleLimit \in Nat
    BY ConstantsAre
<1>10. /\ Len(sample) = Shortest(SampleLimit, Cardinality(DOMAIN evidence)) /\ Cardinality(Range(sample)) = Len(sample)
       /\ \A s, N : Enumerates(s, N) /\ Begins(u, s) => N \subseteq Range(sample) \/ Range(sample) \subseteq N
    BY <1>2, <1>8, <1>9, CutEnumerates
<1>11. Cardinality(DOMAIN evidence) = Len(evidence)
    <2> DEFINE n == Len(evidence)
    <2>1. n \in Nat /\ DOMAIN evidence = 1 .. n
        BY SeqFacts DEF TypeInv, EvidenceType
    <2> HIDE DEF n
    <2>2. Cardinality(1 .. n) = n
        BY <2>1, FS_Interval
    <2> QED BY <2>1, <2>2 DEF n
<1>12. Newest(open) \subseteq Range(sample) \/ Range(sample) \subseteq Newest(open)
    <2>1. CASE open = {}
        BY <2>1 DEF Newest
    <2>2. CASE open # {}
        <3>1. Newest(open) \subseteq DOMAIN evidence
            BY <1>5 DEF Newest
        <3>2. DOMAIN evidence \cap asked[1] = Newest(open)
            BY <1>6, <2>2, <3>1
        <3>3. PICK s : Enumerates(s, Newest(open)) /\ Begins(u, s)
            BY <1>6, <1>8, <2>2, <3>2
        <3> QED BY <1>10, <3>3
    <2> QED BY <2>1, <2>2
<1>13. ASSUME open = {}, NEW p \in QueryIds, NEW q \in QueryIds, ~(RowsOf(evidence, q) \subseteq Range(sample))
       PROVE  Cardinality(Range(sample) \cap RowsOf(evidence, p)) <= Cardinality(Range(sample) \cap RowsOf(evidence, q)) + 1
    <2>1. PICK f : Enumerates(f, DOMAIN evidence) /\ u = BySearch(evidence, f)
        BY <1>6, <1>8, <1>13
    <2>2. sample = Cut(BySearch(evidence, f), SampleLimit)
        BY <1>2, <2>1
    <2> QED BY <1>9, <1>13, <2>1, <2>2, SearchesBalance
<1>14. SampleBalanced
    BY <1>10, <1>11, <1>12, <1>13 DEF SampleBalanced, sample, open, Asks, Newest
<1> QED BY <1>14

LEMMA SampleStart ==
    ASSUME Init
    PROVE  SampleInv
<1>1. calls = 0 /\ pages = <<>> /\ queries = <<>> /\ fetch = Idle
    BY DEF Init
<1>2. DOMAIN <<>> = {}
    OBVIOUS
<1> QED BY <1>1, <1>2, EmptyIsSeq DEF SampleInv, PagesFit, IdsApart

LEMMA SampleStep ==
    ASSUME TypeInv, SampleInv, [Next]_vars
    PROVE  SampleInv'
<1>1. IdsApart'
    BY IdsStep DEF SampleInv
<1>2. PagesFit' /\ calls' \in Nat
    BY PagesStep DEF SampleInv
<1> QED BY <1>1, <1>2 DEF SampleInv

\* The rows supplied to the model are balanced whatever was retained and asked
\* for: _balanced_evidence_sample shows no row twice, as many as the limit
\* allows, those of the newest requested page before any other, and without a
\* page no search gets two rows more than one that has a row left out.
THEOREM SamplesAreBalanced == Spec => []SampleBalanced
<1>1. Init => TypeInv /\ SampleInv
    BY TypeStart, SampleStart
<1>2. TypeInv /\ SampleInv /\ [Next]_vars => TypeInv' /\ SampleInv'
    BY TypeStep, SampleStep
<1>3. TypeInv /\ SampleInv => SampleBalanced
    BY SampleSuffices
<1> QED BY <1>1, <1>2, <1>3, PTL DEF Spec
=============================================================================
