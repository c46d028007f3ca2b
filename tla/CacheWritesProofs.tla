--------------------------- MODULE CacheWritesProofs ---------------------------
(***************************************************************************)
(* Proofs about the cache as sled sees it, row by row, and about the tip   *)
(* subscription that reads it between the writes.  First, what holds after *)
(* every prefix of the writes, crashes included; then, that all the writes *)
(* of an operation together make the operation of module Cache.            *)
(***************************************************************************)
EXTENDS TipSubscription, CacheProofs, FiniteSetTheorems

-----------------------------------------------------------------------------
(* Heights in ascending order.                                              *)

Below(S, h) == {k \in S : k < h}

LEMMA BelowType ==
    ASSUME NEW S, S \subseteq Heights, NEW h \in Heights
    PROVE  /\ IsFiniteSet(S) /\ IsFiniteSet(Below(S, h)) /\ Cardinality(S) \in Nat
           /\ Cardinality(Below(S, h)) \in Nat /\ Cardinality(Below(S, h)) <= Cardinality(S)
<1>1. IsFiniteSet(Heights)
    <2>1. 0 \in Int /\ MaxHeight \in Int
        BY ForkTreeAssumption
    <2> QED BY <2>1, FS_Interval DEF Heights
<1>2. IsFiniteSet(S)
    BY <1>1, FS_Subset
<1>3. Below(S, h) \in SUBSET S
    BY DEF Below
<1> QED
    BY <1>2, <1>3, FS_Subset, FS_CardinalityType

\* A height counts one more below it than the next lower one.
LEMMA NextBelow ==
    ASSUME NEW S, S \subseteq Heights, NEW p \in S, NEW h \in Heights, p < h,
           \A k \in S : k < h => k <= p
    PROVE  Cardinality(Below(S, h)) = Cardinality(Below(S, p)) + 1
<1>1. p \in Heights /\ \A k \in S : k \in Int /\ p \in Int /\ h \in Int
    BY ForkTreeAssumption DEF Heights
<1>2. Below(S, h) = Below(S, p) \cup {p} /\ p \notin Below(S, p)
    BY <1>1 DEF Below
<1>3. IsFiniteSet(Below(S, p))
    BY <1>1, BelowType
<1>4. Cardinality(Below(S, p) \cup {p}) = Cardinality(Below(S, p)) + 1
    BY <1>2, <1>3, FS_AddElement
<1> QED
    BY <1>2, <1>4, Zenon

LEMMA BelowMonotone ==
    ASSUME NEW S, S \subseteq Heights, NEW g \in S, NEW h \in Heights, g < h
    PROVE  Cardinality(Below(S, g)) < Cardinality(Below(S, h))
<1>1. g \in Heights /\ \A k \in S : k \in Int /\ g \in Int /\ h \in Int
    BY ForkTreeAssumption DEF Heights
<1>2. Below(S, g) \cup {g} \subseteq Below(S, h) /\ g \notin Below(S, g)
    BY <1>1 DEF Below
<1>3. IsFiniteSet(Below(S, g)) /\ IsFiniteSet(Below(S, h)) /\ Cardinality(Below(S, g)) \in Nat
    BY <1>1, BelowType
<1>4. Cardinality(Below(S, g) \cup {g}) = Cardinality(Below(S, g)) + 1
    BY <1>2, <1>3, FS_AddElement
<1>5. Cardinality(Below(S, g) \cup {g}) <= Cardinality(Below(S, h))
    BY <1>2, <1>3, FS_Subset
<1>6. Cardinality(Below(S, h)) \in Nat
    BY <1>3, FS_CardinalityType
<1> QED
    BY <1>3, <1>4, <1>5, <1>6

\* Ascending lists each height of S, each at its place.
LEMMA AscendingLists ==
    ASSUME NEW S, S \subseteq Heights
    PROVE  /\ \A i \in 1 .. Cardinality(S) :
                 Ascending(S)[i] \in S /\ Cardinality(Below(S, Ascending(S)[i])) = i - 1
           /\ \A h \in S : /\ Cardinality(Below(S, h)) + 1 \in 1 .. Cardinality(S)
                            /\ Ascending(S)[Cardinality(Below(S, h)) + 1] = h
<1> DEFINE n == Cardinality(S)
           r(h) == Cardinality(Below(S, h))
<1>0. n \in Nat /\ MaxHeight \in Nat /\ 0 \in Heights
    BY BelowType, ForkTreeAssumption DEF Heights
<1>1. \A h \in S : h \in Heights /\ h \in Nat /\ r(h) \in Nat
    BY BelowType, ForkTreeAssumption DEF Heights
<1>2. ASSUME NEW h \in S PROVE r(h) < n
    <2>1. Below(S, h) \subseteq S /\ Below(S, h) # S
        BY <1>1 DEF Below
    <2>2. IsFiniteSet(S)
        BY <1>0, BelowType
    <2>3. Cardinality(Below(S, h)) <= Cardinality(S)
              /\ (Cardinality(Below(S, h)) = Cardinality(S) => Below(S, h) = S)
        BY <2>1, <2>2, FS_Subset
    <2> QED BY <2>1, <2>3, <1>0, <1>1
<1>3. ASSUME NEW g \in S, NEW h \in S, r(g) = r(h) PROVE g = h
    <2>1. g < h \/ h < g \/ g = h
        BY <1>1
    <2>2. CASE g < h
        BY <2>2, <1>1, <1>3, BelowMonotone
    <2>3. CASE h < g
        BY <2>3, <1>1, <1>3, BelowMonotone
    <2> QED BY <2>1, <2>2, <2>3
<1>4. ASSUME NEW i \in 0 .. n - 1 PROVE \E h \in S : r(h) = i
    <2> DEFINE T == {h \in S : r(h) >= i}
    <2>1. T # {}
        <3>1. S # {}
            <4>1. SUFFICES ASSUME S = {} PROVE FALSE
                OBVIOUS
            <4>2. Cardinality(S) = 0
                BY <4>1, FS_EmptySet, Zenon
            <4> QED BY <4>2
        <3>2. PICK m \in S : \A k \in S : k <= m
            BY <3>1, <1>0, GreatestNat DEF Heights
        <3>3. S \ {m} = Below(S, m)
            <4>1. \A k \in S : k # m <=> k < m
                BY <3>2, <1>1
            <4> QED BY <4>1 DEF Below
        <3>4. IsFiniteSet(S)
            BY <1>0, BelowType
        <3>5. Cardinality(S \ {m}) = n - 1
            BY <3>4, FS_RemoveElement
        <3>6. r(m) = n - 1
            BY <3>3, <3>5, Zenon
        <3> QED BY <3>6
    <2>2. T \subseteq Nat
        BY <1>1
    <2>3. PICK h \in T : \A k \in T : h <= k
        <3> HIDE DEF T
        <3> QED BY <2>1, <2>2, LeastNat
    <2>4. h \in S /\ r(h) >= i /\ h \in Heights
        BY <2>3, <1>1
    <2>5. r(h) <= i
        <3>1. CASE Below(S, h) = {}
            <4>1. r(h) = 0
                BY <3>1, FS_EmptySet, Zenon
            <4> QED BY <4>1
        <3>2. CASE Below(S, h) # {}
            <4>1. Below(S, h) \subseteq 0 .. MaxHeight
                BY DEF Below, Heights
            <4>2. PICK p \in Below(S, h) : \A k \in Below(S, h) : k <= p
                BY <3>2, <4>1, <1>0, GreatestNat
            <4>3. p \in S /\ p < h /\ \A k \in S : k < h => k <= p
                BY <4>2 DEF Below
            <4>4. r(h) = r(p) + 1
                BY <4>3, <2>4, NextBelow
            <4>5. ~ (r(p) >= i)
                BY <4>3, <2>3, <2>4, <1>1
            <4> QED BY <4>3, <4>4, <4>5, <1>1
        <3> QED BY <3>1, <3>2
    <2> QED BY <2>4, <2>5, <1>1
<1>5. ASSUME NEW i \in 1 .. n
      PROVE  Ascending(S)[i] \in S /\ r(Ascending(S)[i]) = i - 1
    <2>1. Ascending(S)[i] = CHOOSE h \in S : r(h) = i - 1
        BY DEF Ascending, Below
    <2>2. i - 1 \in 0 .. n - 1
        BY <1>0
    <2>3. \E h \in S : r(h) = i - 1
        BY <1>4, <2>2
    <2> HIDE DEF r
    <2> QED BY <2>1, <2>3
<1>6. ASSUME NEW h \in S PROVE r(h) + 1 \in 1 .. n /\ Ascending(S)[r(h) + 1] = h
    <2>1. r(h) + 1 \in 1 .. n /\ (r(h) + 1) - 1 = r(h)
        BY <1>0, <1>1, <1>2
    <2>2. Ascending(S)[r(h) + 1] \in S /\ r(Ascending(S)[r(h) + 1]) = r(h)
        BY <1>5, <2>1
    <2> QED BY <2>1, <2>2, <1>3
<1> QED
    BY <1>5, <1>6

-----------------------------------------------------------------------------
(* Lists of writes, and what they leave in a row.                           *)

IsList(W) == W \in Seq({W[i] : i \in DOMAIN W})

LEMMA ListOf ==
    ASSUME NEW n \in Nat, NEW W, W = [i \in 1 .. n |-> W[i]]
    PROVE  IsList(W) /\ Len(W) = n /\ DOMAIN W = 1 .. n
BY DEF IsList

LEMMA SeqIsList == ASSUME NEW S, NEW W \in Seq(S) PROVE IsList(W)
<1>1. Len(W) \in Nat /\ W = [i \in 1 .. Len(W) |-> W[i]]
    OBVIOUS
<1> QED
    BY <1>1, ListOf

LEMMA ListDomain ==
    ASSUME NEW W, IsList(W)
    PROVE  Len(W) \in Nat /\ DOMAIN W = 1 .. Len(W) /\ W = [i \in 1 .. Len(W) |-> W[i]]
<1> DEFINE S == {W[i] : i \in DOMAIN W}
<1>1. W \in Seq(S)
    BY DEF IsList
<1> HIDE DEF S
<1> QED
    BY <1>1

LEMMA ConcatList ==
    ASSUME NEW A, NEW B, IsList(A), IsList(B)
    PROVE  /\ IsList(A \o B) /\ Len(A \o B) = Len(A) + Len(B)
           /\ \A i \in 1 .. Len(A) : (A \o B)[i] = A[i]
           /\ \A i \in 1 .. Len(B) : (A \o B)[Len(A) + i] = B[i]
<1> DEFINE S == {A[i] : i \in DOMAIN A} \cup {B[i] : i \in DOMAIN B}
<1>1. A \in Seq(S) /\ B \in Seq(S)
    <2>1. /\ A = [i \in 1 .. Len(A) |-> A[i]] /\ Len(A) \in Nat /\ DOMAIN A = 1 .. Len(A)
          /\ B = [i \in 1 .. Len(B) |-> B[i]] /\ Len(B) \in Nat /\ DOMAIN B = 1 .. Len(B)
        BY ListDomain
    <2>2. (\A i \in 1 .. Len(A) : A[i] \in S) /\ (\A i \in 1 .. Len(B) : B[i] \in S)
        BY <2>1
    <2> HIDE DEF S
    <2> QED BY <2>1, <2>2
<1> HIDE DEF S
<1>2. A \o B \in Seq(S) /\ Len(A) \in Nat /\ Len(B) \in Nat
    BY <1>1
<1>3. /\ Len(A \o B) = Len(A) + Len(B)
      /\ \A i \in 1 .. Len(A) : (A \o B)[i] = A[i]
      /\ \A i \in 1 .. Len(B) : (A \o B)[Len(A) + i] = B[i]
    BY <1>1, <1>2
<1>4. IsList(A \o B)
    BY <1>2, SeqIsList
<1> QED
    BY <1>3, <1>4

\* The first n writes of a list.
Prefix(W, n) == SubSeq(W, 1, n)

LEMMA PrefixList ==
    ASSUME NEW W, IsList(W), NEW n \in 0 .. Len(W)
    PROVE  IsList(Prefix(W, n)) /\ Len(Prefix(W, n)) = n
               /\ \A i \in 1 .. n : Prefix(W, n)[i] = W[i]
<1> DEFINE S == {W[i] : i \in DOMAIN W}
<1>1. W \in Seq(S) /\ Len(W) \in Nat
    BY ListDomain DEF IsList
<1> HIDE DEF S
<1>2. Prefix(W, n) \in Seq(S) /\ Len(Prefix(W, n)) = n /\ \A i \in 1 .. n : Prefix(W, n)[i] = W[i]
    BY <1>1 DEF Prefix
<1> QED
    BY <1>2, SeqIsList

SameList(V, W) == Len(V) = Len(W) /\ \A i \in 1 .. Len(V) : V[i] = W[i]

LEMMA ListEqual ==
    ASSUME NEW V, NEW W, IsList(V), IsList(W), SameList(V, W)
    PROVE  V = W
<1>1. /\ V = [i \in 1 .. Len(V) |-> V[i]] /\ W = [i \in 1 .. Len(W) |-> W[i]]
    BY ListDomain
<1>2. [i \in 1 .. Len(V) |-> V[i]] = [i \in 1 .. Len(W) |-> W[i]]
    BY DEF SameList
<1> QED
    BY <1>1, <1>2

\* The prefixes of a list in two parts.
LEMMA PrefixConcat ==
    ASSUME NEW A, NEW B, IsList(A), IsList(B), NEW n \in 0 .. Len(A) + Len(B)
    PROVE  /\ n <= Len(A) => Prefix(A \o B, n) = Prefix(A, n)
           /\ n >= Len(A) => /\ n - Len(A) \in 0 .. Len(B)
                             /\ Prefix(A \o B, n) = A \o Prefix(B, n - Len(A))
<1>1. /\ IsList(A \o B) /\ Len(A \o B) = Len(A) + Len(B)
      /\ \A i \in 1 .. Len(A) : (A \o B)[i] = A[i]
      /\ \A i \in 1 .. Len(B) : (A \o B)[Len(A) + i] = B[i]
      /\ Len(A) \in Nat /\ Len(B) \in Nat
    BY ConcatList, ListDomain
<1>2. /\ IsList(Prefix(A \o B, n)) /\ Len(Prefix(A \o B, n)) = n
      /\ \A i \in 1 .. n : Prefix(A \o B, n)[i] = (A \o B)[i]
    BY <1>1, PrefixList
<1>3. ASSUME n <= Len(A) PROVE Prefix(A \o B, n) = Prefix(A, n)
    <2>1. n \in 0 .. Len(A)
        BY <1>1, <1>3
    <2>2. IsList(Prefix(A, n)) /\ Len(Prefix(A, n)) = n /\ \A i \in 1 .. n : Prefix(A, n)[i] = A[i]
        BY <2>1, PrefixList
    <2>3. SameList(Prefix(A \o B, n), Prefix(A, n))
        BY <1>1, <1>2, <2>1, <2>2 DEF SameList
    <2> QED BY <1>2, <2>2, <2>3, ListEqual
<1>4. ASSUME n >= Len(A)
      PROVE  n - Len(A) \in 0 .. Len(B) /\ Prefix(A \o B, n) = A \o Prefix(B, n - Len(A))
    <2> DEFINE m == n - Len(A)
               C == Prefix(B, m)
    <2>1. m \in 0 .. Len(B) /\ n = Len(A) + m
        BY <1>1, <1>4
    <2>2. IsList(C) /\ Len(C) = m /\ \A i \in 1 .. m : C[i] = B[i]
        BY <2>1, PrefixList
    <2> HIDE DEF C, m
    <2>3. /\ IsList(A \o C) /\ Len(A \o C) = Len(A) + m
          /\ \A i \in 1 .. Len(A) : (A \o C)[i] = A[i]
          /\ \A i \in 1 .. m : (A \o C)[Len(A) + i] = C[i]
        BY <2>2, ConcatList
    <2>4. ASSUME NEW i \in 1 .. n PROVE Prefix(A \o B, n)[i] = (A \o C)[i]
        <3>1. CASE i <= Len(A)
            BY <3>1, <1>1, <1>2, <2>3
        <3>2. CASE i > Len(A)
            <4>1. i - Len(A) \in 1 .. m /\ i = Len(A) + (i - Len(A)) /\ i - Len(A) \in 1 .. Len(B)
                BY <3>2, <2>1, <1>1
            <4>2. (A \o B)[i] = B[i - Len(A)] /\ (A \o C)[i] = C[i - Len(A)]
                BY <4>1, <1>1, <2>3
            <4> QED BY <4>1, <4>2, <1>2, <2>2
        <3>3. i <= Len(A) \/ i > Len(A)
            BY <1>1, <2>1
        <3> QED BY <3>1, <3>2, <3>3
    <2>5. SameList(Prefix(A \o B, n), A \o C)
        BY <1>2, <2>1, <2>3, <2>4 DEF SameList
    <2> QED BY <1>2, <2>1, <2>3, <2>5, ListEqual DEF C, m
<1> QED
    BY <1>3, <1>4

LEMMA PrefixWhole == ASSUME NEW W, IsList(W) PROVE Prefix(W, Len(W)) = W
<1>1. Len(W) \in 0 .. Len(W)
    BY ListDomain
<1>2. SameList(Prefix(W, Len(W)), W) /\ IsList(Prefix(W, Len(W)))
    BY <1>1, PrefixList DEF SameList
<1> QED
    BY <1>2, ListEqual

-----------------------------------------------------------------------------
(* What a list of writes leaves in each row.                                *)

Trees7 == DOMAIN EmptyDisk
Keys7(t) == DOMAIN EmptyDisk[t]

LEMMA PlayDisk ==
    ASSUME NEW d, IsDisk(d), NEW W
    PROVE  /\ IsDisk(Play(d, W))
           /\ \A t \in Trees7 : \A k \in Keys7(t) :
                 Play(d, W)[t][k] = IF WritesTo(W, t, k) = {} THEN d[t][k]
                                    ELSE W[Max(WritesTo(W, t, k))].val
<1> DEFINE f(t, k) == IF WritesTo(W, t, k) = {} THEN d[t][k] ELSE W[Max(WritesTo(W, t, k))].val
<1>1. DOMAIN d = Trees7 /\ \A t \in Trees7 : DOMAIN d[t] = Keys7(t)
    BY DEF IsDisk, Trees7, Keys7
<1>2. Play(d, W) = [t \in DOMAIN d |-> [k \in DOMAIN d[t] |-> f(t, k)]]
    BY DEF Play
<1> HIDE DEF f
<1>3. /\ Play(d, W) = [t \in Trees7 |-> [k \in Keys7(t) |-> f(t, k)]]
    BY <1>1, <1>2
<1>4. \A t \in Trees7 : Play(d, W)[t] = [k \in Keys7(t) |-> f(t, k)]
    BY <1>3
<1>5. \A t \in Trees7 : \A k \in Keys7(t) : Play(d, W)[t][k] = f(t, k)
    BY <1>4
<1>6. Play(d, W) = [t \in Trees7 |-> Play(d, W)[t]]
    BY <1>3
<1>7. \A t \in Trees7 : Play(d, W)[t] = [k \in Keys7(t) |-> Play(d, W)[t][k]]
    BY <1>4
<1>8. IsDisk(Play(d, W))
    BY <1>6, <1>7 DEF IsDisk, Trees7, Keys7
<1> QED
    BY <1>5, <1>8 DEF f

\* Disks that agree in every row are the same.
LEMMA DiskEqual ==
    ASSUME NEW d, NEW e, IsDisk(d), IsDisk(e), \A t \in Trees7 : \A k \in Keys7(t) : d[t][k] = e[t][k]
    PROVE  d = e
<1>1. /\ d = [t \in Trees7 |-> d[t]] /\ e = [t \in Trees7 |-> e[t]]
      /\ \A t \in Trees7 : /\ d[t] = [k \in Keys7(t) |-> d[t][k]]
                           /\ e[t] = [k \in Keys7(t) |-> e[t][k]]
    BY DEF IsDisk, Trees7, Keys7
<1>2. ASSUME NEW t \in Trees7 PROVE d[t] = e[t]
    <2>1. [k \in Keys7(t) |-> d[t][k]] = [k \in Keys7(t) |-> e[t][k]]
        OBVIOUS
    <2> QED BY <1>1, <2>1
<1>3. [t \in Trees7 |-> d[t]] = [t \in Trees7 |-> e[t]]
    BY <1>2
<1> QED
    BY <1>1, <1>3

\* The i-th write of a list goes to a row.
Hits(w, t, k) == w.tree = t /\ w.key = k

\* A write without a later one to its row is what the row holds.
LEMMA PlayLast ==
    ASSUME NEW d, IsDisk(d), NEW W, IsList(W), NEW t \in Trees7, NEW k \in Keys7(t),
           NEW i \in 1 .. Len(W), Hits(W[i], t, k),
           \A j \in 1 .. Len(W) : i < j => ~ Hits(W[j], t, k)
    PROVE  Play(d, W)[t][k] = W[i].val
<1> DEFINE at == WritesTo(W, t, k)
<1>1. Len(W) \in Nat /\ DOMAIN W = 1 .. Len(W)
    BY ListDomain
<1>2. i \in at /\ \A j \in at : i >= j
    BY <1>1 DEF WritesTo, Hits
<1>3. \A j \in at : j \in Int
    BY <1>1 DEF WritesTo
<1> HIDE DEF at
<1>4. \A x \in at : (\A y \in at : x >= y) => x = i
    BY <1>2, <1>3
<1>5. Max(at) = i
    BY <1>2, <1>4 DEF Max
<1>6. Play(d, W)[t][k] = IF at = {} THEN d[t][k] ELSE W[Max(at)].val
    BY PlayDisk DEF at
<1> QED
    BY <1>2, <1>5, <1>6

LEMMA PlayNone ==
    ASSUME NEW d, IsDisk(d), NEW W, IsList(W), NEW t \in Trees7, NEW k \in Keys7(t),
           \A j \in 1 .. Len(W) : ~ Hits(W[j], t, k)
    PROVE  Play(d, W)[t][k] = d[t][k]
<1>1. WritesTo(W, t, k) = {}
    BY ListDomain DEF WritesTo, Hits
<1>2. Play(d, W)[t][k] = IF WritesTo(W, t, k) = {} THEN d[t][k]
                         ELSE W[Max(WritesTo(W, t, k))].val
    BY PlayDisk
<1> QED
    BY <1>1, <1>2

\* Either no write goes to a row, or one of them is the last.
LEMMA LastWrite ==
    ASSUME NEW W, IsList(W), NEW t, NEW k
    PROVE  \/ \A j \in 1 .. Len(W) : ~ Hits(W[j], t, k)
           \/ \E i \in 1 .. Len(W) : /\ Hits(W[i], t, k)
                                     /\ \A j \in 1 .. Len(W) : i < j => ~ Hits(W[j], t, k)
<1> DEFINE at == {i \in 1 .. Len(W) : Hits(W[i], t, k)}
<1>1. SUFFICES ASSUME at # {}
               PROVE  \E i \in at : \A j \in 1 .. Len(W) : i < j => ~ Hits(W[j], t, k)
    OBVIOUS
<1>2. Len(W) \in Nat
    BY ListDomain
<1>3. at \subseteq 0 .. Len(W)
    BY <1>2
<1>4. \E m \in at : \A j \in at : j <= m
    <2> HIDE DEF at
    <2> QED BY <1>1, <1>2, <1>3, GreatestNat
<1>5. PICK m \in at : \A j \in at : j <= m
    BY <1>4
<1> QED
    BY <1>2, <1>5

\* Two lists one after the other.
LEMMA PlayConcat ==
    ASSUME NEW d, IsDisk(d), NEW A, NEW B, IsList(A), IsList(B)
    PROVE  Play(d, A \o B) = Play(Play(d, A), B)
<1> DEFINE C == A \o B
           e == Play(d, A)
<1>1. /\ IsList(C) /\ Len(C) = Len(A) + Len(B)
      /\ \A i \in 1 .. Len(A) : C[i] = A[i]
      /\ \A i \in 1 .. Len(B) : C[Len(A) + i] = B[i]
      /\ Len(A) \in Nat /\ Len(B) \in Nat
    BY ConcatList, ListDomain
<1>2. IsDisk(e) /\ IsDisk(Play(e, B)) /\ IsDisk(Play(d, C))
    BY PlayDisk
<1> HIDE DEF C, e
<1>3. \A j \in 1 .. Len(C) : \/ j \in 1 .. Len(A) /\ C[j] = A[j]
                             \/ /\ j - Len(A) \in 1 .. Len(B) /\ j = Len(A) + (j - Len(A))
                                /\ C[j] = B[j - Len(A)]
    <2> SUFFICES ASSUME NEW j \in 1 .. Len(C)
                 PROVE  \/ j \in 1 .. Len(A) /\ C[j] = A[j]
                        \/ /\ j - Len(A) \in 1 .. Len(B) /\ j = Len(A) + (j - Len(A))
                           /\ C[j] = B[j - Len(A)]
        OBVIOUS
    <2>1. j \in 1 .. Len(A) \/ (j - Len(A) \in 1 .. Len(B) /\ j = Len(A) + (j - Len(A)))
        BY <1>1
    <2>2. j \in 1 .. Len(A) => C[j] = A[j]
        BY <1>1
    <2>3. j - Len(A) \in 1 .. Len(B) => C[Len(A) + (j - Len(A))] = B[j - Len(A)]
        BY <1>1
    <2> QED BY <2>1, <2>2, <2>3
<1>4. ASSUME NEW t \in Trees7, NEW k \in Keys7(t)
      PROVE  Play(d, C)[t][k] = Play(e, B)[t][k]
    <2>1. CASE \E i \in 1 .. Len(B) : /\ Hits(B[i], t, k)
                                      /\ \A j \in 1 .. Len(B) : i < j => ~ Hits(B[j], t, k)
        <3>1. PICK i \in 1 .. Len(B) : /\ Hits(B[i], t, k)
                                       /\ \A j \in 1 .. Len(B) : i < j => ~ Hits(B[j], t, k)
            BY <2>1
        <3>2. Play(e, B)[t][k] = B[i].val
            BY <3>1, <1>2, PlayLast
        <3>m. PICK m \in 1 .. Len(C) : m = Len(A) + i
            BY <1>1
        <3>3. C[m] = B[i] /\ Hits(C[m], t, k)
            BY <1>1, <3>1, <3>m
        <3>4. \A j \in 1 .. Len(C) : m < j => ~ Hits(C[j], t, k)
            <4>1. SUFFICES ASSUME NEW j \in 1 .. Len(C), m < j PROVE ~ Hits(C[j], t, k)
                OBVIOUS
            <4>2. j \notin 1 .. Len(A) /\ i < j - Len(A)
                BY <1>1, <4>1, <3>m
            <4>3. j - Len(A) \in 1 .. Len(B) /\ C[j] = B[j - Len(A)]
                BY <1>3, <4>2
            <4> QED BY <3>1, <4>2, <4>3
        <3>5. Play(d, C)[t][k] = C[m].val
            <4>1. IsList(C) /\ Hits(C[m], t, k) /\ m \in 1 .. Len(C)
                BY <1>1, <3>3
            <4> QED BY <4>1, <3>4, PlayLast
        <3> QED BY <3>2, <3>3, <3>5
    <2>2. CASE \A j \in 1 .. Len(B) : ~ Hits(B[j], t, k)
        <3>1. Play(e, B)[t][k] = e[t][k]
            BY <2>2, <1>2, PlayNone
        <3>2. CASE \A j \in 1 .. Len(A) : ~ Hits(A[j], t, k)
            <4>1. e[t][k] = d[t][k]
                BY <3>2, PlayNone DEF e
            <4>2. \A j \in 1 .. Len(C) : ~ Hits(C[j], t, k)
                BY <1>3, <2>2, <3>2
            <4>3. Play(d, C)[t][k] = d[t][k]
                BY <1>1, <4>2, PlayNone
            <4> QED BY <3>1, <4>1, <4>3
        <3>3. CASE \E i \in 1 .. Len(A) : /\ Hits(A[i], t, k)
                                          /\ \A j \in 1 .. Len(A) : i < j => ~ Hits(A[j], t, k)
            <4>1. PICK i \in 1 .. Len(A) : /\ Hits(A[i], t, k)
                                           /\ \A j \in 1 .. Len(A) : i < j => ~ Hits(A[j], t, k)
                BY <3>3
            <4>2. e[t][k] = A[i].val
                BY <4>1, PlayLast DEF e
            <4>3. i \in 1 .. Len(C) /\ C[i] = A[i] /\ Hits(C[i], t, k)
                BY <1>1, <4>1
            <4>4. \A j \in 1 .. Len(C) : i < j => ~ Hits(C[j], t, k)
                BY <1>3, <2>2, <4>1
            <4>5. Play(d, C)[t][k] = C[i].val
                <5>1. IsList(C) /\ Hits(C[i], t, k) /\ i \in 1 .. Len(C)
                    BY <1>1, <4>3
                <5> QED BY <5>1, <4>4, PlayLast
            <4> QED BY <3>1, <4>2, <4>3, <4>5
        <3> QED BY <3>2, <3>3, LastWrite
    <2> QED BY <2>1, <2>2, LastWrite
<1> QED
    BY <1>2, <1>4, DiskEqual DEF C, e

LEMMA ApplyDisk ==
    ASSUME NEW d, IsDisk(d), NEW w
    PROVE  /\ IsDisk(Apply(d, w))
           /\ \A t \in Trees7 : \A k \in Keys7(t) :
                 Apply(d, w)[t][k] = IF Hits(w, t, k) THEN w.val ELSE d[t][k]
<1> DEFINE u == w.tree
           x == w.key
           v == w.val
           e == [d EXCEPT ![u][x] = v]
<1>1. Apply(d, w) = e
    BY DEF Apply
<1>2. /\ DOMAIN d = Trees7 /\ d = [t \in Trees7 |-> d[t]]
      /\ \A t \in Trees7 : DOMAIN d[t] = Keys7(t) /\ d[t] = [k \in Keys7(t) |-> d[t][k]]
    BY DEF IsDisk, Trees7, Keys7
<1>3. e = [t \in Trees7 |-> IF t = u THEN [d[t] EXCEPT ![x] = v] ELSE d[t]]
    BY <1>2
<1> HIDE DEF e
<1>4. \A t \in Trees7 : e[t] = IF t = u THEN [d[t] EXCEPT ![x] = v] ELSE d[t]
    BY <1>3
<1>5. \A t \in Trees7 : /\ DOMAIN e[t] = Keys7(t) /\ e[t] = [k \in Keys7(t) |-> e[t][k]]
                        /\ \A k \in Keys7(t) : e[t][k] = IF t = u /\ k = x THEN v ELSE d[t][k]
    <2> SUFFICES ASSUME NEW t \in Trees7
                 PROVE  /\ DOMAIN e[t] = Keys7(t) /\ e[t] = [k \in Keys7(t) |-> e[t][k]]
                        /\ \A k \in Keys7(t) : e[t][k] = IF t = u /\ k = x THEN v ELSE d[t][k]
        OBVIOUS
    <2> DEFINE g == d[t]
    <2>1. g = [k \in Keys7(t) |-> g[k]] /\ DOMAIN g = Keys7(t)
        BY <1>2
    <2>2. e[t] = IF t = u THEN [g EXCEPT ![x] = v] ELSE g
        BY <1>4
    <2> HIDE DEF g
    <2>3. CASE t = u
        <3>1. e[t] = [k \in Keys7(t) |-> IF k = x THEN v ELSE g[k]]
            BY <2>1, <2>2, <2>3
        <3> QED BY <3>1, <2>3 DEF g
    <2>4. CASE t # u
        BY <2>1, <2>2, <2>4 DEF g
    <2> QED BY <2>3, <2>4
<1>6. DOMAIN e = Trees7 /\ e = [t \in Trees7 |-> e[t]]
    BY <1>3
<1>7. IsDisk(e)
    BY <1>5, <1>6 DEF IsDisk, Trees7, Keys7
<1> QED
    BY <1>1, <1>5, <1>7, ZenonT(60) DEF Hits

LEMMA OneWrite == ASSUME NEW w PROVE IsList(<<w>>) /\ Len(<<w>>) = 1 /\ <<w>>[1] = w
<1>1. <<w>> \in Seq({w})
    OBVIOUS
<1> QED
    BY <1>1, SeqIsList

LEMMA NoWrite == IsList(<<>>) /\ Len(<<>>) = 0
<1>1. <<>> \in Seq({})
    OBVIOUS
<1> QED
    BY <1>1, SeqIsList

LEMMA PrefixNone ==
    ASSUME NEW W, IsList(W)
    PROVE  0 \in 0 .. Len(W) /\ Prefix(W, 0) = <<>>
<1>1. 0 \in 0 .. Len(W)
    BY ListDomain
<1>2. IsList(Prefix(W, 0)) /\ Len(Prefix(W, 0)) = 0
    BY <1>1, PrefixList
<1>3. SameList(Prefix(W, 0), <<>>)
    BY <1>2, NoWrite DEF SameList
<1> QED
    BY <1>1, <1>2, <1>3, NoWrite, ListEqual

LEMMA PlayOne ==
    ASSUME NEW d, IsDisk(d), NEW w
    PROVE  Play(d, <<w>>) = Apply(d, w)
<1> DEFINE W == <<w>>
<1>1. IsList(W) /\ Len(W) = 1 /\ W[1] = w
    BY OneWrite
<1>2. IsDisk(Play(d, W)) /\ IsDisk(Apply(d, w))
    BY PlayDisk, ApplyDisk
<1> HIDE DEF W
<1>3. ASSUME NEW t \in Trees7, NEW k \in Keys7(t)
      PROVE  Play(d, W)[t][k] = Apply(d, w)[t][k]
    <2>1. CASE Hits(w, t, k)
        <3>1. /\ 1 \in 1 .. Len(W) /\ Hits(W[1], t, k)
              /\ \A j \in 1 .. Len(W) : 1 < j => ~ Hits(W[j], t, k)
            BY <1>1, <2>1
        <3>2. Play(d, W)[t][k] = W[1].val
            BY <1>1, <3>1, PlayLast
        <3> QED BY <3>2, <1>1, <2>1, ApplyDisk
    <2>2. CASE ~ Hits(w, t, k)
        <3>1. \A j \in 1 .. Len(W) : ~ Hits(W[j], t, k)
            BY <1>1, <2>2
        <3>2. Play(d, W)[t][k] = d[t][k]
            BY <1>1, <3>1, PlayNone
        <3> QED BY <3>2, <2>2, ApplyDisk
    <2> QED BY <2>1, <2>2
<1> QED
    BY <1>2, <1>3, DiskEqual DEF W

LEMMA PlayEmpty == ASSUME NEW d, IsDisk(d) PROVE Play(d, <<>>) = d
<1>1. IsDisk(Play(d, <<>>))
    BY PlayDisk
<1>2. \A t \in Trees7 : \A k \in Keys7(t) : Play(d, <<>>)[t][k] = d[t][k]
    <2>1. \A j \in 1 .. Len(<<>>) : FALSE
        BY NoWrite
    <2> QED BY <2>1, NoWrite, PlayNone
<1> QED
    BY <1>1, <1>2, DiskEqual

LEMMA SplitHead ==
    ASSUME NEW W, IsList(W), W # <<>>
    PROVE  /\ IsList(Tail(W)) /\ Len(Tail(W)) = Len(W) - 1 /\ Len(W) \in Nat \ {0}
           /\ W = <<Head(W)>> \o Tail(W) /\ Head(W) = W[1]
           /\ \A i \in 1 .. Len(Tail(W)) : Tail(W)[i] = W[i + 1]
<1> DEFINE S == {W[i] : i \in DOMAIN W}
<1>1. W \in Seq(S)
    BY DEF IsList
<1> HIDE DEF S
<1>2. /\ Tail(W) \in Seq(S) /\ Len(Tail(W)) = Len(W) - 1 /\ Len(W) \in Nat \ {0} /\ Head(W) = W[1]
      /\ \A i \in 1 .. Len(Tail(W)) : Tail(W)[i] = W[i + 1]
    BY <1>1
<1>3. IsList(Tail(W)) /\ IsList(<<Head(W)>>) /\ Len(<<Head(W)>>) = 1 /\ <<Head(W)>>[1] = Head(W)
    BY <1>2, SeqIsList, OneWrite
<1> DEFINE V == <<Head(W)>> \o Tail(W)
<1>4. /\ IsList(V) /\ Len(V) = 1 + Len(Tail(W))
      /\ \A i \in 1 .. 1 : V[i] = <<Head(W)>>[i]
      /\ \A i \in 1 .. Len(Tail(W)) : V[1 + i] = Tail(W)[i]
    BY <1>3, ConcatList
<1> HIDE DEF V
<1>5. ASSUME NEW i \in 1 .. Len(V) PROVE V[i] = W[i]
    <2>1. CASE i = 1
        BY <2>1, <1>2, <1>3, <1>4
    <2>2. CASE i # 1
        <3>1. i - 1 \in 1 .. Len(Tail(W)) /\ i = 1 + (i - 1) /\ (i - 1) + 1 = i
            BY <2>2, <1>2, <1>4
        <3> QED BY <3>1, <1>2, <1>4
    <2> QED BY <2>1, <2>2
<1>6. SameList(V, W)
    BY <1>2, <1>4, <1>5 DEF SameList
<1>7. V = W
    BY <1>4, <1>6, ListEqual
<1> QED
    BY <1>2, <1>3, <1>7 DEF V

\* Writing the first row leaves the same rest to be played.
LEMMA PlayStep ==
    ASSUME NEW d, IsDisk(d), NEW W, IsList(W), W # <<>>, NEW n \in 0 .. Len(Tail(W))
    PROVE  /\ n + 1 \in 0 .. Len(W)
           /\ Play(Apply(d, Head(W)), Prefix(Tail(W), n)) = Play(d, Prefix(W, n + 1))
<1> DEFINE A == <<Head(W)>>
           B == Tail(W)
<1>1. /\ IsList(A) /\ IsList(B) /\ Len(A) = 1 /\ W = A \o B /\ Len(B) = Len(W) - 1
      /\ Len(W) \in Nat \ {0} /\ Len(B) \in Nat
    BY SplitHead, OneWrite
<1>2. Play(d, A) = Apply(d, Head(W))
    BY PlayOne
<1>3. n \in 0 .. Len(B)
    OBVIOUS
<1> HIDE DEF A, B
<1>4. n + 1 \in 0 .. Len(A) + Len(B) /\ n + 1 >= Len(A) /\ (n + 1) - Len(A) = n /\ n + 1 \in 0 .. Len(W)
    BY <1>1, <1>3
<1>5. Prefix(A \o B, n + 1) = A \o Prefix(B, n)
    BY <1>1, <1>4, PrefixConcat
<1>6. IsList(Prefix(B, n))
    BY <1>1, <1>3, PrefixList
<1>7. Play(d, A \o Prefix(B, n)) = Play(Play(d, A), Prefix(B, n))
    BY <1>1, <1>6, PlayConcat
<1> QED
    BY <1>1, <1>2, <1>4, <1>5, <1>7 DEF B

-----------------------------------------------------------------------------
(* Rows that are erased.                                                    *)

LEMMA EraseOneTree ==
    ASSUME NEW t, NEW S, S \subseteq Heights
    PROVE  /\ IsList(EraseRows(<<t>>, S)) /\ Len(EraseRows(<<t>>, S)) = Cardinality(S)
           /\ \A i \in 1 .. Cardinality(S) :
                 EraseRows(<<t>>, S)[i] = [tree |-> t, key |-> Ascending(S)[i], val |-> None]
<1> DEFINE n == Cardinality(S)
           W == EraseRows(<<t>>, S)
           f(i) == [tree |-> <<t>>[((i - 1) % 1) + 1], key |-> Ascending(S)[((i - 1) \div 1) + 1],
                    val |-> None]
<1>1. n \in Nat
    <2>1. 0 \in Heights
        BY ForkTreeAssumption DEF Heights
    <2> QED BY <2>1, BelowType
<1>2. Len(<<t>>) = 1
    OBVIOUS
<1>3. W = [i \in 1 .. 1 * n |-> f(i)]
    BY <1>2 DEF EraseRows
<1>4. 1 * n = n
    BY <1>1
<1> HIDE DEF W, n
<1>5. W = [i \in 1 .. n |-> f(i)]
    BY <1>3, <1>4
<1>6. \A i \in 1 .. n : ((i - 1) % 1) + 1 = 1 /\ ((i - 1) \div 1) + 1 = i
    BY <1>1
<1>7. \A i \in 1 .. n : W[i] = [tree |-> t, key |-> Ascending(S)[i], val |-> None]
    BY <1>5, <1>6
<1>8. W = [i \in 1 .. n |-> W[i]]
    BY <1>5
<1> QED
    BY <1>1, <1>7, <1>8, ListOf DEF W, n

BlockTrees == {"blocks", "hashes", "coins"}

LEMMA EraseThreeTrees ==
    ASSUME NEW S, S \subseteq Heights
    PROVE  LET W == RemoveBlocks(S)
           IN  /\ IsList(W) /\ Len(W) = 3 * Cardinality(S)
               /\ \A i \in 1 .. Len(W) : /\ W[i].tree \in BlockTrees /\ W[i].key \in S
                                         /\ W[i].val = None
               /\ \A i \in 1 .. Len(W) : W[i].tree = "hashes" =>
                     /\ i - 1 \in 1 .. Len(W)
                     /\ W[i - 1].tree = "blocks" /\ W[i - 1].key = W[i].key
               /\ \A h \in S, t \in BlockTrees : \E i \in 1 .. Len(W) : Hits(W[i], t, h)
<1> DEFINE n == Cardinality(S)
           W == RemoveBlocks(S)
           T == <<"blocks", "hashes", "coins">>
           f(i) == [tree |-> T[((i - 1) % 3) + 1], key |-> Ascending(S)[((i - 1) \div 3) + 1],
                    val |-> None]
<1>1. n \in Nat
    <2>1. 0 \in Heights
        BY ForkTreeAssumption DEF Heights
    <2> QED BY <2>1, BelowType
<1>2. Len(T) = 3 /\ T[1] = "blocks" /\ T[2] = "hashes" /\ T[3] = "coins"
    OBVIOUS
<1>3. W = [i \in 1 .. 3 * n |-> f(i)]
    BY <1>2 DEF EraseRows, RemoveBlocks
<1>4. 3 * n \in Nat
    BY <1>1
<1> HIDE DEF W, n, T
<1>5. W = [i \in 1 .. 3 * n |-> W[i]]
    BY <1>3
<1>6. IsList(W) /\ Len(W) = 3 * n
    BY <1>4, <1>5, ListOf
<1>7. \A i \in 1 .. 3 * n : /\ ((i - 1) % 3) + 1 \in 1 .. 3 /\ ((i - 1) \div 3) + 1 \in 1 .. n
    BY <1>1
<1>8. \A i \in 1 .. 3 * n : /\ W[i].tree = T[((i - 1) % 3) + 1]
                            /\ W[i].key = Ascending(S)[((i - 1) \div 3) + 1]
                            /\ W[i].val = None
    BY <1>3
<1>9. \A j \in 1 .. n : Ascending(S)[j] \in S
    BY AscendingLists DEF n
<1>10. \A i \in 1 .. Len(W) : W[i].tree \in BlockTrees /\ W[i].key \in S /\ W[i].val = None
    <2>1. \A j \in 1 .. 3 : T[j] \in BlockTrees
        BY <1>2 DEF BlockTrees
    <2> QED BY <1>6, <1>7, <1>8, <1>9, <2>1
<1>11. ASSUME NEW i \in 1 .. Len(W), W[i].tree = "hashes"
       PROVE  /\ i - 1 \in 1 .. Len(W)
              /\ W[i - 1].tree = "blocks" /\ W[i - 1].key = W[i].key
    <2>1. ((i - 1) % 3) + 1 = 2
        BY <1>2, <1>6, <1>7, <1>8, <1>11
    <2>2. /\ i - 1 \in 1 .. 3 * n /\ (((i - 1) - 1) % 3) + 1 = 1
          /\ ((i - 1) - 1) \div 3 = (i - 1) \div 3
        BY <2>1, <1>1, <1>6
    <2> QED BY <2>2, <1>2, <1>6, <1>8
<1>12. ASSUME NEW h \in S, NEW t \in BlockTrees
       PROVE  \E i \in 1 .. Len(W) : Hits(W[i], t, h)
    <2>1. PICK j \in 1 .. n : Ascending(S)[j] = h
        BY AscendingLists DEF n
    <2>2. PICK m \in 1 .. 3 : T[m] = t
        BY <1>2 DEF BlockTrees
    <2> DEFINE i == 3 * (j - 1) + m
    <2>3. i \in 1 .. 3 * n /\ ((i - 1) % 3) + 1 = m /\ ((i - 1) \div 3) + 1 = j
        BY <1>1, <2>1, <2>2
    <2> HIDE DEF i
    <2>4. Hits(W[i], t, h)
        BY <1>8, <2>1, <2>2, <2>3 DEF Hits
    <2> QED BY <1>6, <2>3, <2>4
<1> QED
    BY <1>6, <1>10, <1>11, <1>12 DEF W, n

-----------------------------------------------------------------------------
(* Disks a reader may meet.                                                 *)

\* Rows of an older version are still there to be removed.
Old(d) == d.meta.format \notin {None, Format}

LinkedRows(d) ==
    \A h \in Heights \ {0} :
        (d.blocks[h] \in Hash /\ d.blocks[h - 1] \in Hash) => Prev[d.blocks[h]] = d.blocks[h - 1]

\* Nothing is above the tip but the block that is being inserted, and a block up
\* to the tip has its hash beside it: what the next insertion relies on.
BoundedByTip(d) ==
    IF Tip(d) = NoTip THEN \A k \in Heights \ {0} : d.blocks[k] = None
    ELSE /\ \A k \in Heights : k > d.meta.tip_height + 1 => d.blocks[k] = None
         /\ \A k \in Heights \ {0} :
               (k <= d.meta.tip_height /\ d.blocks[k] \in Hash) => d.hashes[k] = d.blocks[k]

DiskOK(d) ==
    /\ IsDisk(d)
    /\ \A k \in Heights : d.blocks[k] \in Hash \cup {OldRow, None}
    /\ \A k \in Heights : d.blocks[k] \in Hash => HeightOf[d.blocks[k]] = k
    /\ d.meta.tip_height \in Heights \cup {None} /\ d.meta.tip_hash \in Hash \cup {None}
    /\ Old(d) => \A k \in Heights : d.blocks[k] \notin Hash
    /\ ~ Old(d) => /\ \A k \in Heights : d.blocks[k] # OldRow
                   /\ LinkedRows(d)
                   /\ BoundedByTip(d)

Fine(d, s) == DiskOK(d) /\ (s = "serving" => ~ Old(d))

\* Every prefix of the writes leaves such a disk.
AllFine(d, W, s) ==
    /\ IsList(W)
    /\ \A n \in 0 .. Len(W) : Fine(Play(d, Prefix(W, n)), s)

CoreKeys == {"tip_height", "tip_hash", "format"}

SameCore(d, e) ==
    /\ \A k \in Heights : e.blocks[k] = d.blocks[k] /\ e.hashes[k] = d.hashes[k]
    /\ \A k \in CoreKeys : e.meta[k] = d.meta[k]

\* A write that touches none of this.
Aside(w) == /\ w.tree \notin {"blocks", "hashes"}
            /\ w.tree = "meta" => w.key \notin CoreKeys

LEMMA TreesAre ==
    /\ {"blocks", "hashes", "coins", "snaps", "meta", "pubkeys", "live"} = Trees7
    /\ Keys7("blocks") = Heights /\ Keys7("hashes") = Heights
    /\ Keys7("coins") = Heights /\ Keys7("snaps") = Heights
    /\ Keys7("meta") = MetaKeys /\ CoreKeys \subseteq Keys7("meta")
    /\ Keys7("pubkeys") = {"current", "old"} /\ Keys7("live") = {"tree"}
BY DEF Trees7, Keys7, EmptyDisk, NoRows, CoreKeys, MetaKeys

LEMMA CoreFine ==
    ASSUME NEW s, NEW d, Fine(d, s), NEW e, IsDisk(e), SameCore(d, e)
    PROVE  Fine(e, s)
<1>1. /\ e.meta.tip_height = d.meta.tip_height /\ e.meta.tip_hash = d.meta.tip_hash
      /\ e.meta.format = d.meta.format
      /\ \A k \in Heights : e.blocks[k] = d.blocks[k] /\ e.hashes[k] = d.hashes[k]
    BY DEF SameCore, CoreKeys
<1>2. Old(e) = Old(d) /\ (Tip(e) = NoTip <=> Tip(d) = NoTip)
    BY <1>1 DEF Old, Tip
<1>3. \A h \in Heights \ {0} : h - 1 \in Heights
    BY ForkTreeAssumption DEF Heights
<1>4. LinkedRows(d) => LinkedRows(e)
    BY <1>1, <1>3 DEF LinkedRows
<1>5. BoundedByTip(d) => BoundedByTip(e)
    BY <1>1, <1>2 DEF BoundedByTip
<1> QED
    BY <1>1, <1>2, <1>4, <1>5 DEF Fine, DiskOK

LEMMA AllConcat ==
    ASSUME NEW s, NEW d, NEW A, NEW B, IsDisk(d), AllFine(d, A, s), AllFine(Play(d, A), B, s)
    PROVE  AllFine(d, A \o B, s) /\ Play(d, A \o B) = Play(Play(d, A), B)
<1>1. /\ IsList(A) /\ IsList(B) /\ Len(A) \in Nat /\ Len(B) \in Nat
      /\ IsList(A \o B) /\ Len(A \o B) = Len(A) + Len(B)
    BY ConcatList, ListDomain DEF AllFine
<1>2. ASSUME NEW n \in 0 .. Len(A \o B)
      PROVE  Fine(Play(d, Prefix(A \o B, n)), s)
    <2>1. n \in 0 .. Len(A) + Len(B)
        BY <1>1
    <2>2. CASE n <= Len(A)
        <3>1. n \in 0 .. Len(A) /\ Prefix(A \o B, n) = Prefix(A, n)
            BY <2>1, <2>2, <1>1, PrefixConcat
        <3> QED BY <3>1 DEF AllFine
    <2>3. CASE n >= Len(A)
        <3>1. /\ n - Len(A) \in 0 .. Len(B)
              /\ Prefix(A \o B, n) = A \o Prefix(B, n - Len(A))
            BY <2>1, <2>3, <1>1, PrefixConcat
        <3>2. IsList(Prefix(B, n - Len(A)))
            BY <3>1, <1>1, PrefixList
        <3>3. Play(d, A \o Prefix(B, n - Len(A))) = Play(Play(d, A), Prefix(B, n - Len(A)))
            BY <3>2, <1>1, PlayConcat
        <3> QED BY <3>1, <3>3 DEF AllFine
    <2> QED BY <2>1, <2>2, <2>3, <1>1
<1> QED
    BY <1>1, <1>2, PlayConcat DEF AllFine

LEMMA AllNone ==
    ASSUME NEW s, NEW d, Fine(d, s)
    PROVE  AllFine(d, <<>>, s)
<1>1. IsDisk(d)
    BY DEF Fine, DiskOK
<1>2. ASSUME NEW n \in 0 .. Len(<<>>) PROVE Prefix(<<>>, n) = <<>>
    <2>1. n = Len(<<>>)
        BY NoWrite
    <2> QED BY <2>1, NoWrite, PrefixWhole
<1> QED
    BY <1>1, <1>2, NoWrite, PlayEmpty DEF AllFine

LEMMA AllOne ==
    ASSUME NEW s, NEW d, Fine(d, s), NEW w, Fine(Apply(d, w), s)
    PROVE  AllFine(d, <<w>>, s) /\ Play(d, <<w>>) = Apply(d, w)
<1> DEFINE W == <<w>>
<1>1. IsDisk(d)
    BY DEF Fine, DiskOK
<1>2. IsList(W) /\ Len(W) = 1 /\ Play(d, W) = Apply(d, w)
    BY <1>1, OneWrite, PlayOne
<1> HIDE DEF W
<1>3. ASSUME NEW n \in 0 .. Len(W) PROVE Fine(Play(d, Prefix(W, n)), s)
    <2>1. CASE n = 0
        <3>1. Prefix(W, 0) = <<>>
            BY <1>2, PrefixNone
        <3> QED BY <3>1, <2>1, <1>1, PlayEmpty
    <2>2. CASE n = 1
        <3>1. Prefix(W, n) = W
            BY <2>2, <1>2, PrefixWhole
        <3> QED BY <3>1, <1>2
    <2> QED BY <2>1, <2>2, <1>2
<1> QED
    BY <1>2, <1>3 DEF AllFine, W

LEMMA AllAside ==
    ASSUME NEW s, NEW d, Fine(d, s), NEW W, IsList(W), \A i \in 1 .. Len(W) : Aside(W[i])
    PROVE  AllFine(d, W, s) /\ SameCore(d, Play(d, W)) /\ Fine(Play(d, W), s)
<1>1. IsDisk(d) /\ Len(W) \in 0 .. Len(W)
    BY ListDomain DEF Fine, DiskOK
<1>2. ASSUME NEW n \in 0 .. Len(W)
      PROVE  /\ SameCore(d, Play(d, Prefix(W, n))) /\ Fine(Play(d, Prefix(W, n)), s)
    <2> DEFINE V == Prefix(W, n)
               e == Play(d, V)
    <2>1. IsList(V) /\ Len(V) = n /\ \A i \in 1 .. n : V[i] = W[i]
        BY PrefixList
    <2>2. \A i \in 1 .. Len(V) : Aside(V[i])
        BY <2>1
    <2>3. IsDisk(e)
        BY <1>1, PlayDisk
    <2> HIDE DEF V
    <2>4. \A k \in Heights : e.blocks[k] = d.blocks[k] /\ e.hashes[k] = d.hashes[k]
        <3>1. \A k \in Heights : \A j \in 1 .. Len(V) :
                  ~ Hits(V[j], "blocks", k) /\ ~ Hits(V[j], "hashes", k)
            BY <2>2 DEF Aside, Hits
        <3>2. "blocks" \in Trees7 /\ "hashes" \in Trees7
            BY TreesAre
        <3>3. \A k \in Heights : e["blocks"][k] = d["blocks"][k] /\ e["hashes"][k] = d["hashes"][k]
            BY <1>1, <2>1, <3>1, <3>2, TreesAre, PlayNone
        <3> QED BY <3>3
    <2>5. \A k \in CoreKeys : e.meta[k] = d.meta[k]
        <3>1. \A k \in CoreKeys : \A j \in 1 .. Len(V) : ~ Hits(V[j], "meta", k)
            BY <2>2 DEF Aside, Hits
        <3>2. "meta" \in Trees7 /\ \A k \in CoreKeys : k \in Keys7("meta")
            BY TreesAre
        <3>3. \A k \in CoreKeys : e["meta"][k] = d["meta"][k]
            BY <1>1, <2>1, <3>1, <3>2, PlayNone
        <3> QED BY <3>3
    <2>6. SameCore(d, e)
        BY <2>4, <2>5 DEF SameCore
    <2> HIDE DEF e
    <2>7. Fine(e, s)
        BY <2>3, <2>6, CoreFine
    <2> QED BY <2>6, <2>7 DEF e, V
<1>3. Prefix(W, Len(W)) = W
    BY PrefixWhole
<1> QED
    BY <1>1, <1>2, <1>3 DEF AllFine

-----------------------------------------------------------------------------
(* Rows are only removed, a block no later than its hash.                   *)

Erases(W) == \A i \in 1 .. Len(W) : W[i].val = None /\ W[i].tree # "meta"

BlocksFirst(W) ==
    \A i \in 1 .. Len(W) : W[i].tree = "hashes" =>
        \E j \in 1 .. Len(W) : j < i /\ Hits(W[j], "blocks", W[i].key)

LEMMA ErasedCells ==
    ASSUME NEW d, IsDisk(d), NEW W, IsList(W), \A i \in 1 .. Len(W) : W[i].val = None,
           NEW t \in Trees7, NEW k \in Keys7(t)
    PROVE  /\ Play(d, W)[t][k] \in {None, d[t][k]}
           /\ (\E i \in 1 .. Len(W) : Hits(W[i], t, k)) => Play(d, W)[t][k] = None
           /\ (\A i \in 1 .. Len(W) : ~ Hits(W[i], t, k)) => Play(d, W)[t][k] = d[t][k]
<1>1. CASE \A i \in 1 .. Len(W) : ~ Hits(W[i], t, k)
    BY <1>1, PlayNone
<1>2. CASE \E i \in 1 .. Len(W) : /\ Hits(W[i], t, k)
                                  /\ \A j \in 1 .. Len(W) : i < j => ~ Hits(W[j], t, k)
    <2>1. PICK i \in 1 .. Len(W) : /\ Hits(W[i], t, k)
                                   /\ \A j \in 1 .. Len(W) : i < j => ~ Hits(W[j], t, k)
        BY <1>2
    <2>2. Play(d, W)[t][k] = W[i].val
        BY <2>1, PlayLast
    <2> QED BY <2>1, <2>2
<1> QED
    BY <1>1, <1>2, LastWrite

LEMMA ErasedFine ==
    ASSUME NEW s, NEW d, Fine(d, s), NEW e, IsDisk(e),
           \A k \in Heights : e.blocks[k] \in {None, d.blocks[k]},
           \A k \in CoreKeys : e.meta[k] = d.meta[k],
           Old(d) \/ \A k \in Heights : e.hashes[k] = d.hashes[k] \/ e.blocks[k] = None
    PROVE  Fine(e, s)
<1>1. /\ e.meta.tip_height = d.meta.tip_height /\ e.meta.tip_hash = d.meta.tip_hash
      /\ e.meta.format = d.meta.format
    BY DEF CoreKeys
<1>2. Old(e) = Old(d) /\ (Tip(e) = NoTip <=> Tip(d) = NoTip)
    BY <1>1 DEF Old, Tip
<1>3. /\ \A h \in Heights \ {0} : h - 1 \in Heights
      /\ None \notin Hash
    BY ForkTreeAssumption DEF Heights
<1>4. LinkedRows(d) => LinkedRows(e)
    <2>1. \A k \in Heights : e.blocks[k] \in Hash => e.blocks[k] = d.blocks[k]
        BY <1>3
    <2> QED BY <1>3, <2>1 DEF LinkedRows
<1>5. BoundedByTip(d) /\ ~ Old(d) => BoundedByTip(e)
    BY <1>1, <1>2, <1>3 DEF BoundedByTip
<1>6. None # OldRow
    BY OldDiskAssumption
<1> QED
    BY <1>1, <1>2, <1>3, <1>4, <1>5, <1>6 DEF Fine, DiskOK

LEMMA AllErase ==
    ASSUME NEW s, NEW d, Fine(d, s), NEW W, IsList(W), Erases(W), Old(d) \/ BlocksFirst(W)
    PROVE  /\ AllFine(d, W, s) /\ Fine(Play(d, W), s)
           /\ \A k \in CoreKeys : Play(d, W).meta[k] = d.meta[k]
<1>1. IsDisk(d) /\ Len(W) \in Nat /\ Len(W) \in 0 .. Len(W)
    BY ListDomain DEF Fine, DiskOK
<1>2. ASSUME NEW n \in 0 .. Len(W)
      PROVE  /\ Fine(Play(d, Prefix(W, n)), s)
             /\ \A k \in CoreKeys : Play(d, Prefix(W, n)).meta[k] = d.meta[k]
    <2> DEFINE V == Prefix(W, n)
               e == Play(d, V)
    <2>1. IsList(V) /\ Len(V) = n /\ \A i \in 1 .. n : V[i] = W[i] /\ i \in 1 .. Len(W)
        BY <1>1, PrefixList
    <2>2. IsDisk(e)
        BY <1>1, PlayDisk
    <2> HIDE DEF V
    <2>3. \A i \in 1 .. Len(V) : V[i].val = None /\ V[i].tree # "meta"
        BY <2>1 DEF Erases
    <2>4. \A k \in CoreKeys : e.meta[k] = d.meta[k]
        <3>1. ASSUME NEW k \in CoreKeys PROVE e["meta"][k] = d["meta"][k]
            <4>1. \A j \in 1 .. Len(V) : ~ Hits(V[j], "meta", k)
                BY <2>3 DEF Hits
            <4>2. "meta" \in Trees7 /\ k \in Keys7("meta")
                BY TreesAre
            <4> QED BY <4>1, <4>2, <2>1, <1>1, PlayNone
        <3> QED BY <3>1
    <2>5. \A k \in Heights : e.blocks[k] \in {None, d.blocks[k]}
        <3>1. ASSUME NEW k \in Heights PROVE e["blocks"][k] \in {None, d["blocks"][k]}
            <4>2. "blocks" \in Trees7 /\ k \in Keys7("blocks")
                BY TreesAre
            <4> QED BY <4>2, <2>1, <2>3, <1>1, ErasedCells
        <3> QED BY <3>1
    <2>6. ASSUME BlocksFirst(W), NEW k \in Heights
          PROVE  e.hashes[k] = d.hashes[k] \/ e.blocks[k] = None
        <3>0. "blocks" \in Trees7 /\ k \in Keys7("blocks") /\ "hashes" \in Trees7 /\ k \in Keys7("hashes")
            BY TreesAre
        <3>1. CASE \A j \in 1 .. Len(V) : ~ Hits(V[j], "hashes", k)
            <4>1. e["hashes"][k] = d["hashes"][k]
                BY <3>1, <3>0, <2>1, <1>1, PlayNone
            <4> QED BY <4>1
        <3>2. CASE \E i \in 1 .. Len(V) : Hits(V[i], "hashes", k)
            <4>1. PICK i \in 1 .. Len(V) : Hits(V[i], "hashes", k)
                BY <3>2
            <4>2. PICK j \in 1 .. Len(W) : j < i /\ Hits(W[j], "blocks", W[i].key)
                BY <4>1, <2>1, <2>6 DEF BlocksFirst, Hits
            <4>3. j \in 1 .. Len(V) /\ Hits(V[j], "blocks", k)
                BY <4>1, <4>2, <2>1, <1>1 DEF Hits
            <4>4. e["blocks"][k] = None
                BY <4>3, <3>0, <2>1, <2>3, <1>1, ErasedCells
            <4> QED BY <4>4
        <3> QED BY <3>1, <3>2
    <2> HIDE DEF e
    <2>7. Fine(e, s)
        BY <2>2, <2>4, <2>5, <2>6, ErasedFine
    <2> QED BY <2>4, <2>7 DEF e, V
<1>3. Prefix(W, Len(W)) = W
    BY PrefixWhole
<1> QED
    BY <1>1, <1>2, <1>3 DEF AllFine

\* What is left of a doomed block's rows.
LEMMA RemovedRows ==
    ASSUME NEW s, NEW d, Fine(d, s), NEW S, S \subseteq Heights
    PROVE  LET e == Play(d, RemoveBlocks(S))
           IN  /\ AllFine(d, RemoveBlocks(S), s) /\ Fine(e, s)
               /\ \A k \in CoreKeys : e.meta[k] = d.meta[k]
               /\ \A k \in Heights : /\ e.blocks[k] = IF k \in S THEN None ELSE d.blocks[k]
                                     /\ e.hashes[k] = IF k \in S THEN None ELSE d.hashes[k]
<1> DEFINE W == RemoveBlocks(S)
           e == Play(d, W)
<1>1. /\ IsList(W)
      /\ \A i \in 1 .. Len(W) : W[i].tree \in BlockTrees /\ W[i].key \in S /\ W[i].val = None
      /\ \A i \in 1 .. Len(W) : W[i].tree = "hashes" =>
            /\ i - 1 \in 1 .. Len(W) /\ W[i - 1].tree = "blocks" /\ W[i - 1].key = W[i].key
      /\ \A h \in S, t \in BlockTrees : \E i \in 1 .. Len(W) : Hits(W[i], t, h)
    BY EraseThreeTrees
<1>0. Len(W) \in Nat /\ IsDisk(d)
    BY <1>1, ListDomain DEF Fine, DiskOK
<1> HIDE DEF W
<1>2. Erases(W)
    BY <1>1 DEF Erases, BlockTrees
<1>3. BlocksFirst(W)
    <2> SUFFICES ASSUME NEW i \in 1 .. Len(W), W[i].tree = "hashes"
                 PROVE  \E j \in 1 .. Len(W) : j < i /\ Hits(W[j], "blocks", W[i].key)
        BY DEF BlocksFirst
    <2>1. i - 1 \in 1 .. Len(W) /\ W[i - 1].tree = "blocks" /\ W[i - 1].key = W[i].key
        BY <1>1, Zenon
    <2>2. i - 1 < i
        BY <1>0
    <2> QED BY <2>1, <2>2 DEF Hits
<1>4. /\ AllFine(d, W, s) /\ Fine(e, s) /\ \A k \in CoreKeys : e.meta[k] = d.meta[k]
    BY <1>1, <1>2, <1>3, AllErase
<1>5. ASSUME NEW t \in {"blocks", "hashes"}, NEW k \in Heights
      PROVE  e[t][k] = IF k \in S THEN None ELSE d[t][k]
    <2>1. t \in Trees7 /\ k \in Keys7(t) /\ t \in BlockTrees
        BY TreesAre DEF BlockTrees
    <2>2. CASE k \in S
        <3>1. \E i \in 1 .. Len(W) : Hits(W[i], t, k)
            BY <2>1, <2>2, <1>1
        <3>2. IsDisk(d) /\ IsList(W) /\ \A i \in 1 .. Len(W) : W[i].val = None
            BY <1>0, <1>1
        <3>3. Play(d, W)[t][k] = None
            BY <2>1, <3>1, <3>2, ErasedCells
        <3> QED BY <2>2, <3>3
    <2>3. CASE k \notin S
        <3>1. \A i \in 1 .. Len(W) : ~ Hits(W[i], t, k)
            BY <2>3, <1>1 DEF Hits
        <3> QED BY <3>1, <2>1, <2>3, <1>0, <1>1, PlayNone
    <2> QED BY <2>2, <2>3
<1>6. \A k \in Heights : /\ e["blocks"][k] = IF k \in S THEN None ELSE d["blocks"][k]
                         /\ e["hashes"][k] = IF k \in S THEN None ELSE d["hashes"][k]
    BY <1>5
<1> QED
    BY <1>4, <1>6 DEF W

-----------------------------------------------------------------------------
(* The tip tree and the snapshots are written aside.                        *)

\* The writes of a list stay in some trees, and in some keys of meta.
Within(W, T, K) ==
    /\ IsList(W)
    /\ \A i \in 1 .. Len(W) : W[i].tree \in T /\ (W[i].tree = "meta" => W[i].key \in K)

LEMMA WithinConcat ==
    ASSUME NEW T, NEW K, NEW A, NEW B, Within(A, T, K), Within(B, T, K)
    PROVE  Within(A \o B, T, K)
<1> DEFINE C == A \o B
<1>1. /\ IsList(C) /\ Len(C) = Len(A) + Len(B)
      /\ \A i \in 1 .. Len(A) : C[i] = A[i]
      /\ \A i \in 1 .. Len(B) : C[Len(A) + i] = B[i]
      /\ Len(A) \in Nat /\ Len(B) \in Nat
    BY ConcatList, ListDomain DEF Within
<1> HIDE DEF C
<1>2. ASSUME NEW i \in 1 .. Len(C)
      PROVE  C[i].tree \in T /\ (C[i].tree = "meta" => C[i].key \in K)
    <2>1. CASE i \in 1 .. Len(A)
        BY <2>1, <1>1 DEF Within
    <2>2. CASE i \notin 1 .. Len(A)
        <3>1. i - Len(A) \in 1 .. Len(B) /\ i = Len(A) + (i - Len(A))
            BY <2>2, <1>1
        <3>2. C[i] = B[i - Len(A)]
            BY <3>1, <1>1
        <3> QED BY <3>1, <3>2 DEF Within
    <2> QED BY <2>1, <2>2
<1> QED
    BY <1>1, <1>2 DEF Within, C

LEMMA WithinPut ==
    ASSUME NEW T, NEW K, NEW t \in T, NEW k, NEW v, t = "meta" => k \in K
    PROVE  Within(Put(t, k, v), T, K) /\ Within(Erase(t, k), T, K)
<1>1. ASSUME NEW x PROVE Within(Put(t, k, x), T, K)
    <2> DEFINE w == [tree |-> t, key |-> k, val |-> x]
    <2>1. w.tree \in T /\ (w.tree = "meta" => w.key \in K)
        OBVIOUS
    <2>2. Put(t, k, x) = <<w>>
        BY DEF Put
    <2> HIDE DEF w
    <2>3. IsList(<<w>>) /\ Len(<<w>>) = 1 /\ <<w>>[1] = w
        BY OneWrite
    <2> QED BY <2>1, <2>2, <2>3 DEF Within
<1> QED
    BY <1>1 DEF Erase

LEMMA WithinWhen ==
    ASSUME NEW T, NEW K, NEW c, NEW W, c => Within(W, T, K)
    PROVE  Within(When(c, W), T, K) /\ Within(<<>>, T, K)
<1>1. Within(<<>>, T, K)
    BY NoWrite DEF Within
<1> QED
    BY <1>1 DEF When

\* The writes of the tip tree and its snapshots.
TreeList(W) == Within(W, {"snaps", "live", "meta"}, {"merkle_tree", "merkle_height"})

TreeWrite(w) == /\ w.tree \in {"snaps", "live", "meta"}
                /\ w.tree = "meta" => w.key \in {"merkle_tree", "merkle_height"}

LEMMA TreeConcat ==
    ASSUME NEW A, NEW B, TreeList(A), TreeList(B)
    PROVE  TreeList(A \o B)
BY WithinConcat DEF TreeList

LEMMA TreePut ==
    ASSUME NEW t \in {"snaps", "live", "meta"}, NEW k, NEW v,
           t = "meta" => k \in {"merkle_tree", "merkle_height"}
    PROVE  TreeList(Put(t, k, v)) /\ TreeList(Erase(t, k))
BY WithinPut DEF TreeList

LEMMA TreeWhen ==
    ASSUME NEW c, NEW W, c => TreeList(W)
    PROVE  TreeList(When(c, W)) /\ TreeList(<<>>)
BY WithinWhen DEF TreeList

LEMMA TreeSnaps ==
    ASSUME NEW d, NEW h
    PROVE  TreeList(RemoveSnapsFrom(d, h))
<1> DEFINE S == RowsIn(d.snaps, {k \in Heights : k >= h})
           W == EraseRows(<<"snaps">>, S)
<1>1. S \subseteq Heights
    BY DEF RowsIn
<1> HIDE DEF S
<1>2. /\ IsList(W) /\ Len(W) = Cardinality(S)
      /\ \A i \in 1 .. Cardinality(S) : W[i] = [tree |-> "snaps", key |-> Ascending(S)[i], val |-> None]
    BY <1>1, EraseOneTree
<1> HIDE DEF W
<1>3. \A i \in 1 .. Len(W) : TreeWrite(W[i])
    BY <1>2 DEF TreeWrite
<1> QED
    BY <1>2, <1>3 DEF TreeList, Within, TreeWrite, RemoveSnapsFrom, S, W

LEMMA TreeStore ==
    ASSUME NEW prev, NEW h, NEW leaves
    PROVE  TreeList(StoreTreeWrites(prev, h, leaves))
<1> DEFINE A == Put("meta", "merkle_tree", leaves)
           B == Put("meta", "merkle_height", h)
           C == Put("snaps", h, leaves)
           D == When(prev \notin {None, h} /\ prev % Interval # 0, Erase("snaps", prev))
           E == Put("live", "tree", [height |-> h, leaves |-> leaves])
<1>1. TreeList(A) /\ TreeList(B) /\ TreeList(C) /\ TreeList(E) /\ TreeList(Erase("snaps", prev))
    BY TreePut
<1>2. TreeList(D)
    BY <1>1, TreeWhen
<1>3. StoreTreeWrites(prev, h, leaves) = A \o B \o C \o D \o E
    BY DEF StoreTreeWrites
<1> HIDE DEF A, B, C, D, E
<1>4. TreeList(A \o B)
    BY <1>1, TreeConcat
<1>5. TreeList(A \o B \o C)
    BY <1>1, <1>4, TreeConcat
<1>6. TreeList(A \o B \o C \o D)
    BY <1>2, <1>5, TreeConcat
<1> QED
    BY <1>1, <1>3, <1>6, TreeConcat

LEMMA TreeRebuild ==
    ASSUME NEW d, NEW h \in Heights
    PROVE  TreeList(RebuildWrites(d, h))
<1>0. h \in Nat
    BY ForkTreeAssumption DEF Heights
<1>1. CASE h = 0 /\ d.blocks[0] = None
    <2> DEFINE A == Erase("meta", "merkle_tree")
               B == Erase("meta", "merkle_height")
               C == RemoveSnapsFrom(d, 0)
               D == Put("live", "tree", NoTree)
    <2>1. TreeList(A) /\ TreeList(B) /\ TreeList(C) /\ TreeList(D)
        BY TreePut, TreeSnaps
    <2>2. RebuildWrites(d, h) = A \o B \o C \o D
        BY <1>1 DEF RebuildWrites
    <2> HIDE DEF A, B, C, D
    <2>3. TreeList(A \o B)
        BY <2>1, TreeConcat
    <2>4. TreeList(A \o B \o C)
        BY <2>1, <2>3, TreeConcat
    <2> QED BY <2>1, <2>2, <2>4, TreeConcat
<1>2. CASE ~ (h = 0 /\ d.blocks[0] = None)
    <2> DEFINE found  == SnapsUpTo(d, h) # {}
               seed   == IF found THEN GreatestIn(SnapsUpTo(d, h)) ELSE None
               from   == IF found THEN seed + 1 ELSE 0
               leaves == IF found THEN d.snaps[seed] ELSE EmptyTree
               S      == {k \in from .. h : k % Interval = 0}
               bounds == Ascending(S)
               A      == RemoveSnapsFrom(d, h + 1)
               f(i)   == [tree |-> "snaps", key |-> bounds[i],
                          val |-> Replay(d, leaves, from, bounds[i])]
               B      == [i \in DOMAIN bounds |-> f(i)]
               C      == StoreTreeWrites(seed, h, Replay(d, leaves, from, h))
    <2>1. RebuildWrites(d, h) = A \o B \o C
        BY <1>2 DEF RebuildWrites
    <2>2. from \in Int
        <3>1. CASE found
            <4> DEFINE T == SnapsUpTo(d, h)
            <4>1. T \subseteq 0 .. h /\ T # {}
                BY <3>1 DEF SnapsUpTo
            <4> HIDE DEF T
            <4>2. \E m \in T : \A k \in T : k <= m
                BY <4>1, <1>0, GreatestNat
            <4>3. GreatestIn(T) \in T
                BY <4>2 DEF GreatestIn
            <4>4. GreatestIn(T) \in Int
                <5>1. T \subseteq Int
                    BY <4>1, <1>0
                <5> QED BY <4>3, <5>1
            <4>5. from = GreatestIn(T) + 1
                BY <3>1 DEF T
            <4> QED BY <4>4, <4>5
        <3>2. CASE ~ found
            BY <3>2
        <3> QED BY <3>1, <3>2
    <2>3. Cardinality(S) \in Nat
        <3> HIDE DEF from
        <3>1. IsFiniteSet(from .. h) /\ S \in SUBSET (from .. h)
            BY <1>0, <2>2, FS_Interval
        <3> HIDE DEF S
        <3> QED BY <3>1, FS_Subset, FS_CardinalityType
    <2>4. DOMAIN bounds = 1 .. Cardinality(S)
        <3> HIDE DEF S
        <3> QED BY DEF Ascending
    <2>5. TreeList(A) /\ TreeList(C)
        BY TreeSnaps, TreeStore
    <2> HIDE DEF A, C, S, bounds, found, seed, from, leaves
    <2>6. TreeList(B)
        <3>1. B = [i \in 1 .. Cardinality(S) |-> f(i)]
            BY <2>4
        <3>2. \A i \in 1 .. Cardinality(S) : B[i] = f(i)
            BY <3>1
        <3>3. \A i \in 1 .. Cardinality(S) : f(i).tree = "snaps"
            OBVIOUS
        <3> HIDE DEF f
        <3>4. B = [i \in 1 .. Cardinality(S) |-> B[i]]
            BY <3>1
        <3> HIDE DEF B
        <3>6. \A i \in 1 .. Cardinality(S) : TreeWrite(B[i])
            BY <3>2, <3>3 DEF TreeWrite
        <3>5. IsList(B) /\ Len(B) = Cardinality(S)
            BY <3>4, <2>3, ListOf
        <3> QED BY <3>5, <3>6 DEF TreeList, Within, TreeWrite
    <2> HIDE DEF B
    <2>7. TreeList(A \o B)
        BY <2>5, <2>6, TreeConcat
    <2> QED BY <2>1, <2>5, <2>7, TreeConcat
<1> QED
    BY <1>1, <1>2

LEMMA TreeAppend ==
    ASSUME NEW d, NEW h \in Heights, NEW b
    PROVE  TreeList(AppendWrites(d, h, b))
<1> DEFINE prev    == d.live.tree.height
           stale   == prev # None /\ h # prev + 1
           rebuild == When(stale, RebuildWrites(d, IF h = 0 THEN 0 ELSE h - 1))
           base    == Play(d, rebuild).live.tree
           C       == StoreTreeWrites(base.height, h,
                          [a \in Hash |-> base.leaves[a] + IF a = b /\ b \in CoinBlocks THEN 1 ELSE 0])
           B       == When(~ (stale /\ h = 0), C)
<1>1. AppendWrites(d, h, b) = rebuild \o B
    BY DEF AppendWrites
<1>2. (IF h = 0 THEN 0 ELSE h - 1) \in Heights
    BY ForkTreeAssumption DEF Heights
<1>3. TreeList(rebuild)
    BY <1>2, TreeRebuild, TreeWhen
<1> HIDE DEF rebuild, stale
<1>4. TreeList(B)
    BY TreeStore, TreeWhen
<1> HIDE DEF B
<1> QED
    BY <1>1, <1>3, <1>4, TreeConcat

AsideList(W) == IsList(W) /\ \A i \in 1 .. Len(W) : Aside(W[i])

LEMMA AsideWithin ==
    ASSUME NEW W, NEW T, NEW K, Within(W, T, K), T \cap {"blocks", "hashes"} = {}, K \cap CoreKeys = {}
    PROVE  AsideList(W)
BY DEF Within, AsideList, Aside

LEMMA TreeAside == ASSUME NEW W, TreeList(W) PROVE AsideList(W)
BY AsideWithin DEF TreeList, CoreKeys

LEMMA AsideConcat ==
    ASSUME NEW A, NEW B, AsideList(A), AsideList(B)
    PROVE  AsideList(A \o B)
<1>1. /\ IsList(A \o B) /\ Len(A \o B) = Len(A) + Len(B)
      /\ \A i \in 1 .. Len(A) : (A \o B)[i] = A[i]
      /\ \A i \in 1 .. Len(B) : (A \o B)[Len(A) + i] = B[i]
      /\ Len(A) \in Nat /\ Len(B) \in Nat
    BY ConcatList, ListDomain DEF AsideList
<1> DEFINE C == A \o B
<1> HIDE DEF C
<1>2. ASSUME NEW i \in 1 .. Len(C) PROVE Aside(C[i])
    <2>1. CASE i \in 1 .. Len(A)
        BY <2>1, <1>1 DEF AsideList, C
    <2>2. CASE i \notin 1 .. Len(A)
        <3>1. i - Len(A) \in 1 .. Len(B) /\ i = Len(A) + (i - Len(A))
            BY <2>2, <1>1 DEF C
        <3>2. C[i] = B[i - Len(A)]
            BY <3>1, <1>1 DEF C
        <3> QED BY <3>1, <3>2 DEF AsideList
    <2> QED BY <2>1, <2>2
<1> QED
    BY <1>1, <1>2 DEF AsideList, C

LEMMA AsidePut ==
    ASSUME NEW t, NEW k, NEW v, t \notin {"blocks", "hashes"}, t = "meta" => k \notin CoreKeys
    PROVE  AsideList(Put(t, k, v)) /\ AsideList(Erase(t, k))
<1>1. Within(Put(t, k, v), {t}, {k} \ CoreKeys) /\ Within(Erase(t, k), {t}, {k} \ CoreKeys)
    BY WithinPut
<1> QED
    BY <1>1, AsideWithin

LEMMA AsideWhen ==
    ASSUME NEW c, NEW W, c => AsideList(W)
    PROVE  AsideList(When(c, W)) /\ AsideList(<<>>)
<1>1. AsideList(<<>>)
    BY NoWrite DEF AsideList
<1> QED
    BY <1>1 DEF When

-----------------------------------------------------------------------------
(* The operations of the poller.                                            *)

\* The disk after one row is written.
Wrote(d, t, k, v) == Apply(d, [tree |-> t, key |-> k, val |-> v])

LEMMA WroteRow ==
    ASSUME NEW d, IsDisk(d), NEW t \in Trees7, NEW k \in Keys7(t), NEW v
    PROVE  /\ IsDisk(Wrote(d, t, k, v))
           /\ \A u \in Trees7 : \A l \in Keys7(u) :
                 Wrote(d, t, k, v)[u][l] = IF u = t /\ l = k THEN v ELSE d[u][l]
<1> DEFINE w == [tree |-> t, key |-> k, val |-> v]
<1>1. \A u, l : Hits(w, u, l) <=> u = t /\ l = k
    BY DEF Hits
<1>2. w.val = v /\ Wrote(d, t, k, v) = Apply(d, w)
    BY DEF Wrote
<1> HIDE DEF w
<1>3. /\ IsDisk(Apply(d, w))
      /\ \A u \in Trees7 : \A l \in Keys7(u) : Apply(d, w)[u][l] = IF Hits(w, u, l) THEN w.val ELSE d[u][l]
    BY ApplyDisk
<1> QED
    BY <1>1, <1>2, <1>3

LEMMA AllPut ==
    ASSUME NEW s, NEW d, Fine(d, s), NEW t, NEW k, NEW v, Fine(Wrote(d, t, k, v), s)
    PROVE  AllFine(d, Put(t, k, v), s) /\ Play(d, Put(t, k, v)) = Wrote(d, t, k, v)
<1> DEFINE w == [tree |-> t, key |-> k, val |-> v]
<1>1. Put(t, k, v) = <<w>> /\ Wrote(d, t, k, v) = Apply(d, w)
    BY DEF Put, Wrote
<1> HIDE DEF w
<1>2. AllFine(d, <<w>>, s) /\ Play(d, <<w>>) = Apply(d, w)
    BY <1>1, AllOne
<1> QED
    BY <1>1, <1>2

LEMMA FineEnd ==
    ASSUME NEW s, NEW d, NEW W, AllFine(d, W, s)
    PROVE  Fine(Play(d, W), s)
<1>1. IsList(W) /\ Len(W) \in 0 .. Len(W) /\ Prefix(W, Len(W)) = W
    BY ListDomain, PrefixWhole DEF AllFine
<1>2. Fine(Play(d, Prefix(W, Len(W))), s)
    BY <1>1 DEF AllFine
<1> QED
    BY <1>1, <1>2

LEMMA ThenAside ==
    ASSUME NEW s, NEW d, IsDisk(d), NEW A, NEW B, AllFine(d, A, s), AsideList(B)
    PROVE  AllFine(d, A \o B, s) /\ SameCore(Play(d, A), Play(d, A \o B))
<1>1. Fine(Play(d, A), s)
    BY FineEnd
<1>2. AllFine(Play(d, A), B, s) /\ SameCore(Play(d, A), Play(Play(d, A), B))
    BY <1>1, AllAside DEF AsideList
<1> QED
    BY <1>2, AllConcat

\* The two keys of the tip.
TipKeys == {"tip_height", "tip_hash"}

LEMMA WroteTip ==
    ASSUME NEW d, IsDisk(d), NEW k \in TipKeys, NEW v
    PROVE  LET e == Wrote(d, "meta", k, v)
           IN  /\ IsDisk(e)
               /\ \A h \in Heights : e.blocks[h] = d.blocks[h] /\ e.hashes[h] = d.hashes[h]
               /\ e.meta.format = d.meta.format
               /\ e.meta.tip_height = IF k = "tip_height" THEN v ELSE d.meta.tip_height
               /\ e.meta.tip_hash = IF k = "tip_hash" THEN v ELSE d.meta.tip_hash
<1> DEFINE e == Wrote(d, "meta", k, v)
<1>1. /\ "meta" \in Trees7 /\ k \in Keys7("meta") /\ "blocks" \in Trees7 /\ "hashes" \in Trees7
      /\ Keys7("blocks") = Heights /\ Keys7("hashes") = Heights
      /\ "format" \in Keys7("meta") /\ "tip_height" \in Keys7("meta") /\ "tip_hash" \in Keys7("meta")
    BY TreesAre DEF TipKeys, CoreKeys
<1>2. /\ IsDisk(e)
      /\ \A u \in Trees7 : \A l \in Keys7(u) : e[u][l] = IF u = "meta" /\ l = k THEN v ELSE d[u][l]
    BY <1>1, WroteRow
<1> HIDE DEF e
<1>3. \A h \in Heights : e["blocks"][h] = d["blocks"][h] /\ e["hashes"][h] = d["hashes"][h]
    BY <1>1, <1>2
<1>4. /\ e["meta"]["format"] = d["meta"]["format"]
      /\ e["meta"]["tip_height"] = IF k = "tip_height" THEN v ELSE d["meta"]["tip_height"]
      /\ e["meta"]["tip_hash"] = IF k = "tip_hash" THEN v ELSE d["meta"]["tip_hash"]
    BY <1>1, <1>2 DEF TipKeys
<1> QED
    BY <1>2, <1>3, <1>4 DEF e

\* The tip is written, its height first.
LEMMA TipWritten ==
    ASSUME NEW s, NEW d, Fine(d, s), ~ Old(d), NEW h \in Heights, NEW b \in Hash,
           \A k \in Heights : k > h + 1 => d.blocks[k] = None,
           \A k \in Heights \ {0} : (k <= h /\ d.blocks[k] \in Hash) => d.hashes[k] = d.blocks[k],
           Tip(d) = NoTip => h = 0
    PROVE  AllFine(d, Put("meta", "tip_height", h) \o Put("meta", "tip_hash", b), s)
<1> DEFINE e == Wrote(d, "meta", "tip_height", h)
           f == Wrote(e, "meta", "tip_hash", b)
<1>0. IsDisk(d) /\ None \notin Hash /\ None \notin Heights /\ None \notin Nat
    BY ForkTreeAssumption DEF Heights, Fine, DiskOK
<1>1. /\ IsDisk(e)
      /\ \A k \in Heights : e.blocks[k] = d.blocks[k] /\ e.hashes[k] = d.hashes[k]
      /\ e.meta.format = d.meta.format /\ e.meta.tip_height = h /\ e.meta.tip_hash = d.meta.tip_hash
    BY <1>0, WroteTip DEF TipKeys
<1>2. /\ IsDisk(f)
      /\ \A k \in Heights : f.blocks[k] = e.blocks[k] /\ f.hashes[k] = e.hashes[k]
      /\ f.meta.format = e.meta.format /\ f.meta.tip_height = e.meta.tip_height /\ f.meta.tip_hash = b
    BY <1>1, WroteTip DEF TipKeys
<1> HIDE DEF e, f
<1>3. ASSUME NEW g, IsDisk(g), \A k \in Heights : g.blocks[k] = d.blocks[k] /\ g.hashes[k] = d.hashes[k],
             g.meta.format = d.meta.format, g.meta.tip_height = h, g.meta.tip_hash \in Hash \cup {None},
             Tip(g) = NoTip => Tip(d) = NoTip
      PROVE  Fine(g, s)
    <2>1. Old(g) = Old(d)
        BY <1>3 DEF Old
    <2>2. \A k \in Heights \ {0} : k - 1 \in Heights
        BY ForkTreeAssumption DEF Heights
    <2>3. LinkedRows(g)
        BY <1>3, <2>2 DEF LinkedRows, Fine, DiskOK
    <2>4. BoundedByTip(g)
        BY <1>3 DEF BoundedByTip, Fine, DiskOK
    <2> QED BY <1>3, <2>1, <2>3, <2>4 DEF Fine, DiskOK
<1>4. d.meta.tip_hash \in Hash \cup {None}
    BY DEF Fine, DiskOK
<1>5. Fine(e, s)
    <2>1. Tip(e) = NoTip => Tip(d) = NoTip
        BY <1>0, <1>1 DEF Tip, NoTip
    <2> QED BY <1>1, <1>3, <1>4, <2>1
<1>6. Fine(f, s)
    <2>1. Tip(f) # NoTip
        BY <1>0, <1>1, <1>2 DEF Tip, NoTip
    <2> QED BY <1>1, <1>2, <1>3, <2>1
<1>7. /\ AllFine(d, Put("meta", "tip_height", h), s)
      /\ Play(d, Put("meta", "tip_height", h)) = e
    BY <1>5, AllPut DEF e
<1>8. AllFine(e, Put("meta", "tip_hash", b), s)
    BY <1>5, <1>6, AllPut DEF f
<1> QED
    BY <1>0, <1>7, <1>8, AllConcat

LEMMA PruneFine ==
    ASSUME NEW d, Fine(d, "serving")
    PROVE  AllFine(d, PruneWrites(d), "serving")
<1> DEFINE S == RowsIn(d.blocks, {k \in Heights : k < Tip(d).height - Retention})
<1>1. S \subseteq Heights
    BY DEF RowsIn
<1>2. PruneWrites(d) = When(Tip(d) # NoTip /\ Tip(d).height > Retention, RemoveBlocks(S))
    BY DEF PruneWrites
<1> HIDE DEF S
<1>3. AllFine(d, RemoveBlocks(S), "serving")
    BY <1>1, RemovedRows
<1>4. AllFine(d, <<>>, "serving")
    BY AllNone
<1> QED
    BY <1>2, <1>3, <1>4 DEF When

LEMMA RewindFine ==
    ASSUME NEW d, Fine(d, "serving"), Tip(d) # NoTip, NEW h \in 0 .. Tip(d).height
    PROVE  AllFine(d, RewindWrites(d, h), "serving")
<1> DEFINE S     == RowsIn(d.blocks, {k \in Heights : k > h})
           gone  == RemoveBlocks(S)
           reset == Erase("meta", "tip_height") \o Erase("meta", "tip_hash")
           set   == Put("meta", "tip_height", h) \o Put("meta", "tip_hash", d.blocks[h])
           tip   == IF d.blocks[h] # None THEN set ELSE When(h = 0, reset)
           rows  == gone \o tip
           cut   == RemoveSnapsFrom(d, h + 1)
           tree  == RebuildWrites(Play(d, rows \o cut), h)
           e     == Play(d, gone)
<1>1. RewindWrites(d, h) = rows \o cut \o tree
    BY DEF RewindWrites
<1>2. /\ IsDisk(d) /\ Tip(d).height = d.meta.tip_height /\ d.meta.tip_height \in Heights
      /\ d.meta.tip_hash \in Hash /\ ~ Old(d) /\ BoundedByTip(d)
      /\ \A k \in Heights : d.blocks[k] \in Hash \cup {OldRow, None} /\ d.blocks[k] # OldRow
    BY DEF Fine, DiskOK, Tip
<1>3. h \in Heights /\ h <= d.meta.tip_height /\ Heights \subseteq Nat /\ 0 \in Heights
    BY <1>2, ForkTreeAssumption DEF Heights
<1>4. S \subseteq Heights
    BY DEF RowsIn
<1>5. /\ AllFine(d, gone, "serving") /\ Fine(e, "serving")
      /\ \A k \in CoreKeys : e.meta[k] = d.meta[k]
      /\ \A k \in Heights : /\ e.blocks[k] = IF k \in S THEN None ELSE d.blocks[k]
                            /\ k \notin S => e.hashes[k] = d.hashes[k]
    <2> HIDE DEF S
    <2>1. LET x == Play(d, RemoveBlocks(S))
          IN  /\ AllFine(d, RemoveBlocks(S), "serving") /\ Fine(x, "serving")
              /\ \A k \in CoreKeys : x.meta[k] = d.meta[k]
              /\ \A k \in Heights : /\ x.blocks[k] = IF k \in S THEN None ELSE d.blocks[k]
                                    /\ k \notin S => x.hashes[k] = d.hashes[k]
        BY <1>4, RemovedRows
    <2> QED BY <2>1
<1>6. /\ e.meta.tip_height = d.meta.tip_height /\ e.meta.tip_hash = d.meta.tip_hash
      /\ e.meta.format = d.meta.format
    BY <1>5 DEF CoreKeys
<1>7. /\ \A k \in Heights : k > h => e.blocks[k] = None
      /\ \A k \in Heights : k <= h => e.blocks[k] = d.blocks[k] /\ e.hashes[k] = d.hashes[k]
    <2>1. \A k \in Heights : k > h => (k \in S \/ d.blocks[k] = None)
        BY DEF RowsIn
    <2>2. \A k \in Heights : k <= h => k \notin S
        BY <1>3 DEF RowsIn
    <2> HIDE DEF S, e
    <2> QED BY <2>1, <2>2, <1>5
<1> HIDE DEF S, gone, e
<1>8. ~ Old(e) /\ IsDisk(e) /\ Tip(e) # NoTip
    BY <1>2, <1>5, <1>6 DEF Old, Fine, DiskOK, Tip
<1>9. AllFine(e, tip, "serving")
    <2>1. CASE d.blocks[h] # None
        <3>1. d.blocks[h] \in Hash /\ h \in Heights
            BY <2>1, <1>2, <1>3
        <3>2. \A k \in Heights : k > h + 1 => e.blocks[k] = None
            BY <1>3, <1>7
        <3>3. \A k \in Heights \ {0} : (k <= h /\ e.blocks[k] \in Hash) => e.hashes[k] = e.blocks[k]
            <4>1. Tip(d) # NoTip
                OBVIOUS
            <4>2. \A k \in Heights : k \in Nat /\ h \in Nat /\ d.meta.tip_height \in Nat
                BY <1>2, <1>3
            <4>3. \A k \in Heights \ {0} :
                      (k <= d.meta.tip_height /\ d.blocks[k] \in Hash) => d.hashes[k] = d.blocks[k]
                BY <4>1, <1>2 DEF BoundedByTip
            <4>4. \A k \in Heights : k <= h => k <= d.meta.tip_height
                BY <4>2, <1>3
            <4> QED BY <4>3, <4>4, <1>7
        <3>4. AllFine(e, set, "serving")
            BY <3>1, <3>2, <3>3, <1>5, <1>8, TipWritten
        <3> HIDE DEF set
        <3> QED BY <3>4, <2>1
    <2>2. CASE d.blocks[h] = None /\ h = 0
        <3> DEFINE f == Wrote(e, "meta", "tip_height", None)
                   g == Wrote(f, "meta", "tip_hash", None)
        <3>1. /\ IsDisk(f)
              /\ \A k \in Heights : f.blocks[k] = e.blocks[k] /\ f.hashes[k] = e.hashes[k]
              /\ f.meta.format = e.meta.format /\ f.meta.tip_height = None /\ f.meta.tip_hash = e.meta.tip_hash
            BY <1>8, WroteTip DEF TipKeys
        <3>2. /\ IsDisk(g)
              /\ \A k \in Heights : g.blocks[k] = f.blocks[k] /\ g.hashes[k] = f.hashes[k]
              /\ g.meta.format = f.meta.format /\ g.meta.tip_height = f.meta.tip_height /\ g.meta.tip_hash = None
            BY <3>1, WroteTip DEF TipKeys
        <3> HIDE DEF f, g
        <3>3. \A k \in Heights : e.blocks[k] = None
            BY <2>2, <1>3, <1>7
        <3>4. ASSUME NEW x, IsDisk(x), \A k \in Heights : x.blocks[k] = e.blocks[k],
                     x.meta.format = e.meta.format, x.meta.tip_height = None,
                     x.meta.tip_hash \in Hash \cup {None}
              PROVE  Fine(x, "serving")
            <4>1. Tip(x) = NoTip /\ Old(x) = Old(e)
                BY <3>4 DEF Tip, Old
            <4>2. None \notin Hash /\ None # OldRow
                BY ForkTreeAssumption, OldDiskAssumption
            <4>3. LinkedRows(x) /\ BoundedByTip(x)
                BY <3>3, <3>4, <4>1, <4>2 DEF LinkedRows, BoundedByTip
            <4> QED BY <3>3, <3>4, <4>1, <4>2, <4>3, <1>8 DEF Fine, DiskOK
        <3>5. Fine(f, "serving")
            BY <3>1, <3>4, <1>2, <1>6
        <3>6. Fine(g, "serving")
            BY <3>1, <3>2, <3>4
        <3>7. AllFine(e, Put("meta", "tip_height", None), "serving")
                  /\ Play(e, Put("meta", "tip_height", None)) = f
            <4>1. Fine(Wrote(e, "meta", "tip_height", None), "serving") /\ Fine(e, "serving")
                BY <3>5, <1>5 DEF f
            <4>2. AllFine(e, Put("meta", "tip_height", None), "serving")
                      /\ Play(e, Put("meta", "tip_height", None)) = Wrote(e, "meta", "tip_height", None)
                BY <4>1, AllPut
            <4> QED BY <4>2 DEF f
        <3>8. AllFine(f, Put("meta", "tip_hash", None), "serving")
            BY <3>5, <3>6, AllPut DEF g
        <3>9. AllFine(e, reset, "serving")
            <4>1. reset = Put("meta", "tip_height", None) \o Put("meta", "tip_hash", None)
                BY DEF Erase
            <4> HIDE DEF reset
            <4> QED BY <4>1, <3>7, <3>8, <1>8, AllConcat
        <3> HIDE DEF reset
        <3> QED BY <3>9, <2>2 DEF When
    <2>3. CASE d.blocks[h] = None /\ h # 0
        <3>1. tip = <<>>
            BY <2>3 DEF When
        <3> HIDE DEF tip
        <3> QED BY <3>1, <1>5, AllNone
    <2> QED BY <2>1, <2>2, <2>3
<1> HIDE DEF tip
<1>10. AllFine(d, rows, "serving")
    BY <1>2, <1>5, <1>9, AllConcat DEF e
<1>11. AsideList(cut) /\ AsideList(tree)
    <2>1. AsideList(cut)
        BY TreeSnaps, TreeAside
    <2> HIDE DEF cut, rows
    <2>2. AsideList(tree)
        BY <1>3, TreeRebuild, TreeAside
    <2> QED BY <2>1, <2>2
<1> HIDE DEF rows, cut, tree
<1>12. AllFine(d, rows \o cut, "serving")
    BY <1>2, <1>10, <1>11, ThenAside
<1> QED
    BY <1>1, <1>2, <1>11, <1>12, ThenAside

\* The next block by height, or a genesis block that is missing.
LEMMA NextBlock ==
    ASSUME NEW d, Fine(d, "serving"), NEW b \in NextBlocks(d)
    PROVE  /\ b \in Hash /\ HeightOf[b] \in Heights
           /\ Tip(d) = NoTip => HeightOf[b] = 0
           /\ Tip(d) # NoTip => HeightOf[b] = 0 \/ HeightOf[b] = d.meta.tip_height + 1
           /\ HeightOf[b] # 0 =>
                 (d.blocks[HeightOf[b] - 1] \in Hash => Prev[b] = d.blocks[HeightOf[b] - 1])
<1> DEFINE h == HeightOf[b]
<1>1. b \in Hash /\ h \in Heights /\ (h = 0 <=> b = Genesis) /\ 0 \in Heights /\ None \notin Hash
    BY ForkTreeAssumption, LinkAssumption DEF NextBlocks, Heights
<1>2. \/ h = 0
      \/ /\ Tip(d) # NoTip /\ h = Tip(d).height + 1
         /\ d.hashes[h - 1] \in {None, Prev[b]}
    BY <1>1 DEF NextBlocks
<1>3. ASSUME Tip(d) # NoTip
      PROVE  Tip(d).height = d.meta.tip_height /\ d.meta.tip_height \in Heights
    BY <1>3 DEF Tip, NoTip, Fine, DiskOK
<1>4. Tip(d) = NoTip => h = 0
    BY <1>2
<1>5. Tip(d) # NoTip => h = 0 \/ h = d.meta.tip_height + 1
    BY <1>2, <1>3
<1>6. ASSUME h # 0, d.blocks[h - 1] \in Hash
      PROVE  Prev[b] = d.blocks[h - 1]
    <2>1. /\ Tip(d) # NoTip /\ h = d.meta.tip_height + 1 /\ d.hashes[h - 1] \in {None, Prev[b]}
          /\ d.meta.tip_height \in Heights /\ h - 1 \in Heights /\ h - 1 <= d.meta.tip_height
        BY <1>2, <1>3, <1>6, ForkTreeAssumption DEF Heights
    <2>2. CASE h - 1 = 0
        <3>1. HeightOf[d.blocks[0]] = 0 /\ d.blocks[0] \in Hash
            BY <2>1, <2>2, <1>1, <1>6 DEF Fine, DiskOK
        <3>2. d.blocks[0] = Genesis
            BY <3>1, LinkAssumption
        <3>3. h = 1
            BY <2>2, <1>1, ForkTreeAssumption DEF Heights
        <3>4. Prev[b] \in Hash /\ h = HeightOf[Prev[b]] + 1
            BY <3>3, <1>1, LinkAssumption
        <3>5. HeightOf[Prev[b]] = 0
            BY <3>3, <3>4, ForkTreeAssumption DEF Heights
        <3>6. Prev[b] = Genesis
            BY <3>4, <3>5, LinkAssumption
        <3> QED BY <3>2, <3>6, <2>2
    <2>3. CASE h - 1 # 0
        <3>1. BoundedByTip(d)
            BY DEF Fine, DiskOK
        <3>2. d.hashes[h - 1] = d.blocks[h - 1]
            BY <3>1, <2>1, <2>3, <1>6 DEF BoundedByTip
        <3> QED BY <3>2, <2>1, <1>1, <1>6
    <2> QED BY <2>2, <2>3
<1> QED
    BY <1>1, <1>4, <1>5, <1>6

\* The block row, then the hash row of the next block.
LEMMA BlockWritten ==
    ASSUME NEW d, Fine(d, "serving"), NEW b \in NextBlocks(d)
    PROVE  LET h == HeightOf[b]
               W == Put("blocks", h, b) \o Put("hashes", h, b)
               e == Play(d, W)
           IN  /\ AllFine(d, W, "serving")
               /\ \A k \in CoreKeys : e.meta[k] = d.meta[k]
               /\ \A k \in Heights : /\ e.blocks[k] = IF k = h THEN b ELSE d.blocks[k]
                                     /\ e.hashes[k] = IF k = h THEN b ELSE d.hashes[k]
<1> DEFINE h == HeightOf[b]
           e == Wrote(d, "blocks", h, b)
           f == Wrote(e, "hashes", h, b)
<1>1. /\ b \in Hash /\ h \in Heights
      /\ Tip(d) = NoTip => h = 0
      /\ Tip(d) # NoTip => h = 0 \/ h = d.meta.tip_height + 1
      /\ h # 0 => (d.blocks[h - 1] \in Hash => Prev[b] = d.blocks[h - 1])
    BY NextBlock
<1>2. /\ IsDisk(d) /\ ~ Old(d) /\ BoundedByTip(d) /\ LinkedRows(d)
      /\ \A k \in Heights : d.blocks[k] \in Hash \cup {OldRow, None} /\ d.blocks[k] # OldRow
      /\ \A k \in Heights : d.blocks[k] \in Hash => HeightOf[d.blocks[k]] = k
      /\ d.meta.tip_height \in Heights \cup {None} /\ d.meta.tip_hash \in Hash \cup {None}
    BY DEF Fine, DiskOK
<1>3. /\ None \notin Hash /\ OldRow \notin Hash /\ Heights \subseteq Nat
      /\ \A k \in Heights \ {0} : k - 1 \in Heights /\ k \in Nat /\ k - 1 \in Nat
      /\ Tip(d) # NoTip => d.meta.tip_height \in Nat
    <2>1. Tip(d) # NoTip => d.meta.tip_height \in Heights
        BY <1>2 DEF Tip, NoTip
    <2> QED BY <2>1, ForkTreeAssumption, OldDiskAssumption DEF Heights
<1>t. /\ "blocks" \in Trees7 /\ "hashes" \in Trees7 /\ "meta" \in Trees7
      /\ Keys7("blocks") = Heights /\ Keys7("hashes") = Heights
      /\ \A k \in CoreKeys : k \in Keys7("meta")
    BY TreesAre
<1>4. /\ IsDisk(e)
      /\ \A u \in Trees7 : \A l \in Keys7(u) : e[u][l] = IF u = "blocks" /\ l = h THEN b ELSE d[u][l]
    BY <1>1, <1>2, <1>t, WroteRow
<1>5. /\ IsDisk(f)
      /\ \A u \in Trees7 : \A l \in Keys7(u) : f[u][l] = IF u = "hashes" /\ l = h THEN b ELSE e[u][l]
    BY <1>1, <1>4, <1>t, WroteRow
<1> HIDE DEF e, f, h
<1>6. /\ \A k \in CoreKeys : e["meta"][k] = d["meta"][k]
      /\ \A k \in Heights : /\ e["blocks"][k] = IF k = h THEN b ELSE d["blocks"][k]
                            /\ e["hashes"][k] = d["hashes"][k]
    BY <1>4, <1>t
<1>7. /\ \A k \in CoreKeys : f["meta"][k] = e["meta"][k]
      /\ \A k \in Heights : /\ f["blocks"][k] = e["blocks"][k]
                            /\ f["hashes"][k] = IF k = h THEN b ELSE e["hashes"][k]
    BY <1>5, <1>t
<1>8. ASSUME NEW g, IsDisk(g), \A k \in CoreKeys : g.meta[k] = d.meta[k],
             \A k \in Heights : /\ g.blocks[k] = IF k = h THEN b ELSE d.blocks[k]
                                /\ k # h => g.hashes[k] = d.hashes[k]
      PROVE  Fine(g, "serving")
    <2>1. /\ g.meta.tip_height = d.meta.tip_height /\ g.meta.tip_hash = d.meta.tip_hash
          /\ g.meta.format = d.meta.format
        BY <1>8 DEF CoreKeys
    <2>2. Old(g) = Old(d) /\ (Tip(g) = NoTip <=> Tip(d) = NoTip)
        BY <2>1 DEF Old, Tip
    <2>3. \A k \in Heights : /\ g.blocks[k] \in Hash \cup {OldRow, None} /\ g.blocks[k] # OldRow
                             /\ g.blocks[k] \in Hash => HeightOf[g.blocks[k]] = k
        BY <1>1, <1>2, <1>3, <1>8 DEF h
    <2>4. LinkedRows(g)
        <3> SUFFICES ASSUME NEW k \in Heights \ {0}, g.blocks[k] \in Hash, g.blocks[k - 1] \in Hash
                     PROVE  Prev[g.blocks[k]] = g.blocks[k - 1]
            BY DEF LinkedRows
        <3>0. k \in Heights /\ k - 1 \in Heights /\ k \in Nat /\ k - 1 \in Nat /\ k # 0 /\ h \in Nat
            BY <1>1, <1>3
        <3>1. CASE k = h
            <4>1. g.blocks[k - 1] = d.blocks[k - 1] /\ g.blocks[k] = b
                BY <3>0, <3>1, <1>8
            <4> QED BY <4>1, <3>0, <3>1, <1>1
        <3>2. CASE k - 1 = h
            <4>1. d.blocks[k] \in Hash
                BY <3>0, <3>2, <1>8
            <4>2. Tip(d) # NoTip => ~ (k > d.meta.tip_height + 1)
                BY <4>1, <3>0, <1>2, <1>3 DEF BoundedByTip
            <4>3. Tip(d) # NoTip
                BY <4>1, <3>0, <1>2, <1>3 DEF BoundedByTip
            <4>4. h = 0
                BY <4>2, <4>3, <3>0, <3>2, <1>1, <1>3
            <4>5. HeightOf[d.blocks[k]] = 1 /\ d.blocks[k] # Genesis
                BY <4>1, <4>4, <3>0, <3>2, <1>2, LinkAssumption
            <4>6. Prev[d.blocks[k]] \in Hash /\ 1 = HeightOf[Prev[d.blocks[k]]] + 1
                BY <4>1, <4>5, LinkAssumption
            <4>7. HeightOf[Prev[d.blocks[k]]] = 0
                BY <4>6, <1>3, ForkTreeAssumption
            <4>8. Prev[d.blocks[k]] = Genesis /\ b = Genesis
                BY <4>4, <4>6, <4>7, <1>1, LinkAssumption DEF h
            <4> QED BY <4>8, <3>0, <3>2, <1>8
        <3>3. CASE k # h /\ k - 1 # h
            BY <3>0, <3>3, <1>2, <1>8 DEF LinkedRows
        <3> QED BY <3>1, <3>2, <3>3
    <2>5. BoundedByTip(g)
        <3>1. CASE Tip(d) = NoTip
            <4>1. \A k \in Heights \ {0} : g.blocks[k] = None
                BY <3>1, <1>1, <1>2, <1>8 DEF BoundedByTip
            <4> QED BY <4>1, <3>1, <2>2 DEF BoundedByTip
        <3>2. CASE Tip(d) # NoTip
            <4>1. h = 0 \/ h = d.meta.tip_height + 1
                BY <3>2, <1>1
            <4>2. \A k \in Heights : k > d.meta.tip_height + 1 => k # h
                BY <4>1, <3>2, <1>3
            <4>3. \A k \in Heights \ {0} : k <= d.meta.tip_height => k # h
                BY <4>1, <3>2, <1>3
            <4> QED BY <4>2, <4>3, <3>2, <2>1, <2>2, <1>2, <1>8 DEF BoundedByTip
        <3> QED BY <3>1, <3>2
    <2> QED BY <1>2, <1>8, <2>1, <2>2, <2>3, <2>4, <2>5 DEF Fine, DiskOK
<1>9. Fine(e, "serving")
    BY <1>4, <1>6, <1>8
<1>10. Fine(f, "serving")
    BY <1>5, <1>6, <1>7, <1>8
<1>11. AllFine(d, Put("blocks", h, b), "serving") /\ Play(d, Put("blocks", h, b)) = e
    <2>1. Fine(Wrote(d, "blocks", h, b), "serving")
        BY <1>9 DEF e, h
    <2>2. AllFine(d, Put("blocks", h, b), "serving")
              /\ Play(d, Put("blocks", h, b)) = Wrote(d, "blocks", h, b)
        BY <2>1, AllPut
    <2> QED BY <2>2 DEF e, h
<1>12. AllFine(e, Put("hashes", h, b), "serving") /\ Play(e, Put("hashes", h, b)) = f
    <2>1. Fine(Wrote(e, "hashes", h, b), "serving")
        BY <1>10 DEF f, h
    <2>2. AllFine(e, Put("hashes", h, b), "serving")
              /\ Play(e, Put("hashes", h, b)) = Wrote(e, "hashes", h, b)
        BY <2>1, <1>9, AllPut
    <2> QED BY <2>2 DEF f, h
<1> DEFINE A == Put("blocks", h, b)
           B == Put("hashes", h, b)
<1>13. AllFine(d, A, "serving") /\ Play(d, A) = e /\ AllFine(e, B, "serving") /\ Play(e, B) = f
    BY <1>11, <1>12
<1> HIDE DEF A, B
<1>14. AllFine(d, A \o B, "serving") /\ Play(d, A \o B) = f
    BY <1>2, <1>13, AllConcat
<1>15. /\ \A k \in CoreKeys : f.meta[k] = d.meta[k]
       /\ \A k \in Heights : /\ f.blocks[k] = IF k = h THEN b ELSE d.blocks[k]
                             /\ f.hashes[k] = IF k = h THEN b ELSE d.hashes[k]
    BY <1>6, <1>7
<1> QED
    BY <1>14, <1>15 DEF A, B, h

LEMMA InsertFine ==
    ASSUME NEW d, Fine(d, "serving"), NEW b \in NextBlocks(d)
    PROVE  AllFine(d, InsertWrites(d, b), "serving")
<1> DEFINE h    == HeightOf[b]
           A    == Put("blocks", h, b) \o Put("hashes", h, b)
           C    == When(b \in CoinBlocks, Put("coins", h, b))
           rows == A \o C
           tip  == Put("meta", "tip_height", h) \o Put("meta", "tip_hash", b)
           cut  == RemoveSnapsFrom(d, h)
           tree == RebuildWrites(Play(d, rows \o cut), Tip(d).height)
           app  == AppendWrites(Play(d, rows \o tip), h, b)
           e    == Play(d, A)
           f    == Play(d, rows)
           low  == Tip(d) # NoTip /\ h < Tip(d).height
<1>1. InsertWrites(d, b) = rows \o (IF low THEN cut \o tree ELSE tip \o app)
    BY DEF InsertWrites
<1>2. /\ AllFine(d, A, "serving")
      /\ \A k \in CoreKeys : e.meta[k] = d.meta[k]
      /\ \A k \in Heights : /\ e.blocks[k] = IF k = h THEN b ELSE d.blocks[k]
                            /\ e.hashes[k] = IF k = h THEN b ELSE d.hashes[k]
    BY BlockWritten
<1>3. /\ b \in Hash /\ h \in Heights
      /\ Tip(d) = NoTip => h = 0
      /\ Tip(d) # NoTip => h = 0 \/ h = d.meta.tip_height + 1
    BY NextBlock
<1>4. IsDisk(d)
    BY DEF Fine, DiskOK
<1>5. AsideList(C)
    <2>1. AsideList(Put("coins", h, b))
        BY AsidePut
    <2> QED BY <2>1, AsideWhen
<1> HIDE DEF A, C
<1>6. AllFine(d, rows, "serving") /\ SameCore(e, f)
    BY <1>2, <1>4, <1>5, ThenAside
<1>7. Fine(f, "serving")
    BY <1>6, FineEnd
<1> HIDE DEF rows, e, f
<1>8. ASSUME low PROVE AllFine(d, rows \o (cut \o tree), "serving")
    <2>1. Tip(d).height \in Heights
        BY <1>8 DEF Tip, NoTip, Fine, DiskOK
    <2>2. AsideList(cut) /\ AsideList(tree)
        BY <2>1, TreeSnaps, TreeRebuild, TreeAside
    <2> HIDE DEF cut, tree
    <2>3. AsideList(cut \o tree)
        BY <2>2, AsideConcat
    <2> QED BY <2>3, <1>4, <1>6, ThenAside
<1>9. ASSUME ~ low PROVE AllFine(d, rows \o (tip \o app), "serving")
    <2>1. /\ f.meta.tip_height = d.meta.tip_height /\ f.meta.tip_hash = d.meta.tip_hash
          /\ f.meta.format = d.meta.format
          /\ \A k \in Heights : /\ f.blocks[k] = IF k = h THEN b ELSE d.blocks[k]
                                /\ f.hashes[k] = IF k = h THEN b ELSE d.hashes[k]
        <3>1. /\ f.meta.tip_height = e.meta.tip_height /\ f.meta.tip_hash = e.meta.tip_hash
              /\ f.meta.format = e.meta.format
              /\ \A k \in Heights : f.blocks[k] = e.blocks[k] /\ f.hashes[k] = e.hashes[k]
            BY <1>6 DEF SameCore, CoreKeys
        <3>2. /\ e.meta.tip_height = d.meta.tip_height /\ e.meta.tip_hash = d.meta.tip_hash
              /\ e.meta.format = d.meta.format
            BY <1>2 DEF CoreKeys
        <3> QED BY <3>1, <3>2, <1>2
    <2>2. ~ Old(f) /\ (Tip(f) = NoTip => h = 0) /\ BoundedByTip(d)
              /\ d.meta.tip_height \in Heights \cup {None}
        BY <2>1, <1>3, <1>7 DEF Fine, DiskOK, Tip
    <2>3. ASSUME Tip(d) # NoTip
          PROVE  /\ d.meta.tip_height \in Nat /\ Tip(d).height = d.meta.tip_height
                 /\ h \in Nat /\ h \in {d.meta.tip_height, d.meta.tip_height + 1}
        <3>1. d.meta.tip_height \in Heights /\ Tip(d).height = d.meta.tip_height
            BY <2>2, <2>3 DEF Tip, NoTip
        <3>2. d.meta.tip_height \in Nat /\ h \in Nat
            BY <3>1, <1>3, ForkTreeAssumption DEF Heights
        <3>3. ~ (h < d.meta.tip_height)
            BY <3>1, <2>3, <1>9
        <3>4. h = 0 => h = d.meta.tip_height
            BY <3>2, <3>3
        <3>5. h = 0 \/ h = d.meta.tip_height + 1
            BY <2>3, <1>3
        <3> QED BY <3>1, <3>2, <3>4, <3>5
    <2>4. \A k \in Heights : k \in Nat /\ h \in Nat
        BY <1>3, ForkTreeAssumption DEF Heights
    <2> HIDE DEF h, low
    <2>5. \A k \in Heights : k > h + 1 => f.blocks[k] = None
        <3>1. CASE Tip(d) = NoTip
            BY <3>1, <2>1, <2>2, <2>4, <1>3 DEF BoundedByTip
        <3>2. CASE Tip(d) # NoTip
            <4>1. \A k \in Heights : k > h + 1 => k > d.meta.tip_height + 1 /\ k # h
                BY <3>2, <2>3, <2>4
            <4> QED BY <4>1, <3>2, <2>1, <2>2 DEF BoundedByTip
        <3> QED BY <3>1, <3>2
    <2>6. \A k \in Heights \ {0} : (k <= h /\ f.blocks[k] \in Hash) => f.hashes[k] = f.blocks[k]
        <3>1. CASE Tip(d) = NoTip
            BY <3>1, <2>4, <1>3
        <3>2. CASE Tip(d) # NoTip
            <4>1. \A k \in Heights \ {0} : k <= h => k <= d.meta.tip_height \/ k = h
                BY <3>2, <2>3, <2>4
            <4>2. \A k \in Heights \ {0} :
                      (k <= d.meta.tip_height /\ d.blocks[k] \in Hash) => d.hashes[k] = d.blocks[k]
                BY <3>2, <2>2 DEF BoundedByTip
            <4> QED BY <4>1, <4>2, <2>1
        <3> QED BY <3>1, <3>2
    <2>7. AllFine(f, tip, "serving")
        BY <1>3, <1>7, <2>2, <2>5, <2>6, TipWritten DEF h
    <2>8. AsideList(app)
        BY <1>3, TreeAppend, TreeAside
    <2> HIDE DEF tip, app
    <2>9. IsDisk(f)
        BY <1>7 DEF Fine, DiskOK
    <2>10. AllFine(f, tip \o app, "serving")
        BY <2>7, <2>8, <2>9, ThenAside
    <2> QED BY <2>10, <1>4, <1>6, AllConcat DEF f
<1> QED
    BY <1>1, <1>8, <1>9

-----------------------------------------------------------------------------
(* Opening the database.                                                    *)

LEMMA AsideMove ==
    ASSUME NEW d, NEW old, NEW new, old \notin CoreKeys, new \notin CoreKeys
    PROVE  AsideList(MoveSecret(d, old, new))
<1> DEFINE A == When(d.meta[new] = None /\ d.meta[old] # None, Put("meta", new, d.meta[old]))
           B == When(d.meta[old] # None, Erase("meta", old))
<1>1. AsideList(Put("meta", new, d.meta[old])) /\ AsideList(Erase("meta", old))
    BY AsidePut
<1>2. AsideList(A) /\ AsideList(B)
    BY <1>1, AsideWhen
<1>3. MoveSecret(d, old, new) = A \o B
    BY DEF MoveSecret
<1> HIDE DEF A, B
<1> QED
    BY <1>2, <1>3, AsideConcat

LEMMA AsideRetire ==
    ASSUME NEW d
    PROVE  AsideList(RetireWrites(d))
<1> DEFINE A == MoveSecret(d, "attest_v2", "attest")
           B == MoveSecret(d, "pepper_v1", "pepper")
           C == When(d.pubkeys.current = None /\ d.pubkeys.old # None,
                     Put("pubkeys", "current", d.pubkeys.old))
           D == When(d.pubkeys.old # None, Erase("pubkeys", "old"))
<1>1. AsideList(A) /\ AsideList(B)
    BY AsideMove DEF CoreKeys
<1>2. AsideList(Put("pubkeys", "current", d.pubkeys.old)) /\ AsideList(Erase("pubkeys", "old"))
    BY AsidePut
<1>3. AsideList(C) /\ AsideList(D)
    BY <1>2, AsideWhen
<1>4. RetireWrites(d) = A \o B \o C \o D
    BY DEF RetireWrites
<1> HIDE DEF A, B, C, D
<1>5. AsideList(A \o B)
    BY <1>1, AsideConcat
<1>6. AsideList(A \o B \o C)
    BY <1>3, <1>5, AsideConcat
<1> QED
    BY <1>3, <1>4, <1>6, AsideConcat

\* Clearing a whole tree of the old rows.
LEMMA ClearTree ==
    ASSUME NEW e, Fine(e, "starting"), Old(e), NEW t \in {"blocks", "hashes", "coins"},
           NEW S, S \subseteq Heights
    PROVE  LET W == EraseRows(<<t>>, S)
               f == Play(e, W)
           IN  /\ AllFine(e, W, "starting") /\ Fine(f, "starting")
               /\ \A k \in CoreKeys : f.meta[k] = e.meta[k]
               /\ \A k \in Heights : /\ f.blocks[k] \in {None, e.blocks[k]}
                                     /\ (t = "blocks" /\ k \in S) => f.blocks[k] = None
<1> DEFINE W == EraseRows(<<t>>, S)
           f == Play(e, W)
<1>1. /\ IsList(W) /\ Len(W) = Cardinality(S)
      /\ \A i \in 1 .. Cardinality(S) : W[i] = [tree |-> t, key |-> Ascending(S)[i], val |-> None]
    BY EraseOneTree
<1>2. \A h \in S : \E i \in 1 .. Cardinality(S) : Ascending(S)[i] = h
    BY AscendingLists
<1> HIDE DEF W
<1>3. Erases(W)
    BY <1>1 DEF Erases
<1>4. /\ AllFine(e, W, "starting") /\ Fine(f, "starting")
      /\ \A k \in CoreKeys : f.meta[k] = e.meta[k]
    BY <1>1, <1>3, AllErase
<1>5. IsDisk(e) /\ "blocks" \in Trees7 /\ Keys7("blocks") = Heights
    BY TreesAre DEF Fine, DiskOK
<1>6. ASSUME NEW k \in Heights
      PROVE  /\ f["blocks"][k] \in {None, e["blocks"][k]}
             /\ (t = "blocks" /\ k \in S) => f["blocks"][k] = None
    <2>0. \A i \in 1 .. Len(W) : W[i].val = None
        BY <1>1
    <2>1. /\ f["blocks"][k] \in {None, e["blocks"][k]}
          /\ (\E i \in 1 .. Len(W) : Hits(W[i], "blocks", k)) => f["blocks"][k] = None
        BY <2>0, <1>1, <1>5, ErasedCells
    <2>2. (t = "blocks" /\ k \in S) => \E i \in 1 .. Len(W) : Hits(W[i], "blocks", k)
        BY <1>1, <1>2 DEF Hits
    <2> QED BY <2>1, <2>2
<1> QED
    BY <1>4, <1>6 DEF W

\* The old rows are cleared while the old version still stands.
LEMMA ClearFine ==
    ASSUME NEW d, NEW e, IsDisk(e), SameCore(d, e), Fine(e, "starting"), Old(e)
    PROVE  LET f == Play(e, ClearWrites(d))
           IN  /\ AllFine(e, ClearWrites(d), "starting")
               /\ \A k \in Heights : f.blocks[k] = None
               /\ f.meta.tip_height = None /\ f.meta.tip_hash = None
<1> DEFINE A == EraseRows(<<"blocks">>, RowsIn(d.blocks, Heights))
           B == EraseRows(<<"hashes">>, RowsIn(d.hashes, Heights))
           C == EraseRows(<<"coins">>, RowsIn(d.coins, Heights))
           D == RemoveSnapsFrom(d, 0)
           E == Erase("meta", "tip_height")
           F == Erase("meta", "tip_hash")
           G == Erase("meta", "merkle_tree")
           H == Erase("meta", "merkle_height")
           X == A \o B \o C
           x == Play(e, X)
           y == Play(e, X \o D)
           f == Wrote(y, "meta", "tip_height", None)
           g == Wrote(f, "meta", "tip_hash", None)
<1>1. ClearWrites(d) = X \o D \o E \o F \o G \o H
    BY DEF ClearWrites
<1>2. /\ AllFine(e, X, "starting") /\ \A k \in Heights : x.blocks[k] = None
      /\ \A k \in CoreKeys : x.meta[k] = e.meta[k]
    <2> DEFINE p == Play(e, A)
               q == Play(p, B)
               r == Play(q, C)
               S == RowsIn(d.blocks, Heights)
    <2>1. S \subseteq Heights /\ RowsIn(d.hashes, Heights) \subseteq Heights
              /\ RowsIn(d.coins, Heights) \subseteq Heights
        BY DEF RowsIn
    <2>2. /\ AllFine(e, A, "starting") /\ Fine(p, "starting")
          /\ \A k \in CoreKeys : p.meta[k] = e.meta[k]
          /\ \A k \in Heights : /\ p.blocks[k] \in {None, e.blocks[k]}
                                /\ k \in S => p.blocks[k] = None
        <3> HIDE DEF S
        <3> QED BY <2>1, ClearTree DEF S
    <2>3. Old(p)
        BY <2>2 DEF Old, CoreKeys
    <2> HIDE DEF p, A, S
    <2>4. /\ AllFine(p, B, "starting") /\ Fine(q, "starting")
          /\ \A k \in CoreKeys : q.meta[k] = p.meta[k]
          /\ \A k \in Heights : q.blocks[k] \in {None, p.blocks[k]}
        BY <2>1, <2>2, <2>3, ClearTree
    <2>5. Old(q)
        BY <2>3, <2>4 DEF Old, CoreKeys
    <2> HIDE DEF q, B
    <2>6. /\ AllFine(q, C, "starting") /\ \A k \in CoreKeys : r.meta[k] = q.meta[k]
          /\ \A k \in Heights : r.blocks[k] \in {None, q.blocks[k]}
        BY <2>1, <2>4, <2>5, ClearTree
    <2> HIDE DEF r, C
    <2>7. AllFine(e, A \o B, "starting") /\ Play(e, A \o B) = q
        BY <2>2, <2>4, AllConcat DEF p, q
    <2>8. AllFine(e, X, "starting") /\ x = r
        BY <2>6, <2>7, AllConcat DEF r
    <2>9. \A k \in Heights : k \in S \/ e.blocks[k] = None
        BY DEF S, RowsIn, SameCore
    <2> QED BY <2>2, <2>4, <2>6, <2>8, <2>9
<1>3. AsideList(D) /\ AsideList(G) /\ AsideList(H)
    <2>1. "merkle_tree" \notin CoreKeys /\ "merkle_height" \notin CoreKeys
        BY DEF CoreKeys
    <2> QED BY <2>1, TreeSnaps, TreeAside, AsidePut
<1> HIDE DEF A, B, C, D, G, H, X
<1>4. AllFine(e, X \o D, "starting") /\ SameCore(x, y)
    BY <1>2, <1>3, ThenAside
<1>5. /\ \A k \in Heights : y.blocks[k] = None
      /\ y.meta.format = e.meta.format /\ Fine(y, "starting") /\ IsDisk(y)
    <2>1. Fine(y, "starting")
        BY <1>4, FineEnd
    <2>2. IsDisk(y)
        BY <2>1 DEF Fine, DiskOK
    <2> QED BY <1>2, <1>4, <2>1, <2>2 DEF SameCore, CoreKeys
<1> HIDE DEF x, y
<1>6. /\ IsDisk(f)
      /\ \A k \in Heights : f.blocks[k] = y.blocks[k]
      /\ f.meta.format = y.meta.format /\ f.meta.tip_height = None /\ f.meta.tip_hash = y.meta.tip_hash
    BY <1>5, WroteTip DEF TipKeys
<1>7. /\ IsDisk(g)
      /\ \A k \in Heights : g.blocks[k] = f.blocks[k]
      /\ g.meta.format = f.meta.format /\ g.meta.tip_height = f.meta.tip_height /\ g.meta.tip_hash = None
    BY <1>6, WroteTip DEF TipKeys
<1> HIDE DEF f, g
<1>8. /\ Fine(f, "starting") /\ Fine(g, "starting")
    <2>1. ASSUME NEW z, IsDisk(z), \A k \in Heights : z.blocks[k] = None,
                 z.meta.format = e.meta.format, z.meta.tip_height = None,
                 z.meta.tip_hash \in Hash \cup {None}
          PROVE  Fine(z, "starting")
        <3>1. Old(z) /\ None \notin Hash
            BY <2>1, ForkTreeAssumption DEF Old
        <3> QED BY <2>1, <3>1 DEF Fine, DiskOK
    <2>2. y.meta.tip_hash \in Hash \cup {None}
        BY <1>5 DEF Fine, DiskOK
    <2>3. Fine(f, "starting")
        BY <1>5, <1>6, <2>1, <2>2
    <2>4. Fine(g, "starting")
        BY <1>5, <1>6, <1>7, <2>1
    <2> QED BY <2>3, <2>4
<1>9. AllFine(y, E, "starting") /\ Play(y, E) = f
    <2>1. Fine(Wrote(y, "meta", "tip_height", None), "starting")
        BY <1>8 DEF f
    <2>2. AllFine(y, Put("meta", "tip_height", None), "starting")
              /\ Play(y, Put("meta", "tip_height", None)) = Wrote(y, "meta", "tip_height", None)
        BY <2>1, <1>5, AllPut
    <2> QED BY <2>2 DEF f, Erase
<1>10. AllFine(f, F, "starting") /\ Play(f, F) = g
    <2>1. Fine(Wrote(f, "meta", "tip_hash", None), "starting")
        BY <1>8 DEF g
    <2>2. AllFine(f, Put("meta", "tip_hash", None), "starting")
              /\ Play(f, Put("meta", "tip_hash", None)) = Wrote(f, "meta", "tip_hash", None)
        BY <2>1, <1>8, AllPut
    <2> QED BY <2>2 DEF g, Erase
<1> HIDE DEF E, F
<1>11. AllFine(e, X \o D \o E, "starting") /\ Play(e, X \o D \o E) = f
    BY <1>4, <1>9, AllConcat DEF y
<1>12. AllFine(e, X \o D \o E \o F, "starting") /\ Play(e, X \o D \o E \o F) = g
    BY <1>10, <1>11, AllConcat
<1> DEFINE V == X \o D \o E \o F
<1>13. AllFine(e, V, "starting") /\ Play(e, V) = g /\ ClearWrites(d) = V \o G \o H
    BY <1>1, <1>12
<1> HIDE DEF V
<1>14. AllFine(e, V \o G, "starting") /\ SameCore(g, Play(e, V \o G))
    BY <1>3, <1>13, ThenAside
<1>15. AllFine(e, V \o G \o H, "starting") /\ SameCore(Play(e, V \o G), Play(e, V \o G \o H))
    BY <1>3, <1>14, ThenAside
<1>16. LET z == Play(e, V \o G \o H)
       IN  /\ \A k \in Heights : z.blocks[k] = None
           /\ z.meta.tip_height = None /\ z.meta.tip_hash = None
    BY <1>5, <1>6, <1>7, <1>14, <1>15 DEF SameCore, CoreKeys
<1> QED
    BY <1>13, <1>15, <1>16

\* The version is stamped on rows of its own layout only.
LEMMA FormatFine ==
    ASSUME NEW d, NEW e, IsDisk(e), SameCore(d, e), Fine(e, "starting")
    PROVE  /\ AllFine(e, FormatWrites(d), "starting")
           /\ ~ Old(Play(e, FormatWrites(d)))
<1> DEFINE stamp == Put("meta", "format", Format)
<1>1. d.meta.format = e.meta.format
    BY DEF SameCore, CoreKeys
<1>2. ASSUME NEW y, Fine(y, "starting"), IsDisk(y),
             ~ Old(y) \/ (Tip(y) = NoTip /\ \A k \in Heights : y.blocks[k] = None)
      PROVE  AllFine(y, stamp, "starting") /\ ~ Old(Play(y, stamp))
    <2> DEFINE z == Wrote(y, "meta", "format", Format)
    <2>1. /\ "meta" \in Trees7 /\ "format" \in Keys7("meta") /\ "blocks" \in Trees7 /\ "hashes" \in Trees7
          /\ Keys7("blocks") = Heights /\ Keys7("hashes") = Heights
          /\ "tip_height" \in Keys7("meta") /\ "tip_hash" \in Keys7("meta")
        BY TreesAre DEF CoreKeys
    <2>2. /\ IsDisk(z)
          /\ \A u \in Trees7 : \A l \in Keys7(u) :
                z[u][l] = IF u = "meta" /\ l = "format" THEN Format ELSE y[u][l]
        BY <1>2, <2>1, WroteRow
    <2> HIDE DEF z
    <2>3. /\ \A k \in Heights : z["blocks"][k] = y["blocks"][k] /\ z["hashes"][k] = y["hashes"][k]
          /\ z["meta"]["format"] = Format
          /\ z["meta"]["tip_height"] = y["meta"]["tip_height"]
          /\ z["meta"]["tip_hash"] = y["meta"]["tip_hash"]
        BY <2>1, <2>2
    <2>4. ~ Old(z) /\ Tip(z) = Tip(y)
        BY <2>3 DEF Old, Tip
    <2>5. None \notin Hash /\ None # OldRow /\ \A k \in Heights \ {0} : k - 1 \in Heights
        BY ForkTreeAssumption, OldDiskAssumption DEF Heights
    <2>6. /\ \A k \in Heights : z.blocks[k] # OldRow
          /\ LinkedRows(z) /\ BoundedByTip(z)
        <3>1. CASE ~ Old(y)
            <4>1. (\A k \in Heights : y.blocks[k] # OldRow) /\ LinkedRows(y) /\ BoundedByTip(y)
                BY <3>1, <1>2 DEF Fine, DiskOK
            <4>2. LinkedRows(z)
                BY <4>1, <2>3, <2>5 DEF LinkedRows
            <4>3. BoundedByTip(z)
                BY <4>1, <2>3, <2>4 DEF BoundedByTip
            <4> QED BY <4>1, <4>2, <4>3, <2>3
        <3>2. CASE Tip(y) = NoTip /\ \A k \in Heights : y.blocks[k] = None
            BY <3>2, <2>3, <2>4, <2>5 DEF LinkedRows, BoundedByTip
        <3> QED BY <3>1, <3>2, <1>2
    <2>7. Fine(z, "starting")
        BY <1>2, <2>2, <2>3, <2>4, <2>6 DEF Fine, DiskOK
    <2>8. AllFine(y, Put("meta", "format", Format), "starting")
              /\ Play(y, Put("meta", "format", Format)) = Wrote(y, "meta", "format", Format)
        <3>1. Fine(Wrote(y, "meta", "format", Format), "starting")
            BY <2>7 DEF z
        <3> QED BY <3>1, <1>2, AllPut
    <2> QED BY <2>4, <2>8 DEF z
<1> HIDE DEF stamp
<1>3. CASE ~ Old(e)
    <2>1. FormatWrites(d) = When(d.meta.format = None, stamp)
        BY <1>1, <1>3 DEF FormatWrites, Old, stamp
    <2>2. CASE d.meta.format = None
        BY <2>1, <2>2, <1>2, <1>3 DEF When
    <2>3. CASE d.meta.format # None
        <3>1. FormatWrites(d) = <<>>
            BY <2>1, <2>3 DEF When
        <3>2. AllFine(e, <<>>, "starting") /\ Play(e, <<>>) = e
            BY AllNone, PlayEmpty
        <3> QED BY <3>1, <3>2, <1>3
    <2> QED BY <2>2, <2>3
<1>4. CASE Old(e)
    <2> DEFINE A == ClearWrites(d)
               y == Play(e, A)
    <2>1. FormatWrites(d) = A \o stamp
        BY <1>1, <1>4 DEF FormatWrites, Old, stamp
    <2>2. /\ AllFine(e, A, "starting")
          /\ \A k \in Heights : y.blocks[k] = None
          /\ y.meta.tip_height = None /\ y.meta.tip_hash = None
        BY <1>4, ClearFine
    <2> HIDE DEF A
    <2>3. Fine(y, "starting")
        BY <2>2, FineEnd
    <2>4. IsDisk(y) /\ Tip(y) = NoTip
        BY <2>2, <2>3 DEF Fine, DiskOK, Tip
    <2>5. AllFine(y, stamp, "starting") /\ ~ Old(Play(y, stamp))
        BY <2>2, <2>3, <2>4, <1>2
    <2>6. AllFine(e, A \o stamp, "starting") /\ Play(e, A \o stamp) = Play(y, stamp)
        BY <2>2, <2>5, AllConcat
    <2> QED BY <2>1, <2>5, <2>6
<1> QED
    BY <1>3, <1>4

LEMMA StartFine ==
    ASSUME NEW d, DiskOK(d)
    PROVE  /\ AllFine(d, StartWrites(d), "starting")
           /\ ~ Old(Play(d, StartWrites(d)))
<1> DEFINE R     == RetireWrites(d)
           F     == FormatWrites(d)
           early == R \o F
           e     == Play(d, R)
           tree  == TreeOnDisk(Play(d, early))
           I     == When(tree # NoTree /\ Play(d, early).snaps[tree.height] = None,
                         Put("snaps", tree.height, tree.leaves))
           L     == Put("live", "tree", tree)
<1>1. StartWrites(d) = early \o I \o L
    BY DEF StartWrites
<1>2. Fine(d, "starting") /\ IsDisk(d)
    BY DEF Fine, DiskOK
<1>3. AllFine(d, R, "starting") /\ SameCore(d, e) /\ Fine(e, "starting")
    BY <1>2, AsideRetire, AllAside DEF AsideList
<1>4. AllFine(e, F, "starting") /\ ~ Old(Play(e, F))
    <2>1. IsDisk(e)
        BY <1>3 DEF Fine, DiskOK
    <2> QED BY <2>1, <1>3, FormatFine
<1>5. AsideList(I) /\ AsideList(L)
    <2>1. AsideList(Put("snaps", tree.height, tree.leaves)) /\ AsideList(L)
        BY AsidePut
    <2> QED BY <2>1, AsideWhen
<1> HIDE DEF R, F, I, L
<1>6. AllFine(d, early, "starting") /\ ~ Old(Play(d, early))
    BY <1>2, <1>3, <1>4, AllConcat
<1> HIDE DEF early
<1>7. AllFine(d, early \o I, "starting") /\ SameCore(Play(d, early), Play(d, early \o I))
    BY <1>2, <1>5, <1>6, ThenAside
<1>8. AllFine(d, early \o I \o L, "starting")
          /\ SameCore(Play(d, early \o I), Play(d, early \o I \o L))
    BY <1>2, <1>5, <1>7, ThenAside
<1> DEFINE W == early \o I \o L
<1>9. ~ Old(Play(d, W))
    BY <1>6, <1>7, <1>8 DEF SameCore, CoreKeys, Old
<1> QED
    BY <1>1, <1>8, <1>9

-----------------------------------------------------------------------------
(* The cache by itself.                                                     *)

CacheSpec == CacheInit /\ [][CacheNext]_cacheVars

\* However far the running operation gets before a reader comes or the process
\* dies, it leaves a disk the next operation can go on from; and an upgrade that
\* runs to its end has removed the old rows.
CacheInv ==
    /\ mode \in {"starting", "serving"}
    /\ DiskOK(db)
    /\ AllFine(db, todo, mode)
    /\ mode = "starting" => ~ Old(Play(db, todo))

LEMMA FirstDisks == DiskOK(EmptyDisk) /\ DiskOK(OldDisk)
<1>0. /\ None \notin Hash /\ None # OldRow /\ OldRow \notin Hash
      /\ \A k \in Heights \ {0} : k - 1 \in Heights
    BY ForkTreeAssumption, OldDiskAssumption DEF Heights
<1>1. DiskOK(EmptyDisk)
    <2>1. IsDisk(EmptyDisk)
        <3>1. EmptyDisk = [t \in DOMAIN EmptyDisk |-> EmptyDisk[t]]
            BY DEF EmptyDisk
        <3>2. \A t \in DOMAIN EmptyDisk : EmptyDisk[t] = [k \in DOMAIN EmptyDisk[t] |-> EmptyDisk[t][k]]
            BY DEF EmptyDisk, NoRows
        <3> QED BY <3>1, <3>2 DEF IsDisk
    <2>2. /\ EmptyDisk.blocks = NoRows /\ EmptyDisk.meta = [k \in MetaKeys |-> None]
        BY DEF EmptyDisk
    <2>3. /\ \A k \in Heights : EmptyDisk.blocks[k] = None
          /\ EmptyDisk.meta.tip_height = None /\ EmptyDisk.meta.tip_hash = None
          /\ EmptyDisk.meta.format = None
        BY <2>2 DEF NoRows, MetaKeys
    <2>4. ~ Old(EmptyDisk) /\ Tip(EmptyDisk) = NoTip
        BY <2>3 DEF Old, Tip
    <2>5. LinkedRows(EmptyDisk) /\ BoundedByTip(EmptyDisk)
        BY <2>3, <2>4, <1>0 DEF LinkedRows, BoundedByTip
    <2> HIDE DEF EmptyDisk
    <2> QED BY <2>1, <2>3, <2>4, <2>5, <1>0 DEF DiskOK
<1>2. DiskOK(OldDisk)
    <2>1. /\ IsDisk(OldDisk) /\ Old(OldDisk) /\ \A k \in Heights : OldDisk.blocks[k] \in {OldRow, None}
          /\ OldDisk.meta.tip_height \in Heights \cup {None} /\ OldDisk.meta.tip_hash \in Hash \cup {None}
        BY OldDiskAssumption DEF Old
    <2> QED BY <2>1, <1>0 DEF DiskOK
<1> QED
    BY <1>1, <1>2

\* What a crash leaves: the rows, without the tree in memory.
LEMMA CrashFine ==
    ASSUME NEW d, DiskOK(d)
    PROVE  /\ DiskOK([d EXCEPT !.live.tree = NoTree])
           /\ SameCore(d, [d EXCEPT !.live.tree = NoTree])
<1> DEFINE w == [tree |-> "live", key |-> "tree", val |-> NoTree]
           e == [d EXCEPT !.live.tree = NoTree]
           W == Put("live", "tree", NoTree)
<1>1. e = Apply(d, w) /\ W = <<w>>
    BY DEF Apply, Put
<1>2. AsideList(W)
    BY AsidePut
<1>3. Fine(d, "starting") /\ IsDisk(d)
    BY DEF Fine, DiskOK
<1> HIDE DEF w, W
<1>4. SameCore(d, Play(d, W)) /\ Fine(Play(d, W), "starting")
    BY <1>2, <1>3, AllAside DEF AsideList
<1>5. Play(d, W) = e
    <2>1. Play(d, <<w>>) = Apply(d, w)
        BY <1>3, PlayOne
    <2> QED BY <2>1, <1>1
<1> QED
    BY <1>4, <1>5 DEF Fine

LEMMA CacheStarts ==
    ASSUME CacheInit
    PROVE  CacheInv
<1>1. DiskOK(db)
    BY FirstDisks DEF CacheInit
<1>2. todo = StartWrites(db) /\ mode = "starting"
    BY DEF CacheInit
<1>3. AllFine(db, StartWrites(db), "starting") /\ ~ Old(Play(db, StartWrites(db)))
    BY <1>1, StartFine
<1> QED
    BY <1>1, <1>2, <1>3 DEF CacheInv

LEMMA CacheStep ==
    ASSUME CacheInv, [CacheNext]_cacheVars
    PROVE  CacheInv'
<1> USE DEF CacheInv
<1>0. IsDisk(db) /\ Fine(db, mode)
    <2>1. IsDisk(db)
        BY DEF DiskOK
    <2>2. 0 \in 0 .. Len(todo) /\ Prefix(todo, 0) = <<>>
        BY PrefixNone DEF AllFine
    <2>3. Fine(Play(db, Prefix(todo, 0)), mode)
        BY <2>2 DEF AllFine
    <2> QED BY <2>1, <2>2, <2>3, PlayEmpty
<1>1. CASE StartInsert
    <2>1. PICK b \in NextBlocks(db) : todo' = InsertWrites(db, b)
        BY <1>1 DEF StartInsert
    <2>2. mode = "serving" /\ mode' = "serving" /\ db' = db
        BY <1>1 DEF StartInsert, Idle
    <2>3. AllFine(db, InsertWrites(db, b), "serving")
        BY <2>1, <2>2, <1>0, InsertFine
    <2> QED BY <2>1, <2>2, <2>3
<1>2. CASE StartRewind
    <2>1. PICK h \in 0 .. Tip(db).height : todo' = RewindWrites(db, h)
        BY <1>2 DEF StartRewind
    <2>2. mode = "serving" /\ mode' = "serving" /\ db' = db /\ Tip(db) # NoTip
        BY <1>2 DEF StartRewind, Idle
    <2>3. AllFine(db, RewindWrites(db, h), "serving")
        BY <2>1, <2>2, <1>0, RewindFine
    <2> QED BY <2>1, <2>2, <2>3
<1>3. CASE StartPrune
    <2>1. mode = "serving" /\ mode' = "serving" /\ db' = db /\ todo' = PruneWrites(db)
        BY <1>3 DEF StartPrune, Idle
    <2>2. AllFine(db, PruneWrites(db), "serving")
        BY <2>1, <1>0, PruneFine
    <2> QED BY <2>1, <2>2
<1>4. CASE Write
    <2>1. /\ todo # <<>> /\ db' = Apply(db, Head(todo)) /\ todo' = Tail(todo) /\ mode' = mode
          /\ IsList(todo)
        BY <1>4 DEF Write, AllFine
    <2>2. IsList(Tail(todo)) /\ Len(Tail(todo)) \in Nat
        BY <2>1, SplitHead, ListDomain
    <2>3. ASSUME NEW n \in 0 .. Len(Tail(todo))
          PROVE  Fine(Play(db', Prefix(Tail(todo), n)), mode)
        <3>1. /\ n + 1 \in 0 .. Len(todo)
              /\ Play(Apply(db, Head(todo)), Prefix(Tail(todo), n)) = Play(db, Prefix(todo, n + 1))
            BY <2>1, <1>0, PlayStep
        <3> QED BY <3>1, <2>1 DEF AllFine
    <2>4. AllFine(db', todo', mode')
        <3>1. AllFine(db', Tail(todo), mode)
            BY <2>2, <2>3 DEF AllFine
        <3> QED BY <3>1, <2>1
    <2>5. IsDisk(db')
        BY <2>1, <1>0, ApplyDisk
    <2>6. DiskOK(db')
        <3>1. 0 \in 0 .. Len(Tail(todo)) /\ Prefix(Tail(todo), 0) = <<>>
            BY <2>2, PrefixNone
        <3>2. Fine(Play(db', Prefix(Tail(todo), 0)), mode)
            BY <2>3, <3>1
        <3>3. Play(db', <<>>) = db'
            BY <2>5, PlayEmpty
        <3> QED BY <3>1, <3>2, <3>3 DEF Fine
    <2>7. Play(db', todo') = Play(db, todo)
        <3> DEFINE n == Len(Tail(todo))
        <3>1. n \in 0 .. n
            BY <2>2
        <3>2. Play(Apply(db, Head(todo)), Prefix(Tail(todo), n)) = Play(db, Prefix(todo, n + 1))
            BY <3>1, <2>1, <1>0, PlayStep
        <3>3. n + 1 = Len(todo)
            BY <2>1, <2>2, SplitHead
        <3> HIDE DEF n
        <3>4. Prefix(Tail(todo), n) = Tail(todo) /\ Prefix(todo, n + 1) = todo
            BY <3>3, <2>1, <2>2, PrefixWhole DEF n
        <3> QED BY <3>2, <3>4, <2>1
    <2> QED BY <2>1, <2>4, <2>6, <2>7
<1>5. CASE Serve
    <2>1. mode = "starting" /\ todo = <<>> /\ mode' = "serving" /\ db' = db /\ todo' = todo
        BY <1>5 DEF Serve
    <2>2. Play(db, <<>>) = db
        BY <1>0, PlayEmpty
    <2>3. Fine(db, "serving")
        BY <2>1, <2>2 DEF Fine
    <2>4. AllFine(db, <<>>, "serving")
        BY <2>3, AllNone
    <2> QED BY <2>1, <2>4
<1>6. CASE Crash
    <2>1. db' = [db EXCEPT !.live.tree = NoTree] /\ todo' = StartWrites(db') /\ mode' = "starting"
        BY <1>6 DEF Crash
    <2> DEFINE d == [db EXCEPT !.live.tree = NoTree]
    <2>2. DiskOK(d)
        BY CrashFine
    <2> HIDE DEF d
    <2>3. AllFine(d, StartWrites(d), "starting") /\ ~ Old(Play(d, StartWrites(d)))
        BY <2>2, StartFine
    <2>4. db' = d
        BY <2>1 DEF d
    <2> QED BY <2>1, <2>2, <2>3, <2>4
<1>7. CASE UNCHANGED cacheVars
    BY <1>7 DEF cacheVars
<1> QED
    BY <1>1, <1>2, <1>3, <1>4, <1>5, <1>6, <1>7 DEF CacheNext

\* CacheInv in every state the cache reaches, in the middle of an operation and
\* after a crash in one: every prefix of the remaining writes leaves linked rows.
THEOREM EveryPrefixFine == CacheSpec => []CacheInv
<1>1. CacheInit => CacheInv
    BY CacheStarts
<1>2. CacheInv /\ [CacheNext]_cacheVars => CacheInv'
    BY CacheStep
<1> QED
    BY <1>1, <1>2, PTL DEF CacheSpec

LEMMA FineServes ==
    ASSUME CacheInv
    PROVE  NoOldRows /\ LinkedOnDisk
<1>1. IsDisk(db) /\ DiskOK(db)
    BY DEF CacheInv, DiskOK
<1>2. mode = "serving" => ~ Old(db)
    <2>1. SUFFICES ASSUME mode = "serving" PROVE ~ Old(db)
        OBVIOUS
    <2>2. 0 \in 0 .. Len(todo) /\ Prefix(todo, 0) = <<>>
        BY PrefixNone DEF CacheInv, AllFine
    <2>3. Fine(Play(db, Prefix(todo, 0)), "serving")
        BY <2>1, <2>2 DEF CacheInv, AllFine
    <2> QED BY <2>2, <2>3, <1>1, PlayEmpty DEF Fine
<1>3. NoOldRows
    BY <1>1, <1>2 DEF NoOldRows, DiskOK
<1>4. LinkedOnDisk
    <2>1. CASE Old(db)
        BY <2>1, <1>1 DEF LinkedOnDisk, DiskOK
    <2>2. CASE ~ Old(db)
        BY <2>2, <1>1 DEF LinkedOnDisk, DiskOK, LinkedRows
    <2> QED BY <2>1, <2>2
<1> QED
    BY <1>3, <1>4

\* The rows of adjacent heights are linked after every single write and after
\* every crash: rewind removes rows before it lowers the tip, insertion looks at
\* the hash below before it writes.
THEOREM RowsStayLinked == CacheSpec => []LinkedOnDisk
<1>1. CacheInv => LinkedOnDisk
    BY FineServes
<1> QED
    BY <1>1, EveryPrefixFine, PTL

\* ensure_cache_format: no row in the layout of an older version is served,
\* wherever an upgrade was interrupted and however often.
THEOREM OldRowsNeverServed == CacheSpec => []NoOldRows
<1>1. CacheInv => NoOldRows
    BY FineServes
<1> QED
    BY <1>1, EveryPrefixFine, PTL

-----------------------------------------------------------------------------
(* The signing key and the pepper.                                          *)

SecretKeys == {"attest", "attest_v2", "pepper", "pepper_v1"}

\* A secret is there, under its new name or its old one.
Held(d, new, old) == d.meta[new] # None \/ d.meta[old] # None

SameHeld(d, e) == /\ Held(d, "attest", "attest_v2") <=> Held(e, "attest", "attest_v2")
                  /\ Held(d, "pepper", "pepper_v1") <=> Held(e, "pepper", "pepper_v1")

\* No prefix of the writes loses a secret, or makes one up.
AllHeld(d, W) ==
    /\ IsList(W)
    /\ \A n \in 0 .. Len(W) : SameHeld(d, Play(d, Prefix(W, n)))

SameSecrets(d, e) == /\ \A k \in SecretKeys : e.meta[k] = d.meta[k]
                     /\ e.pubkeys.old = d.pubkeys.old

\* A list that writes neither secrets nor clue keys.
PublicList(W) ==
    Within(W, {"blocks", "hashes", "coins", "snaps", "live", "meta"}, MetaKeys \ SecretKeys)

LEMMA HeldConcat ==
    ASSUME NEW d, NEW A, NEW B, IsDisk(d), AllHeld(d, A), AllHeld(Play(d, A), B)
    PROVE  AllHeld(d, A \o B) /\ Play(d, A \o B) = Play(Play(d, A), B)
<1>1. /\ IsList(A) /\ IsList(B) /\ Len(A) \in Nat /\ Len(B) \in Nat
      /\ IsList(A \o B) /\ Len(A \o B) = Len(A) + Len(B)
    BY ConcatList, ListDomain DEF AllHeld
<1>2. ASSUME NEW n \in 0 .. Len(A \o B)
      PROVE  SameHeld(d, Play(d, Prefix(A \o B, n)))
    <2>1. n \in 0 .. Len(A) + Len(B)
        BY <1>1
    <2>2. CASE n <= Len(A)
        <3>1. n \in 0 .. Len(A) /\ Prefix(A \o B, n) = Prefix(A, n)
            BY <2>1, <2>2, <1>1, PrefixConcat
        <3> QED BY <3>1 DEF AllHeld
    <2>3. CASE n >= Len(A)
        <3>1. /\ n - Len(A) \in 0 .. Len(B)
              /\ Prefix(A \o B, n) = A \o Prefix(B, n - Len(A))
            BY <2>1, <2>3, <1>1, PrefixConcat
        <3>2. IsList(Prefix(B, n - Len(A)))
            BY <3>1, <1>1, PrefixList
        <3>3. Play(d, A \o Prefix(B, n - Len(A))) = Play(Play(d, A), Prefix(B, n - Len(A)))
            BY <3>2, <1>1, PlayConcat
        <3>4. SameHeld(Play(d, A), Play(Play(d, A), Prefix(B, n - Len(A))))
            BY <3>1 DEF AllHeld
        <3>5. SameHeld(d, Play(d, A))
            <4>1. Len(A) \in 0 .. Len(A) /\ Prefix(A, Len(A)) = A
                BY <1>1, PrefixWhole
            <4>2. SameHeld(d, Play(d, Prefix(A, Len(A))))
                BY <4>1 DEF AllHeld
            <4> QED BY <4>1, <4>2
        <3>6. SameHeld(d, Play(Play(d, A), Prefix(B, n - Len(A))))
            BY <3>4, <3>5 DEF SameHeld
        <3> QED BY <3>1, <3>3, <3>6
    <2> QED BY <2>1, <2>2, <2>3, <1>1
<1> QED
    BY <1>1, <1>2, PlayConcat DEF AllHeld

LEMMA HeldNone ==
    ASSUME NEW d, IsDisk(d)
    PROVE  AllHeld(d, <<>>) /\ Play(d, <<>>) = d
<1>1. ASSUME NEW n \in 0 .. Len(<<>>) PROVE Prefix(<<>>, n) = <<>>
    <2>1. n = Len(<<>>)
        BY NoWrite
    <2> QED BY <2>1, NoWrite, PrefixWhole
<1>2. SameHeld(d, d)
    BY DEF SameHeld
<1> QED
    BY <1>1, <1>2, NoWrite, PlayEmpty DEF AllHeld

LEMMA HeldPut ==
    ASSUME NEW d, IsDisk(d), NEW t, NEW k, NEW v, SameHeld(d, Wrote(d, t, k, v))
    PROVE  AllHeld(d, Put(t, k, v)) /\ Play(d, Put(t, k, v)) = Wrote(d, t, k, v)
<1> DEFINE W == Put(t, k, v)
<1>1. IsList(W) /\ Len(W) = 1 /\ Play(d, W) = Wrote(d, t, k, v)
    BY OneWrite, PlayOne DEF Put, Wrote
<1> HIDE DEF W
<1>2. ASSUME NEW n \in 0 .. Len(W) PROVE SameHeld(d, Play(d, Prefix(W, n)))
    <2>1. CASE n = 0
        <3>1. Play(d, Prefix(W, n)) = d
            BY <2>1, <1>1, PrefixNone, PlayEmpty
        <3> QED BY <3>1 DEF SameHeld
    <2>2. CASE n = 1
        <3>1. Prefix(W, n) = W
            BY <2>2, <1>1, PrefixWhole
        <3> QED BY <3>1, <1>1
    <2> QED BY <2>1, <2>2, <1>1
<1> QED
    BY <1>1, <1>2 DEF AllHeld, W

LEMMA PublicHeld ==
    ASSUME NEW d, IsDisk(d), NEW W, PublicList(W)
    PROVE  AllHeld(d, W) /\ SameSecrets(d, Play(d, W)) /\ IsDisk(Play(d, W))
<1>1. IsList(W) /\ Len(W) \in 0 .. Len(W) /\ Prefix(W, Len(W)) = W
    BY ListDomain, PrefixWhole DEF PublicList, Within
<1>2. ASSUME NEW n \in 0 .. Len(W)
      PROVE  SameSecrets(d, Play(d, Prefix(W, n)))
    <2> DEFINE V == Prefix(W, n)
    <2>1. IsList(V) /\ Len(V) = n /\ \A i \in 1 .. n : V[i] = W[i] /\ i \in 1 .. Len(W)
        BY <1>1, PrefixList
    <2> HIDE DEF V
    <2>2. /\ \A k \in SecretKeys : \A j \in 1 .. Len(V) : ~ Hits(V[j], "meta", k)
          /\ \A j \in 1 .. Len(V) : ~ Hits(V[j], "pubkeys", "old")
        BY <2>1 DEF PublicList, Within, Hits
    <2>3. /\ "meta" \in Trees7 /\ (\A k \in SecretKeys : k \in Keys7("meta"))
          /\ "pubkeys" \in Trees7 /\ "old" \in Keys7("pubkeys")
        BY TreesAre DEF SecretKeys, MetaKeys
    <2>4. \A k \in SecretKeys : Play(d, V)["meta"][k] = d["meta"][k]
        BY <2>1, <2>2, <2>3, PlayNone
    <2>5. Play(d, V)["pubkeys"]["old"] = d["pubkeys"]["old"]
        BY <2>1, <2>2, <2>3, PlayNone
    <2> QED BY <2>4, <2>5 DEF SameSecrets, V
<1>3. ASSUME NEW e, SameSecrets(d, e) PROVE SameHeld(d, e)
    BY <1>3 DEF SameSecrets, SameHeld, Held, SecretKeys
<1>4. AllHeld(d, W)
    BY <1>1, <1>2, <1>3 DEF AllHeld
<1>5. SameSecrets(d, Play(d, W))
    BY <1>1, <1>2
<1> QED
    BY <1>4, <1>5, PlayDisk

\* Copied forward, then removed.
LEMMA MoveHeld ==
    ASSUME NEW d, NEW e, IsDisk(e), NEW new, NEW old,
           (new = "attest" /\ old = "attest_v2") \/ (new = "pepper" /\ old = "pepper_v1"),
           e.meta[new] = d.meta[new], e.meta[old] = d.meta[old]
    PROVE  LET f == Play(e, MoveSecret(d, old, new))
           IN  /\ AllHeld(e, MoveSecret(d, old, new)) /\ IsDisk(f)
               /\ f.meta[old] = None
               /\ \A k \in SecretKeys \ {new, old} : f.meta[k] = e.meta[k]
               /\ f.pubkeys.old = e.pubkeys.old
<1> DEFINE copy  == d.meta[new] = None /\ d.meta[old] # None
           gone  == d.meta[old] # None
           A     == When(copy, Put("meta", new, d.meta[old]))
           B     == When(gone, Erase("meta", old))
           p     == Play(e, A)
           f     == Play(p, B)
<1>1. MoveSecret(d, old, new) = A \o B
    BY DEF MoveSecret
<1>t. /\ "meta" \in Trees7 /\ "pubkeys" \in Trees7 /\ "old" \in Keys7("pubkeys")
      /\ \A k \in SecretKeys : k \in Keys7("meta")
      /\ new \in SecretKeys /\ old \in SecretKeys /\ new # old
    BY TreesAre DEF SecretKeys, MetaKeys
<1>2. ASSUME NEW x, IsDisk(x), NEW k \in SecretKeys, NEW v
      PROVE  LET y == Wrote(x, "meta", k, v)
             IN  /\ IsDisk(y) /\ y.meta[k] = v
                 /\ \A l \in SecretKeys \ {k} : y.meta[l] = x.meta[l]
                 /\ y.pubkeys.old = x.pubkeys.old
    <2> DEFINE y == Wrote(x, "meta", k, v)
    <2>1. /\ IsDisk(y)
          /\ \A u \in Trees7 : \A l \in Keys7(u) : y[u][l] = IF u = "meta" /\ l = k THEN v ELSE x[u][l]
        BY <1>2, <1>t, WroteRow
    <2> HIDE DEF y
    <2>2. /\ y["meta"][k] = v /\ y["pubkeys"]["old"] = x["pubkeys"]["old"]
          /\ \A l \in SecretKeys \ {k} : y["meta"][l] = x["meta"][l]
        BY <2>1, <1>t
    <2> QED BY <2>1, <2>2 DEF y
<1>3. /\ AllHeld(e, A) /\ IsDisk(p) /\ p.meta[old] = d.meta[old]
      /\ (gone => p.meta[new] # None)
      /\ \A k \in SecretKeys \ {new, old} : p.meta[k] = e.meta[k]
      /\ p.pubkeys.old = e.pubkeys.old
    <2>1. CASE copy
        <3> DEFINE y == Wrote(e, "meta", new, d.meta[old])
        <3>1. /\ IsDisk(y) /\ y.meta[new] = d.meta[old]
              /\ \A l \in SecretKeys \ {new} : y.meta[l] = e.meta[l]
              /\ y.pubkeys.old = e.pubkeys.old
            BY <1>2, <1>t
        <3> HIDE DEF y
        <3>2. SameHeld(e, y)
            BY <3>1, <2>1, <1>t DEF SameHeld, Held, SecretKeys
        <3>3. AllHeld(e, Put("meta", new, d.meta[old])) /\ Play(e, Put("meta", new, d.meta[old])) = y
            BY <3>2, HeldPut DEF y
        <3>4. A = Put("meta", new, d.meta[old])
            BY <2>1 DEF When
        <3> HIDE DEF A
        <3> QED BY <3>1, <3>3, <3>4, <2>1, <1>t
    <2>2. CASE ~ copy
        <3>1. A = <<>>
            BY <2>2 DEF When
        <3>2. AllHeld(e, <<>>) /\ Play(e, <<>>) = e
            BY HeldNone
        <3> HIDE DEF A
        <3> QED BY <3>1, <3>2, <2>2
    <2> QED BY <2>1, <2>2
<1> HIDE DEF p, A
<1>4. /\ AllHeld(p, B) /\ IsDisk(f) /\ f.meta[old] = None
      /\ \A k \in SecretKeys \ {new, old} : f.meta[k] = p.meta[k]
      /\ f.pubkeys.old = p.pubkeys.old
    <2>1. CASE gone
        <3> DEFINE y == Wrote(p, "meta", old, None)
        <3>1. /\ IsDisk(y) /\ y.meta[old] = None
              /\ \A l \in SecretKeys \ {old} : y.meta[l] = p.meta[l]
              /\ y.pubkeys.old = p.pubkeys.old
            BY <1>2, <1>3, <1>t
        <3> HIDE DEF y
        <3>2. SameHeld(p, y)
            BY <3>1, <2>1, <1>3, <1>t DEF SameHeld, Held, SecretKeys
        <3>3. AllHeld(p, Put("meta", old, None)) /\ Play(p, Put("meta", old, None)) = y
            BY <3>2, <1>3, HeldPut DEF y
        <3>4. B = Put("meta", old, None)
            BY <2>1 DEF When, Erase
        <3> HIDE DEF B
        <3> QED BY <3>1, <3>3, <3>4, <1>t
    <2>2. CASE ~ gone
        <3>1. B = <<>>
            BY <2>2 DEF When
        <3>2. AllHeld(p, <<>>) /\ Play(p, <<>>) = p
            BY <1>3, HeldNone
        <3> HIDE DEF B
        <3> QED BY <3>1, <3>2, <2>2, <1>3
    <2> QED BY <2>1, <2>2
<1> HIDE DEF B, f
<1>5. AllHeld(e, A \o B) /\ Play(e, A \o B) = f
    BY <1>3, <1>4, HeldConcat DEF p, f
<1>6. \A k \in SecretKeys \ {new, old} : f.meta[k] = e.meta[k]
    BY <1>3, <1>4
<1> QED
    BY <1>1, <1>3, <1>4, <1>5, <1>6

LEMMA PublicConcat ==
    ASSUME NEW A, NEW B, PublicList(A), PublicList(B)
    PROVE  PublicList(A \o B)
BY WithinConcat DEF PublicList

LEMMA PublicPut ==
    ASSUME NEW t \in {"blocks", "hashes", "coins", "snaps", "live", "meta"}, NEW k, NEW v,
           t = "meta" => k \in MetaKeys \ SecretKeys
    PROVE  PublicList(Put(t, k, v)) /\ PublicList(Erase(t, k))
BY WithinPut DEF PublicList

LEMMA PublicWhen ==
    ASSUME NEW c, NEW W, c => PublicList(W)
    PROVE  PublicList(When(c, W)) /\ PublicList(<<>>)
BY WithinWhen DEF PublicList

LEMMA TreePublic == ASSUME NEW W, TreeList(W) PROVE PublicList(W)
<1>1. {"merkle_tree", "merkle_height"} \subseteq MetaKeys \ SecretKeys
    BY DEF MetaKeys, SecretKeys
<1> QED
    BY <1>1 DEF PublicList, TreeList, Within

LEMMA PublicTip ==
    ASSUME NEW h, NEW b
    PROVE  PublicList(Put("meta", "tip_height", h) \o Put("meta", "tip_hash", b))
<1>1. {"tip_height", "tip_hash"} \subseteq MetaKeys \ SecretKeys
    BY DEF MetaKeys, SecretKeys
<1>2. PublicList(Put("meta", "tip_height", h)) /\ PublicList(Put("meta", "tip_hash", b))
    BY <1>1, PublicPut
<1> QED
    BY <1>2, PublicConcat

LEMMA PublicRemove ==
    ASSUME NEW S, S \subseteq Heights
    PROVE  PublicList(RemoveBlocks(S))
<1> DEFINE W == RemoveBlocks(S)
<1>1. IsList(W) /\ \A i \in 1 .. Len(W) : W[i].tree \in BlockTrees
    BY EraseThreeTrees
<1> HIDE DEF W
<1>2. PublicList(W)
    BY <1>1 DEF PublicList, Within, BlockTrees
<1> QED
    BY <1>2 DEF W

LEMMA PublicClear ==
    ASSUME NEW d
    PROVE  PublicList(ClearWrites(d))
<1> DEFINE A == EraseRows(<<"blocks">>, RowsIn(d.blocks, Heights))
           B == EraseRows(<<"hashes">>, RowsIn(d.hashes, Heights))
           C == EraseRows(<<"coins">>, RowsIn(d.coins, Heights))
           D == RemoveSnapsFrom(d, 0)
           E == Erase("meta", "tip_height")
           F == Erase("meta", "tip_hash")
           G == Erase("meta", "merkle_tree")
           H == Erase("meta", "merkle_height")
<1>1. ClearWrites(d) = A \o B \o C \o D \o E \o F \o G \o H
    BY DEF ClearWrites
<1>2. ASSUME NEW t \in {"blocks", "hashes", "coins"}, NEW S, S \subseteq Heights
      PROVE  PublicList(EraseRows(<<t>>, S))
    <2> DEFINE W == EraseRows(<<t>>, S)
    <2>1. /\ IsList(W) /\ Len(W) = Cardinality(S)
          /\ \A i \in 1 .. Cardinality(S) : W[i] = [tree |-> t, key |-> Ascending(S)[i], val |-> None]
        BY <1>2, EraseOneTree
    <2> HIDE DEF W
    <2>2. PublicList(W)
        BY <2>1 DEF PublicList, Within
    <2> QED BY <2>2 DEF W
<1>3. PublicList(A) /\ PublicList(B) /\ PublicList(C)
    <2>1. /\ RowsIn(d.blocks, Heights) \subseteq Heights
          /\ RowsIn(d.hashes, Heights) \subseteq Heights
          /\ RowsIn(d.coins, Heights) \subseteq Heights
        BY DEF RowsIn
    <2> QED BY <2>1, <1>2
<1>4. PublicList(D)
    BY TreeSnaps, TreePublic
<1>5. PublicList(E) /\ PublicList(F) /\ PublicList(G) /\ PublicList(H)
    <2>1. {"tip_height", "tip_hash", "merkle_tree", "merkle_height"} \subseteq MetaKeys \ SecretKeys
        BY DEF MetaKeys, SecretKeys
    <2> QED BY <2>1, PublicPut
<1> HIDE DEF A, B, C, D, E, F, G, H
<1>6. PublicList(A \o B)
    BY <1>3, PublicConcat
<1>7. PublicList(A \o B \o C)
    BY <1>3, <1>6, PublicConcat
<1>8. PublicList(A \o B \o C \o D)
    BY <1>4, <1>7, PublicConcat
<1>9. PublicList(A \o B \o C \o D \o E)
    BY <1>5, <1>8, PublicConcat
<1>10. PublicList(A \o B \o C \o D \o E \o F)
    BY <1>5, <1>9, PublicConcat
<1>11. PublicList(A \o B \o C \o D \o E \o F \o G)
    BY <1>5, <1>10, PublicConcat
<1> QED
    BY <1>1, <1>5, <1>11, PublicConcat

LEMMA PublicFormat ==
    ASSUME NEW d
    PROVE  PublicList(FormatWrites(d))
<1>1. PublicList(Put("meta", "format", Format))
    <2>1. "format" \in MetaKeys \ SecretKeys
        BY DEF MetaKeys, SecretKeys
    <2> QED BY <2>1, PublicPut
<1>2. PublicList(ClearWrites(d) \o Put("meta", "format", Format))
    BY <1>1, PublicClear, PublicConcat
<1>3. PublicList(When(d.meta.format = None, Put("meta", "format", Format)))
    BY <1>1, PublicWhen
<1> QED
    BY <1>2, <1>3 DEF FormatWrites

\* No operation of the poller writes a secret.
LEMMA PublicOperations ==
    ASSUME NEW d, DiskOK(d)
    PROVE  /\ \A b \in Hash : PublicList(InsertWrites(d, b))
           /\ Tip(d) # NoTip => \A h \in 0 .. Tip(d).height : PublicList(RewindWrites(d, h))
           /\ PublicList(PruneWrites(d))
<1>0. Tip(d) # NoTip => Tip(d).height \in Heights
    BY DEF Tip, NoTip, DiskOK
<1>1. ASSUME NEW b \in Hash
      PROVE  PublicList(InsertWrites(d, b))
    <2> DEFINE h    == HeightOf[b]
               A    == Put("blocks", h, b)
               B    == Put("hashes", h, b)
               C    == When(b \in CoinBlocks, Put("coins", h, b))
               rows == A \o B \o C
               tip  == Put("meta", "tip_height", h) \o Put("meta", "tip_hash", b)
               cut  == RemoveSnapsFrom(d, h)
               tree == RebuildWrites(Play(d, rows \o cut), Tip(d).height)
               app  == AppendWrites(Play(d, rows \o tip), h, b)
               low  == Tip(d) # NoTip /\ h < Tip(d).height
    <2>1. InsertWrites(d, b) = rows \o (IF low THEN cut \o tree ELSE tip \o app)
        BY DEF InsertWrites
    <2>2. PublicList(A) /\ PublicList(B) /\ PublicList(C)
        <3>1. PublicList(A) /\ PublicList(B) /\ PublicList(Put("coins", h, b))
            BY PublicPut
        <3> QED BY <3>1, PublicWhen
    <2>3. PublicList(tip) /\ h \in Heights
        BY PublicTip, ForkTreeAssumption
    <2> HIDE DEF A, B, C, tip, h
    <2>4. PublicList(A \o B)
        BY <2>2, PublicConcat
    <2>5. PublicList(rows)
        BY <2>2, <2>4, PublicConcat
    <2> HIDE DEF rows
    <2>6. PublicList(app) /\ PublicList(cut)
        BY <2>3, TreeAppend, TreeSnaps, TreePublic
    <2>7. low => PublicList(tree)
        BY <1>0, TreeRebuild, TreePublic
    <2> HIDE DEF app, cut, tree
    <2>8. PublicList(tip \o app)
        BY <2>3, <2>6, PublicConcat
    <2>9. low => PublicList(cut \o tree)
        BY <2>6, <2>7, PublicConcat
    <2> HIDE DEF low
    <2>10. PublicList(rows \o (tip \o app))
        BY <2>5, <2>8, PublicConcat
    <2>11. low => PublicList(rows \o (cut \o tree))
        BY <2>5, <2>9, PublicConcat
    <2> QED BY <2>1, <2>10, <2>11
<1>2. ASSUME Tip(d) # NoTip, NEW h \in 0 .. Tip(d).height
      PROVE  PublicList(RewindWrites(d, h))
    <2> DEFINE S     == RowsIn(d.blocks, {k \in Heights : k > h})
               gone  == RemoveBlocks(S)
               reset == Erase("meta", "tip_height") \o Erase("meta", "tip_hash")
               set   == Put("meta", "tip_height", h) \o Put("meta", "tip_hash", d.blocks[h])
               tip   == IF d.blocks[h] # None THEN set ELSE When(h = 0, reset)
               rows  == gone \o tip
               cut   == RemoveSnapsFrom(d, h + 1)
               tree  == RebuildWrites(Play(d, rows \o cut), h)
    <2>1. RewindWrites(d, h) = rows \o cut \o tree
        BY DEF RewindWrites
    <2>2. h \in Heights
        BY <1>0, <1>2, ForkTreeAssumption DEF Heights
    <2>3. PublicList(gone)
        <3>1. S \subseteq Heights
            BY DEF RowsIn
        <3> HIDE DEF S
        <3> QED BY <3>1, PublicRemove
    <2>4. PublicList(tip)
        <3>1. PublicList(set) /\ PublicList(reset)
            BY PublicTip DEF Erase
        <3> HIDE DEF set, reset
        <3>2. PublicList(When(h = 0, reset))
            BY <3>1, PublicWhen
        <3> QED BY <3>1, <3>2
    <2> HIDE DEF gone, tip
    <2>5. PublicList(rows)
        BY <2>3, <2>4, PublicConcat
    <2> HIDE DEF rows
    <2>6. PublicList(cut) /\ PublicList(tree)
        BY <2>2, TreeSnaps, TreeRebuild, TreePublic
    <2> HIDE DEF cut, tree
    <2>7. PublicList(rows \o cut)
        BY <2>5, <2>6, PublicConcat
    <2> QED BY <2>1, <2>6, <2>7, PublicConcat
<1>3. PublicList(PruneWrites(d))
    <2> DEFINE S == RowsIn(d.blocks, {k \in Heights : k < Tip(d).height - Retention})
    <2>1. S \subseteq Heights
        BY DEF RowsIn
    <2>2. PruneWrites(d) = When(Tip(d) # NoTip /\ Tip(d).height > Retention, RemoveBlocks(S))
        BY DEF PruneWrites
    <2> HIDE DEF S
    <2>3. PublicList(RemoveBlocks(S))
        BY <2>1, PublicRemove
    <2> QED BY <2>2, <2>3, PublicWhen
<1> QED
    BY <1>1, <1>2, <1>3

\* The names of secrets are retired without a secret being lost on the way.
LEMMA StartHeld ==
    ASSUME NEW d, IsDisk(d)
    PROVE  LET e == Play(d, StartWrites(d))
           IN  AllHeld(d, StartWrites(d)) /\ e.meta.attest_v2 = None /\ e.pubkeys.old = None
<1> DEFINE A     == MoveSecret(d, "attest_v2", "attest")
           B     == MoveSecret(d, "pepper_v1", "pepper")
           C     == When(d.pubkeys.current = None /\ d.pubkeys.old # None,
                         Put("pubkeys", "current", d.pubkeys.old))
           D     == When(d.pubkeys.old # None, Erase("pubkeys", "old"))
           F     == FormatWrites(d)
           early == A \o B \o C \o D \o F
           tree  == TreeOnDisk(Play(d, early))
           I     == When(tree # NoTree /\ Play(d, early).snaps[tree.height] = None,
                         Put("snaps", tree.height, tree.leaves))
           L     == Put("live", "tree", tree)
           p     == Play(d, A)
           q     == Play(p, B)
           r     == Play(q, C)
           u     == Play(r, D)
<1>1. StartWrites(d) = early \o I \o L
    BY DEF StartWrites, RetireWrites
<1>2. /\ AllHeld(d, A) /\ IsDisk(p) /\ p.meta["attest_v2"] = None
      /\ \A k \in SecretKeys \ {"attest", "attest_v2"} : p.meta[k] = d.meta[k]
      /\ p.pubkeys.old = d.pubkeys.old
    BY MoveHeld
<1>3. /\ p.meta["pepper"] = d.meta["pepper"] /\ p.meta["pepper_v1"] = d.meta["pepper_v1"]
    BY <1>2 DEF SecretKeys
<1> HIDE DEF A, p
<1>4. /\ AllHeld(p, B) /\ IsDisk(q)
      /\ \A k \in SecretKeys \ {"pepper", "pepper_v1"} : q.meta[k] = p.meta[k]
      /\ q.pubkeys.old = p.pubkeys.old
    BY <1>2, <1>3, MoveHeld
<1>5. q.meta["attest_v2"] = None /\ q.pubkeys.old = d.pubkeys.old
    BY <1>2, <1>4 DEF SecretKeys
<1> HIDE DEF B, q
<1>6. ASSUME NEW x, IsDisk(x), NEW k \in {"current", "old"}, NEW v
      PROVE  LET y == Wrote(x, "pubkeys", k, v)
             IN  /\ IsDisk(y) /\ SameHeld(x, y) /\ y.meta.attest_v2 = x.meta.attest_v2
                 /\ y.pubkeys.old = IF k = "old" THEN v ELSE x.pubkeys.old
    <2> DEFINE y == Wrote(x, "pubkeys", k, v)
    <2>1. /\ "meta" \in Trees7 /\ "pubkeys" \in Trees7 /\ "old" \in Keys7("pubkeys")
          /\ k \in Keys7("pubkeys") /\ \A l \in SecretKeys : l \in Keys7("meta")
        BY TreesAre DEF SecretKeys, MetaKeys
    <2>2. /\ IsDisk(y)
          /\ \A t \in Trees7 : \A l \in Keys7(t) : y[t][l] = IF t = "pubkeys" /\ l = k THEN v ELSE x[t][l]
        BY <1>6, <2>1, WroteRow
    <2> HIDE DEF y
    <2>3. /\ y["pubkeys"]["old"] = IF k = "old" THEN v ELSE x["pubkeys"]["old"]
          /\ \A l \in SecretKeys : y["meta"][l] = x["meta"][l]
        BY <2>1, <2>2
    <2>4. y["meta"]["attest_v2"] = x["meta"]["attest_v2"] /\ SameHeld(x, y)
        BY <2>3 DEF SameHeld, Held, SecretKeys
    <2> QED BY <2>2, <2>3, <2>4 DEF y
<1>7. /\ AllHeld(q, C) /\ IsDisk(r) /\ r.meta["attest_v2"] = None /\ r.pubkeys.old = d.pubkeys.old
    <2>1. CASE d.pubkeys.current = None /\ d.pubkeys.old # None
        <3> DEFINE y == Wrote(q, "pubkeys", "current", d.pubkeys.old)
        <3>1. /\ IsDisk(y) /\ SameHeld(q, y) /\ y.meta.attest_v2 = q.meta.attest_v2
              /\ y.pubkeys.old = q.pubkeys.old
            BY <1>4, <1>6
        <3>2. AllHeld(q, Put("pubkeys", "current", d.pubkeys.old))
                  /\ Play(q, Put("pubkeys", "current", d.pubkeys.old)) = y
            BY <3>1, <1>4, HeldPut
        <3> HIDE DEF y
        <3>3. C = Put("pubkeys", "current", d.pubkeys.old)
            BY <2>1 DEF When
        <3> HIDE DEF C
        <3> QED BY <3>1, <3>2, <3>3, <1>5
    <2>2. CASE ~ (d.pubkeys.current = None /\ d.pubkeys.old # None)
        <3>1. C = <<>>
            BY <2>2 DEF When
        <3>2. AllHeld(q, <<>>) /\ Play(q, <<>>) = q
            BY <1>4, HeldNone
        <3> HIDE DEF C
        <3> QED BY <3>1, <3>2, <1>4, <1>5
    <2> QED BY <2>1, <2>2
<1> HIDE DEF C, r
<1>8. /\ AllHeld(r, D) /\ IsDisk(u) /\ u.meta["attest_v2"] = None /\ u.pubkeys.old = None
    <2>1. CASE d.pubkeys.old # None
        <3> DEFINE y == Wrote(r, "pubkeys", "old", None)
        <3>1. /\ IsDisk(y) /\ SameHeld(r, y) /\ y.meta.attest_v2 = r.meta.attest_v2
              /\ y.pubkeys.old = None
            BY <1>6, <1>7
        <3>2. AllHeld(r, Put("pubkeys", "old", None)) /\ Play(r, Put("pubkeys", "old", None)) = y
            BY <3>1, <1>7, HeldPut
        <3> HIDE DEF y
        <3>3. D = Put("pubkeys", "old", None)
            BY <2>1 DEF When, Erase
        <3> HIDE DEF D
        <3> QED BY <3>1, <3>2, <3>3, <1>7
    <2>2. CASE d.pubkeys.old = None
        <3>1. D = <<>>
            BY <2>2 DEF When
        <3>2. AllHeld(r, <<>>) /\ Play(r, <<>>) = r
            BY <1>7, HeldNone
        <3> HIDE DEF D
        <3> QED BY <3>1, <3>2, <2>2, <1>7
    <2> QED BY <2>1, <2>2
<1> HIDE DEF D, u
<1>9. AllHeld(d, A \o B) /\ Play(d, A \o B) = q
    BY <1>2, <1>4, HeldConcat DEF p, q
<1>10. AllHeld(d, A \o B \o C) /\ Play(d, A \o B \o C) = r
    BY <1>7, <1>9, HeldConcat DEF r
<1>11. AllHeld(d, A \o B \o C \o D) /\ Play(d, A \o B \o C \o D) = u
    BY <1>8, <1>10, HeldConcat DEF u
<1> DEFINE R == A \o B \o C \o D
<1>12. /\ AllHeld(u, F) /\ SameSecrets(u, Play(u, F)) /\ IsDisk(Play(u, F))
    BY <1>8, PublicFormat, PublicHeld
<1>13. AllHeld(d, R) /\ Play(d, R) = u /\ early = R \o F
    BY <1>11
<1> HIDE DEF R, F, early
<1>14. AllHeld(d, early) /\ Play(d, early) = Play(u, F)
    BY <1>12, <1>13, HeldConcat
<1> DEFINE v == Play(d, early)
           w == Play(v, I)
<1>15. PublicList(I) /\ PublicList(L)
    <2>1. PublicList(Put("snaps", tree.height, tree.leaves)) /\ PublicList(L)
        BY PublicPut
    <2> QED BY <2>1, PublicWhen
<1> HIDE DEF I, L
<1>16. AllHeld(v, I) /\ SameSecrets(v, w) /\ IsDisk(w)
    BY <1>12, <1>14, <1>15, PublicHeld
<1>17. AllHeld(w, L) /\ SameSecrets(w, Play(w, L))
    BY <1>15, <1>16, PublicHeld
<1>18. AllHeld(d, early \o I) /\ Play(d, early \o I) = w
    BY <1>14, <1>16, HeldConcat
<1> HIDE DEF v, w
<1>19. AllHeld(d, early \o I \o L) /\ Play(d, early \o I \o L) = Play(w, L)
    BY <1>17, <1>18, HeldConcat
<1>20. SameSecrets(u, v)
    BY <1>12, <1>14 DEF v
<1>21. LET e == Play(w, L) IN e.meta.attest_v2 = None /\ e.pubkeys.old = None
    BY <1>8, <1>16, <1>17, <1>20 DEF SameSecrets, SecretKeys
<1> QED
    BY <1>1, <1>19, <1>21

\* Where the running operation may leave the secrets: none is lost on the way, the
\* old names are gone at its end, and only the start of the server moves them.
SecretsInv ==
    /\ IsDisk(db)
    /\ AllHeld(db, todo)
    /\ Play(db, todo).meta.attest_v2 = None /\ Play(db, todo).pubkeys.old = None
    /\ mode = "serving" => PublicList(todo)

LEMMA SecretsStart ==
    ASSUME CacheInit
    PROVE  SecretsInv
<1>1. IsDisk(db)
    BY FirstDisks DEF CacheInit, DiskOK
<1>2. todo = StartWrites(db) /\ mode = "starting"
    BY DEF CacheInit
<1>3. LET e == Play(db, StartWrites(db))
      IN  AllHeld(db, StartWrites(db)) /\ e.meta.attest_v2 = None /\ e.pubkeys.old = None
    BY <1>1, StartHeld
<1> QED
    BY <1>1, <1>2, <1>3 DEF SecretsInv

\* A serving cache has no old names left.
LEMMA ServedSecrets ==
    ASSUME SecretsInv, mode = "serving"
    PROVE  db.meta.attest_v2 = None /\ db.pubkeys.old = None
<1>1. SameSecrets(db, Play(db, todo))
    BY PublicHeld DEF SecretsInv
<1> QED
    BY <1>1 DEF SecretsInv, SameSecrets, SecretKeys

LEMMA SecretsStep ==
    ASSUME SecretsInv, CacheInv, [CacheNext]_cacheVars
    PROVE  SecretsInv' /\ SameHeld(db, db')
<1>0. IsDisk(db) /\ IsList(todo) /\ SameHeld(db, db)
    BY DEF SecretsInv, AllHeld, SameHeld
<1>1. ASSUME mode = "serving", mode' = "serving", db' = db, PublicList(todo'), todo = <<>>
      PROVE  SecretsInv' /\ SameHeld(db, db')
    <2>1. AllHeld(db, todo') /\ SameSecrets(db, Play(db, todo'))
        BY <1>0, <1>1, PublicHeld
    <2>2. db.meta.attest_v2 = None /\ db.pubkeys.old = None
        BY <1>1, ServedSecrets
    <2>3. Play(db, todo').meta.attest_v2 = None /\ Play(db, todo').pubkeys.old = None
        BY <2>1, <2>2 DEF SameSecrets, SecretKeys
    <2> QED BY <1>0, <1>1, <2>1, <2>3 DEF SecretsInv
<1>2. CASE StartInsert
    <2>1. PICK b \in NextBlocks(db) : todo' = InsertWrites(db, b)
        BY <1>2 DEF StartInsert
    <2>2. PublicList(InsertWrites(db, b))
        BY <2>1, PublicOperations DEF CacheInv, NextBlocks
    <2> QED BY <2>1, <2>2, <1>1, <1>2 DEF StartInsert, Idle
<1>3. CASE StartRewind
    <2>1. PICK h \in 0 .. Tip(db).height : todo' = RewindWrites(db, h)
        BY <1>3 DEF StartRewind
    <2>2. PublicList(RewindWrites(db, h))
        BY <2>1, <1>3, PublicOperations DEF CacheInv, StartRewind
    <2> QED BY <2>1, <2>2, <1>1, <1>3 DEF StartRewind, Idle
<1>4. CASE StartPrune
    <2>1. todo' = PruneWrites(db) /\ PublicList(PruneWrites(db))
        BY <1>4, PublicOperations DEF CacheInv, StartPrune
    <2> QED BY <2>1, <1>1, <1>4 DEF StartPrune, Idle
<1>5. CASE Write
    <2>1. todo # <<>> /\ db' = Apply(db, Head(todo)) /\ todo' = Tail(todo) /\ mode' = mode
        BY <1>5 DEF Write
    <2>2. /\ IsList(Tail(todo)) /\ Len(Tail(todo)) = Len(todo) - 1 /\ Len(todo) \in Nat \ {0}
          /\ \A i \in 1 .. Len(Tail(todo)) : Tail(todo)[i] = todo[i + 1]
        BY <2>1, <1>0, SplitHead
    <2>3. IsDisk(db')
        BY <2>1, <1>0, ApplyDisk
    <2>4. \A n \in 0 .. Len(Tail(todo)) :
              /\ n + 1 \in 0 .. Len(todo)
              /\ Play(db', Prefix(todo', n)) = Play(db, Prefix(todo, n + 1))
        BY <2>1, <1>0, PlayStep
    <2>5. \A n \in 0 .. Len(Tail(todo)) : SameHeld(db, Play(db', Prefix(todo', n)))
        BY <2>4 DEF SecretsInv, AllHeld
    <2>6. SameHeld(db, db')
        <3>1. 0 \in 0 .. Len(Tail(todo)) /\ Prefix(Tail(todo), 0) = <<>>
            BY <2>2, PrefixNone
        <3>2. Play(db', Prefix(todo', 0)) = db'
            BY <3>1, <2>1, <2>3, PlayEmpty
        <3> QED BY <3>1, <3>2, <2>5
    <2>7. AllHeld(db', todo')
        <3>1. \A n \in 0 .. Len(Tail(todo)) : SameHeld(db', Play(db', Prefix(todo', n)))
            BY <2>5, <2>6 DEF SameHeld
        <3> QED BY <3>1, <2>1, <2>2 DEF AllHeld
    <2>8. Play(db', todo') = Play(db, todo)
        <3> DEFINE n == Len(Tail(todo))
        <3>1. n \in 0 .. n /\ n + 1 = Len(todo)
            BY <2>2
        <3>2. Play(db', Prefix(todo', n)) = Play(db, Prefix(todo, n + 1))
            BY <3>1, <2>4
        <3> HIDE DEF n
        <3>3. Prefix(todo', n) = todo' /\ Prefix(todo, n + 1) = todo
            BY <3>1, <2>1, <2>2, <1>0, PrefixWhole DEF n
        <3> QED BY <3>2, <3>3
    <2>9. mode' = "serving" => PublicList(todo')
        <3>1. SUFFICES ASSUME PublicList(todo) PROVE PublicList(Tail(todo))
            BY <2>1 DEF SecretsInv
        <3>2. \A i \in 1 .. Len(Tail(todo)) : i + 1 \in 1 .. Len(todo)
            BY <2>2
        <3> QED BY <3>1, <3>2, <2>2 DEF PublicList, Within
    <2> QED BY <2>3, <2>6, <2>7, <2>8, <2>9 DEF SecretsInv
<1>6. CASE Serve
    <2>1. todo = <<>> /\ mode' = "serving" /\ db' = db /\ todo' = todo
        BY <1>6 DEF Serve
    <2>2. PublicList(<<>>)
        BY PublicWhen
    <2> QED BY <2>1, <2>2, <1>0 DEF SecretsInv
<1>7. CASE Crash
    <2> DEFINE d == [db EXCEPT !.live.tree = NoTree]
    <2>1. db' = d /\ todo' = StartWrites(db') /\ mode' = "starting"
        BY <1>7 DEF Crash
    <2>2. IsDisk(d)
        BY CrashFine DEF CacheInv, DiskOK
    <2>3. SameHeld(db, d)
        <3>1. db = [t \in Trees7 |-> db[t]] /\ "live" \in Trees7 /\ "meta" \in Trees7
            BY <1>0, TreesAre DEF IsDisk, Trees7
        <3>2. d = [db EXCEPT !["live"] = [db["live"] EXCEPT !["tree"] = NoTree]]
            OBVIOUS
        <3> DEFINE live == [db["live"] EXCEPT !["tree"] = NoTree]
        <3> HIDE DEF live, d
        <3>3. d = [db EXCEPT !["live"] = live]
            BY <3>2 DEF live
        <3>4. d["meta"] = db["meta"]
            BY <3>1, <3>3
        <3> QED BY <3>4 DEF SameHeld, Held
    <2> HIDE DEF d
    <2>4. LET e == Play(d, StartWrites(d))
          IN  AllHeld(d, StartWrites(d)) /\ e.meta.attest_v2 = None /\ e.pubkeys.old = None
        BY <2>2, StartHeld
    <2> QED BY <2>1, <2>2, <2>3, <2>4 DEF SecretsInv
<1>8. CASE UNCHANGED cacheVars
    BY <1>8, <1>0 DEF cacheVars, SecretsInv
<1> QED
    BY <1>2, <1>3, <1>4, <1>5, <1>6, <1>7, <1>8 DEF CacheNext

\* retire_obsolete_names: no step, and no crash between two steps, loses the
\* signing key or the pepper, and a server that serves has no old names left.
THEOREM SecretsKept == CacheSpec => SecretsSurvive
<1> DEFINE Step == /\ Kept("attest", "attest_v2") => Kept("attest", "attest_v2")'
                   /\ Kept("pepper", "pepper_v1") => Kept("pepper", "pepper_v1")'
                   /\ mode' = "serving" => db'.meta.attest_v2 = None /\ db'.pubkeys.old = None
<1>1. CacheInit => SecretsInv /\ CacheInv
    BY SecretsStart, CacheStarts
<1>2. SecretsInv /\ CacheInv /\ [CacheNext]_cacheVars => SecretsInv' /\ CacheInv'
    BY SecretsStep, CacheStep
<1>3. SecretsInv /\ CacheInv /\ [CacheNext]_cacheVars => [Step]_cacheVars
    <2> SUFFICES ASSUME SecretsInv, CacheInv, [CacheNext]_cacheVars PROVE Step
        OBVIOUS
    <2>1. SameHeld(db, db') /\ SecretsInv'
        BY SecretsStep
    <2>2. mode' = "serving" => db'.meta.attest_v2 = None /\ db'.pubkeys.old = None
        <3>1. SUFFICES ASSUME mode' = "serving"
                       PROVE  db'.meta.attest_v2 = None /\ db'.pubkeys.old = None
            OBVIOUS
        <3>2. IsDisk(db') /\ PublicList(todo')
            BY <3>1, <2>1 DEF SecretsInv
        <3>3. SameSecrets(db', Play(db', todo'))
            BY <3>2, PublicHeld
        <3> QED BY <3>3, <2>1 DEF SecretsInv, SameSecrets, SecretKeys
    <2> QED BY <2>1, <2>2 DEF SameHeld, Held, Kept
<1> QED
    BY <1>1, <1>2, <1>3, PTL DEF CacheSpec, SecretsSurvive

-----------------------------------------------------------------------------
(* The tip subscription beside it.                                          *)

tipVars == <<cacheVars, subVars>>

TipNext ==
    \/ (StartInsert \/ StartRewind \/ StartPrune \/ Write \/ Serve) /\ UNCHANGED subVars
    \/ Crash /\ SubReset
    \/ SubNext

TipSpec == CacheInit /\ SubInit /\ [][TipNext]_tipVars

\* The last tip on its way to the client, or with it.
Latest == IF buffer # None THEN buffer ELSE known

\* While no change waits to be announced, nothing is left to write but rows that
\* are pruned: the tip stands still.
OnlyPrunes == \A i \in 1 .. Len(todo) : todo[i].tree \in BlockTrees /\ todo[i].val = None

\* What the task has read is the tip, or what was sent last is, but for the two
\* exceptions the code makes.
TaskAgrees ==
    /\ task.step \in {"hash", "block", "send"} =>
          task.height = db.meta.tip_height /\ task.height # None
    /\ task.step \in {"block", "send"} => task.hash = db.meta.tip_hash /\ task.hash # None
    /\ task.step = "wait" =>
          \/ skipped \/ Latest = None \/ Tip(db) = NoTip
          \/ db.blocks[db.meta.tip_height] = None
          \/ Latest = Tip(db)

TipInv ==
    /\ task = [step |-> task.step, height |-> task.height, hash |-> task.hash]
    /\ mode = "starting" => /\ ~ owed /\ ~ changed /\ task = Waiting
                            /\ buffer = None /\ known = None
    /\ (mode = "serving" /\ ~ owed) => OnlyPrunes
    /\ (mode = "serving" /\ ~ owed /\ ~ changed) => TaskAgrees

LEMMA TipStarts ==
    ASSUME CacheInit, SubInit
    PROVE  CacheInv /\ TipInv
<1>1. CacheInv
    BY CacheStarts
<1>2. TipInv
    BY DEF TipInv, CacheInit, SubInit, Waiting
<1> QED
    BY <1>1, <1>2

\* A pruned row leaves the tip alone.
LEMMA PrunesKeepTip ==
    ASSUME CacheInv, OnlyPrunes, Write
    PROVE  /\ OnlyPrunes'
           /\ db'.meta.tip_height = db.meta.tip_height /\ db'.meta.tip_hash = db.meta.tip_hash
           /\ \A k \in Heights : db'.blocks[k] \in {None, db.blocks[k]}
<1>1. /\ todo # <<>> /\ db' = Apply(db, Head(todo)) /\ todo' = Tail(todo)
      /\ IsList(todo) /\ IsDisk(db)
    BY DEF Write, CacheInv, AllFine, DiskOK
<1>2. /\ Len(Tail(todo)) = Len(todo) - 1 /\ Len(todo) \in Nat \ {0} /\ Head(todo) = todo[1]
      /\ \A i \in 1 .. Len(Tail(todo)) : Tail(todo)[i] = todo[i + 1]
    BY <1>1, SplitHead
<1>3. OnlyPrunes'
    <2>1. \A i \in 1 .. Len(Tail(todo)) : i + 1 \in 1 .. Len(todo)
        BY <1>2
    <2>2. \A i \in 1 .. Len(Tail(todo)) : Tail(todo)[i].tree \in BlockTrees /\ Tail(todo)[i].val = None
        BY <2>1, <1>2 DEF OnlyPrunes
    <2> QED BY <2>2, <1>1 DEF OnlyPrunes
<1> DEFINE w == Head(todo)
<1>4. w.tree \in BlockTrees /\ w.val = None
    BY <1>2 DEF OnlyPrunes
<1> HIDE DEF w
<1>5. \A t \in Trees7 : \A k \in Keys7(t) :
          db'[t][k] = IF Hits(w, t, k) THEN w.val ELSE db[t][k]
    <2>1. db' = Apply(db, w)
        BY <1>1 DEF w
    <2>2. \A t \in Trees7 : \A k \in Keys7(t) :
              Apply(db, w)[t][k] = IF Hits(w, t, k) THEN w.val ELSE db[t][k]
        BY <1>1, ApplyDisk
    <2> QED BY <2>1, <2>2
<1>6. /\ "meta" \in Trees7 /\ "tip_height" \in Keys7("meta") /\ "tip_hash" \in Keys7("meta")
      /\ "blocks" \in Trees7 /\ Keys7("blocks") = Heights
    BY TreesAre DEF CoreKeys
<1>7. /\ db'["meta"]["tip_height"] = db["meta"]["tip_height"]
      /\ db'["meta"]["tip_hash"] = db["meta"]["tip_hash"]
    BY <1>4, <1>5, <1>6 DEF Hits, BlockTrees
<1>8. \A k \in Heights : db'["blocks"][k] \in {None, db["blocks"][k]}
    BY <1>4, <1>5, <1>6
<1> QED
    BY <1>3, <1>7, <1>8

LEMMA TipStep ==
    ASSUME CacheInv, TipInv, [TipNext]_tipVars
    PROVE  CacheInv' /\ TipInv'
<1> USE DEF TipInv
<1>0. /\ mode \in {"starting", "serving"} /\ IsList(todo)
      /\ db.meta.tip_height \in Heights \cup {None} /\ db.meta.tip_hash \in Hash \cup {None}
      /\ None \notin Heights /\ None \notin Hash
    BY ForkTreeAssumption DEF CacheInv, AllFine, DiskOK, Heights
<1>1. CASE (StartInsert \/ StartRewind) /\ UNCHANGED subVars
    <2>1. CacheInv'
        BY <1>1, CacheStep DEF CacheNext
    <2>2. owed' /\ mode' = "serving" /\ task' = task
        BY <1>1 DEF StartInsert, StartRewind, Idle, subVars
    <2> QED BY <2>1, <2>2
<1>2. CASE StartPrune /\ UNCHANGED subVars
    <2>1. CacheInv'
        BY <1>2, CacheStep DEF CacheNext
    <2>2. /\ mode = "serving" /\ mode' = "serving" /\ owed' = owed /\ db' = db
          /\ todo' = PruneWrites(db) /\ UNCHANGED <<changed, task, buffer, known, skipped>>
        BY <1>2 DEF StartPrune, Idle, subVars
    <2>3. OnlyPrunes'
        <3> DEFINE S == RowsIn(db.blocks, {k \in Heights : k < Tip(db).height - Retention})
                   W == RemoveBlocks(S)
        <3>1. S \subseteq Heights
            BY DEF RowsIn
        <3> HIDE DEF S
        <3>2. \A i \in 1 .. Len(W) : W[i].tree \in BlockTrees /\ W[i].val = None
            BY <3>1, EraseThreeTrees
        <3>3. PruneWrites(db) = W
            BY <1>2 DEF PruneWrites, StartPrune, When, S
        <3> HIDE DEF W
        <3> QED BY <3>2, <3>3, <2>2 DEF OnlyPrunes
    <2>4. TaskAgrees => TaskAgrees'
        BY <2>2 DEF TaskAgrees, Latest
    <2> QED BY <2>1, <2>2, <2>3, <2>4
<1>3. CASE Write /\ UNCHANGED subVars
    <2>1. CacheInv'
        BY <1>3, CacheStep DEF CacheNext
    <2>2. mode' = mode /\ owed' = owed /\ UNCHANGED <<changed, task, buffer, known, skipped>>
        BY <1>3 DEF Write, subVars
    <2>3. CASE mode = "starting"
        BY <2>1, <2>2, <2>3
    <2>4. CASE owed
        BY <2>1, <2>2, <2>4
    <2>5. CASE mode = "serving" /\ ~ owed
        <3>1. /\ OnlyPrunes'
              /\ db'.meta.tip_height = db.meta.tip_height /\ db'.meta.tip_hash = db.meta.tip_hash
              /\ \A k \in Heights : db'.blocks[k] \in {None, db.blocks[k]}
            BY <2>5, <1>3, PrunesKeepTip
        <3>2. Tip(db') = Tip(db) /\ Latest' = Latest
            BY <3>1, <2>2 DEF Tip, Latest
        <3>3. Tip(db) # NoTip => db.meta.tip_height \in Heights
            BY <1>0 DEF Tip, NoTip
        <3>4. TaskAgrees => TaskAgrees'
            BY <3>1, <3>2, <3>3, <2>2 DEF TaskAgrees
        <3> QED BY <3>1, <3>4, <2>1, <2>2, <2>5
    <2> QED BY <2>3, <2>4, <2>5, <1>0
<1>4. CASE Serve /\ UNCHANGED subVars
    <2>1. CacheInv'
        BY <1>4, CacheStep DEF CacheNext
    <2>2. /\ mode = "starting" /\ mode' = "serving" /\ todo' = <<>> /\ owed' = owed
          /\ UNCHANGED <<changed, task, buffer, known, skipped>>
        BY <1>4 DEF Serve, subVars
    <2>3. OnlyPrunes'
        BY <2>2, NoWrite DEF OnlyPrunes
    <2>4. TaskAgrees'
        BY <2>2 DEF TaskAgrees, Latest, Waiting
    <2> QED BY <2>1, <2>2, <2>3, <2>4
<1>5. CASE Crash /\ SubReset
    <2>1. CacheInv'
        BY <1>5, CacheStep DEF CacheNext
    <2>2. /\ mode' = "starting" /\ ~ owed' /\ ~ changed' /\ task' = Waiting
          /\ buffer' = None /\ known' = None
        BY <1>5 DEF Crash, SubReset
    <2> QED BY <2>1, <2>2 DEF Waiting
<1>6. ASSUME db' = db, todo' = todo, mode' = mode
      PROVE  CacheInv'
    BY <1>6 DEF CacheInv
<1>7. CASE Announce
    <2>1. /\ db' = db /\ todo' = todo /\ mode' = mode /\ mode = "serving" /\ todo = <<>>
          /\ changed' /\ task' = task
        BY <1>7 DEF Announce, Idle
    <2>2. OnlyPrunes'
        BY <2>1, NoWrite DEF OnlyPrunes
    <2> QED BY <2>1, <2>2, <1>6
<1>8. ASSUME UNCHANGED cacheVars
      PROVE  /\ CacheInv' /\ db' = db /\ todo' = todo /\ mode' = mode /\ owed' = owed
             /\ OnlyPrunes => OnlyPrunes'
    <2>1. db' = db /\ todo' = todo /\ mode' = mode /\ owed' = owed
        BY <1>8 DEF cacheVars
    <2>2. OnlyPrunes => OnlyPrunes'
        BY <2>1 DEF OnlyPrunes
    <2> QED BY <2>1, <2>2, <1>6
<1>9. CASE Wake
    <2>1. /\ UNCHANGED cacheVars /\ mode = "serving" /\ task.step = "wait"
          /\ task' = [task EXCEPT !.step = "height"]
        BY <1>9 DEF Wake
    <2>2. task' = [step |-> "height", height |-> task.height, hash |-> task.hash]
        BY <2>1
    <2>3. task' = [step |-> task'.step, height |-> task'.height, hash |-> task'.hash]
              /\ task'.step = "height"
        BY <2>2
    <2>4. TaskAgrees'
        BY <2>3 DEF TaskAgrees
    <2> QED BY <2>1, <2>3, <2>4, <1>8
<1>10. CASE ReadTipHeight
    <2>1. /\ UNCHANGED cacheVars /\ task.step = "height" /\ changed' = changed
          /\ task' = IF db.meta.tip_height = None THEN Waiting
                     ELSE [task EXCEPT !.step = "hash", !.height = db.meta.tip_height]
        BY <1>10 DEF ReadTipHeight
    <2>2. db' = db
        BY <2>1 DEF cacheVars
    <2>3. mode # "starting"
        BY <2>1 DEF Waiting
    <2>4. CASE db.meta.tip_height = None
        <3>1. task' = Waiting /\ Tip(db') = NoTip
            BY <2>1, <2>2, <2>4 DEF Tip
        <3>2. TaskAgrees'
            BY <3>1 DEF TaskAgrees, Waiting
        <3> QED BY <3>1, <3>2, <2>1, <2>3, <1>8 DEF Waiting
    <2>5. CASE db.meta.tip_height # None
        <3>1. task' = [step |-> "hash", height |-> db.meta.tip_height, hash |-> task.hash]
            BY <2>1, <2>5
        <3>2. /\ task' = [step |-> task'.step, height |-> task'.height, hash |-> task'.hash]
              /\ task'.step = "hash" /\ task'.height = db.meta.tip_height
            BY <3>1
        <3>3. TaskAgrees'
            BY <3>2, <2>2, <2>5 DEF TaskAgrees
        <3> QED BY <3>2, <3>3, <2>1, <2>3, <1>8
    <2> QED BY <2>4, <2>5
<1>11. CASE ReadTipHash
    <2>1. /\ UNCHANGED cacheVars /\ task.step = "hash" /\ changed' = changed
          /\ task' = IF db.meta.tip_hash = None THEN Waiting
                     ELSE [task EXCEPT !.step = "block", !.hash = db.meta.tip_hash]
        BY <1>11 DEF ReadTipHash
    <2>2. db' = db
        BY <2>1 DEF cacheVars
    <2>3. mode # "starting"
        BY <2>1 DEF Waiting
    <2>4. CASE db.meta.tip_hash = None
        <3>1. task' = Waiting /\ Tip(db') = NoTip
            BY <2>1, <2>2, <2>4 DEF Tip
        <3>2. TaskAgrees'
            BY <3>1 DEF TaskAgrees, Waiting
        <3> QED BY <3>1, <3>2, <2>1, <2>3, <1>8 DEF Waiting
    <2>5. CASE db.meta.tip_hash # None
        <3>1. task' = [step |-> "block", height |-> task.height, hash |-> db.meta.tip_hash]
            BY <2>1, <2>5
        <3>2. /\ task' = [step |-> task'.step, height |-> task'.height, hash |-> task'.hash]
              /\ task'.step = "block" /\ task'.height = task.height /\ task'.hash = db.meta.tip_hash
            BY <3>1
        <3>3. TaskAgrees => TaskAgrees'
            BY <3>2, <2>1, <2>2, <2>5 DEF TaskAgrees
        <3> QED BY <3>2, <3>3, <2>1, <2>3, <1>8
    <2> QED BY <2>4, <2>5
<1>12. CASE ReadTipBlock
    <2>1. /\ UNCHANGED cacheVars /\ task.step = "block" /\ changed' = changed
          /\ task' = IF db.blocks[task.height] = None THEN Waiting
                     ELSE [task EXCEPT !.step = "send"]
        BY <1>12 DEF ReadTipBlock
    <2>2. db' = db
        BY <2>1 DEF cacheVars
    <2>3. mode # "starting"
        BY <2>1 DEF Waiting
    <2>4. CASE db.blocks[task.height] = None
        <3>1. task' = Waiting
            BY <2>1, <2>4
        <3>2. TaskAgrees => TaskAgrees'
            BY <3>1, <2>1, <2>2, <2>4 DEF TaskAgrees, Waiting
        <3> QED BY <3>1, <3>2, <2>1, <2>3, <1>8 DEF Waiting
    <2>5. CASE db.blocks[task.height] # None
        <3>1. task' = [step |-> "send", height |-> task.height, hash |-> task.hash]
            BY <2>1, <2>5
        <3>2. /\ task' = [step |-> task'.step, height |-> task'.height, hash |-> task'.hash]
              /\ task'.step = "send" /\ task'.height = task.height /\ task'.hash = task.hash
            BY <3>1
        <3>3. TaskAgrees => TaskAgrees'
            BY <3>2, <2>1, <2>2 DEF TaskAgrees
        <3> QED BY <3>2, <3>3, <2>1, <2>3, <1>8
    <2> QED BY <2>4, <2>5
<1>13. CASE SendTip
    <2>1. /\ UNCHANGED cacheVars /\ task.step = "send" /\ changed' = changed
          /\ task' = Waiting /\ known' = known
          /\ \/ buffer = None /\ buffer' = [height |-> task.height, hash |-> task.hash]
             \/ skipped'
        BY <1>13 DEF SendTip
    <2>2. db' = db
        BY <2>1 DEF cacheVars
    <2>3. mode # "starting"
        BY <2>1 DEF Waiting
    <2>4. TaskAgrees => TaskAgrees'
        <3>1. CASE skipped'
            BY <3>1, <2>1 DEF TaskAgrees, Waiting
        <3>2. ASSUME TaskAgrees, buffer' = [height |-> task.height, hash |-> task.hash]
              PROVE  TaskAgrees'
            <4>1. /\ task.height = db.meta.tip_height /\ task.hash = db.meta.tip_hash
                  /\ db.meta.tip_height # None /\ db.meta.tip_hash # None
                BY <3>2, <2>1 DEF TaskAgrees
            <4>2. buffer' = Tip(db)
                BY <3>2, <4>1 DEF Tip
            <4>3. buffer' \in Tips
                BY <3>2, <4>1, <1>0 DEF Tips
            <4>4. Latest' = Tip(db')
                BY <4>2, <4>3, <2>2, TipAssumption DEF Latest
            <4> QED BY <4>4, <2>1 DEF TaskAgrees, Waiting
        <3> QED BY <3>1, <3>2, <2>1
    <2> QED BY <2>1, <2>3, <2>4, <1>8 DEF Waiting
<1>14. CASE ClientReads
    <2>1. /\ UNCHANGED cacheVars /\ buffer # None /\ known' = buffer /\ buffer' = None
          /\ UNCHANGED <<changed, task, skipped>>
        BY <1>14 DEF ClientReads
    <2>2. db' = db
        BY <2>1 DEF cacheVars
    <2>3. Latest' = Latest
        BY <2>1 DEF Latest
    <2>4. TaskAgrees => TaskAgrees'
        BY <2>1, <2>2, <2>3 DEF TaskAgrees
    <2> QED BY <2>1, <2>4, <1>8
<1>15. CASE UNCHANGED tipVars
    <2>1. UNCHANGED cacheVars /\ UNCHANGED <<changed, task, buffer, known, skipped>>
        BY <1>15 DEF tipVars, subVars
    <2>2. TaskAgrees => TaskAgrees'
        BY <2>1 DEF TaskAgrees, Latest, cacheVars
    <2> QED BY <2>1, <2>2, <1>8
<1> QED
    BY <1>1, <1>2, <1>3, <1>4, <1>5, <1>7, <1>9, <1>10, <1>11, <1>12, <1>13, <1>14, <1>15
    DEF TipNext, SubNext

\* SubscribeBlocks: no change of the tip falls between a notice and the reads it
\* causes, whatever is inserted, rewound or pruned between those reads.
THEOREM SubscriberKnowsTip == TipSpec => []SubscriberCaughtUp
<1>1. CacheInit /\ SubInit => CacheInv /\ TipInv
    BY TipStarts
<1>2. CacheInv /\ TipInv /\ [TipNext]_tipVars => CacheInv' /\ TipInv'
    BY TipStep
<1>3. TipInv => SubscriberCaughtUp
    <2> SUFFICES ASSUME TipInv, Quiet, known # None, ~ skipped, Tip(db) # NoTip,
                        db.blocks[Tip(db).height] # None
                 PROVE  known = Tip(db)
        BY DEF SubscriberCaughtUp
    <2>1. TaskAgrees /\ task.step = "wait" /\ buffer = None
        BY DEF TipInv, Quiet, Idle, Waiting
    <2>2. Tip(db).height = db.meta.tip_height
        BY DEF Tip
    <2> QED BY <2>1, <2>2 DEF TaskAgrees, Latest
<1> QED
    BY <1>1, <1>2, <1>3, PTL DEF TipSpec

-----------------------------------------------------------------------------
(* The writes of an operation make the whole operation of module Cache.     *)

StoreOf(blocks, coins, tip, tree, snaps) ==
    [blocks |-> blocks, coins |-> coins, tip |-> tip, tree |-> tree, snaps |-> snaps]

\* The rows of blocks and coins and the tip are as they were.
RowsKept(d, e) ==
    IsDisk(e) /\ e.blocks = d.blocks /\ e.coins = d.coins /\ Tip(e) = Tip(d)

\* The rows of a disk are functions on heights.
LEMMA RowFunctions ==
    ASSUME NEW d, IsDisk(d)
    PROVE  /\ d.blocks = [k \in Heights |-> d.blocks[k]]
           /\ d.coins = [k \in Heights |-> d.coins[k]]
           /\ d.snaps = [k \in Heights |-> d.snaps[k]]
<1>1. \A t \in Trees7 : d[t] = [k \in Keys7(t) |-> d[t][k]]
    BY DEF IsDisk, Trees7, Keys7
<1>2. /\ d["blocks"] = [k \in Heights |-> d["blocks"][k]]
      /\ d["coins"] = [k \in Heights |-> d["coins"][k]]
      /\ d["snaps"] = [k \in Heights |-> d["snaps"][k]]
    BY <1>1, TreesAre
<1> QED
    BY <1>2

\* Writes that touch none of them keep them.
LEMMA KeptRows ==
    ASSUME NEW d, IsDisk(d), NEW W, IsList(W),
           \A i \in 1 .. Len(W) :
               /\ W[i].tree \notin {"blocks", "coins"}
               /\ W[i].tree = "meta" => W[i].key \notin {"tip_height", "tip_hash"}
    PROVE  RowsKept(d, Play(d, W))
<1> DEFINE e == Play(d, W)
<1>1. IsDisk(e)
    BY PlayDisk
<1>2. ASSUME NEW t \in Trees7, NEW k \in Keys7(t),
             t \in {"blocks", "coins"} \/ (t = "meta" /\ k \in {"tip_height", "tip_hash"})
      PROVE  e[t][k] = d[t][k]
    <2>1. \A i \in 1 .. Len(W) : ~ Hits(W[i], t, k)
        BY <1>2 DEF Hits
    <2> QED
        BY <2>1, PlayNone
<1> HIDE DEF e
<1>3. \A k \in Heights : e["blocks"][k] = d["blocks"][k] /\ e["coins"][k] = d["coins"][k]
    BY <1>2, TreesAre
<1>4. e["meta"]["tip_height"] = d["meta"]["tip_height"] /\ e["meta"]["tip_hash"] = d["meta"]["tip_hash"]
    BY <1>2, TreesAre DEF CoreKeys
<1>5. /\ e.blocks = [k \in Heights |-> e.blocks[k]] /\ d.blocks = [k \in Heights |-> d.blocks[k]]
      /\ e.coins = [k \in Heights |-> e.coins[k]] /\ d.coins = [k \in Heights |-> d.coins[k]]
    BY <1>1, RowFunctions
<1>6. \A k \in Heights : e.blocks[k] = d.blocks[k] /\ e.coins[k] = d.coins[k]
    BY <1>3
<1>7. e.blocks = d.blocks /\ e.coins = d.coins
    BY <1>5, <1>6
<1>8. Tip(e) = Tip(d)
    BY <1>4 DEF Tip
<1> QED
    BY <1>1, <1>7, <1>8 DEF RowsKept, e

LEMMA TreeRows ==
    ASSUME NEW d, IsDisk(d), NEW W, TreeList(W)
    PROVE  RowsKept(d, Play(d, W))
BY KeptRows DEF TreeList, Within

\* Where every write to a row writes the same, that is what it holds.
LEMMA PlaySame ==
    ASSUME NEW d, IsDisk(d), NEW W, IsList(W), NEW t \in Trees7, NEW k \in Keys7(t), NEW v,
           \A j \in 1 .. Len(W) : Hits(W[j], t, k) => W[j].val = v
    PROVE  Play(d, W)[t][k] = IF \E j \in 1 .. Len(W) : Hits(W[j], t, k) THEN v ELSE d[t][k]
<1>1. CASE \A j \in 1 .. Len(W) : ~ Hits(W[j], t, k)
    BY <1>1, PlayNone
<1>2. CASE \E i \in 1 .. Len(W) : /\ Hits(W[i], t, k)
                                  /\ \A j \in 1 .. Len(W) : i < j => ~ Hits(W[j], t, k)
    BY <1>2, PlayLast
<1> QED
    BY <1>1, <1>2, LastWrite

\* One row of the snapshots, or the tree in memory, that no write of a list touches.
LEMMA LiveKept ==
    ASSUME NEW d, IsDisk(d), NEW W, IsList(W), \A i \in 1 .. Len(W) : W[i].tree # "live"
    PROVE  Play(d, W).live.tree = d.live.tree
<1>1. \A i \in 1 .. Len(W) : ~ Hits(W[i], "live", "tree")
    BY DEF Hits
<1>2. "live" \in Trees7 /\ "tree" \in Keys7("live")
    BY TreesAre
<1> QED
    BY <1>1, <1>2, PlayNone

LEMMA SnapsKeptBy ==
    ASSUME NEW d, IsDisk(d), NEW W, IsList(W), \A i \in 1 .. Len(W) : W[i].tree # "snaps"
    PROVE  Play(d, W).snaps = d.snaps
<1> DEFINE e == Play(d, W)
<1>1. ASSUME NEW k \in Heights PROVE e["snaps"][k] = d["snaps"][k]
    <2>1. \A i \in 1 .. Len(W) : ~ Hits(W[i], "snaps", k)
        BY DEF Hits
    <2>2. "snaps" \in Trees7 /\ k \in Keys7("snaps")
        BY TreesAre
    <2> QED
        BY <2>1, <2>2, PlayNone
<1>2. IsDisk(e)
    BY PlayDisk
<1> HIDE DEF e
<1>3. e.snaps = [k \in Heights |-> e.snaps[k]] /\ d.snaps = [k \in Heights |-> d.snaps[k]]
    BY <1>2, RowFunctions
<1> QED
    BY <1>1, <1>3 DEF e

\* delete_snapshots_at_or_above.
LEMMA CutPlay ==
    ASSUME NEW d, IsDisk(d), NEW c, c.snaps = d.snaps, NEW h
    PROVE  LET e == Play(d, RemoveSnapsFrom(c, h))
           IN  /\ RowsKept(d, e) /\ e.snaps = DeleteFrom(d.snaps, h)
               /\ e.live.tree = d.live.tree
<1> DEFINE S == RowsIn(c.snaps, {k \in Heights : k >= h})
           W == RemoveSnapsFrom(c, h)
           e == Play(d, W)
<1>0. S \subseteq Heights
    BY DEF RowsIn
<1>1. /\ IsList(W) /\ Len(W) = Cardinality(S)
      /\ \A i \in 1 .. Cardinality(S) : W[i] = [tree |-> "snaps", key |-> Ascending(S)[i], val |-> None]
    BY <1>0, EraseOneTree DEF RemoveSnapsFrom
<1>2. /\ \A i \in 1 .. Cardinality(S) : Ascending(S)[i] \in S
      /\ \A k \in S : \E i \in 1 .. Cardinality(S) : Ascending(S)[i] = k
    <2> HIDE DEF S
    <2> QED
        BY <1>0, AscendingLists
<1>3. \A k \in Heights : k \in S <=> k >= h /\ d.snaps[k] # None
    BY DEF RowsIn
<1> HIDE DEF W, S
<1>4. RowsKept(d, e)
    BY <1>1, KeptRows
<1>5. e.live.tree = d.live.tree
    BY <1>1, LiveKept
<1>6. ASSUME NEW k \in Heights PROVE e["snaps"][k] = IF k >= h THEN None ELSE d["snaps"][k]
    <2>1. "snaps" \in Trees7 /\ k \in Keys7("snaps")
        BY TreesAre
    <2>2. \A j \in 1 .. Len(W) : Hits(W[j], "snaps", k) => W[j].val = None
        BY <1>1
    <2>3. (\E j \in 1 .. Len(W) : Hits(W[j], "snaps", k)) <=> k \in S
        BY <1>1, <1>2 DEF Hits
    <2>0. IsList(W)
        BY <1>1
    <2> DEFINE some == \E j \in 1 .. Len(W) : Hits(W[j], "snaps", k)
    <2>4. Play(d, W)["snaps"][k] = IF some THEN None ELSE d["snaps"][k]
        BY <2>0, <2>1, <2>2, PlaySame
    <2> QED
        BY <2>3, <2>4, <1>3
<1>7. e.snaps = [k \in Heights |-> e.snaps[k]]
    BY <1>4, RowFunctions DEF RowsKept
<1> HIDE DEF e
<1>8. e.snaps = DeleteFrom(d.snaps, h)
    BY <1>6, <1>7 DEF DeleteFrom
<1> QED
    BY <1>4, <1>5, <1>8 DEF e, W

\* One row.
LEMMA PutCells ==
    ASSUME NEW d, IsDisk(d), NEW t, NEW k, NEW v
    PROVE  /\ IsList(Put(t, k, v)) /\ IsDisk(Play(d, Put(t, k, v)))
           /\ \A u \in Trees7 : \A l \in Keys7(u) :
                 Play(d, Put(t, k, v))[u][l] = IF u = t /\ l = k THEN v ELSE d[u][l]
<1> DEFINE w == [tree |-> t, key |-> k, val |-> v]
<1>1. Put(t, k, v) = <<w>>
    BY DEF Put
<1>2. \A u, l : Hits(w, u, l) <=> u = t /\ l = k
    BY DEF Hits
<1>3. w.val = v
    OBVIOUS
<1> HIDE DEF w
<1>4. IsList(<<w>>) /\ Play(d, <<w>>) = Apply(d, w)
    BY OneWrite, PlayOne
<1>5. /\ IsDisk(Apply(d, w))
      /\ \A u \in Trees7 : \A l \in Keys7(u) : Apply(d, w)[u][l] = IF Hits(w, u, l) THEN w.val ELSE d[u][l]
    BY ApplyDisk
<1> QED
    BY <1>1, <1>2, <1>3, <1>4, <1>5

\* The snapshots and the tree in memory, after one write.
LEMMA PutSnaps ==
    ASSUME NEW d, IsDisk(d), NEW k, NEW v
    PROVE  LET e == Play(d, Put("snaps", k, v))
           IN  /\ IsDisk(e) /\ e.live.tree = d.live.tree
               /\ \A l \in Heights : e.snaps[l] = IF l = k THEN v ELSE d.snaps[l]
<1> DEFINE e == Play(d, Put("snaps", k, v))
<1>1. /\ IsDisk(e)
      /\ \A u \in Trees7 : \A l \in Keys7(u) : e[u][l] = IF u = "snaps" /\ l = k THEN v ELSE d[u][l]
    BY PutCells
<1> HIDE DEF e
<1>2. e["live"]["tree"] = d["live"]["tree"]
    BY <1>1, TreesAre
<1>3. \A l \in Heights : e["snaps"][l] = IF l = k THEN v ELSE d["snaps"][l]
    BY <1>1, TreesAre
<1> QED
    BY <1>1, <1>2, <1>3 DEF e

LEMMA PutInMeta ==
    ASSUME NEW d, IsDisk(d), NEW k, NEW v
    PROVE  LET e == Play(d, Put("meta", k, v))
           IN  /\ IsDisk(e) /\ e.live.tree = d.live.tree
               /\ \A l \in Heights : e.snaps[l] = d.snaps[l]
<1> DEFINE e == Play(d, Put("meta", k, v))
<1>1. /\ IsDisk(e)
      /\ \A u \in Trees7 : \A l \in Keys7(u) : e[u][l] = IF u = "meta" /\ l = k THEN v ELSE d[u][l]
    BY PutCells
<1> HIDE DEF e
<1>2. e["live"]["tree"] = d["live"]["tree"]
    BY <1>1, TreesAre
<1>3. \A l \in Heights : e["snaps"][l] = d["snaps"][l]
    BY <1>1, TreesAre
<1> QED
    BY <1>1, <1>2, <1>3 DEF e

LEMMA PutLive ==
    ASSUME NEW d, IsDisk(d), NEW v
    PROVE  LET e == Play(d, Put("live", "tree", v))
           IN  /\ IsDisk(e) /\ e.live.tree = v
               /\ \A l \in Heights : e.snaps[l] = d.snaps[l]
<1> DEFINE e == Play(d, Put("live", "tree", v))
<1>1. /\ IsDisk(e)
      /\ \A u \in Trees7 : \A l \in Keys7(u) : e[u][l] = IF u = "live" /\ l = "tree" THEN v ELSE d[u][l]
    BY PutCells
<1> HIDE DEF e
<1>2. e["live"]["tree"] = v
    BY <1>1, TreesAre
<1>3. \A l \in Heights : e["snaps"][l] = d["snaps"][l]
    BY <1>1, TreesAre
<1> QED
    BY <1>1, <1>2, <1>3 DEF e

\* What store_tip_tree leaves.
StoredSnaps(snaps, prev, h, leaves) ==
    [k \in Heights |-> IF k = h THEN leaves
                       ELSE IF k = prev /\ k % Interval # 0 THEN None ELSE snaps[k]]

LEMMA StorePlay ==
    ASSUME NEW d, IsDisk(d), NEW prev \in Heights \cup {None}, NEW h \in Heights, NEW leaves
    PROVE  LET e == Play(d, StoreTreeWrites(prev, h, leaves))
           IN  /\ RowsKept(d, e) /\ e.live.tree = [height |-> h, leaves |-> leaves]
               /\ e.snaps = StoredSnaps(d.snaps, prev, h, leaves)
<1> DEFINE old == prev \notin {None, h} /\ prev % Interval # 0
           tree == [height |-> h, leaves |-> leaves]
           A == Put("meta", "merkle_tree", leaves)
           B == Put("meta", "merkle_height", h)
           C == Put("snaps", h, leaves)
           D == When(old, Erase("snaps", prev))
           E == Put("live", "tree", tree)
           W == StoreTreeWrites(prev, h, leaves)
           d1 == Play(d, A)
           d2 == Play(d1, B)
           d3 == Play(d2, C)
           d4 == Play(d3, D)
           d5 == Play(d4, E)
<1>1. W = A \o B \o C \o D \o E
    BY DEF StoreTreeWrites
<1>2. IsList(A) /\ IsList(B) /\ IsList(C) /\ IsList(D) /\ IsList(E)
    BY PutCells, NoWrite DEF When, Erase
<1>3. /\ IsDisk(d1) /\ d1.live.tree = d.live.tree /\ \A l \in Heights : d1.snaps[l] = d.snaps[l]
    BY PutInMeta
<1> HIDE DEF d1
<1>4. /\ IsDisk(d2) /\ d2.live.tree = d1.live.tree /\ \A l \in Heights : d2.snaps[l] = d1.snaps[l]
    BY <1>3, PutInMeta
<1> HIDE DEF d2
<1>5. /\ IsDisk(d3) /\ d3.live.tree = d2.live.tree
      /\ \A l \in Heights : d3.snaps[l] = IF l = h THEN leaves ELSE d2.snaps[l]
    BY <1>4, PutSnaps
<1> HIDE DEF d3
<1>6. /\ IsDisk(d4) /\ d4.live.tree = d3.live.tree
      /\ \A l \in Heights : d4.snaps[l] = IF old /\ l = prev THEN None ELSE d3.snaps[l]
    <2>1. CASE old
        BY <1>5, <2>1, PutSnaps DEF When, Erase
    <2>2. CASE ~ old
        BY <1>5, <2>2, PlayEmpty DEF When
    <2> QED
        BY <2>1, <2>2
<1> HIDE DEF d4
<1>7. /\ IsDisk(d5) /\ d5.live.tree = tree /\ \A l \in Heights : d5.snaps[l] = d4.snaps[l]
    BY <1>6, PutLive
<1> HIDE DEF d5
<1> HIDE DEF A, B, C, D, E
<1>8. Play(d, W) = d5
    <2>1. IsList(A \o B) /\ IsList(A \o B \o C) /\ IsList(A \o B \o C \o D)
        BY <1>2, ConcatList
    <2>2. Play(d, A \o B) = d2
        BY <1>2, PlayConcat DEF d1, d2
    <2>3. Play(d, A \o B \o C) = d3
        BY <1>2, <2>1, <2>2, PlayConcat DEF d3
    <2>4. Play(d, A \o B \o C \o D) = d4
        BY <1>2, <2>1, <2>3, PlayConcat DEF d4
    <2>5. Play(d, A \o B \o C \o D \o E) = d5
        BY <1>2, <2>1, <2>4, PlayConcat DEF d5
    <2> QED
        BY <1>1, <2>5
<1>9. RowsKept(d, d5)
    BY <1>8, TreeStore, TreeRows
<1>10. \A l \in Heights : d5.snaps[l] = IF l = h THEN leaves
                             ELSE IF l = prev /\ l % Interval # 0 THEN None ELSE d.snaps[l]
    <2>1. None \notin Heights
        BY ForkTreeAssumption DEF Heights
    <2> QED
        BY <1>3, <1>4, <1>5, <1>6, <1>7, <2>1
<1>11. d5.snaps = [l \in Heights |-> d5.snaps[l]]
    BY <1>7, RowFunctions
<1>12. d5.snaps = StoredSnaps(d.snaps, prev, h, leaves)
    BY <1>10, <1>11 DEF StoredSnaps
<1> QED
    BY <1>7, <1>8, <1>9, <1>12

\* What rebuild_tip_merkle_tree starts from, and the snapshots it puts on the way.
SeedOf(st, h)   == IF SnapsUpTo(st, h) # {} THEN GreatestIn(SnapsUpTo(st, h)) ELSE None
FromOf(st, h)   == IF SnapsUpTo(st, h) # {} THEN GreatestIn(SnapsUpTo(st, h)) + 1 ELSE 0
LeavesOf(st, h) == IF SnapsUpTo(st, h) # {} THEN st.snaps[GreatestIn(SnapsUpTo(st, h))]
                   ELSE EmptyTree
BoundSnaps(snaps, st, leaves, from, h) ==
    [k \in Heights |-> IF k \in from .. h /\ k % Interval = 0 THEN Replay(st, leaves, from, k)
                       ELSE snaps[k]]
RebuiltSnaps(st, h) ==
    StoredSnaps(BoundSnaps(DeleteFrom(st.snaps, h + 1), st, LeavesOf(st, h), FromOf(st, h), h),
                SeedOf(st, h), h, Replay(st, LeavesOf(st, h), FromOf(st, h), h))

IsStore(st) == st = StoreOf(st.blocks, st.coins, st.tip, st.tree, st.snaps)

LEMMA SeedIs ==
    ASSUME NEW st, NEW h \in Heights
    PROVE  SeedOf(st, h) \in Heights \cup {None} /\ FromOf(st, h) \in Nat
<1> USE ForkTreeAssumption
<1> DEFINE T == SnapsUpTo(st, h)
<1>1. h \in Nat /\ T \subseteq 0 .. h
    BY DEF SnapsUpTo, Heights
<1>2. CASE T # {}
    <2> HIDE DEF T
    <2>1. \E m \in T : \A k \in T : k <= m
        BY <1>1, <1>2, GreatestNat
    <2>2. GreatestIn(T) \in T
        BY <2>1 DEF GreatestIn
    <2>3. GreatestIn(T) \in Heights /\ GreatestIn(T) + 1 \in Nat
        BY <1>1, <2>2 DEF Heights
    <2> QED
        BY <1>2, <2>3 DEF SeedOf, FromOf, T
<1>3. CASE T = {}
    BY <1>3 DEF SeedOf, FromOf
<1> QED
    BY <1>2, <1>3

\* Replaying reads the coins rows only.
LEMMA ReplayReads ==
    ASSUME NEW a, NEW b, a.coins = b.coins, NEW leaves, NEW from, NEW upto
    PROVE  Replay(a, leaves, from, upto) = Replay(b, leaves, from, upto)
BY DEF Replay

LEMMA SeedReads ==
    ASSUME NEW a, NEW b, a.snaps = b.snaps, NEW h
    PROVE  /\ SnapsUpTo(a, h) = SnapsUpTo(b, h)
           /\ SeedOf(a, h) = SeedOf(b, h) /\ FromOf(a, h) = FromOf(b, h)
           /\ LeavesOf(a, h) = LeavesOf(b, h)
BY DEF SnapsUpTo, SeedOf, FromOf, LeavesOf

\* The whole operations, field by field.
LEMMA SnapsForm ==
    ASSUME NEW st, IsStore(st), NEW snaps
    PROVE  [st EXCEPT !.snaps = snaps] = StoreOf(st.blocks, st.coins, st.tip, st.tree, snaps)
BY DEF IsStore, StoreOf

LEMMA TreeSnapsForm ==
    ASSUME NEW st, IsStore(st), NEW tree, NEW snaps
    PROVE  [st EXCEPT !.tree = tree, !.snaps = snaps] =
               StoreOf(st.blocks, st.coins, st.tip, tree, snaps)
<1> DEFINE mid == [st EXCEPT !.tree = tree]
<1>1. [st EXCEPT !.tree = tree, !.snaps = snaps] = [mid EXCEPT !.snaps = snaps]
    OBVIOUS
<1>2. mid = StoreOf(st.blocks, st.coins, st.tip, tree, st.snaps)
    BY DEF IsStore, StoreOf
<1>3. /\ IsStore(mid) /\ mid.blocks = st.blocks /\ mid.coins = st.coins /\ mid.tip = st.tip
      /\ mid.tree = tree
    BY <1>2 DEF IsStore, StoreOf
<1> HIDE DEF mid
<1> QED
    BY <1>1, <1>3, SnapsForm

LEMMA StoreTipForm ==
    ASSUME NEW st, IsStore(st), NEW prev, NEW h, NEW leaves
    PROVE  StoreTipTree(st, prev, h, leaves) =
               StoreOf(st.blocks, st.coins, st.tip, [height |-> h, leaves |-> leaves],
                       StoredSnaps(st.snaps, prev, h, leaves))
<1> DEFINE new  == StoredSnaps(st.snaps, prev, h, leaves)
           tree == [height |-> h, leaves |-> leaves]
<1>1. StoreTipTree(st, prev, h, leaves) = [st EXCEPT !.tree = tree, !.snaps = new]
    BY DEF StoreTipTree, StoredSnaps
<1> HIDE DEF new, tree
<1>2. [st EXCEPT !.tree = tree, !.snaps = new] = StoreOf(st.blocks, st.coins, st.tip, tree, new)
    BY TreeSnapsForm
<1> QED
    BY <1>1, <1>2 DEF new, tree

LEMMA RebuildForm ==
    ASSUME NEW st, IsStore(st), NEW h, ~ (h = 0 /\ st.blocks[0] = None)
    PROVE  RebuildTipTree(st, h) =
               StoreOf(st.blocks, st.coins, st.tip,
                       [height |-> h, leaves |-> Replay(st, LeavesOf(st, h), FromOf(st, h), h)],
                       RebuiltSnaps(st, h))
<1> DEFINE less == DeleteFrom(st.snaps, h + 1)
           cut  == [st EXCEPT !.snaps = less]
           seed == SeedOf(st, h)
           from == FromOf(st, h)
           lv   == LeavesOf(st, h)
           more == [k \in Heights |-> IF k \in from .. h /\ k % Interval = 0
                                      THEN Replay(cut, lv, from, k) ELSE cut.snaps[k]]
           mid  == [cut EXCEPT !.snaps = more]
<1>1. RebuildTipTree(st, h) = ReplayFrom(cut, seed, lv, from, h)
    BY DEF RebuildTipTree, SeedOf, FromOf, LeavesOf
<1>2. cut = StoreOf(st.blocks, st.coins, st.tip, st.tree, less)
    BY SnapsForm
<1>3. /\ IsStore(cut) /\ cut.blocks = st.blocks /\ cut.coins = st.coins /\ cut.tip = st.tip
      /\ cut.snaps = less
    BY <1>2 DEF IsStore, StoreOf
<1>4. ReplayFrom(cut, seed, lv, from, h) = StoreTipTree(mid, seed, h, Replay(cut, lv, from, h))
    BY DEF ReplayFrom
<1> HIDE DEF cut, seed, from, lv
<1>5. mid = StoreOf(cut.blocks, cut.coins, cut.tip, cut.tree, more)
    BY <1>3, SnapsForm
<1>6. /\ IsStore(mid) /\ mid.blocks = st.blocks /\ mid.coins = st.coins /\ mid.tip = st.tip
      /\ mid.snaps = more
    BY <1>3, <1>5 DEF IsStore, StoreOf
<1>7. Replay(cut, lv, from, h) = Replay(st, lv, from, h)
    BY <1>3, ReplayReads
<1>8. \A k : Replay(cut, lv, from, k) = Replay(st, lv, from, k)
    BY <1>3, ReplayReads
<1>9. more = BoundSnaps(less, st, lv, from, h)
    BY <1>3, <1>8 DEF BoundSnaps
<1> HIDE DEF more, mid, less
<1>10. StoreTipTree(mid, seed, h, Replay(st, lv, from, h)) =
           StoreOf(st.blocks, st.coins, st.tip, [height |-> h, leaves |-> Replay(st, lv, from, h)],
                   StoredSnaps(more, seed, h, Replay(st, lv, from, h)))
    BY <1>6, StoreTipForm
<1> QED
    BY <1>1, <1>4, <1>7, <1>9, <1>10 DEF RebuiltSnaps, seed, from, lv, less

\* The snapshots at the boundaries that are passed.
BoundWrites(c, leaves, from, h) ==
    LET bounds == Ascending({k \in from .. h : k % Interval = 0})
    IN  [i \in DOMAIN bounds |-> [tree |-> "snaps", key |-> bounds[i],
                                  val |-> Replay(c, leaves, from, bounds[i])]]

LEMMA BoundsPlay ==
    ASSUME NEW d, IsDisk(d), NEW c, NEW leaves, NEW from \in Nat, NEW h \in Heights
    PROVE  LET B == BoundWrites(c, leaves, from, h)
               e == Play(d, B)
           IN  /\ IsList(B) /\ \A i \in 1 .. Len(B) : B[i].tree = "snaps"
               /\ RowsKept(d, e) /\ e.live.tree = d.live.tree
               /\ e.snaps = BoundSnaps(d.snaps, c, leaves, from, h)
<1> DEFINE S == {k \in from .. h : k % Interval = 0}
           bounds == Ascending(S)
           n == Cardinality(S)
           f(i) == [tree |-> "snaps", key |-> bounds[i], val |-> Replay(c, leaves, from, bounds[i])]
           B == BoundWrites(c, leaves, from, h)
           e == Play(d, B)
<1>1. S \subseteq Heights
    BY ForkTreeAssumption DEF Heights
<1>2. /\ n \in Nat /\ DOMAIN bounds = 1 .. n
      /\ \A i \in 1 .. n : bounds[i] \in S
      /\ \A k \in S : \E i \in 1 .. n : bounds[i] = k
    <2>0. 0 \in Heights
        BY ForkTreeAssumption DEF Heights
    <2> HIDE DEF S
    <2>1. n \in Nat
        BY <1>1, <2>0, BelowType
    <2>2. DOMAIN bounds = 1 .. n
        BY DEF Ascending
    <2>3. /\ \A i \in 1 .. n : bounds[i] \in S
          /\ \A k \in S : /\ Cardinality(Below(S, k)) + 1 \in 1 .. n
                           /\ bounds[Cardinality(Below(S, k)) + 1] = k
        BY <1>1, AscendingLists
    <2> QED
        BY <2>1, <2>2, <2>3
<1>3. \A k \in Heights : k \in S <=> k \in from .. h /\ k % Interval = 0
    OBVIOUS
<1>12. B = [i \in DOMAIN bounds |-> f(i)]
    BY DEF BoundWrites
<1> HIDE DEF S, n, bounds, B
<1>4. B = [i \in 1 .. n |-> f(i)]
    BY <1>2, <1>12
<1>5. /\ B = [i \in 1 .. n |-> B[i]]
      /\ \A i \in 1 .. n : /\ B[i].tree = "snaps" /\ B[i].key = bounds[i]
                           /\ B[i].val = Replay(c, leaves, from, bounds[i])
    BY <1>4
<1>6. IsList(B) /\ Len(B) = n
    BY <1>2, <1>5, ListOf
<1>7. RowsKept(d, e) /\ IsDisk(e)
    BY <1>5, <1>6, KeptRows DEF RowsKept
<1>8. e.live.tree = d.live.tree
    BY <1>5, <1>6, LiveKept
<1>9. ASSUME NEW k \in Heights
      PROVE  e["snaps"][k] = IF k \in S THEN Replay(c, leaves, from, k) ELSE d["snaps"][k]
    <2>1. "snaps" \in Trees7 /\ k \in Keys7("snaps")
        BY TreesAre
    <2> DEFINE some == \E j \in 1 .. Len(B) : Hits(B[j], "snaps", k)
    <2>5. PICK v : v = Replay(c, leaves, from, k)
        OBVIOUS
    <2>2. \A j \in 1 .. Len(B) : Hits(B[j], "snaps", k) => B[j].val = v
        <3>1. ASSUME NEW j \in 1 .. Len(B), Hits(B[j], "snaps", k) PROVE B[j].val = v
            <4>1. j \in 1 .. n /\ B[j].key = k
                BY <1>6, <3>1 DEF Hits
            <4>2. B[j].key = bounds[j] /\ B[j].val = Replay(c, leaves, from, bounds[j])
                BY <1>5, <4>1
            <4> QED BY <4>1, <4>2, <2>5
        <3> QED BY <3>1
    <2>3. some <=> k \in S
        BY <1>2, <1>5, <1>6 DEF Hits
    <2>0. IsList(B)
        BY <1>6
    <2>4. CASE ~ some
        <3>1. Play(d, B)["snaps"][k] = d["snaps"][k]
            BY <2>0, <2>1, <2>4, PlayNone
        <3> QED BY <2>3, <2>4, <3>1
    <2>6. CASE some
        <3>1. PICK i \in 1 .. Len(B) : /\ Hits(B[i], "snaps", k)
                                      /\ \A j \in 1 .. Len(B) : i < j => ~ Hits(B[j], "snaps", k)
            BY <2>0, <2>6, LastWrite
        <3>2. Play(d, B)["snaps"][k] = B[i].val
            BY <2>0, <2>1, <3>1, PlayLast
        <3> QED BY <2>2, <2>3, <2>5, <2>6, <3>1, <3>2
    <2> QED
        BY <2>4, <2>6
<1>10. e.snaps = [k \in Heights |-> e.snaps[k]]
    BY <1>7, RowFunctions
<1> HIDE DEF e
<1>11. e.snaps = BoundSnaps(d.snaps, c, leaves, from, h)
    BY <1>3, <1>9, <1>10 DEF BoundSnaps
<1> QED
    BY <1>5, <1>6, <1>7, <1>8, <1>11 DEF e, B

LEMMA StoreForm ==
    ASSUME NEW d
    PROVE  /\ AsStore(d) = StoreOf(d.blocks, d.coins, Tip(d), d.live.tree, d.snaps)
           /\ IsStore(AsStore(d))
           /\ AsStore(d).blocks = d.blocks /\ AsStore(d).coins = d.coins /\ AsStore(d).tip = Tip(d)
           /\ AsStore(d).tree = d.live.tree /\ AsStore(d).snaps = d.snaps
BY DEF AsStore, StoreOf, IsStore

LEMMA RowsKeptTwice ==
    ASSUME NEW d, NEW e, NEW f, RowsKept(d, e), RowsKept(e, f)
    PROVE  RowsKept(d, f)
BY DEF RowsKept

\* rebuild_tip_merkle_tree where no block is left.
LEMMA NothingPlay ==
    ASSUME NEW d, IsDisk(d), d.blocks[0] = None
    PROVE  LET e == Play(d, RebuildWrites(d, 0))
           IN  RowsKept(d, e) /\ AsStore(e) = RebuildTipTree(AsStore(d), 0)
<1> DEFINE A == Erase("meta", "merkle_tree")
           B == Erase("meta", "merkle_height")
           C == RemoveSnapsFrom(d, 0)
           D == Put("live", "tree", NoTree)
           W == RebuildWrites(d, 0)
           d1 == Play(d, A)
           d2 == Play(d1, B)
           d3 == Play(d2, C)
           d4 == Play(d3, D)
           gone == [k \in Heights |-> None]
           st == AsStore(d)
<1>0. \A k \in Heights : k >= 0
    BY ForkTreeAssumption DEF Heights
<1>1. W = A \o B \o C \o D
    BY DEF RebuildWrites
<1>2. IsList(A) /\ IsList(B) /\ IsList(D)
    BY PutCells DEF Erase
<1>3. IsList(C)
    <2> DEFINE S == RowsIn(d.snaps, {k \in Heights : k >= 0})
    <2>1. S \subseteq Heights
        BY DEF RowsIn
    <2> QED BY <2>1, EraseOneTree DEF RemoveSnapsFrom
<1>4. IsDisk(d1) /\ \A l \in Heights : d1.snaps[l] = d.snaps[l]
    BY PutInMeta DEF Erase
<1>5. RowsKept(d, Play(d, W))
    <2>1. 0 \in Heights
        BY ForkTreeAssumption DEF Heights
    <2> QED BY <2>1, TreeRebuild, TreeRows
<1> HIDE DEF d1
<1>6. IsDisk(d2) /\ \A l \in Heights : d2.snaps[l] = d1.snaps[l]
    BY <1>4, PutInMeta DEF Erase
<1> HIDE DEF d2
<1>7. d2.snaps = d.snaps
    <2>1. d2.snaps = [k \in Heights |-> d2.snaps[k]] /\ d.snaps = [k \in Heights |-> d.snaps[k]]
        BY <1>6, RowFunctions
    <2> QED BY <1>4, <1>6, <2>1
<1>8. RowsKept(d2, d3) /\ d3.snaps = DeleteFrom(d2.snaps, 0)
    BY <1>6, <1>7, CutPlay
<1>9. d3.snaps = gone /\ IsDisk(d3)
    BY <1>0, <1>8 DEF DeleteFrom, RowsKept
<1> HIDE DEF d3
<1>10. IsDisk(d4) /\ d4.live.tree = NoTree /\ \A l \in Heights : d4.snaps[l] = d3.snaps[l]
    BY <1>9, PutLive
<1> HIDE DEF d4
<1>11. d4.snaps = gone
    <2>1. d4.snaps = [k \in Heights |-> d4.snaps[k]]
        BY <1>10, RowFunctions
    <2> QED BY <1>9, <1>10, <2>1
<1> HIDE DEF A, B, C, D
<1>12. Play(d, W) = d4
    <2>1. IsList(A \o B) /\ IsList(A \o B \o C)
        BY <1>2, <1>3, ConcatList
    <2>2. Play(d, A \o B) = d2
        BY <1>2, PlayConcat DEF d1, d2
    <2>3. Play(d, A \o B \o C) = d3
        BY <1>3, <2>1, <2>2, PlayConcat DEF d3
    <2>4. Play(d, A \o B \o C \o D) = d4
        BY <1>2, <2>1, <2>3, PlayConcat DEF d4
    <2> QED BY <1>1, <2>4
<1>13. AsStore(d4) = StoreOf(d.blocks, d.coins, Tip(d), NoTree, gone)
    <2>1. d4.blocks = d.blocks /\ d4.coins = d.coins /\ Tip(d4) = Tip(d)
        BY <1>5, <1>12 DEF RowsKept
    <2> QED BY <1>10, <1>11, <2>1, StoreForm
<1>14. RebuildTipTree(st, 0) = StoreOf(d.blocks, d.coins, Tip(d), NoTree, gone)
    <2>1. RebuildTipTree(st, 0) = [st EXCEPT !.tree = NoTree, !.snaps = gone]
        BY StoreForm DEF RebuildTipTree
    <2>2. st.blocks = d.blocks /\ st.coins = d.coins /\ st.tip = Tip(d) /\ IsStore(st)
        BY StoreForm
    <2> HIDE DEF st, gone
    <2>3. [st EXCEPT !.tree = NoTree, !.snaps = gone] =
              StoreOf(st.blocks, st.coins, st.tip, NoTree, gone)
        BY <2>2, TreeSnapsForm
    <2> QED BY <2>1, <2>2, <2>3
<1> QED
    BY <1>5, <1>12, <1>13, <1>14

LEMMA RebuildPlay ==
    ASSUME NEW d, IsDisk(d), NEW h \in Heights
    PROVE  LET e == Play(d, RebuildWrites(d, h))
           IN  RowsKept(d, e) /\ AsStore(e) = RebuildTipTree(AsStore(d), h)
<1>1. CASE h = 0 /\ d.blocks[0] = None
    BY <1>1, NothingPlay
<1>2. CASE ~ (h = 0 /\ d.blocks[0] = None)
    <2> DEFINE st   == AsStore(d)
               seed == SeedOf(d, h)
               from == FromOf(d, h)
               lv   == LeavesOf(d, h)
               all  == Replay(d, lv, from, h)
               A == RemoveSnapsFrom(d, h + 1)
               B == BoundWrites(d, lv, from, h)
               C == StoreTreeWrites(seed, h, all)
               W == RebuildWrites(d, h)
               d1 == Play(d, A)
               d2 == Play(d1, B)
               d3 == Play(d2, C)
               tree == [height |-> h, leaves |-> all]
    <2>1. W = A \o B \o C
        BY <1>2 DEF RebuildWrites, SeedOf, FromOf, LeavesOf, BoundWrites
    <2>2. seed \in Heights \cup {None} /\ from \in Nat
        BY SeedIs
    <2> HIDE DEF seed, from, lv
    <2>3. RowsKept(d, d1) /\ d1.snaps = DeleteFrom(d.snaps, h + 1)
        BY CutPlay
    <2>4. IsList(A)
        <3> DEFINE S == RowsIn(d.snaps, {k \in Heights : k >= h + 1})
        <3>1. S \subseteq Heights
            BY DEF RowsIn
        <3> QED BY <3>1, EraseOneTree DEF RemoveSnapsFrom
    <2>5. IsDisk(d1)
        BY <2>3 DEF RowsKept
    <2> HIDE DEF d1, A
    <2>6. /\ IsList(B) /\ RowsKept(d1, d2)
          /\ d2.snaps = BoundSnaps(d1.snaps, d, lv, from, h)
        BY <2>2, <2>5, BoundsPlay
    <2>7. IsDisk(d2)
        BY <2>6 DEF RowsKept
    <2> HIDE DEF d2, B, all
    <2>8. /\ RowsKept(d2, d3) /\ d3.live.tree = tree
          /\ d3.snaps = StoredSnaps(d2.snaps, seed, h, all)
        BY <2>2, <2>7, StorePlay
    <2>9. IsList(C)
        BY <2>2, TreeStore DEF TreeList, Within
    <2> HIDE DEF d3, C
    <2>10. Play(d, W) = d3
        <3>1. IsList(A \o B)
            BY <2>4, <2>6, ConcatList
        <3>2. Play(d, A \o B) = d2
            BY <2>4, <2>6, PlayConcat DEF d1, d2
        <3>3. Play(d, A \o B \o C) = d3
            BY <2>9, <3>1, <3>2, PlayConcat DEF d3
        <3> QED BY <2>1, <3>3
    <2>11. RowsKept(d, d3)
        BY <2>3, <2>6, <2>8, RowsKeptTwice
    <2>12. AsStore(d3) = StoreOf(d.blocks, d.coins, Tip(d), tree, d3.snaps)
        BY <2>8, <2>11, StoreForm DEF RowsKept
    <2>13. /\ SeedOf(st, h) = seed /\ FromOf(st, h) = from /\ LeavesOf(st, h) = lv
           /\ \A k : Replay(st, lv, from, k) = Replay(d, lv, from, k)
           /\ st.snaps = d.snaps
        <3>1. st.snaps = d.snaps /\ st.coins = d.coins
            BY StoreForm
        <3> HIDE DEF st
        <3> QED BY <3>1, SeedReads, ReplayReads DEF seed, from, lv
    <2>14. RebuildTipTree(st, h) =
               StoreOf(st.blocks, st.coins, st.tip,
                       [height |-> h, leaves |-> Replay(st, LeavesOf(st, h), FromOf(st, h), h)],
                       RebuiltSnaps(st, h))
        <3>1. IsStore(st) /\ st.blocks = d.blocks
            BY StoreForm
        <3> HIDE DEF st
        <3> QED BY <1>2, <3>1, RebuildForm
    <2>15. RebuiltSnaps(st, h) = d3.snaps
        <3>1. \A x : BoundSnaps(x, st, lv, from, h) = BoundSnaps(x, d, lv, from, h)
            BY <2>13 DEF BoundSnaps
        <3> HIDE DEF st
        <3> QED BY <2>3, <2>6, <2>8, <2>13, <3>1 DEF RebuiltSnaps, all
    <2>16. RebuildTipTree(st, h) = StoreOf(d.blocks, d.coins, Tip(d), tree, d3.snaps)
        BY <2>13, <2>14, <2>15, StoreForm DEF all
    <2> QED
        BY <2>10, <2>11, <2>12, <2>16
<1> QED
    BY <1>1, <1>2

\* store_tip_tree, as one step of the whole operation.
LEMMA StoreTipPlay ==
    ASSUME NEW d, IsDisk(d), NEW prev \in Heights \cup {None}, NEW h \in Heights, NEW leaves
    PROVE  LET e == Play(d, StoreTreeWrites(prev, h, leaves))
           IN  /\ IsList(StoreTreeWrites(prev, h, leaves)) /\ RowsKept(d, e)
               /\ AsStore(e) = StoreTipTree(AsStore(d), prev, h, leaves)
<1> DEFINE W == StoreTreeWrites(prev, h, leaves)
           e == Play(d, W)
           st == AsStore(d)
           tree == [height |-> h, leaves |-> leaves]
<1>1. /\ RowsKept(d, e) /\ e.live.tree = tree
      /\ e.snaps = StoredSnaps(d.snaps, prev, h, leaves)
    BY StorePlay
<1>2. IsList(W)
    BY TreeStore DEF TreeList, Within
<1> HIDE DEF W, e
<1>3. AsStore(e) = StoreOf(d.blocks, d.coins, Tip(d), tree, StoredSnaps(d.snaps, prev, h, leaves))
    BY <1>1, StoreForm DEF RowsKept
<1>4. /\ IsStore(st) /\ st.blocks = d.blocks /\ st.coins = d.coins /\ st.tip = Tip(d)
      /\ st.snaps = d.snaps
    BY StoreForm
<1> HIDE DEF st
<1>5. StoreTipTree(st, prev, h, leaves) =
          StoreOf(st.blocks, st.coins, st.tip, tree, StoredSnaps(st.snaps, prev, h, leaves))
    BY <1>4, StoreTipForm
<1> QED
    BY <1>1, <1>2, <1>3, <1>4, <1>5 DEF W, e, st

\* The tree in memory ends at a height, or is no tree.
TreeOK(d) == d.live.tree = NoTree \/ d.live.tree.height \in Heights

LEMMA TreeHeight ==
    ASSUME NEW d, TreeOK(d)
    PROVE  /\ d.live.tree.height \in Heights \cup {None}
           /\ d.live.tree = NoTree <=> d.live.tree.height = None
<1>1. None \notin Heights /\ NoTree.height = None
    BY ForkTreeAssumption DEF Heights, NoTree
<1> QED
    BY <1>1 DEF TreeOK

LEMMA RebuiltTree ==
    ASSUME NEW d, IsDisk(d), NEW h \in Heights
    PROVE  TreeOK(Play(d, RebuildWrites(d, h)))
<1> DEFINE e == Play(d, RebuildWrites(d, h))
           st == AsStore(d)
<1>1. AsStore(e) = RebuildTipTree(st, h)
    BY RebuildPlay
<1>2. e.live.tree = AsStore(e).tree
    BY StoreForm
<1>3. IsStore(st) /\ st.blocks = d.blocks
    BY StoreForm
<1> HIDE DEF e, st
<1>4. CASE ~ (h = 0 /\ st.blocks[0] = None)
    <2>1. RebuildTipTree(st, h).tree.height = h
        BY <1>3, <1>4, RebuildForm DEF StoreOf
    <2> QED BY <1>1, <1>2, <2>1 DEF TreeOK, e
<1>5. CASE h = 0 /\ st.blocks[0] = None
    <2>1. RebuildTipTree(st, h) = [st EXCEPT !.tree = NoTree, !.snaps = [k \in Heights |-> None]]
        BY <1>5 DEF RebuildTipTree
    <2>2. RebuildTipTree(st, h).tree = NoTree
        BY <1>3, <2>1, TreeSnapsForm DEF StoreOf
    <2> QED BY <1>1, <1>2, <2>2 DEF TreeOK, e
<1> QED
    BY <1>4, <1>5

\* append_coins_to_tip_tree.
Grown(leaves, b) == [a \in Hash |-> leaves[a] + IF a = b /\ b \in CoinBlocks THEN 1 ELSE 0]

LEMMA AppendPlay ==
    ASSUME NEW d, IsDisk(d), TreeOK(d), NEW h \in Heights, NEW b
    PROVE  LET e == Play(d, AppendWrites(d, h, b))
           IN  RowsKept(d, e) /\ AsStore(e) = AppendCoins(AsStore(d), h, b)
<1> DEFINE prev == d.live.tree.height
           stale == prev # None /\ h # prev + 1
           st == AsStore(d)
           W == AppendWrites(d, h, b)
<1>0. h \in Nat /\ (h # 0 => h - 1 \in Heights) /\ 0 \in Heights /\ None \notin Heights
      /\ \A p \in Heights : p \in Nat
    BY ForkTreeAssumption DEF Heights
<1>1. prev \in Heights \cup {None} /\ (d.live.tree = NoTree <=> prev = None)
    BY TreeHeight
<1>2. st.tree = d.live.tree
    BY StoreForm
<1>3. CASE ~ stale
    <2> DEFINE C == StoreTreeWrites(prev, h, Grown(d.live.tree.leaves, b))
    <2>1. W = <<>> \o C
        <3>1. Play(d, <<>>) = d
            BY PlayEmpty
        <3> QED BY <1>3, <3>1 DEF AppendWrites, When, Grown
    <2>2. /\ IsList(C) /\ RowsKept(d, Play(d, C))
          /\ AsStore(Play(d, C)) = StoreTipTree(st, prev, h, Grown(d.live.tree.leaves, b))
        BY <1>1, StoreTipPlay
    <2>3. AppendCoins(st, h, b) = StoreTipTree(st, prev, h, Grown(d.live.tree.leaves, b))
        <3>1. st.tree = NoTree \/ h = st.tree.height + 1
            BY <1>1, <1>2, <1>3
        <3>2. ~ (st.tree # NoTree /\ h = 0)
            <4>1. CASE prev = None
                BY <1>1, <1>2, <4>1
            <4>2. CASE prev \in Heights
                <5>1. h = prev + 1
                    BY <1>0, <1>3, <4>2
                <5>2. prev \in Nat
                    BY <1>0, <4>2
                <5> HIDE DEF prev
                <5>3. h # 0
                    BY <5>1, <5>2
                <5> QED BY <5>3
            <4> QED BY <1>0, <1>1, <4>1, <4>2
        <3> HIDE DEF st
        <3> QED BY <1>2, <3>1, <3>2 DEF AppendCoins, Grown
    <2> HIDE DEF C
    <2>4. Play(d, W) = Play(d, C)
        <3> DEFINE nil == <<>>
        <3>1. IsList(nil) /\ IsList(C) /\ W = nil \o C /\ Play(d, nil) = d
            BY <2>1, <2>2, NoWrite, PlayEmpty
        <3> HIDE DEF nil, W
        <3> QED BY <3>1, PlayConcat
    <2> QED BY <2>2, <2>3, <2>4
<1>4. CASE stale /\ h = 0
    <2> DEFINE R == RebuildWrites(d, 0)
    <2>1. W = R \o <<>>
        BY <1>4 DEF AppendWrites, When
    <2>2. RowsKept(d, Play(d, R)) /\ AsStore(Play(d, R)) = RebuildTipTree(st, 0)
        BY <1>0, RebuildPlay
    <2>3. IsList(R)
        BY <1>0, TreeRebuild DEF TreeList, Within
    <2>4. AppendCoins(st, h, b) = RebuildTipTree(st, 0)
        <3> HIDE DEF st
        <3> QED BY <1>1, <1>2, <1>4 DEF AppendCoins
    <2> HIDE DEF R
    <2>5. Play(d, W) = Play(d, R)
        <3> DEFINE nil == <<>>
        <3>1. IsDisk(Play(d, R)) /\ IsList(nil) /\ W = R \o nil
            BY <2>1, PlayDisk, NoWrite
        <3>2. Play(Play(d, R), nil) = Play(d, R)
            BY <3>1, PlayEmpty
        <3> HIDE DEF nil, W
        <3> QED BY <2>3, <3>1, <3>2, PlayConcat
    <2> QED BY <2>2, <2>4, <2>5
<1>5. CASE stale /\ h # 0
    <2> DEFINE R == RebuildWrites(d, h - 1)
               e == Play(d, R)
               lv == Grown(e.live.tree.leaves, b)
               C == StoreTreeWrites(e.live.tree.height, h, lv)
    <2>1. W = R \o C
        BY <1>5 DEF AppendWrites, When, Grown
    <2>2. RowsKept(d, e) /\ AsStore(e) = RebuildTipTree(st, h - 1)
        BY <1>0, <1>5, RebuildPlay
    <2>3. IsList(R)
        BY <1>0, <1>5, TreeRebuild DEF TreeList, Within
    <2>4. TreeOK(e)
        BY <1>0, <1>5, RebuiltTree
    <2> HIDE DEF e, R
    <2>5. IsDisk(e) /\ e.live.tree.height \in Heights \cup {None}
        BY <2>2, <2>4, TreeHeight DEF RowsKept
    <2> HIDE DEF lv
    <2>6. /\ IsList(C) /\ RowsKept(e, Play(e, C))
          /\ AsStore(Play(e, C)) = StoreTipTree(AsStore(e), e.live.tree.height, h, lv)
        BY <2>5, StoreTipPlay
    <2>7. AppendCoins(st, h, b) = StoreTipTree(AsStore(e), e.live.tree.height, h, lv)
        <3>1. AsStore(e).tree = e.live.tree
            BY StoreForm
        <3>2. ~ (st.tree = NoTree \/ h = st.tree.height + 1) /\ h # 0
            BY <1>1, <1>2, <1>5
        <3>3. AsStore(e) = RebuildTipTree(st, h - 1)
            BY <2>2
        <3> HIDE DEF st
        <3> QED BY <3>1, <3>2, <3>3 DEF AppendCoins, Grown, lv
    <2> HIDE DEF C
    <2>8. Play(d, W) = Play(e, C)
        BY <2>1, <2>3, <2>6, PlayConcat DEF e
    <2>9. RowsKept(d, Play(e, C))
        BY <2>2, <2>6, RowsKeptTwice
    <2> QED BY <2>6, <2>7, <2>8, <2>9
<1> QED
    BY <1>3, <1>4, <1>5

-----------------------------------------------------------------------------
(* Blocks, coins and tip, row by row and field by field.                    *)

LEMMA BlocksCoinsForm ==
    ASSUME NEW st, IsStore(st), NEW blocks, NEW coins
    PROVE  [st EXCEPT !.blocks = blocks, !.coins = coins] =
               StoreOf(blocks, coins, st.tip, st.tree, st.snaps)
<1> DEFINE mid == [st EXCEPT !.blocks = blocks]
<1>1. [st EXCEPT !.blocks = blocks, !.coins = coins] = [mid EXCEPT !.coins = coins]
    OBVIOUS
<1>2. mid = StoreOf(blocks, st.coins, st.tip, st.tree, st.snaps)
    BY DEF IsStore, StoreOf
<1> HIDE DEF mid
<1>3. [mid EXCEPT !.coins = coins] = StoreOf(blocks, coins, st.tip, st.tree, st.snaps)
    BY <1>2 DEF StoreOf
<1> QED
    BY <1>1, <1>3

LEMMA TipForm ==
    ASSUME NEW st, IsStore(st), NEW tip
    PROVE  [st EXCEPT !.tip = tip] = StoreOf(st.blocks, st.coins, tip, st.tree, st.snaps)
BY DEF IsStore, StoreOf

LEMMA TipSnapsForm ==
    ASSUME NEW st, IsStore(st), NEW tip, NEW snaps
    PROVE  [st EXCEPT !.tip = tip, !.snaps = snaps] =
               StoreOf(st.blocks, st.coins, tip, st.tree, snaps)
<1> DEFINE mid == [st EXCEPT !.tip = tip]
<1>1. [st EXCEPT !.tip = tip, !.snaps = snaps] = [mid EXCEPT !.snaps = snaps]
    OBVIOUS
<1>2. mid = StoreOf(st.blocks, st.coins, tip, st.tree, st.snaps)
    BY TipForm
<1> HIDE DEF mid
<1>3. [mid EXCEPT !.snaps = snaps] = StoreOf(st.blocks, st.coins, tip, st.tree, snaps)
    BY <1>2 DEF StoreOf
<1> QED
    BY <1>1, <1>3

LEMMA WriteRowsForm ==
    ASSUME NEW st, IsStore(st), NEW b
    PROVE  WriteRows(st, b) =
               StoreOf([st.blocks EXCEPT ![HeightOf[b]] = b],
                       [st.coins EXCEPT ![HeightOf[b]] = IF b \in CoinBlocks THEN b ELSE @],
                       st.tip, st.tree, st.snaps)
<1> DEFINE h == HeightOf[b]
           bs == [st.blocks EXCEPT ![h] = b]
           cs == [st.coins EXCEPT ![h] = IF b \in CoinBlocks THEN b ELSE @]
<1>1. WriteRows(st, b) = [st EXCEPT !.blocks = bs, !.coins = cs]
    BY DEF WriteRows
<1> HIDE DEF bs, cs
<1>2. [st EXCEPT !.blocks = bs, !.coins = cs] = StoreOf(bs, cs, st.tip, st.tree, st.snaps)
    BY BlocksCoinsForm
<1> QED
    BY <1>1, <1>2 DEF bs, cs

\* A tree none of whose rows changed.
LEMMA SameTree ==
    ASSUME NEW d, NEW e, IsDisk(d), IsDisk(e), NEW t \in Trees7,
           \A l \in Keys7(t) : e[t][l] = d[t][l]
    PROVE  e[t] = d[t]
<1>1. d[t] = [k \in Keys7(t) |-> d[t][k]] /\ e[t] = [k \in Keys7(t) |-> e[t][k]]
    BY DEF IsDisk, Trees7, Keys7
<1>2. [k \in Keys7(t) |-> d[t][k]] = [k \in Keys7(t) |-> e[t][k]]
    OBVIOUS
<1> QED
    BY <1>1, <1>2

\* Writes to blocks, hashes and coins leave the other fields.
LEMMA OthersKept ==
    ASSUME NEW d, IsDisk(d), NEW e, IsDisk(e),
           \A u \in Trees7 : \A l \in Keys7(u) : u \notin BlockTrees => e[u][l] = d[u][l]
    PROVE  Tip(e) = Tip(d) /\ e.live.tree = d.live.tree /\ e.snaps = d.snaps
<1>1. e["snaps"] = d["snaps"] /\ e["live"] = d["live"] /\ e["meta"] = d["meta"]
    <2>1. "snaps" \in Trees7 /\ "live" \in Trees7 /\ "meta" \in Trees7
        BY TreesAre
    <2>2. "snaps" \notin BlockTrees /\ "live" \notin BlockTrees /\ "meta" \notin BlockTrees
        BY DEF BlockTrees
    <2> QED BY <2>1, <2>2, SameTree
<1> QED
    BY <1>1 DEF Tip

LEMMA RowsPlay ==
    ASSUME NEW d, IsDisk(d), NEW b, HeightOf[b] \in Heights
    PROVE  LET h == HeightOf[b]
               W == Put("blocks", h, b) \o Put("hashes", h, b)
                        \o When(b \in CoinBlocks, Put("coins", h, b))
               e == Play(d, W)
           IN  /\ IsList(W) /\ IsDisk(e) /\ AsStore(e) = WriteRows(AsStore(d), b)
               /\ e.live.tree = d.live.tree /\ e.snaps = d.snaps /\ Tip(e) = Tip(d)
<1> DEFINE h == HeightOf[b]
           coin == b \in CoinBlocks
           A == Put("blocks", h, b)
           B == Put("hashes", h, b)
           C == When(coin, Put("coins", h, b))
           W == A \o B \o C
           d1 == Play(d, A)
           d2 == Play(d1, B)
           d3 == Play(d2, C)
           st == AsStore(d)
<1>1. IsList(A) /\ IsList(B) /\ IsList(C)
    BY PutCells, NoWrite DEF When
<1>2. /\ IsDisk(d1)
      /\ \A u \in Trees7 : \A l \in Keys7(u) : d1[u][l] = IF u = "blocks" /\ l = h THEN b ELSE d[u][l]
    BY PutCells
<1> HIDE DEF d1
<1>3. /\ IsDisk(d2)
      /\ \A u \in Trees7 : \A l \in Keys7(u) : d2[u][l] = IF u = "hashes" /\ l = h THEN b ELSE d1[u][l]
    BY <1>2, PutCells
<1> HIDE DEF d2
<1>4. /\ IsDisk(d3)
      /\ \A u \in Trees7 : \A l \in Keys7(u) :
            d3[u][l] = IF coin /\ u = "coins" /\ l = h THEN b ELSE d2[u][l]
    <2>1. CASE coin
        BY <1>3, <2>1, PutCells DEF When
    <2>2. CASE ~ coin
        BY <1>3, <2>2, PlayEmpty DEF When
    <2> QED BY <2>1, <2>2
<1> HIDE DEF d3, A, B, C
<1>5. IsList(W) /\ Play(d, W) = d3
    <2>1. IsList(A \o B)
        BY <1>1, ConcatList
    <2>2. Play(d, A \o B) = d2
        BY <1>1, PlayConcat DEF d1, d2
    <2>3. Play(d, A \o B \o C) = d3
        BY <1>1, <2>1, <2>2, PlayConcat DEF d3
    <2> QED BY <1>1, <2>1, <2>3, ConcatList
<1>6. \A u \in Trees7 : \A l \in Keys7(u) : u \notin BlockTrees => d3[u][l] = d[u][l]
    BY <1>2, <1>3, <1>4 DEF BlockTrees
<1>7. Tip(d3) = Tip(d) /\ d3.live.tree = d.live.tree /\ d3.snaps = d.snaps
    BY <1>4, <1>6, OthersKept
<1>8. /\ \A k \in Heights : d3["blocks"][k] = IF k = h THEN b ELSE d["blocks"][k]
      /\ \A k \in Heights : d3["coins"][k] = IF k = h /\ coin THEN b ELSE d["coins"][k]
    BY <1>2, <1>3, <1>4, TreesAre
<1>9. /\ d3.blocks = [k \in Heights |-> d3.blocks[k]] /\ d.blocks = [k \in Heights |-> d.blocks[k]]
      /\ d3.coins = [k \in Heights |-> d3.coins[k]] /\ d.coins = [k \in Heights |-> d.coins[k]]
    BY <1>4, RowFunctions
<1>10. d3.blocks = [d.blocks EXCEPT ![h] = b]
    BY <1>8, <1>9
<1>11. d3.coins = [d.coins EXCEPT ![h] = IF b \in CoinBlocks THEN b ELSE @]
    BY <1>8, <1>9
<1>12. /\ IsStore(st) /\ st.blocks = d.blocks /\ st.coins = d.coins /\ st.tip = Tip(d)
       /\ st.tree = d.live.tree /\ st.snaps = d.snaps
    BY StoreForm
<1> HIDE DEF st
<1>13. WriteRows(st, b) = StoreOf([d.blocks EXCEPT ![h] = b],
                                  [d.coins EXCEPT ![h] = IF b \in CoinBlocks THEN b ELSE @],
                                  Tip(d), d.live.tree, d.snaps)
    BY <1>12, WriteRowsForm
<1>14. AsStore(d3) = StoreOf(d3.blocks, d3.coins, Tip(d), d.live.tree, d.snaps)
    BY <1>7, StoreForm
<1>15. AsStore(d3) = WriteRows(st, b)
    BY <1>10, <1>11, <1>13, <1>14
<1> QED
    BY <1>4, <1>5, <1>7, <1>15 DEF st, A, B, C

\* Both keys of the tip are written.
LEMMA TipPlay ==
    ASSUME NEW d, IsDisk(d), NEW v, NEW w
    PROVE  LET W == Put("meta", "tip_height", v) \o Put("meta", "tip_hash", w)
               e == Play(d, W)
           IN  /\ IsList(W) /\ IsDisk(e)
               /\ e.meta.tip_height = v /\ e.meta.tip_hash = w
               /\ e.live.tree = d.live.tree /\ e.snaps = d.snaps
               /\ e.blocks = d.blocks /\ e.coins = d.coins
<1> DEFINE A == Put("meta", "tip_height", v)
           B == Put("meta", "tip_hash", w)
           d1 == Play(d, A)
           d2 == Play(d1, B)
<1>1. IsList(A) /\ IsList(B)
    BY PutCells
<1>2. /\ IsDisk(d1)
      /\ \A u \in Trees7 : \A l \in Keys7(u) :
            d1[u][l] = IF u = "meta" /\ l = "tip_height" THEN v ELSE d[u][l]
    BY PutCells
<1> HIDE DEF d1
<1>3. /\ IsDisk(d2)
      /\ \A u \in Trees7 : \A l \in Keys7(u) :
            d2[u][l] = IF u = "meta" /\ l = "tip_hash" THEN w ELSE d1[u][l]
    BY <1>2, PutCells
<1> HIDE DEF d2, A, B
<1>4. IsList(A \o B) /\ Play(d, A \o B) = d2
    BY <1>1, ConcatList, PlayConcat DEF d1, d2
<1>5. d2["meta"]["tip_height"] = v /\ d2["meta"]["tip_hash"] = w
    BY <1>2, <1>3, TreesAre DEF CoreKeys
<1>6. /\ d2["live"] = d["live"] /\ d2["snaps"] = d["snaps"]
      /\ d2["blocks"] = d["blocks"] /\ d2["coins"] = d["coins"]
    <2>1. \A u \in Trees7 : u # "meta" => \A l \in Keys7(u) : d2[u][l] = d[u][l]
        BY <1>2, <1>3
    <2>2. "snaps" \in Trees7 /\ "live" \in Trees7 /\ "blocks" \in Trees7 /\ "coins" \in Trees7
        BY TreesAre
    <2>3. \A u \in Trees7 : u # "meta" => d2[u] = d[u]
        BY <1>3, <2>1, SameTree
    <2> QED BY <2>2, <2>3
<1> QED
    BY <1>3, <1>4, <1>5, <1>6 DEF A, B

\* The rows of doomed blocks are gone from every tree.
LEMMA RemovePlay ==
    ASSUME NEW d, IsDisk(d), NEW S, S \subseteq Heights
    PROVE  LET e == Play(d, RemoveBlocks(S))
           IN  /\ IsList(RemoveBlocks(S)) /\ IsDisk(e)
               /\ e.blocks = [k \in Heights |-> IF k \in S THEN None ELSE d.blocks[k]]
               /\ e.coins = [k \in Heights |-> IF k \in S THEN None ELSE d.coins[k]]
               /\ Tip(e) = Tip(d) /\ e.live.tree = d.live.tree /\ e.snaps = d.snaps
<1> DEFINE W == RemoveBlocks(S)
           e == Play(d, W)
<1>1. /\ IsList(W)
      /\ \A i \in 1 .. Len(W) : W[i].tree \in BlockTrees /\ W[i].key \in S /\ W[i].val = None
      /\ \A h \in S, t \in BlockTrees : \E i \in 1 .. Len(W) : Hits(W[i], t, h)
    BY EraseThreeTrees
<1>2. IsDisk(e)
    BY PlayDisk
<1> HIDE DEF W
<1>3. ASSUME NEW t \in {"blocks", "coins"}, NEW k \in Heights
      PROVE  e[t][k] = IF k \in S THEN None ELSE d[t][k]
    <2>1. t \in Trees7 /\ k \in Keys7(t) /\ t \in BlockTrees
        BY TreesAre DEF BlockTrees
    <2>2. CASE k \in S
        <3>1. PICK i \in 1 .. Len(W) : /\ Hits(W[i], t, k)
                                      /\ \A j \in 1 .. Len(W) : i < j => ~ Hits(W[j], t, k)
            BY <1>1, <2>1, <2>2, LastWrite
        <3>2. e[t][k] = W[i].val
            BY <1>1, <2>1, <3>1, PlayLast
        <3> QED BY <1>1, <2>2, <3>2
    <2>3. CASE k \notin S
        <3>1. \A i \in 1 .. Len(W) : ~ Hits(W[i], t, k)
            BY <2>3, <1>1 DEF Hits
        <3> QED BY <3>1, <2>1, <2>3, <1>1, PlayNone
    <2> QED BY <2>2, <2>3
<1>4. \A u \in Trees7 : \A l \in Keys7(u) : u \notin BlockTrees => e[u][l] = d[u][l]
    <2> SUFFICES ASSUME NEW u \in Trees7, NEW l \in Keys7(u), u \notin BlockTrees
                 PROVE  e[u][l] = d[u][l]
        OBVIOUS
    <2>1. \A i \in 1 .. Len(W) : ~ Hits(W[i], u, l)
        BY <1>1 DEF Hits
    <2> QED BY <1>1, <2>1, PlayNone
<1> HIDE DEF e
<1>5. Tip(e) = Tip(d) /\ e.live.tree = d.live.tree /\ e.snaps = d.snaps
    BY <1>2, <1>4, OthersKept
<1>6. /\ e.blocks = [k \in Heights |-> e.blocks[k]]
      /\ e.coins = [k \in Heights |-> e.coins[k]]
    BY <1>2, RowFunctions
<1>7. \A k \in Heights : /\ e["blocks"][k] = IF k \in S THEN None ELSE d["blocks"][k]
                         /\ e["coins"][k] = IF k \in S THEN None ELSE d["coins"][k]
    BY <1>3
<1> QED
    BY <1>1, <1>2, <1>5, <1>6, <1>7 DEF e, W

-----------------------------------------------------------------------------
(* The operations.                                                          *)

LEMMA CutList == ASSUME NEW d, NEW h PROVE IsList(RemoveSnapsFrom(d, h))
BY TreeSnaps DEF TreeList, Within

\* insert_compact_block.
LEMMA InsertPlay ==
    ASSUME NEW d, IsDisk(d), TreeOK(d), Tip(d) # NoTip => Tip(d).height \in Heights, NEW b \in Hash
    PROVE  AsStore(Play(d, InsertWrites(d, b))) = InsertBlock(AsStore(d), b)
<1> DEFINE h    == HeightOf[b]
           rows == Put("blocks", h, b) \o Put("hashes", h, b)
                       \o When(b \in CoinBlocks, Put("coins", h, b))
           W    == InsertWrites(d, b)
           d1   == Play(d, rows)
           st   == AsStore(d)
           s1   == WriteRows(st, b)
<1>0. h \in Heights /\ h # None /\ b # None
    BY ForkTreeAssumption DEF Heights
<1>1. /\ IsList(rows) /\ IsDisk(d1) /\ AsStore(d1) = s1
      /\ d1.live.tree = d.live.tree /\ d1.snaps = d.snaps /\ Tip(d1) = Tip(d)
    BY <1>0, RowsPlay
<1>2. st.tip = Tip(d)
    BY StoreForm
<1>3. CASE Tip(d) # NoTip /\ h < Tip(d).height
    <2> DEFINE top == Tip(d).height
               cut == RemoveSnapsFrom(d, h)
               R   == RebuildWrites(Play(d, rows \o cut), top)
               d2  == Play(d1, cut)
               s2  == [s1 EXCEPT !.snaps = DeleteFrom(s1.snaps, h)]
    <2>1. W = rows \o (cut \o R)
        BY <1>3 DEF InsertWrites
    <2>2. InsertBlock(st, b) = RebuildTipTree(s2, top)
        BY <1>2, <1>3 DEF InsertBlock
    <2> HIDE DEF rows, st
    <2>3. IsList(cut) /\ Play(d, rows \o cut) = d2
        BY <1>1, CutList, PlayConcat
    <2> HIDE DEF d1
    <2>4. RowsKept(d1, d2) /\ d2.snaps = DeleteFrom(d1.snaps, h) /\ d2.live.tree = d1.live.tree
        BY <1>1, CutPlay
    <2> HIDE DEF d2, cut
    <2>5. AsStore(d2) = s2
        <3>1. AsStore(d2) = StoreOf(d1.blocks, d1.coins, Tip(d1), d1.live.tree, DeleteFrom(d1.snaps, h))
            BY <2>4, StoreForm DEF RowsKept
        <3>2. /\ IsStore(s1) /\ s1.blocks = d1.blocks /\ s1.coins = d1.coins /\ s1.tip = Tip(d1)
              /\ s1.tree = d1.live.tree /\ s1.snaps = d1.snaps
            BY <1>1, StoreForm
        <3> HIDE DEF s1
        <3>3. s2 = StoreOf(s1.blocks, s1.coins, s1.tip, s1.tree, DeleteFrom(s1.snaps, h))
            BY <3>2, SnapsForm
        <3> QED BY <3>1, <3>2, <3>3
    <2>6. IsDisk(d2) /\ top \in Heights
        BY <1>3, <2>4 DEF RowsKept
    <2> HIDE DEF s2, top
    <2>7. R = RebuildWrites(d2, top)
        BY <2>3
    <2>8. AsStore(Play(d2, R)) = RebuildTipTree(s2, top)
        BY <2>5, <2>6, <2>7, RebuildPlay
    <2>9. IsList(R)
        BY <2>6, <2>7, TreeRebuild DEF TreeList, Within
    <2> HIDE DEF R
    <2>10. IsList(cut \o R) /\ Play(d1, cut \o R) = Play(d2, R)
        BY <1>1, <2>3, <2>9, ConcatList, PlayConcat DEF d2
    <2>11. Play(d, W) = Play(d2, R)
        BY <1>1, <2>1, <2>10, PlayConcat DEF d1
    <2> QED BY <2>2, <2>8, <2>11 DEF st
<1>4. CASE ~ (Tip(d) # NoTip /\ h < Tip(d).height)
    <2> DEFINE tip == Put("meta", "tip_height", h) \o Put("meta", "tip_hash", b)
               new == [height |-> h, hash |-> b]
               A   == AppendWrites(Play(d, rows \o tip), h, b)
               d2  == Play(d1, tip)
               s2  == [s1 EXCEPT !.tip = new]
    <2>1. W = rows \o (tip \o A)
        BY <1>4 DEF InsertWrites
    <2>2. InsertBlock(st, b) = AppendCoins(s2, h, b)
        BY <1>2, <1>4 DEF InsertBlock
    <2> HIDE DEF rows, st
    <2>4. /\ IsList(tip) /\ IsDisk(d2) /\ d2.meta.tip_height = h /\ d2.meta.tip_hash = b
          /\ d2.live.tree = d1.live.tree /\ d2.snaps = d1.snaps
          /\ d2.blocks = d1.blocks /\ d2.coins = d1.coins
        BY <1>1, TipPlay
    <2> HIDE DEF tip
    <2>3. Play(d, rows \o tip) = d2
        BY <1>1, <2>4, PlayConcat
    <2> HIDE DEF d1, d2
    <2>5. AsStore(d2) = s2
        <3>1. Tip(d2) = new
            BY <1>0, <2>4 DEF Tip
        <3>2. AsStore(d2) = StoreOf(d1.blocks, d1.coins, new, d1.live.tree, d1.snaps)
            BY <2>4, <3>1, StoreForm
        <3>3. /\ IsStore(s1) /\ s1.blocks = d1.blocks /\ s1.coins = d1.coins
              /\ s1.tree = d1.live.tree /\ s1.snaps = d1.snaps
            BY <1>1, StoreForm
        <3> HIDE DEF s1, new
        <3>4. s2 = StoreOf(s1.blocks, s1.coins, new, s1.tree, s1.snaps)
            BY <3>3, TipForm
        <3> QED BY <3>2, <3>3, <3>4
    <2>6. TreeOK(d2)
        BY <1>1, <2>4 DEF TreeOK
    <2> HIDE DEF s2
    <2>7. A = AppendWrites(d2, h, b)
        BY <2>3
    <2>8. AsStore(Play(d2, A)) = AppendCoins(s2, h, b)
        BY <1>0, <2>4, <2>5, <2>6, <2>7, AppendPlay
    <2>9. IsList(A)
        BY <1>0, <2>7, TreeAppend DEF TreeList, Within
    <2> HIDE DEF A
    <2>10. IsList(tip \o A) /\ Play(d1, tip \o A) = Play(d2, A)
        BY <1>1, <2>4, <2>9, ConcatList, PlayConcat DEF d2
    <2>11. Play(d, W) = Play(d2, A)
        BY <1>1, <2>1, <2>10, PlayConcat DEF d1
    <2> QED BY <2>2, <2>8, <2>11 DEF st
<1> QED
    BY <1>3, <1>4

\* rewind_to_height.
LEMMA RewindPlay ==
    ASSUME NEW d, IsDisk(d), NEW h \in Heights
    PROVE  AsStore(Play(d, RewindWrites(d, h))) = Rewind(AsStore(d), h)
<1> DEFINE P    == {k \in Heights : k > h}
           S    == RowsIn(d.blocks, P)
           gone == RemoveBlocks(S)
           put  == Put("meta", "tip_height", h) \o Put("meta", "tip_hash", d.blocks[h])
           none == Put("meta", "tip_height", None) \o Put("meta", "tip_hash", None)
           tip  == IF d.blocks[h] # None THEN put ELSE When(h = 0, none)
           cut  == RemoveSnapsFrom(d, h + 1)
           R    == RebuildWrites(Play(d, gone \o tip \o cut), h)
           W    == RewindWrites(d, h)
           d1   == Play(d, gone)
           d2   == Play(d1, tip)
           d3   == Play(d2, cut)
           st   == AsStore(d)
           new  == IF d.blocks[h] # None THEN [height |-> h, hash |-> d.blocks[h]]
                   ELSE IF h = 0 THEN NoTip ELSE Tip(d)
           less == DeleteFrom(d.snaps, h + 1)
<1>0. h # None
    BY ForkTreeAssumption DEF Heights
<1>1. W = (gone \o tip \o cut) \o R
    BY DEF RewindWrites, Erase
<1>2. S \subseteq Heights /\ P \subseteq Heights
    BY DEF RowsIn
<1>3. /\ IsStore(st) /\ st.blocks = d.blocks /\ st.coins = d.coins /\ st.tip = Tip(d)
      /\ st.tree = d.live.tree /\ st.snaps = d.snaps
    BY StoreForm
<1>4. /\ IsList(gone) /\ IsDisk(d1)
      /\ d1.blocks = DeleteWithBlock(st, d.blocks, P) /\ d1.coins = DeleteWithBlock(st, d.coins, P)
      /\ Tip(d1) = Tip(d) /\ d1.live.tree = d.live.tree /\ d1.snaps = d.snaps
    <2>1. /\ DeleteWithBlock(st, d.blocks, P) = [k \in Heights |-> IF k \in S THEN None ELSE d.blocks[k]]
          /\ DeleteWithBlock(st, d.coins, P) = [k \in Heights |-> IF k \in S THEN None ELSE d.coins[k]]
        <3> HIDE DEF P, st
        <3>1. \A k \in Heights : k \in S <=> k \in P /\ st.blocks[k] # None
            BY <1>3 DEF RowsIn
        <3> HIDE DEF S
        <3> QED BY <3>1 DEF DeleteWithBlock
    <2> HIDE DEF st, S, P
    <2> QED BY <1>2, <2>1, RemovePlay
<1>5. Rewind(st, h) =
          RebuildTipTree(StoreOf(d1.blocks, d1.coins, new, d.live.tree, less), h)
    <2> DEFINE kept == [st EXCEPT !.blocks = DeleteWithBlock(st, st.blocks, P),
                                  !.coins  = DeleteWithBlock(st, st.coins, P)]
    <2>1. Rewind(st, h) = RebuildTipTree([kept EXCEPT !.tip = new, !.snaps = less], h)
        BY <1>3 DEF Rewind
    <2> HIDE DEF st, P, S, d1, gone, new, less
    <2>2. kept = StoreOf(d1.blocks, d1.coins, st.tip, st.tree, st.snaps)
        <3>1. kept = [st EXCEPT !.blocks = d1.blocks, !.coins = d1.coins]
            BY <1>3, <1>4
        <3> HIDE DEF kept
        <3> QED BY <1>3, <3>1, BlocksCoinsForm
    <2> HIDE DEF kept
    <2>3. /\ IsStore(kept) /\ kept.blocks = d1.blocks /\ kept.coins = d1.coins
          /\ kept.tree = d.live.tree
        BY <1>3, <2>2 DEF IsStore, StoreOf
    <2>4. [kept EXCEPT !.tip = new, !.snaps = less] =
              StoreOf(kept.blocks, kept.coins, new, kept.tree, less)
        BY <2>3, TipSnapsForm
    <2> QED BY <2>1, <2>3, <2>4
<1> HIDE DEF d1, gone, st, S, P
<1>6. /\ IsList(tip) /\ IsDisk(d2) /\ Tip(d2) = new
      /\ d2.live.tree = d1.live.tree /\ d2.snaps = d1.snaps
      /\ d2.blocks = d1.blocks /\ d2.coins = d1.coins
    <2>1. CASE d.blocks[h] # None
        <3>1. tip = put
            BY <2>1
        <3>2. /\ IsList(put) /\ IsDisk(Play(d1, put))
              /\ Play(d1, put).meta.tip_height = h /\ Play(d1, put).meta.tip_hash = d.blocks[h]
              /\ Play(d1, put).live.tree = d1.live.tree /\ Play(d1, put).snaps = d1.snaps
              /\ Play(d1, put).blocks = d1.blocks /\ Play(d1, put).coins = d1.coins
            BY <1>4, TipPlay
        <3> HIDE DEF put, tip
        <3>3. Tip(Play(d1, put)) = new
            BY <1>0, <2>1, <3>2 DEF Tip
        <3> QED BY <3>1, <3>2, <3>3
    <2>2. CASE d.blocks[h] = None /\ h = 0
        <3>1. tip = none
            BY <2>2 DEF When
        <3>2. /\ IsList(none) /\ IsDisk(Play(d1, none))
              /\ Play(d1, none).meta.tip_height = None
              /\ Play(d1, none).live.tree = d1.live.tree /\ Play(d1, none).snaps = d1.snaps
              /\ Play(d1, none).blocks = d1.blocks /\ Play(d1, none).coins = d1.coins
            BY <1>4, TipPlay
        <3> HIDE DEF none, tip
        <3>3. Tip(Play(d1, none)) = new
            BY <2>2, <3>2 DEF Tip
        <3> QED BY <3>1, <3>2, <3>3
    <2>3. CASE d.blocks[h] = None /\ h # 0
        <3>1. tip = <<>>
            BY <2>3 DEF When
        <3>2. Play(d1, <<>>) = d1
            BY <1>4, PlayEmpty
        <3>3. Tip(d1) = new
            BY <1>4, <2>3
        <3> HIDE DEF tip
        <3> QED BY <1>4, <3>1, <3>2, <3>3, NoWrite
    <2> QED BY <2>1, <2>2, <2>3
<1> HIDE DEF d2, tip, new
<1>7. RowsKept(d2, d3) /\ d3.snaps = DeleteFrom(d2.snaps, h + 1) /\ d3.live.tree = d2.live.tree
    BY <1>4, <1>6, CutPlay
<1>8. IsList(cut)
    BY CutList
<1> HIDE DEF d3, cut
<1>9. IsDisk(d3) /\ AsStore(d3) = StoreOf(d1.blocks, d1.coins, new, d.live.tree, less)
    BY <1>4, <1>6, <1>7, StoreForm DEF RowsKept
<1>10. IsList(gone \o tip \o cut) /\ Play(d, gone \o tip \o cut) = d3
    <2>1. IsList(gone \o tip) /\ Play(d, gone \o tip) = d2
        BY <1>4, <1>6, ConcatList, PlayConcat DEF d1, d2
    <2> QED BY <1>8, <2>1, ConcatList, PlayConcat DEF d3
<1>11. R = RebuildWrites(d3, h)
    BY <1>10
<1>12. IsList(R)
    BY <1>11, TreeRebuild DEF TreeList, Within
<1>13. AsStore(Play(d3, R)) = RebuildTipTree(AsStore(d3), h)
    BY <1>9, <1>11, RebuildPlay
<1> HIDE DEF R, W
<1>14. Play(d, W) = Play(d3, R)
    BY <1>1, <1>10, <1>12, PlayConcat
<1> QED
    BY <1>5, <1>9, <1>13, <1>14 DEF W, st

\* prune_with_retention.
LEMMA PrunePlay ==
    ASSUME NEW d, IsDisk(d), Tip(d) # NoTip => Tip(d).height \in Heights
    PROVE  AsStore(Play(d, PruneWrites(d))) = Prune(AsStore(d), Retention)
<1> DEFINE P  == {k \in Heights : k < Tip(d).height - Retention}
           S  == RowsIn(d.blocks, P)
           st == AsStore(d)
           W  == RemoveBlocks(S)
           e  == Play(d, W)
<1>1. /\ IsStore(st) /\ st.blocks = d.blocks /\ st.coins = d.coins /\ st.tip = Tip(d)
      /\ st.tree = d.live.tree /\ st.snaps = d.snaps
    BY StoreForm
<1>2. CASE Tip(d) # NoTip /\ Tip(d).height > Retention
    <2>1. PruneWrites(d) = W
        BY <1>2 DEF PruneWrites, When
    <2>2. Tip(d).height \in Nat
        BY <1>2, ForkTreeAssumption DEF Heights
    <2>3. Prune(st, Retention) = [st EXCEPT !.blocks = DeleteWithBlock(st, st.blocks, P),
                                            !.coins  = DeleteWithBlock(st, st.coins, P)]
        <3>1. ~ (st.tip = NoTip \/ st.tip.height <= Retention)
            BY <1>1, <1>2, <2>2, RetentionAssumption
        <3>2. P = {k \in Heights : k < st.tip.height - Retention}
            BY <1>1
        <3> HIDE DEF st, P
        <3> QED BY <3>1, <3>2 DEF Prune
    <2>4. S \subseteq Heights /\ P \subseteq Heights
        BY DEF RowsIn
    <2>5. /\ DeleteWithBlock(st, d.blocks, P) = [k \in Heights |-> IF k \in S THEN None ELSE d.blocks[k]]
          /\ DeleteWithBlock(st, d.coins, P) = [k \in Heights |-> IF k \in S THEN None ELSE d.coins[k]]
        <3> HIDE DEF P, st
        <3>1. \A k \in Heights : k \in S <=> k \in P /\ st.blocks[k] # None
            BY <1>1 DEF RowsIn
        <3> HIDE DEF S
        <3> QED BY <3>1 DEF DeleteWithBlock
    <2> HIDE DEF st, P, S, W
    <2>6. /\ IsDisk(e) /\ e.blocks = DeleteWithBlock(st, d.blocks, P)
          /\ e.coins = DeleteWithBlock(st, d.coins, P)
          /\ Tip(e) = Tip(d) /\ e.live.tree = d.live.tree /\ e.snaps = d.snaps
        BY <2>4, <2>5, RemovePlay DEF W
    <2> HIDE DEF e
    <2>7. AsStore(e) = StoreOf(e.blocks, e.coins, Tip(d), d.live.tree, d.snaps)
        BY <2>6, StoreForm
    <2>8. Prune(st, Retention) = StoreOf(e.blocks, e.coins, st.tip, st.tree, st.snaps)
        <3>1. Prune(st, Retention) = [st EXCEPT !.blocks = e.blocks, !.coins = e.coins]
            BY <1>1, <2>3, <2>6
        <3> QED BY <1>1, <3>1, BlocksCoinsForm
    <2> QED BY <1>1, <2>1, <2>7, <2>8 DEF e, st
<1>3. CASE ~ (Tip(d) # NoTip /\ Tip(d).height > Retention)
    <2>1. PruneWrites(d) = <<>>
        BY <1>3 DEF PruneWrites, When
    <2>2. st.tip = NoTip \/ st.tip.height <= Retention
        BY <1>1, <1>3, ForkTreeAssumption, RetentionAssumption DEF Heights
    <2>3. Prune(st, Retention) = st
        <3> HIDE DEF st
        <3> QED BY <2>2 DEF Prune
    <2> QED BY <2>1, <2>3, PlayEmpty
<1> QED
    BY <1>2, <1>3

-----------------------------------------------------------------------------
(* The tip tree ends at a height, on disk and in memory.                    *)

TypedWrite(w) ==
    /\ Hits(w, "live", "tree") => w.val = NoTree \/ w.val.height \in Heights
    /\ Hits(w, "meta", "merkle_height") => w.val \in Heights \cup {None}

TypedList(W) == IsList(W) /\ \A i \in 1 .. Len(W) : TypedWrite(W[i])

TypedTree(d) == TreeOK(d) /\ d.meta.merkle_height \in Heights \cup {None}

LEMMA TypedConcat ==
    ASSUME NEW A, NEW B, TypedList(A), TypedList(B)
    PROVE  TypedList(A \o B)
<1> DEFINE C == A \o B
<1>1. /\ IsList(C) /\ Len(C) = Len(A) + Len(B)
      /\ \A i \in 1 .. Len(A) : C[i] = A[i]
      /\ \A i \in 1 .. Len(B) : C[Len(A) + i] = B[i]
      /\ Len(A) \in Nat /\ Len(B) \in Nat
    BY ConcatList, ListDomain DEF TypedList
<1> HIDE DEF C
<1>2. ASSUME NEW i \in 1 .. Len(C) PROVE TypedWrite(C[i])
    <2>1. CASE i \in 1 .. Len(A)
        BY <2>1, <1>1 DEF TypedList
    <2>2. CASE i \notin 1 .. Len(A)
        <3>1. i - Len(A) \in 1 .. Len(B) /\ i = Len(A) + (i - Len(A))
            BY <2>2, <1>1
        <3>2. C[i] = B[i - Len(A)]
            BY <3>1, <1>1
        <3> QED BY <3>1, <3>2 DEF TypedList
    <2> QED BY <2>1, <2>2
<1> QED
    BY <1>1, <1>2 DEF TypedList, C

LEMMA TypedPut ==
    ASSUME NEW t, NEW k, NEW v,
           (t = "live" /\ k = "tree") => v = NoTree \/ v.height \in Heights,
           (t = "meta" /\ k = "merkle_height") => v \in Heights \cup {None}
    PROVE  TypedList(Put(t, k, v))
<1> DEFINE w == [tree |-> t, key |-> k, val |-> v]
<1>1. TypedWrite(w)
    BY DEF TypedWrite, Hits
<1>2. Put(t, k, v) = <<w>>
    BY DEF Put
<1> HIDE DEF w
<1>3. IsList(<<w>>) /\ Len(<<w>>) = 1 /\ <<w>>[1] = w
    BY OneWrite
<1> QED
    BY <1>1, <1>2, <1>3 DEF TypedList

LEMMA TypedErase ==
    ASSUME NEW t, NEW k, t # "live"
    PROVE  TypedList(Erase(t, k))
BY TypedPut DEF Erase

LEMMA TypedWhen ==
    ASSUME NEW c, NEW W, c => TypedList(W)
    PROVE  TypedList(When(c, W))
<1>1. TypedList(<<>>)
    BY NoWrite DEF TypedList
<1> QED
    BY <1>1 DEF When

\* Rows of heights are of no concern.
LEMMA TypedRows ==
    ASSUME NEW W, IsList(W), \A i \in 1 .. Len(W) : W[i].tree \notin {"live", "meta"}
    PROVE  TypedList(W)
BY DEF TypedList, TypedWrite, Hits

LEMMA TypedEraseTree ==
    ASSUME NEW t \in {"blocks", "hashes", "coins", "snaps"}, NEW S, S \subseteq Heights
    PROVE  TypedList(EraseRows(<<t>>, S))
<1> DEFINE W == EraseRows(<<t>>, S)
<1>1. /\ IsList(W) /\ Len(W) = Cardinality(S)
      /\ \A i \in 1 .. Cardinality(S) : W[i] = [tree |-> t, key |-> Ascending(S)[i], val |-> None]
    BY EraseOneTree
<1> HIDE DEF W
<1>2. TypedList(W)
    BY <1>1, TypedRows
<1> QED
    BY <1>2 DEF W

LEMMA TypedCut == ASSUME NEW d, NEW h PROVE TypedList(RemoveSnapsFrom(d, h))
<1> DEFINE S == RowsIn(d.snaps, {k \in Heights : k >= h})
<1>1. S \subseteq Heights
    BY DEF RowsIn
<1> QED
    BY <1>1, TypedEraseTree DEF RemoveSnapsFrom

LEMMA TypedRemove ==
    ASSUME NEW S, S \subseteq Heights
    PROVE  TypedList(RemoveBlocks(S))
<1> DEFINE W == RemoveBlocks(S)
<1>1. IsList(W) /\ \A i \in 1 .. Len(W) : W[i].tree \in BlockTrees
    BY EraseThreeTrees
<1> HIDE DEF W
<1>2. TypedList(W)
    BY <1>1, TypedRows DEF BlockTrees
<1> QED
    BY <1>2 DEF W

LEMMA TypedStore ==
    ASSUME NEW prev, NEW h \in Heights, NEW leaves
    PROVE  TypedList(StoreTreeWrites(prev, h, leaves))
<1> DEFINE A == Put("meta", "merkle_tree", leaves)
           B == Put("meta", "merkle_height", h)
           C == Put("snaps", h, leaves)
           D == When(prev \notin {None, h} /\ prev % Interval # 0, Erase("snaps", prev))
           E == Put("live", "tree", [height |-> h, leaves |-> leaves])
<1>1. TypedList(A) /\ TypedList(B) /\ TypedList(C) /\ TypedList(E)
    BY TypedPut
<1>2. TypedList(D)
    BY TypedErase, TypedWhen
<1>3. StoreTreeWrites(prev, h, leaves) = A \o B \o C \o D \o E
    BY DEF StoreTreeWrites
<1> HIDE DEF A, B, C, D, E
<1>4. TypedList(A \o B)
    BY <1>1, TypedConcat
<1>5. TypedList(A \o B \o C)
    BY <1>1, <1>4, TypedConcat
<1>6. TypedList(A \o B \o C \o D)
    BY <1>2, <1>5, TypedConcat
<1> QED
    BY <1>1, <1>3, <1>6, TypedConcat

LEMMA TypedRebuild ==
    ASSUME NEW d, IsDisk(d), NEW h \in Heights
    PROVE  TypedList(RebuildWrites(d, h))
<1>1. CASE h = 0 /\ d.blocks[0] = None
    <2> DEFINE A == Erase("meta", "merkle_tree")
               B == Erase("meta", "merkle_height")
               C == RemoveSnapsFrom(d, 0)
               D == Put("live", "tree", NoTree)
    <2>1. TypedList(A) /\ TypedList(B) /\ TypedList(C) /\ TypedList(D)
        BY TypedPut, TypedErase, TypedCut
    <2>2. RebuildWrites(d, h) = A \o B \o C \o D
        BY <1>1 DEF RebuildWrites
    <2> HIDE DEF A, B, C, D
    <2>3. TypedList(A \o B)
        BY <2>1, TypedConcat
    <2>4. TypedList(A \o B \o C)
        BY <2>1, <2>3, TypedConcat
    <2> QED BY <2>1, <2>2, <2>4, TypedConcat
<1>2. CASE ~ (h = 0 /\ d.blocks[0] = None)
    <2> DEFINE seed == SeedOf(d, h)
               from == FromOf(d, h)
               lv   == LeavesOf(d, h)
               A == RemoveSnapsFrom(d, h + 1)
               B == BoundWrites(d, lv, from, h)
               C == StoreTreeWrites(seed, h, Replay(d, lv, from, h))
    <2>1. RebuildWrites(d, h) = A \o B \o C
        BY <1>2 DEF RebuildWrites, SeedOf, FromOf, LeavesOf, BoundWrites
    <2>2. from \in Nat
        BY SeedIs
    <2> HIDE DEF seed, from, lv
    <2>3. TypedList(A) /\ TypedList(C)
        BY TypedCut, TypedStore
    <2>4. IsList(B) /\ \A i \in 1 .. Len(B) : B[i].tree = "snaps"
        BY <2>2, BoundsPlay
    <2> HIDE DEF A, B, C
    <2>5. TypedList(B)
        BY <2>4, TypedRows
    <2>6. TypedList(A \o B)
        BY <2>3, <2>5, TypedConcat
    <2> QED BY <2>1, <2>3, <2>6, TypedConcat
<1> QED
    BY <1>1, <1>2

LEMMA TypedAppend ==
    ASSUME NEW d, IsDisk(d), NEW h \in Heights, NEW b
    PROVE  TypedList(AppendWrites(d, h, b))
<1> DEFINE prev    == d.live.tree.height
           stale   == prev # None /\ h # prev + 1
           rebuild == When(stale, RebuildWrites(d, IF h = 0 THEN 0 ELSE h - 1))
           base    == Play(d, rebuild).live.tree
           C       == StoreTreeWrites(base.height, h,
                          [a \in Hash |-> base.leaves[a] + IF a = b /\ b \in CoinBlocks THEN 1 ELSE 0])
           B       == When(~ (stale /\ h = 0), C)
<1>1. AppendWrites(d, h, b) = rebuild \o B
    BY DEF AppendWrites
<1>2. (IF h = 0 THEN 0 ELSE h - 1) \in Heights
    BY ForkTreeAssumption DEF Heights
<1>3. TypedList(rebuild)
    BY <1>2, TypedRebuild, TypedWhen
<1> HIDE DEF rebuild, stale
<1>4. TypedList(B)
    BY TypedStore, TypedWhen
<1> HIDE DEF B
<1> QED
    BY <1>1, <1>3, <1>4, TypedConcat

LEMMA TypedTip ==
    ASSUME NEW v, NEW w
    PROVE  TypedList(Put("meta", "tip_height", v) \o Put("meta", "tip_hash", w))
<1>1. TypedList(Put("meta", "tip_height", v)) /\ TypedList(Put("meta", "tip_hash", w))
    BY TypedPut
<1> QED
    BY <1>1, TypedConcat

LEMMA TypedInsert ==
    ASSUME NEW d, IsDisk(d), Tip(d) # NoTip => Tip(d).height \in Heights, NEW b \in Hash
    PROVE  TypedList(InsertWrites(d, b))
<1> DEFINE h    == HeightOf[b]
           A    == Put("blocks", h, b)
           B    == Put("hashes", h, b)
           C    == When(b \in CoinBlocks, Put("coins", h, b))
           rows == A \o B \o C
           tip  == Put("meta", "tip_height", h) \o Put("meta", "tip_hash", b)
           cut  == RemoveSnapsFrom(d, h)
           d1   == Play(d, rows \o cut)
           d2   == Play(d, rows \o tip)
           tree == RebuildWrites(d1, Tip(d).height)
           app  == AppendWrites(d2, h, b)
           low  == Tip(d) # NoTip /\ h < Tip(d).height
<1>1. InsertWrites(d, b) = rows \o (IF low THEN cut \o tree ELSE tip \o app)
    BY DEF InsertWrites
<1>2. TypedList(A) /\ TypedList(B) /\ TypedList(C)
    BY TypedPut, TypedWhen
<1>3. TypedList(tip) /\ TypedList(cut) /\ h \in Heights
    BY TypedTip, TypedCut, ForkTreeAssumption
<1>4. IsDisk(d1) /\ IsDisk(d2)
    BY PlayDisk
<1> HIDE DEF A, B, C, tip, cut, h, d1, d2
<1>5. TypedList(A \o B)
    BY <1>2, TypedConcat
<1>6. TypedList(rows)
    BY <1>2, <1>5, TypedConcat
<1> HIDE DEF rows
<1>7. TypedList(app)
    BY <1>3, <1>4, TypedAppend
<1>8. low => TypedList(tree)
    BY <1>4, TypedRebuild
<1> HIDE DEF app, tree
<1>9. TypedList(tip \o app)
    BY <1>3, <1>7, TypedConcat
<1>10. low => TypedList(cut \o tree)
    BY <1>3, <1>8, TypedConcat
<1> HIDE DEF low
<1>11. TypedList(rows \o (tip \o app))
    BY <1>6, <1>9, TypedConcat
<1>12. low => TypedList(rows \o (cut \o tree))
    BY <1>6, <1>10, TypedConcat
<1> QED
    BY <1>1, <1>11, <1>12

LEMMA TypedRewind ==
    ASSUME NEW d, IsDisk(d), NEW h \in Heights
    PROVE  TypedList(RewindWrites(d, h))
<1> DEFINE S     == RowsIn(d.blocks, {k \in Heights : k > h})
           gone  == RemoveBlocks(S)
           reset == Put("meta", "tip_height", None) \o Put("meta", "tip_hash", None)
           set   == Put("meta", "tip_height", h) \o Put("meta", "tip_hash", d.blocks[h])
           tip   == IF d.blocks[h] # None THEN set ELSE When(h = 0, reset)
           rows  == gone \o tip
           cut   == RemoveSnapsFrom(d, h + 1)
           d1    == Play(d, rows \o cut)
           tree  == RebuildWrites(d1, h)
<1>1. RewindWrites(d, h) = rows \o cut \o tree
    BY DEF RewindWrites, Erase
<1>2. TypedList(gone)
    <2>1. S \subseteq Heights
        BY DEF RowsIn
    <2> HIDE DEF S
    <2> QED BY <2>1, TypedRemove
<1>3. TypedList(tip)
    <2>1. TypedList(set) /\ TypedList(reset)
        BY TypedTip
    <2> HIDE DEF set, reset
    <2>2. TypedList(When(h = 0, reset))
        BY <2>1, TypedWhen
    <2> QED BY <2>1, <2>2
<1>4. TypedList(cut) /\ IsDisk(d1)
    BY TypedCut, PlayDisk
<1> HIDE DEF gone, tip, cut, d1
<1>5. TypedList(rows)
    BY <1>2, <1>3, TypedConcat
<1>6. TypedList(tree)
    BY <1>4, TypedRebuild
<1> HIDE DEF rows, tree
<1>7. TypedList(rows \o cut)
    BY <1>4, <1>5, TypedConcat
<1> QED
    BY <1>1, <1>6, <1>7, TypedConcat

LEMMA TypedPrune == ASSUME NEW d PROVE TypedList(PruneWrites(d))
<1> DEFINE S == RowsIn(d.blocks, {k \in Heights : k < Tip(d).height - Retention})
<1>1. S \subseteq Heights
    BY DEF RowsIn
<1>2. PruneWrites(d) = When(Tip(d) # NoTip /\ Tip(d).height > Retention, RemoveBlocks(S))
    BY DEF PruneWrites
<1> HIDE DEF S
<1>3. TypedList(RemoveBlocks(S))
    BY <1>1, TypedRemove
<1> QED
    BY <1>2, <1>3, TypedWhen

LEMMA TypedMove ==
    ASSUME NEW d, NEW old, NEW new, old # "merkle_height", new # "merkle_height"
    PROVE  TypedList(MoveSecret(d, old, new))
<1> DEFINE A == When(d.meta[new] = None /\ d.meta[old] # None, Put("meta", new, d.meta[old]))
           B == When(d.meta[old] # None, Erase("meta", old))
<1>1. TypedList(Put("meta", new, d.meta[old])) /\ TypedList(Erase("meta", old))
    BY TypedPut, TypedErase
<1>2. TypedList(A) /\ TypedList(B)
    BY <1>1, TypedWhen
<1>3. MoveSecret(d, old, new) = A \o B
    BY DEF MoveSecret
<1> HIDE DEF A, B
<1> QED
    BY <1>2, <1>3, TypedConcat

LEMMA TypedRetire == ASSUME NEW d PROVE TypedList(RetireWrites(d))
<1> DEFINE A == MoveSecret(d, "attest_v2", "attest")
           B == MoveSecret(d, "pepper_v1", "pepper")
           C == When(d.pubkeys.current = None /\ d.pubkeys.old # None,
                     Put("pubkeys", "current", d.pubkeys.old))
           D == When(d.pubkeys.old # None, Erase("pubkeys", "old"))
<1>1. TypedList(A) /\ TypedList(B)
    BY TypedMove
<1>2. TypedList(Put("pubkeys", "current", d.pubkeys.old)) /\ TypedList(Erase("pubkeys", "old"))
    BY TypedPut, TypedErase
<1>3. TypedList(C) /\ TypedList(D)
    BY <1>2, TypedWhen
<1>4. RetireWrites(d) = A \o B \o C \o D
    BY DEF RetireWrites
<1> HIDE DEF A, B, C, D
<1>5. TypedList(A \o B)
    BY <1>1, TypedConcat
<1>6. TypedList(A \o B \o C)
    BY <1>3, <1>5, TypedConcat
<1> QED
    BY <1>3, <1>4, <1>6, TypedConcat

LEMMA TypedClear == ASSUME NEW d PROVE TypedList(ClearWrites(d))
<1> DEFINE A == EraseRows(<<"blocks">>, RowsIn(d.blocks, Heights))
           B == EraseRows(<<"hashes">>, RowsIn(d.hashes, Heights))
           C == EraseRows(<<"coins">>, RowsIn(d.coins, Heights))
           D == RemoveSnapsFrom(d, 0)
           E == Erase("meta", "tip_height")
           F == Erase("meta", "tip_hash")
           G == Erase("meta", "merkle_tree")
           H == Erase("meta", "merkle_height")
<1>1. ClearWrites(d) = A \o B \o C \o D \o E \o F \o G \o H
    BY DEF ClearWrites
<1>2. TypedList(A) /\ TypedList(B) /\ TypedList(C) /\ TypedList(D)
    <2>1. /\ RowsIn(d.blocks, Heights) \subseteq Heights
          /\ RowsIn(d.hashes, Heights) \subseteq Heights
          /\ RowsIn(d.coins, Heights) \subseteq Heights
        BY DEF RowsIn
    <2> QED BY <2>1, TypedEraseTree, TypedCut
<1>3. TypedList(E) /\ TypedList(F) /\ TypedList(G) /\ TypedList(H)
    BY TypedErase
<1> HIDE DEF A, B, C, D, E, F, G, H
<1>4. TypedList(A \o B)
    BY <1>2, TypedConcat
<1>5. TypedList(A \o B \o C)
    BY <1>2, <1>4, TypedConcat
<1>6. TypedList(A \o B \o C \o D)
    BY <1>2, <1>5, TypedConcat
<1>7. TypedList(A \o B \o C \o D \o E)
    BY <1>3, <1>6, TypedConcat
<1>8. TypedList(A \o B \o C \o D \o E \o F)
    BY <1>3, <1>7, TypedConcat
<1>9. TypedList(A \o B \o C \o D \o E \o F \o G)
    BY <1>3, <1>8, TypedConcat
<1> QED
    BY <1>1, <1>3, <1>9, TypedConcat

LEMMA TypedFormat == ASSUME NEW d PROVE TypedList(FormatWrites(d))
<1>1. TypedList(Put("meta", "format", Format))
    BY TypedPut
<1>2. TypedList(ClearWrites(d) \o Put("meta", "format", Format))
    BY <1>1, TypedClear, TypedConcat
<1>3. TypedList(When(d.meta.format = None, Put("meta", "format", Format)))
    BY <1>1, TypedWhen
<1> QED
    BY <1>2, <1>3 DEF FormatWrites

\* Typed writes keep a typed tree.
LEMMA TypedPlay ==
    ASSUME NEW d, IsDisk(d), TypedTree(d), NEW W, TypedList(W)
    PROVE  TypedTree(Play(d, W))
<1>0. IsList(W) /\ \A i \in 1 .. Len(W) : TypedWrite(W[i])
    BY DEF TypedList
<1>1. /\ "live" \in Trees7 /\ "tree" \in Keys7("live")
      /\ "meta" \in Trees7 /\ "merkle_height" \in Keys7("meta")
    BY TreesAre DEF MetaKeys, EmptyDisk, Trees7, Keys7
<1>2. Play(d, W)["live"]["tree"] = NoTree \/ Play(d, W)["live"]["tree"].height \in Heights
    <2>1. CASE \A j \in 1 .. Len(W) : ~ Hits(W[j], "live", "tree")
        <3>1. Play(d, W)["live"]["tree"] = d["live"]["tree"]
            BY <1>0, <1>1, <2>1, PlayNone
        <3> QED BY <3>1 DEF TypedTree, TreeOK
    <2>2. CASE \E i \in 1 .. Len(W) : /\ Hits(W[i], "live", "tree")
                                      /\ \A j \in 1 .. Len(W) : i < j => ~ Hits(W[j], "live", "tree")
        <3>1. PICK i \in 1 .. Len(W) : /\ Hits(W[i], "live", "tree")
                                      /\ \A j \in 1 .. Len(W) : i < j => ~ Hits(W[j], "live", "tree")
            BY <2>2
        <3>2. Play(d, W)["live"]["tree"] = W[i].val
            BY <1>0, <1>1, <3>1, PlayLast
        <3> QED BY <1>0, <3>1, <3>2 DEF TypedWrite
    <2> QED BY <1>0, <2>1, <2>2, LastWrite
<1>3. Play(d, W)["meta"]["merkle_height"] \in Heights \cup {None}
    <2>1. CASE \A j \in 1 .. Len(W) : ~ Hits(W[j], "meta", "merkle_height")
        <3>1. Play(d, W)["meta"]["merkle_height"] = d["meta"]["merkle_height"]
            BY <1>0, <1>1, <2>1, PlayNone
        <3> QED BY <3>1 DEF TypedTree
    <2>2. CASE \E i \in 1 .. Len(W) :
                   /\ Hits(W[i], "meta", "merkle_height")
                   /\ \A j \in 1 .. Len(W) : i < j => ~ Hits(W[j], "meta", "merkle_height")
        <3>1. PICK i \in 1 .. Len(W) :
                   /\ Hits(W[i], "meta", "merkle_height")
                   /\ \A j \in 1 .. Len(W) : i < j => ~ Hits(W[j], "meta", "merkle_height")
            BY <2>2
        <3>2. Play(d, W)["meta"]["merkle_height"] = W[i].val
            BY <1>0, <1>1, <3>1, PlayLast
        <3> QED BY <1>0, <3>1, <3>2 DEF TypedWrite
    <2> QED BY <1>0, <2>1, <2>2, LastWrite
<1> QED
    BY <1>2, <1>3 DEF TypedTree, TreeOK

LEMMA TypedStart ==
    ASSUME NEW d, IsDisk(d), TypedTree(d)
    PROVE  TypedList(StartWrites(d))
<1> DEFINE R     == RetireWrites(d)
           F     == FormatWrites(d)
           early == R \o F
           e     == Play(d, early)
           tree  == TreeOnDisk(e)
           I     == When(tree # NoTree /\ e.snaps[tree.height] = None,
                         Put("snaps", tree.height, tree.leaves))
           L     == Put("live", "tree", tree)
<1>1. StartWrites(d) = early \o I \o L
    BY DEF StartWrites
<1>2. TypedList(R) /\ TypedList(F)
    BY TypedRetire, TypedFormat
<1> HIDE DEF R, F
<1>3. TypedList(early)
    BY <1>2, TypedConcat
<1> HIDE DEF early
<1>4. TypedTree(e)
    BY <1>3, TypedPlay
<1> HIDE DEF e
<1>5. tree = NoTree \/ tree.height \in Heights
    BY <1>4 DEF TypedTree, TreeOnDisk
<1> HIDE DEF tree
<1>6. TypedList(I) /\ TypedList(L)
    BY <1>5, TypedPut, TypedWhen
<1> HIDE DEF I, L
<1>7. TypedList(early \o I)
    BY <1>3, <1>6, TypedConcat
<1> QED
    BY <1>1, <1>6, <1>7, TypedConcat

\* The operation that runs keeps the tree typed wherever it is cut off.
TreeInv == TypedTree(db) /\ TypedList(todo)

LEMMA TreeStarts ==
    ASSUME CacheInit
    PROVE  TreeInv
<1>1. TypedTree(EmptyDisk)
    <2>1. EmptyDisk.live = [tree |-> NoTree] /\ EmptyDisk.meta = [k \in MetaKeys |-> None]
        BY DEF EmptyDisk
    <2> QED BY <2>1 DEF TypedTree, TreeOK, MetaKeys
<1>2. TypedTree(OldDisk)
    BY OldDiskAssumption DEF TypedTree, TreeOK
<1>3. IsDisk(db)
    BY CacheStarts DEF CacheInv, DiskOK
<1> QED
    BY <1>1, <1>2, <1>3, TypedStart DEF CacheInit, TreeInv

LEMMA TreeStep ==
    ASSUME CacheInv, TreeInv, [CacheNext]_cacheVars
    PROVE  TreeInv'
<1>0. IsDisk(db) /\ (Tip(db) # NoTip => Tip(db).height \in Heights)
    BY DEF CacheInv, DiskOK, Tip, NoTip
<1> USE DEF TreeInv
<1>1. CASE StartInsert
    <2>1. PICK b \in NextBlocks(db) : todo' = InsertWrites(db, b)
        BY <1>1 DEF StartInsert
    <2>2. b \in Hash /\ db' = db
        BY <1>1 DEF StartInsert, NextBlocks
    <2>3. TypedList(InsertWrites(db, b))
        BY <1>0, <2>2, TypedInsert
    <2> QED BY <2>1, <2>2, <2>3
<1>2. CASE StartRewind
    <2>1. PICK h \in 0 .. Tip(db).height : todo' = RewindWrites(db, h)
        BY <1>2 DEF StartRewind
    <2>2. h \in Heights /\ db' = db
        <3>1. Tip(db).height \in Heights /\ db' = db
            BY <1>0, <1>2 DEF StartRewind
        <3> QED BY <3>1, ForkTreeAssumption DEF Heights
    <2>3. TypedList(RewindWrites(db, h))
        BY <1>0, <2>2, TypedRewind
    <2> QED BY <2>1, <2>2, <2>3
<1>3. CASE StartPrune
    BY <1>3, TypedPrune DEF StartPrune
<1>4. CASE Write
    <2>1. /\ todo # <<>> /\ db' = Apply(db, Head(todo)) /\ todo' = Tail(todo)
          /\ IsList(todo) /\ \A i \in 1 .. Len(todo) : TypedWrite(todo[i])
        BY <1>4 DEF Write, TypedList
    <2>2. /\ IsList(Tail(todo)) /\ Len(Tail(todo)) = Len(todo) - 1 /\ Len(todo) \in Nat \ {0}
          /\ Head(todo) = todo[1]
          /\ \A i \in 1 .. Len(Tail(todo)) : Tail(todo)[i] = todo[i + 1]
        BY <2>1, SplitHead
    <2>3. TypedList(Tail(todo))
        <3>1. ASSUME NEW i \in 1 .. Len(Tail(todo)) PROVE TypedWrite(Tail(todo)[i])
            <4>1. i + 1 \in 1 .. Len(todo)
                BY <2>2
            <4> QED BY <2>1, <2>2, <4>1
        <3> QED BY <2>2, <3>1 DEF TypedList
    <2> DEFINE w == Head(todo)
    <2>4. TypedWrite(w)
        <3>1. 1 \in 1 .. Len(todo)
            BY <2>2
        <3> QED BY <2>1, <2>2, <3>1
    <2> HIDE DEF w
    <2>5. TypedList(<<w>>) /\ Play(db, <<w>>) = Apply(db, w)
        <3>1. IsList(<<w>>) /\ Len(<<w>>) = 1 /\ <<w>>[1] = w
            BY OneWrite
        <3> QED BY <1>0, <2>4, <3>1, PlayOne DEF TypedList
    <2>6. TypedTree(Apply(db, w))
        BY <1>0, <2>5, TypedPlay
    <2> QED BY <2>1, <2>3, <2>6 DEF w
<1>5. CASE Serve
    BY <1>5 DEF Serve
<1>6. CASE Crash
    <2> DEFINE d == [db EXCEPT !.live.tree = NoTree]
               W == Put("live", "tree", NoTree)
    <2>1. db' = d /\ todo' = StartWrites(d)
        BY <1>6 DEF Crash
    <2>2. IsDisk(d)
        BY CrashFine DEF CacheInv, DiskOK
    <2>3. TypedTree(d)
        <3> DEFINE w == [tree |-> "live", key |-> "tree", val |-> NoTree]
        <3>1. d = Apply(db, w) /\ W = <<w>>
            BY DEF Apply, Put
        <3>2. TypedList(W)
            BY TypedPut
        <3> HIDE DEF w, W, d
        <3>3. Play(db, <<w>>) = Apply(db, w)
            BY <1>0, PlayOne
        <3> QED BY <1>0, <3>1, <3>2, <3>3, TypedPlay
    <2> HIDE DEF d
    <2> QED BY <2>1, <2>2, <2>3, TypedStart
<1>7. CASE UNCHANGED cacheVars
    BY <1>7 DEF cacheVars
<1> QED
    BY <1>1, <1>2, <1>3, <1>4, <1>5, <1>6, <1>7 DEF CacheNext

LEMMA WholeOperations ==
    ASSUME CacheInv, TreeInv
    PROVE  WritesMakeOperation
<1>1. IsDisk(db) /\ TreeOK(db) /\ (Tip(db) # NoTip => Tip(db).height \in Heights)
    BY DEF CacheInv, DiskOK, Tip, NoTip, TreeInv, TypedTree
<1>2. ASSUME NEW b \in NextBlocks(db)
      PROVE  AsStore(Play(db, InsertWrites(db, b))) = InsertBlock(AsStore(db), b)
    <2>1. b \in Hash
        BY DEF NextBlocks
    <2> QED BY <1>1, <2>1, InsertPlay
<1>3. ASSUME Tip(db) # NoTip, NEW h \in 0 .. Tip(db).height
      PROVE  AsStore(Play(db, RewindWrites(db, h))) = Rewind(AsStore(db), h)
    <2>1. h \in Heights
        BY <1>1, <1>3, ForkTreeAssumption DEF Heights
    <2> QED BY <1>1, <2>1, RewindPlay
<1>4. AsStore(Play(db, PruneWrites(db))) = Prune(AsStore(db), Retention)
    BY <1>1, PrunePlay
<1> QED
    BY <1>2, <1>3, <1>4 DEF WritesMakeOperation

\* From every disk a crash can leave, the rows that insert_compact_block,
\* rewind_to_height and prune_with_retention write one by one add up to the
\* operation of module Cache, which ChainPoller takes as one step.
THEOREM RowsMakeOperation == CacheSpec => []WritesMakeOperation
<1>1. CacheInit => CacheInv /\ TreeInv
    BY CacheStarts, TreeStarts
<1>2. CacheInv /\ TreeInv /\ [CacheNext]_cacheVars => (CacheInv /\ TreeInv)'
    BY CacheStep, TreeStep
<1>3. CacheInv /\ TreeInv => WritesMakeOperation
    BY WholeOperations
<1> QED
    BY <1>1, <1>2, <1>3, PTL DEF CacheSpec
================================================================================
