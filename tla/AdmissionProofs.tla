--------------------------- MODULE AdmissionProofs ---------------------------
(***************************************************************************)
(* What the service gives out is bounded and comes back: proofs about the  *)
(* rate limiter, the connection limiter and the handlers that take slots,  *)
(* bytes and permits, for any number of calls, addresses and workers.      *)
(***************************************************************************)
EXTENDS Admission, Connections, FiniteSetTheorems, WellFoundedInduction, TLAPS

-----------------------------------------------------------------------------
(* Sums over a finite set.  SumFunctionOnSet is recursive, so each          *)
(* induction goes by a smallest counterexample.                             *)

\* A non-empty family of subsets of a finite set has a member that contains no
\* other: the ground of every induction here.
LEMMA SmallestSubset ==
    ASSUME NEW S, IsFiniteSet(S), NEW Bad, Bad \subseteq SUBSET S, Bad # {}
    PROVE  \E T \in Bad : \A U \in Bad : U \subseteq T => U = T
<1> DEFINE R == StrictSubsetOrdering(S)
<1>1. IsWellFoundedOn(R, SUBSET S)
    BY FS_StrictSubsetOrderingWellFounded, FS_FiniteSubsetsOfFinite, Zenon
<1> HIDE DEF R
<1>2. PICK T \in Bad : \A U \in Bad : ~ (<<U, T>> \in R)
    BY <1>1, WFMin, Zenon
<1>3. ASSUME NEW U \in Bad, U \subseteq T
      PROVE  U = T
    BY <1>2, <1>3 DEF R, StrictSubsetOrdering
<1> QED
    BY <1>3

\* What the recursion says of the function it defines.
Recursion(f, S, g) ==
    g = [s \in SUBSET S |->
            IF s = {} THEN 0
            ELSE LET x == CHOOSE x \in s : TRUE IN f[x] + g[s \ {x}]]

Sum(f, S) == SumFunctionOnSet(f, S)

LEMMA SumIsChosen ==
    ASSUME NEW f, NEW S
    PROVE  Sum(f, S) = (CHOOSE g : Recursion(f, S, g))[S]
BY DEF Sum, SumFunctionOnSet, FoldFunctionOnSet, MapThenFoldSet, Recursion

LEMMA RecursionUnique ==
    ASSUME NEW f, NEW S, IsFiniteSet(S), NEW T \in SUBSET S, NEW g, NEW h,
           Recursion(f, S, g), Recursion(f, T, h)
    PROVE  \A s \in SUBSET T : g[s] = h[s]
<1> DEFINE Bad == {s \in SUBSET T : g[s] # h[s]}
<1>1. SUFFICES ASSUME Bad # {} PROVE FALSE
    OBVIOUS
<1>2. IsFiniteSet(T)
    BY FS_Subset
<1>3. PICK s \in Bad : \A u \in Bad : u \subseteq s => u = s
    <2>1. Bad \subseteq SUBSET T
        OBVIOUS
    <2> HIDE DEF Bad
    <2> QED BY <1>1, <1>2, <2>1, SmallestSubset
<1>4. s \in SUBSET T /\ s \in SUBSET S /\ g[s] # h[s]
    OBVIOUS
<1> DEFINE x == CHOOSE x \in s : TRUE
<1>5. CASE s = {}
    <2>1. g[s] = 0 /\ h[s] = 0
        BY <1>4, <1>5 DEF Recursion
    <2> QED BY <2>1, <1>4
<1>6. CASE s # {}
    <2>1. x \in s
        BY <1>6
    <2>2. g[s] = f[x] + g[s \ {x}]
        BY <1>4, <1>6 DEF Recursion
    <2>3. h[s] = f[x] + h[s \ {x}]
        BY <1>4, <1>6 DEF Recursion
    <2>4. s \ {x} \in SUBSET T /\ s \ {x} # s /\ s \ {x} \subseteq s
        BY <2>1, <1>4
    <2>5. g[s \ {x}] = h[s \ {x}]
        BY <2>4, <1>3
    <2> QED BY <2>2, <2>3, <2>5, <1>4
<1> QED BY <1>5, <1>6

LEMMA RecursionExists ==
    ASSUME NEW f, NEW S, IsFiniteSet(S)
    PROVE  \E g : Recursion(f, S, g)
<1> DEFINE Bad == {T \in SUBSET S : ~ \E g : Recursion(f, T, g)}
<1>1. SUFFICES ASSUME Bad # {} PROVE FALSE
    OBVIOUS
<1>2. PICK T \in Bad : \A U \in Bad : U \subseteq T => U = T
    <2>1. Bad \subseteq SUBSET S
        OBVIOUS
    <2> HIDE DEF Bad
    <2> QED BY <1>1, <2>1, SmallestSubset
<1>3. ASSUME NEW U, U \subseteq T, U # T
      PROVE  Recursion(f, U, CHOOSE g : Recursion(f, U, g))
    <2>1. U \in SUBSET S /\ U \notin Bad
        BY <1>2, <1>3
    <2>2. \E g : Recursion(f, U, g)
        BY <2>1
    <2> QED BY <2>2
<1> DEFINE At(U) == (CHOOSE g : Recursion(f, U, g))[U]
           G == [s \in SUBSET T |->
                    IF s = {} THEN 0
                    ELSE LET x == CHOOSE x \in s : TRUE IN f[x] + At(s \ {x})]
<1>4. ASSUME NEW U, U \subseteq T, U # T
      PROVE  G[U] = At(U)
    <2> DEFINE g == CHOOSE g : Recursion(f, U, g)
               x == CHOOSE x \in U : TRUE
    <2>1. Recursion(f, U, g)
        BY <1>3, <1>4
    <2>2. CASE U = {}
        <3>1. g[U] = 0
            BY <2>1, <2>2 DEF Recursion
        <3> QED BY <3>1, <2>2
    <2>3. CASE U # {}
        <3> DEFINE h == CHOOSE h : Recursion(f, U \ {x}, h)
        <3>1. x \in U /\ U \ {x} \subseteq T /\ U \ {x} # T /\ U \ {x} \in SUBSET U
            BY <2>3, <1>4
        <3>2. Recursion(f, U \ {x}, h)
            BY <3>1, <1>3
        <3>3. IsFiniteSet(U)
            BY <1>4, FS_Subset
        <3>4. g[U \ {x}] = h[U \ {x}]
            <4> HIDE DEF g, h, x, G, At, Bad
            <4>1. \A s \in SUBSET (U \ {x}) : g[s] = h[s]
                BY <3>1, <3>2, <3>3, <2>1, RecursionUnique
            <4> QED BY <4>1
        <3>5. g[U] = f[x] + g[U \ {x}]
            BY <2>1, <2>3 DEF Recursion
        <3>6. G[U] = f[x] + At(U \ {x})
            BY <1>4, <2>3
        <3>7. At(U \ {x}) = h[U \ {x}] /\ At(U) = g[U]
            OBVIOUS
        <3> HIDE DEF g, h, x, G, At
        <3> QED BY <3>4, <3>5, <3>6, <3>7
    <2> QED BY <2>2, <2>3
<1>5. Recursion(f, T, G)
    <2>1. ASSUME NEW s \in SUBSET T, s # {}
          PROVE  LET x == CHOOSE x \in s : TRUE IN At(s \ {x}) = G[s \ {x}]
        <3> DEFINE x == CHOOSE x \in s : TRUE
        <3>1. x \in s
            BY <2>1
        <3>2. s \ {x} \subseteq T /\ s \ {x} # T
            BY <3>1
        <3> HIDE DEF x, G, At
        <3>3. At(s \ {x}) = G[s \ {x}]
            BY <3>2, <1>4
        <3> QED BY <3>3 DEF x
    <2> DEFINE W == [s \in SUBSET T |->
                    IF s = {} THEN 0
                    ELSE LET x == CHOOSE x \in s : TRUE IN f[x] + G[s \ {x}]]
    <2>2. \A s \in SUBSET T : G[s] = W[s]
        <3>1. SUFFICES ASSUME NEW s \in SUBSET T PROVE G[s] = W[s]
            OBVIOUS
        <3>2. CASE s = {}
            BY <3>2
        <3>3. CASE s # {}
            <4> DEFINE x == CHOOSE x \in s : TRUE
            <4>1. G[s] = f[x] + At(s \ {x})
                BY <3>3
            <4>2. At(s \ {x}) = G[s \ {x}]
                BY <2>1, <3>3
            <4>3. W[s] = f[x] + G[s \ {x}]
                <5> HIDE DEF G
                <5> QED BY <3>3
            <4> HIDE DEF G, W, At, x
            <4> QED BY <4>1, <4>2, <4>3
        <3> QED BY <3>2, <3>3
    <2>3. G = [s \in SUBSET T |-> G[s]] /\ W = [s \in SUBSET T |-> W[s]]
        OBVIOUS
    <2>4. G = W
        <3> HIDE DEF G, W
        <3> QED BY <2>2, <2>3
    <2> HIDE DEF G
    <2> QED BY <2>4 DEF Recursion
<1> QED BY <1>5

\* A sum unfolds by the element that the recursion chooses.
LEMMA SumChosen ==
    ASSUME NEW f, NEW S, IsFiniteSet(S)
    PROVE  /\ S = {} => Sum(f, S) = 0
           /\ S # {} => LET x == CHOOSE x \in S : TRUE
                        IN  Sum(f, S) = f[x] + Sum(f, S \ {x})
<1> DEFINE g == CHOOSE g : Recursion(f, S, g)
           x == CHOOSE x \in S : TRUE
           h == CHOOSE h : Recursion(f, S \ {x}, h)
<1>1. Recursion(f, S, g) /\ Sum(f, S) = g[S]
    BY RecursionExists, SumIsChosen
<1>2. IsFiniteSet(S \ {x}) /\ S \ {x} \in SUBSET S
    BY FS_RemoveElement
<1>3. Recursion(f, S \ {x}, h) /\ Sum(f, S \ {x}) = h[S \ {x}]
    <2>1. \E k : Recursion(f, S \ {x}, k)
        BY <1>2, RecursionExists
    <2>2. Sum(f, S \ {x}) = h[S \ {x}]
        BY SumIsChosen
    <2> QED BY <2>1, <2>2
<1>4. CASE S = {}
    BY <1>1, <1>4 DEF Recursion
<1>5. CASE S # {}
    <2>1. g[S] = f[x] + g[S \ {x}]
        BY <1>1, <1>5 DEF Recursion
    <2>2. g[S \ {x}] = h[S \ {x}]
        <3> HIDE DEF g, h, x
        <3> QED BY <1>1, <1>2, <1>3, RecursionUnique
    <2>3. Sum(f, S) = f[x] + Sum(f, S \ {x})
        <3> HIDE DEF g, h, x
        <3> QED BY <2>1, <2>2, <1>1, <1>3
    <2> QED BY <2>3, <1>5
<1> QED BY <1>4, <1>5

LEMMA SumEmpty == \A f : Sum(f, {}) = 0
BY SumChosen, FS_EmptySet

LEMMA SumInt ==
    ASSUME NEW f, NEW S, IsFiniteSet(S), \A x \in S : f[x] \in Int
    PROVE  Sum(f, S) \in Int
<1> DEFINE Bad == {T \in SUBSET S : Sum(f, T) \notin Int}
<1>1. SUFFICES ASSUME Bad # {} PROVE FALSE
    OBVIOUS
<1>2. PICK T \in Bad : \A U \in Bad : U \subseteq T => U = T
    <2>1. Bad \subseteq SUBSET S
        OBVIOUS
    <2> HIDE DEF Bad
    <2> QED BY <1>1, <2>1, SmallestSubset
<1> DEFINE x == CHOOSE x \in T : TRUE
<1>3. T # {} /\ T \in SUBSET S /\ Sum(f, T) \notin Int
    BY SumEmpty
<1>4. x \in T /\ f[x] \in Int
    BY <1>3
<1>5. Sum(f, T) = f[x] + Sum(f, T \ {x})
    BY <1>3, SumChosen, FS_Subset
<1> HIDE DEF x
<1>6. Sum(f, T \ {x}) \in Int
    BY <1>2, <1>3, <1>4
<1> QED BY <1>3, <1>4, <1>5, <1>6

\* A sum unfolds by any of its elements.
LEMMA SumRemove ==
    ASSUME NEW f, NEW S, IsFiniteSet(S), NEW y \in S, \A x \in S : f[x] \in Int
    PROVE  Sum(f, S) = f[y] + Sum(f, S \ {y})
<1> DEFINE Bad == {T \in SUBSET S : \E z \in T : Sum(f, T) # f[z] + Sum(f, T \ {z})}
<1>1. SUFFICES ASSUME Bad # {} PROVE FALSE
    OBVIOUS
<1>2. PICK T \in Bad : \A U \in Bad : U \subseteq T => U = T
    <2>1. Bad \subseteq SUBSET S
        OBVIOUS
    <2> HIDE DEF Bad
    <2> QED BY <1>1, <2>1, SmallestSubset
<1>3. T \in SUBSET S /\ IsFiniteSet(T)
    BY FS_Subset
<1>4. PICK z \in T : Sum(f, T) # f[z] + Sum(f, T \ {z})
    OBVIOUS
<1> DEFINE x == CHOOSE x \in T : TRUE
<1>5. x \in T /\ Sum(f, T) = f[x] + Sum(f, T \ {x})
    BY <1>3, <1>4, SumChosen
<1> HIDE DEF x
<1>6. x # z
    BY <1>4, <1>5
<1>7. /\ T \ {x} \in SUBSET S /\ T \ {x} \subseteq T /\ T \ {x} # T /\ z \in T \ {x}
      /\ T \ {z} \in SUBSET S /\ T \ {z} \subseteq T /\ T \ {z} # T /\ x \in T \ {z}
    BY <1>3, <1>4, <1>5, <1>6
<1>8. Sum(f, T \ {x}) = f[z] + Sum(f, (T \ {x}) \ {z})
    BY <1>2, <1>7
<1>9. (T \ {z}) \ {x} = (T \ {x}) \ {z}
    OBVIOUS
<1>10. Sum(f, T \ {z}) = f[x] + Sum(f, (T \ {x}) \ {z})
    BY <1>2, <1>7, <1>9
<1>11. f[x] \in Int /\ f[z] \in Int
    BY <1>3, <1>4, <1>5
<1>12. Sum(f, (T \ {x}) \ {z}) \in Int
    <2>1. IsFiniteSet((T \ {x}) \ {z})
        BY <1>3, FS_RemoveElement
    <2>2. \A w \in (T \ {x}) \ {z} : f[w] \in Int
        BY <1>3
    <2> QED BY <2>1, <2>2, SumInt
<1>13. Sum(f, T) = f[z] + Sum(f, T \ {z})
    <2> HIDE DEF Bad
    <2> QED BY <1>5, <1>8, <1>10, <1>11, <1>12
<1> QED BY <1>4, <1>13

LEMMA SumAdd ==
    ASSUME NEW f, NEW S, IsFiniteSet(S), NEW y, y \notin S,
           \A x \in S \cup {y} : f[x] \in Int
    PROVE  Sum(f, S \cup {y}) = f[y] + Sum(f, S)
<1>1. IsFiniteSet(S \cup {y}) /\ (S \cup {y}) \ {y} = S
    BY FS_AddElement
<1> QED BY <1>1, SumRemove

\* Functions that agree on a set have one sum over it.
LEMMA SumSame ==
    ASSUME NEW f, NEW g, NEW S, IsFiniteSet(S), \A x \in S : f[x] = g[x]
    PROVE  Sum(f, S) = Sum(g, S)
<1> DEFINE Bad == {T \in SUBSET S : Sum(f, T) # Sum(g, T)}
<1>1. SUFFICES ASSUME Bad # {} PROVE FALSE
    OBVIOUS
<1>2. PICK T \in Bad : \A U \in Bad : U \subseteq T => U = T
    <2>1. Bad \subseteq SUBSET S
        OBVIOUS
    <2> HIDE DEF Bad
    <2> QED BY <1>1, <2>1, SmallestSubset
<1> DEFINE x == CHOOSE x \in T : TRUE
<1>3. T # {} /\ T \in SUBSET S /\ IsFiniteSet(T) /\ Sum(f, T) # Sum(g, T)
    BY SumEmpty, FS_Subset
<1>4. x \in T /\ f[x] = g[x]
    BY <1>3
<1>5. Sum(f, T) = f[x] + Sum(f, T \ {x}) /\ Sum(g, T) = g[x] + Sum(g, T \ {x})
    BY <1>3, SumChosen
<1> HIDE DEF x
<1>6. Sum(f, T \ {x}) = Sum(g, T \ {x})
    BY <1>2, <1>3, <1>4
<1> QED BY <1>3, <1>4, <1>5, <1>6

LEMMA SumNat ==
    ASSUME NEW f, NEW S, IsFiniteSet(S), \A x \in S : f[x] \in Nat
    PROVE  Sum(f, S) \in Nat
<1> DEFINE Bad == {T \in SUBSET S : Sum(f, T) \notin Nat}
<1>1. SUFFICES ASSUME Bad # {} PROVE FALSE
    OBVIOUS
<1>2. PICK T \in Bad : \A U \in Bad : U \subseteq T => U = T
    <2>1. Bad \subseteq SUBSET S
        OBVIOUS
    <2> HIDE DEF Bad
    <2> QED BY <1>1, <2>1, SmallestSubset
<1>3. T \in SUBSET S /\ IsFiniteSet(T) /\ Sum(f, T) \notin Nat
    BY FS_Subset
<1>4. PICK x \in T : Sum(f, T) = f[x] + Sum(f, T \ {x})
    <2>1. T # {}
        BY <1>3, SumEmpty
    <2> QED BY <2>1, <1>3, SumChosen
<1>5. Sum(f, T \ {x}) \in Nat
    BY <1>2, <1>3, <1>4
<1> QED BY <1>3, <1>4, <1>5

LEMMA SumUnion ==
    ASSUME NEW f, NEW S, NEW T, IsFiniteSet(S), IsFiniteSet(T), S \cap T = {},
           \A x \in S \cup T : f[x] \in Int
    PROVE  Sum(f, S \cup T) = Sum(f, S) + Sum(f, T)
<1> DEFINE Bad == {U \in SUBSET T : Sum(f, S \cup U) # Sum(f, S) + Sum(f, U)}
<1>1. SUFFICES ASSUME Bad # {} PROVE FALSE
    OBVIOUS
<1>2. PICK U \in Bad : \A V \in Bad : V \subseteq U => V = U
    <2>1. Bad \subseteq SUBSET T
        OBVIOUS
    <2> HIDE DEF Bad
    <2> QED BY <1>1, <2>1, SmallestSubset
<1>3. U \in SUBSET T /\ IsFiniteSet(U) /\ Sum(f, S \cup U) # Sum(f, S) + Sum(f, U)
    BY FS_Subset
<1>4. Sum(f, S) \in Int
    BY SumInt
<1>5. U # {}
    <2>1. S \cup {} = S
        OBVIOUS
    <2> QED BY <1>3, <1>4, SumEmpty, <2>1
<1>6. PICK y \in U : TRUE
    BY <1>5
<1>7. Sum(f, S \cup (U \ {y})) = Sum(f, S) + Sum(f, U \ {y})
    BY <1>2, <1>3, <1>6
<1>8. Sum(f, U) = f[y] + Sum(f, U \ {y})
    BY <1>3, <1>6, SumRemove
<1>9. Sum(f, S \cup U) = f[y] + Sum(f, S \cup (U \ {y}))
    <2>1. IsFiniteSet(S \cup U) /\ (S \cup U) \ {y} = S \cup (U \ {y}) /\ y \in S \cup U
        BY <1>3, <1>6, FS_Union
    <2>2. \A x \in S \cup U : f[x] \in Int
        BY <1>3
    <2> QED BY <2>1, <2>2, SumRemove
<1>10. f[y] \in Int /\ Sum(f, U \ {y}) \in Int
    <2>1. IsFiniteSet(U \ {y}) /\ \A x \in U \ {y} : f[x] \in Int
        BY <1>3, FS_RemoveElement
    <2> QED BY <2>1, <1>3, <1>6, SumInt
<1> HIDE DEF Bad
<1> QED BY <1>3, <1>4, <1>7, <1>8, <1>9, <1>10

\* More elements, none of them negative, have no smaller a sum.
LEMMA SumMonotone ==
    ASSUME NEW f, NEW S, NEW T, IsFiniteSet(T), S \subseteq T, \A x \in T : f[x] \in Nat
    PROVE  Sum(f, S) <= Sum(f, T)
<1>1. IsFiniteSet(S) /\ IsFiniteSet(T \ S) /\ S \cup (T \ S) = T /\ S \cap (T \ S) = {}
    BY FS_Subset
<1>2. Sum(f, T) = Sum(f, S) + Sum(f, T \ S)
    <2>1. \A x \in S \cup (T \ S) : f[x] \in Int
        BY <1>1
    <2>2. Sum(f, S \cup (T \ S)) = Sum(f, S) + Sum(f, T \ S)
        BY <1>1, <2>1, SumUnion
    <2> QED BY <2>2, <1>1
<1>3. Sum(f, S) \in Nat /\ Sum(f, T \ S) \in Nat
    BY <1>1, SumNat
<1> QED BY <1>2, <1>3

\* Elements that add nothing can be left out.
LEMMA SumZeros ==
    ASSUME NEW f, NEW S, NEW T, IsFiniteSet(T), S \subseteq T,
           \A x \in T : f[x] \in Int, \A x \in T \ S : f[x] = 0
    PROVE  Sum(f, T) = Sum(f, S)
<1> DEFINE Z == T \ S
           Bad == {U \in SUBSET Z : Sum(f, U) # 0}
<1>1. IsFiniteSet(S) /\ IsFiniteSet(Z) /\ S \cup Z = T /\ S \cap Z = {}
    BY FS_Subset
<1>2. Sum(f, Z) = 0
    <2>1. SUFFICES ASSUME Bad # {} PROVE FALSE
        OBVIOUS
    <2>2. PICK U \in Bad : \A V \in Bad : V \subseteq U => V = U
        <3>1. Bad \subseteq SUBSET Z
            OBVIOUS
        <3> HIDE DEF Bad, Z
        <3> QED BY <1>1, <2>1, <3>1, SmallestSubset
    <2>3. U # {} /\ U \in SUBSET Z /\ IsFiniteSet(U) /\ Sum(f, U) # 0
        BY SumEmpty, FS_Subset
    <2>4. PICK x \in U : Sum(f, U) = f[x] + Sum(f, U \ {x})
        BY <2>3, SumChosen
    <2>5. Sum(f, U \ {x}) = 0 /\ f[x] = 0
        BY <2>2, <2>3, <2>4
    <2> QED BY <2>3, <2>4, <2>5
<1>3. Sum(f, S \cup Z) = Sum(f, S) + Sum(f, Z)
    <2>1. \A x \in S \cup Z : f[x] \in Int
        BY <1>1
    <2> HIDE DEF Z
    <2> QED BY <1>1, <2>1, SumUnion
<1>4. Sum(f, S) \in Int
    BY <1>1, SumInt
<1> HIDE DEF Z, Bad
<1>5. Sum(f, S \cup Z) = Sum(f, T)
    BY <1>1, Zenon
<1> QED BY <1>2, <1>3, <1>4, <1>5

\* A sum after one element's value has changed.
LEMMA SumChange ==
    ASSUME NEW f, NEW g, NEW S, IsFiniteSet(S), NEW y \in S,
           \A x \in S : f[x] \in Int /\ g[x] \in Int, \A x \in S \ {y} : f[x] = g[x]
    PROVE  Sum(g, S) = (Sum(f, S) - f[y]) + g[y]
<1>1. (\A x \in S : f[x] \in Int) /\ (\A x \in S : g[x] \in Int)
    OBVIOUS
<1>2. IsFiniteSet(S \ {y}) /\ \A x \in S \ {y} : f[x] \in Int
    BY FS_RemoveElement
<1>3. Sum(f, S) = f[y] + Sum(f, S \ {y})
    BY <1>1, SumRemove
<1>4. Sum(g, S) = g[y] + Sum(g, S \ {y})
    BY <1>1, SumRemove
<1>5. Sum(f, S \ {y}) = Sum(g, S \ {y})
    BY <1>2, SumSame
<1>6. Sum(f, S \ {y}) \in Int
    BY <1>2, SumInt
<1> QED
    BY <1>1, <1>3, <1>4, <1>5, <1>6

\* How the size of a set changes with one element.
LEMMA OneElement ==
    ASSUME NEW S, NEW T, NEW y, IsFiniteSet(S), S \ {y} = T \ {y}
    PROVE  /\ IsFiniteSet(T)
           /\ Cardinality(T) = (Cardinality(S) - (IF y \in S THEN 1 ELSE 0))
                                + (IF y \in T THEN 1 ELSE 0)
<1>1. IsFiniteSet(S \ {y}) /\ Cardinality(S \ {y}) = IF y \in S THEN Cardinality(S) - 1 ELSE Cardinality(S)
    BY FS_RemoveElement
<1>a. Cardinality(S \ {y}) = Cardinality(T \ {y}) /\ IsFiniteSet(T \ {y})
    BY <1>1, Zenon
<1>b. Cardinality(S) \in Nat
    BY FS_CardinalityType
<1>2. CASE y \in T
    <2>1. (T \ {y}) \cup {y} = T
        BY <1>2
    <2>2. IsFiniteSet((T \ {y}) \cup {y})
            /\ Cardinality((T \ {y}) \cup {y}) = Cardinality(T \ {y}) + 1
        BY <1>a, FS_AddElement
    <2>3. IsFiniteSet(T) /\ Cardinality(T) = Cardinality(T \ {y}) + 1
        BY <2>1, <2>2, Zenon
    <2> QED BY <2>3, <1>1, <1>a, <1>b, <1>2
<1>3. CASE y \notin T
    <2>1. T \ {y} = T
        BY <1>3
    <2>2. IsFiniteSet(T) /\ Cardinality(T) = Cardinality(T \ {y})
        BY <2>1, <1>a, Zenon
    <2> QED BY <2>2, <1>1, <1>a, <1>b, <1>3
<1> QED
    BY <1>2, <1>3

\* A sequence of numbers and its sum.
LEMMA SumOfSeq ==
    ASSUME NEW s \in Seq(Nat)
    PROVE  /\ SumFunction(s) \in Nat /\ SumFunction(<<>>) = 0
           /\ \A n \in Nat : SumFunction(Append(s, n)) = SumFunction(s) + n
<1>1. /\ DOMAIN s = 1 .. Len(s) /\ Len(s) \in Nat /\ IsFiniteSet(DOMAIN s)
      /\ \A i \in DOMAIN s : s[i] \in Nat
    BY FS_Interval
<1>2. \A t : SumFunction(t) = Sum(t, DOMAIN t)
    BY DEF SumFunction, Sum
<1>3. Sum(s, DOMAIN s) \in Nat
    BY <1>1, SumNat
<1>4. SumFunction(<<>>) = 0
    <2>1. DOMAIN <<>> = {}
        OBVIOUS
    <2> QED BY <2>1, <1>2, SumEmpty
<1>5. ASSUME NEW n \in Nat
      PROVE  SumFunction(Append(s, n)) = SumFunction(s) + n
    <2> DEFINE t == Append(s, n)
               k == Len(s) + 1
    <2>1. /\ DOMAIN t = DOMAIN s \cup {k} /\ k \notin DOMAIN s /\ t[k] = n
          /\ \A i \in DOMAIN s : t[i] = s[i]
        BY <1>1
    <2>2. \A i \in DOMAIN s \cup {k} : t[i] \in Int
        BY <2>1, <1>1
    <2> HIDE DEF t, k
    <2>3. Sum(t, DOMAIN s \cup {k}) = n + Sum(t, DOMAIN s)
        BY <2>1, <2>2, <1>1, SumAdd
    <2>4. Sum(t, DOMAIN s) = Sum(s, DOMAIN s)
        BY <2>1, <1>1, SumSame
    <2>5. SumFunction(t) = SumFunction(s) + n
        BY <2>1, <2>3, <2>4, <1>2, <1>3
    <2> QED BY <2>5 DEF t
<1> QED
    BY <1>2, <1>3, <1>4, <1>5

-----------------------------------------------------------------------------
(* Credits over a stretch of time.                                          *)

Stretch(a, b) == {u \in 0 .. MaxTime : a <= u /\ u < b}
Over(f, a, b) == Sum(f, Stretch(a, b))

Spending == [0 .. MaxTime -> Nat]

LEMMA StretchFinite ==
    ASSUME NEW a \in Int, NEW b \in Int
    PROVE  IsFiniteSet(Stretch(a, b))
<1>1. IsFiniteSet(0 .. MaxTime)
    BY FS_Interval, LimiterAssumption
<1>2. Stretch(a, b) \in SUBSET (0 .. MaxTime)
    BY DEF Stretch
<1> QED
    BY <1>1, <1>2, FS_Subset

LEMMA OverNat ==
    ASSUME NEW f \in Spending, NEW a \in Int, NEW b \in Int
    PROVE  Over(f, a, b) \in Nat
<1>1. \A u \in Stretch(a, b) : f[u] \in Nat
    BY DEF Stretch, Spending
<1> QED
    BY <1>1, StretchFinite, SumNat DEF Over

LEMMA OverEmpty ==
    ASSUME NEW f \in Spending, NEW a \in Int, NEW b \in Int, b <= a
    PROVE  Over(f, a, b) = 0
<1>1. Stretch(a, b) = {}
    BY DEF Stretch
<1> QED
    BY <1>1, SumEmpty DEF Over

LEMMA OverSplit ==
    ASSUME NEW f \in Spending, NEW a \in Int, NEW b \in Int, NEW c \in Int, a <= b, b <= c
    PROVE  Over(f, a, c) = Over(f, a, b) + Over(f, b, c)
<1>1. Stretch(a, c) = Stretch(a, b) \cup Stretch(b, c)
    BY DEF Stretch
<1>2. Stretch(a, b) \cap Stretch(b, c) = {}
    BY DEF Stretch
<1>3. \A u \in Stretch(a, b) \cup Stretch(b, c) : f[u] \in Int
    BY DEF Stretch, Spending
<1> QED
    BY <1>1, <1>2, <1>3, StretchFinite, SumUnion DEF Over

LEMMA OverWider ==
    ASSUME NEW f \in Spending, NEW a \in Int, NEW b \in Int, NEW c \in Int, NEW d \in Int,
           a <= b, c <= d
    PROVE  Over(f, b, c) <= Over(f, a, d)
<1>1. Stretch(b, c) \subseteq Stretch(a, d)
    BY DEF Stretch
<1>2. \A u \in Stretch(a, d) : f[u] \in Nat
    BY DEF Stretch, Spending
<1> QED
    BY <1>1, <1>2, StretchFinite, SumMonotone DEF Over

LEMMA MoreSpending ==
    ASSUME NEW f \in Spending, NEW t \in 0 .. MaxTime, NEW n \in Nat
    PROVE  [f EXCEPT ![t] = @ + n] \in Spending
BY DEF Spending

\* Nothing is spent after the end of the clock.
LEMMA OverToEnd ==
    ASSUME NEW f \in Spending, NEW a \in Int, NEW b \in Int, NEW c \in Int, a <= b
    PROVE  Over(f, b, c) <= Over(f, a, MaxTime + 1)
<1>1. Stretch(b, c) \subseteq Stretch(a, MaxTime + 1)
    BY LimiterAssumption DEF Stretch
<1>2. \A u \in Stretch(a, MaxTime + 1) : f[u] \in Nat
    BY DEF Stretch, Spending
<1>3. IsFiniteSet(Stretch(a, MaxTime + 1))
    BY StretchFinite, LimiterAssumption
<1> QED
    BY <1>1, <1>2, <1>3, SumMonotone DEF Over

\* Granting n credits now adds them to the stretches that contain now.
LEMMA OverMore ==
    ASSUME NEW f \in Spending, NEW t \in 0 .. MaxTime, NEW n \in Nat,
           NEW a \in Int, NEW b \in Int
    PROVE  LET g == [f EXCEPT ![t] = @ + n]
           IN  /\ g \in Spending
               /\ Over(g, a, b) = Over(f, a, b) + (IF a <= t /\ t < b THEN n ELSE 0)
<1> DEFINE g == [f EXCEPT ![t] = @ + n]
           S == Stretch(a, b)
<1>1. g \in Spending /\ g[t] = f[t] + n /\ \A u \in S \ {t} : f[u] = g[u]
    BY DEF Spending, Stretch
<1>2. /\ IsFiniteSet(S) /\ IsFiniteSet(S \ {t}) /\ f[t] \in Int
      /\ \A u \in S : f[u] \in Int /\ g[u] \in Int
    <2>1. IsFiniteSet(S)
        BY StretchFinite
    <2>2. IsFiniteSet(S \ {t})
        BY <2>1, FS_RemoveElement
    <2>3. f[t] \in Int /\ \A u \in S : f[u] \in Int /\ g[u] \in Int
        BY <1>1 DEF Spending, Stretch
    <2> QED BY <2>1, <2>2, <2>3
<1>3. t \in S <=> a <= t /\ t < b
    BY DEF Stretch
<1> HIDE DEF g, S
<1>4. Sum(f, S \ {t}) = Sum(g, S \ {t})
    BY <1>1, <1>2, SumSame
<1>5. Sum(f, S) \in Int /\ Sum(f, S \ {t}) \in Int
    BY <1>2, SumInt
<1>6. CASE t \in S
    <2>a. IsFiniteSet(S)
        BY <1>2
    <2>f. \A u \in S : f[u] \in Int
        BY <1>2
    <2>g. \A u \in S : g[u] \in Int
        BY <1>2
    <2>1. Sum(f, S) = f[t] + Sum(f, S \ {t})
        <3>1. \A u \in S : Sum(f, S) = f[u] + Sum(f, S \ {u})
            BY <2>a, <2>f, SumRemove
        <3> QED BY <3>1, <1>6
    <2>2. Sum(g, S) = g[t] + Sum(g, S \ {t})
        <3>1. \A u \in S : Sum(g, S) = g[u] + Sum(g, S \ {u})
            BY <2>a, <2>g, SumRemove
        <3> QED BY <3>1, <1>6
    <2>3. Sum(g, S) = Sum(f, S) + n
        BY <2>1, <2>2, <1>1, <1>2, <1>4, <1>5, <1>6
    <2> QED BY <2>3, <1>1, <1>3, <1>6 DEF Over, g, S
<1>7. CASE t \notin S
    <2>1. S \ {t} = S
        BY <1>7
    <2>2. Sum(g, S) = Sum(f, S)
        BY <2>1, <1>4
    <2> QED BY <2>2, <1>1, <1>3, <1>5, <1>7 DEF Over, g, S
<1> QED
    BY <1>6, <1>7

-----------------------------------------------------------------------------
(* The rate limiter.                                                        *)

LimiterSpec == LimiterInit /\ [][LimiterNext]_limiterVars

Entry == [count : Nat, since : Nat]

\* What an entry knows of the credits granted to its address: no more than it
\* counts and than the limit since it began, none after its window, and no more
\* than the limit in any window's length before it.
Behaves(f, e) ==
    /\ Over(f, e.since, MaxTime + 1) <= e.count /\ Over(f, e.since, MaxTime + 1) <= Limit
    /\ Over(f, e.since + Window, MaxTime + 1) = 0
    /\ \A t \in Int : t >= e.since - Window => Over(f, t, e.since) <= Limit

TwoLimits(f) == \A t \in 0 .. MaxTime : Over(f, t, t + Window) <= 2 * Limit

\* An absent entry stands for one that begins now.
Opened(tab, p, t) == IF tab[p] = None THEN [count |-> 0, since |-> t] ELSE tab[p]

LimiterInv ==
    /\ now \in 0 .. MaxTime
    /\ table \in [Peers -> Entry \cup {None}]
    /\ spent \in [Peers -> Spending]
    /\ \A p \in Peers : table[p] # None => table[p].since <= now
    /\ Limit # 0 => \A p \in Peers : /\ Behaves(spent[p], Opened(table, p, now))
                                     /\ TwoLimits(spent[p])

\* A window that is over leaves nothing to a window that begins after it.
LEMMA WindowOver ==
    ASSUME NEW f \in Spending, NEW e \in Entry, Behaves(f, e),
           NEW t \in Nat, e.since + Window <= t
    PROVE  Behaves(f, [count |-> 0, since |-> t])
<1> USE LimiterAssumption DEF Entry
<1> DEFINE g == [count |-> 0, since |-> t]
<1>1. Over(f, t, MaxTime + 1) <= Over(f, e.since + Window, MaxTime + 1)
    BY OverWider
<1>2. Over(f, t + Window, MaxTime + 1) <= Over(f, t, MaxTime + 1)
    BY OverWider
<1>3. Over(f, t, MaxTime + 1) \in Nat /\ Over(f, t + Window, MaxTime + 1) \in Nat
    BY OverNat
<1>4. ASSUME NEW s \in Int, s >= t - Window
      PROVE  Over(f, s, t) <= Limit
    <2>1. Over(f, s, t) <= Over(f, e.since, MaxTime + 1)
        BY <1>4, OverToEnd
    <2> QED BY <2>1, OverNat DEF Behaves
<1> QED
    BY <1>1, <1>2, <1>3, <1>4 DEF Behaves

\* Credits granted inside the window of an entry that counts them.
LEMMA CreditsCounted ==
    ASSUME NEW f \in Spending, NEW e \in Entry, Behaves(f, e), TwoLimits(f),
           NEW t \in 0 .. MaxTime, e.since <= t, t < e.since + Window,
           NEW n \in Nat, e.count + n <= Limit
    PROVE  LET g == [f EXCEPT ![t] = @ + n]
           IN  Behaves(g, [e EXCEPT !.count = @ + n]) /\ TwoLimits(g)
<1> USE LimiterAssumption DEF Entry
<1> DEFINE g == [f EXCEPT ![t] = @ + n]
           h == [e EXCEPT !.count = @ + n]
<1>1. /\ g \in Spending
      /\ \A a, b \in Int : Over(g, a, b) = Over(f, a, b) + (IF a <= t /\ t < b THEN n ELSE 0)
    <2>1. g \in Spending
        BY DEF Spending
    <2> QED BY <2>1, OverMore
<1>2. h.since = e.since /\ h.count = e.count + n /\ e.since \in Nat /\ e.count \in Nat
    OBVIOUS
<1> HIDE DEF g, h
<1>3. Over(f, e.since, MaxTime + 1) \in Nat /\ Over(f, e.since + Window, MaxTime + 1) \in Nat
    BY <1>2, OverNat
<1>4. Over(g, e.since, MaxTime + 1) = Over(f, e.since, MaxTime + 1) + n
    BY <1>1, <1>2
<1>5. Over(g, e.since + Window, MaxTime + 1) = 0
    BY <1>1, <1>2, <1>3 DEF Behaves
<1>6. ASSUME NEW s \in Int PROVE Over(g, s, e.since) = Over(f, s, e.since)
    BY <1>1, <1>2, OverNat
<1>7. Behaves(g, h)
    BY <1>2, <1>3, <1>4, <1>5, <1>6 DEF Behaves
<1>8. ASSUME NEW s \in 0 .. MaxTime PROVE Over(g, s, s + Window) <= 2 * Limit
    <2>1. Over(f, s, s + Window) <= 2 * Limit /\ Over(f, s, s + Window) \in Nat
        BY OverNat DEF TwoLimits
    <2>2. CASE ~ (s <= t /\ t < s + Window)
        BY <2>1, <2>2, <1>1
    <2>3. CASE s <= t /\ t < s + Window /\ e.since <= s
        <3> DEFINE m == s + Window
        <3>1. Over(g, s, m) <= Over(g, e.since, MaxTime + 1)
            BY <2>3, <1>1, <1>2, OverToEnd
        <3>2. Over(g, e.since, MaxTime + 1) <= Limit /\ Over(g, e.since, MaxTime + 1) \in Nat
            BY <1>1, <1>2, <1>7, OverNat DEF Behaves
        <3>a. s \in Int /\ m \in Int
            OBVIOUS
        <3> HIDE DEF m
        <3>3. Over(g, s, m) \in Nat
            BY <3>a, <1>1, OverNat
        <3>4. Over(g, s, m) <= 2 * Limit
            BY <3>1, <3>2, <3>3
        <3> QED BY <3>4 DEF m
    <2>4. CASE s <= t /\ t < s + Window /\ s < e.since
        <3> DEFINE m == s + Window
        <3>1. Over(g, s, m) = Over(g, s, e.since) + Over(g, e.since, m)
            BY <2>4, <1>1, <1>2, OverSplit
        <3>2. Over(g, s, e.since) <= Limit
            BY <2>4, <1>2, <1>7 DEF Behaves
        <3>3. Over(g, e.since, m) <= Over(g, e.since, MaxTime + 1)
            BY <1>1, <1>2, OverToEnd
        <3>4. Over(g, e.since, MaxTime + 1) <= Limit
            BY <1>2, <1>7 DEF Behaves
        <3>a. s \in Int /\ m \in Int /\ e.since \in Int /\ MaxTime + 1 \in Int
            BY <1>2
        <3> HIDE DEF m
        <3>5. Over(g, s, e.since) \in Nat
            BY <3>a, <1>1, OverNat
        <3>6. Over(g, e.since, m) \in Nat /\ Over(g, e.since, MaxTime + 1) \in Nat
            BY <3>a, <1>1, OverNat
        <3>7. Over(g, s, m) <= 2 * Limit
            BY <3>1, <3>2, <3>3, <3>4, <3>5, <3>6
        <3> QED BY <3>7 DEF m
    <2> QED BY <2>2, <2>3, <2>4, <1>2
<1> QED
    BY <1>7, <1>8 DEF TwoLimits, g, h

LEMMA NothingSpent ==
    ASSUME NEW f \in Spending, \A u \in 0 .. MaxTime : f[u] = 0,
           NEW a \in Int, NEW b \in Int
    PROVE  Over(f, a, b) = 0
<1>1. {} \subseteq Stretch(a, b) /\ \A u \in Stretch(a, b) : f[u] \in Int /\ f[u] = 0
    BY DEF Stretch
<1>2. Sum(f, Stretch(a, b)) = Sum(f, {})
    BY <1>1, StretchFinite, SumZeros
<1> QED
    BY <1>2, SumEmpty DEF Over

LEMMA LimiterStart == LimiterInit => LimiterInv
<1> SUFFICES ASSUME LimiterInit PROVE LimiterInv
    OBVIOUS
<1> USE LimiterAssumption
<1>1. /\ now = 0 /\ table = [p \in Peers |-> None] /\ spent \in [Peers -> Spending]
      /\ \A p \in Peers, u \in 0 .. MaxTime : spent[p][u] = 0
    BY DEF LimiterInit, NoEntries, Spending
<1>2. ASSUME NEW p \in Peers PROVE Behaves(spent[p], Opened(table, p, now))
    <2>1. Opened(table, p, now) = [count |-> 0, since |-> 0]
        BY <1>1 DEF Opened
    <2>2. spent[p] \in Spending /\ \A u \in 0 .. MaxTime : spent[p][u] = 0
        BY <1>1
    <2>3. \A a, b \in Int : Over(spent[p], a, b) = 0
        BY <2>2, NothingSpent
    <2> QED BY <2>1, <2>3 DEF Behaves
<1>3. ASSUME NEW p \in Peers PROVE TwoLimits(spent[p])
    <2>1. spent[p] \in Spending /\ \A u \in 0 .. MaxTime : spent[p][u] = 0
        BY <1>1
    <2>2. \A a, b \in Int : Over(spent[p], a, b) = 0
        BY <2>1, NothingSpent
    <2> QED BY <2>2 DEF TwoLimits
<1> QED
    BY <1>1, <1>2, <1>3 DEF LimiterInv

\* The collection only takes away entries whose window is over.
LEMMA CollectedOver ==
    ASSUME LimiterInv, NEW p \in Peers
    PROVE  /\ Collected(table, now) \in [Peers -> Entry \cup {None}]
           /\ \/ Collected(table, now)[p] = table[p]
              \/ /\ table[p] # None /\ Collected(table, now)[p] = None
                 /\ table[p].since + Window <= now
<1>1. /\ table \in [Peers -> Entry \cup {None}] /\ now \in Nat /\ Window \in Nat
      /\ \A q \in Peers : table[q] # None => table[q] \in Entry /\ table[q].since \in Nat
    BY LimiterAssumption DEF LimiterInv, Entry
<1>2. CASE Collected(table, now) = table
    BY <1>1, <1>2
<1>3. CASE Collected(table, now) =
               [q \in Peers |-> IF table[q] # None /\ Fresh(table[q], now) THEN table[q] ELSE None]
    <2>1. Collected(table, now) \in [Peers -> Entry \cup {None}]
        BY <1>1, <1>3
    <2>2. CASE table[p] # None /\ ~ Fresh(table[p], now)
        BY <2>1, <2>2, <1>1, <1>3 DEF Fresh
    <2>3. CASE ~ (table[p] # None /\ ~ Fresh(table[p], now))
        BY <2>3, <1>1, <1>3
    <2> QED BY <2>1, <2>2, <2>3
<1> QED
    BY <1>2, <1>3 DEF Collected

\* The entry a request finds or makes behaves as the one that was kept.
LEMMA EntryBehaves ==
    ASSUME LimiterInv, Limit # 0, NEW p \in Peers
    PROVE  LET e == EntryOf(table, p, now)
           IN  /\ e \in Entry /\ e.since <= now
               /\ Behaves(spent[p], e) /\ TwoLimits(spent[p])
<1> DEFINE e == EntryOf(table, p, now)
<1>1. /\ table \in [Peers -> Entry \cup {None}] /\ now \in Nat /\ spent[p] \in Spending
      /\ table[p] # None => table[p].since <= now
      /\ Behaves(spent[p], Opened(table, p, now)) /\ TwoLimits(spent[p])
      /\ None \notin Entry
    BY LimiterAssumption DEF LimiterInv, Entry
<1>2. CASE Collected(table, now)[p] = table[p]
    <2>1. e = Opened(table, p, now)
        BY <1>2 DEF EntryOf, Opened
    <2>2. e \in Entry /\ e.since <= now
        BY <2>1, <1>1 DEF Opened, Entry
    <2> QED BY <2>1, <2>2, <1>1
<1>3. CASE /\ table[p] # None /\ Collected(table, now)[p] = None
           /\ table[p].since + Window <= now
    <2>1. e = [count |-> 0, since |-> now]
        BY <1>3 DEF EntryOf
    <2>2. table[p] \in Entry /\ Behaves(spent[p], table[p])
        BY <1>1, <1>3 DEF Opened
    <2>3. Behaves(spent[p], [count |-> 0, since |-> now])
        BY <2>2, <1>1, <1>3, WindowOver
    <2> QED BY <2>1, <2>3, <1>1 DEF Entry
<1> QED
    BY <1>2, <1>3, CollectedOver

\* What a request leaves: its entry, and what it was granted.
LEMMA AskKeeps ==
    ASSUME LimiterInv, Limit # 0, NEW p \in Peers, NEW n \in Nat \ {0}
    PROVE  LET e == Charged(table, p, n, now)[p]
               g == IF Granted(table, p, n, now) THEN [spent[p] EXCEPT ![now] = @ + n] ELSE spent[p]
           IN  /\ e \in Entry /\ e.since <= now
               /\ g \in Spending /\ Behaves(g, e) /\ TwoLimits(g)
<1> DEFINE d == EntryOf(table, p, now)
           e == Charged(table, p, n, now)[p]
           g == IF Granted(table, p, n, now) THEN [spent[p] EXCEPT ![now] = @ + n] ELSE spent[p]
           more == [spent[p] EXCEPT ![now] = @ + n]
           base == IF Fresh(d, now) THEN d ELSE [count |-> 0, since |-> now]
<1>1. /\ now \in 0 .. MaxTime /\ now \in Nat /\ spent[p] \in Spending
      /\ Limit \in Nat /\ Window \in Nat \ {0}
    BY LimiterAssumption DEF LimiterInv
<1>2. d \in Entry /\ d.since <= now /\ Behaves(spent[p], d) /\ TwoLimits(spent[p])
    BY EntryBehaves
<1>3. d.count \in Nat /\ d.since \in Nat
    BY <1>2 DEF Entry
<1>4. DOMAIN Collected(table, now) = Peers
    BY CollectedOver
<1>5. e = CASE ~Fresh(d, now) -> [count |-> n, since |-> now]
            [] Fresh(d, now) /\ Granted(table, p, n, now) -> [d EXCEPT !.count = @ + n]
            [] OTHER -> d
    BY <1>4 DEF Charged
<1>6. Granted(table, p, n, now) <=> n + (IF Fresh(d, now) THEN d.count ELSE 0) <= Limit
    BY DEF Granted
<1>7. more \in Spending
    BY <1>1, MoreSpending
<1> HIDE DEF d, e, more
<1>8. base \in Entry /\ base.since <= now /\ now < base.since + Window /\ Behaves(spent[p], base)
    <2>1. CASE Fresh(d, now)
        BY <2>1, <1>1, <1>2, <1>3 DEF Fresh
    <2>2. CASE ~ Fresh(d, now)
        <3>1. d.since + Window <= now
            BY <2>2, <1>1, <1>3 DEF Fresh
        <3>2. Behaves(spent[p], [count |-> 0, since |-> now])
            BY <3>1, <1>1, <1>2, WindowOver
        <3> QED BY <3>2, <2>2, <1>1 DEF Entry
    <2> QED BY <2>1, <2>2
<1>9. base.count = IF Fresh(d, now) THEN d.count ELSE 0
    OBVIOUS
<1>10. [base EXCEPT !.count = @ + n] = IF Fresh(d, now) THEN [d EXCEPT !.count = @ + n]
                                      ELSE [count |-> n, since |-> now]
    BY <1>1
<1>11. CASE Granted(table, p, n, now)
    <2>1. base.count + n <= Limit
        BY <1>6, <1>9, <1>11, <1>3, <1>1
    <2> HIDE DEF base
    <2>2. Behaves(more, [base EXCEPT !.count = @ + n]) /\ TwoLimits(more)
        BY <2>1, <1>1, <1>2, <1>8, CreditsCounted DEF more
    <2>3. [base EXCEPT !.count = @ + n] = e
        BY <1>5, <1>10, <1>11
    <2>4. e \in Entry /\ e.since <= now
        BY <2>3, <1>8 DEF Entry
    <2> QED BY <2>2, <2>3, <2>4, <1>7, <1>11 DEF e, more
<1>12. CASE ~ Granted(table, p, n, now)
    <2>1. CASE Fresh(d, now)
        BY <2>1, <1>1, <1>2, <1>5, <1>12 DEF e
    <2>2. CASE ~ Fresh(d, now)
        <3>1. e = [count |-> n, since |-> now]
            BY <2>2, <1>5
        <3>2. Behaves(spent[p], [count |-> 0, since |-> now])
            BY <2>2, <1>8
        <3>3. Over(spent[p], now, MaxTime + 1) \in Nat
            BY <1>1, OverNat, LimiterAssumption
        <3>4. Behaves(spent[p], e)
            BY <3>1, <3>2, <3>3, <1>1 DEF Behaves
        <3> QED BY <3>1, <3>4, <1>1, <1>2, <1>12 DEF e, Entry
    <2> QED BY <2>1, <2>2
<1> QED
    BY <1>11, <1>12 DEF e, more

LEMMA AskInv == ASSUME LimiterInv, NEW p \in Peers, NEW n \in Nat \ {0}, AskLimiter(p, n)
                PROVE  LimiterInv'
<1>1. /\ now \in 0 .. MaxTime /\ table \in [Peers -> Entry \cup {None}]
      /\ spent \in [Peers -> Spending] /\ \A q \in Peers : table[q] # None => table[q].since <= now
    BY DEF LimiterInv
<1>2. now' = now /\ table' = Charged(table, p, n, now)
      /\ spent' = IF Granted(table, p, n, now) THEN [spent EXCEPT ![p][now] = @ + n] ELSE spent
    BY DEF AskLimiter
<1> DEFINE e(q) == Charged(table, p, n, now)[q]
           g(q) == IF q = p /\ Granted(table, p, n, now)
                   THEN [spent[q] EXCEPT ![now] = @ + n] ELSE spent[q]
<1>3. \A q \in Peers : spent'[q] = g(q)
    BY <1>1, <1>2
<1>4. CASE Limit = 0
    <2>1. table' = table /\ Granted(table, p, n, now)
        BY <1>2, <1>4 DEF Charged, Granted
    <2>2. \A q \in Peers : g(q) \in Spending
        BY <1>1, MoreSpending
    <2>3. spent' \in [Peers -> Spending]
        BY <1>1, <1>2, <1>3, <2>1, <2>2
    <2> QED BY <1>1, <1>2, <1>4, <2>1, <2>3 DEF LimiterInv
<1>5. CASE Limit # 0
    <2>1. ASSUME NEW q \in Peers
          PROVE  /\ e(q) \in Entry \cup {None}
                 /\ Opened(table', q, now) \in Entry /\ Opened(table', q, now).since <= now
                 /\ g(q) \in Spending
                 /\ Behaves(g(q), Opened(table', q, now)) /\ TwoLimits(g(q))
        <3>1. CASE q = p
            <4>1. e(p) \in Entry /\ e(p).since <= now
                  /\ g(p) \in Spending /\ Behaves(g(p), e(p)) /\ TwoLimits(g(p))
                BY <1>5, AskKeeps
            <4>2. Opened(table', p, now) = e(p)
                BY <4>1, <1>2, LimiterAssumption DEF Opened, Entry
            <4> QED BY <4>1, <4>2, <3>1
        <3>2. CASE q # p
            <4>1. e(q) = Collected(table, now)[q] /\ g(q) = spent[q]
                BY <3>2, <1>5, CollectedOver DEF Charged
            <4>2. Opened(table', q, now) = EntryOf(table, q, now)
                BY <4>1, <1>2 DEF Opened, EntryOf
            <4>3. Collected(table, now)[q] \in Entry \cup {None}
                BY CollectedOver
            <4>4. /\ EntryOf(table, q, now) \in Entry /\ EntryOf(table, q, now).since <= now
                  /\ Behaves(spent[q], EntryOf(table, q, now)) /\ TwoLimits(spent[q])
                BY <1>5, EntryBehaves
            <4> HIDE DEF e, g
            <4>5. spent[q] \in Spending
                BY <1>1
            <4> QED BY <4>1, <4>2, <4>3, <4>4, <4>5
        <3> QED BY <3>1, <3>2
    <2>2. DOMAIN table' = Peers /\ table' = [q \in Peers |-> e(q)]
        BY <1>2, <1>5, CollectedOver DEF Charged
    <2>3. table' \in [Peers -> Entry \cup {None}]
        <3> HIDE DEF e
        <3> QED BY <2>1, <2>2
    <2>4. spent' \in [Peers -> Spending]
        <3>1. spent' = [q \in Peers |-> spent'[q]]
            BY <1>1, <1>2
        <3> HIDE DEF g
        <3> QED BY <3>1, <2>1, <1>3
    <2>5. ASSUME NEW q \in Peers, table'[q] # None PROVE table'[q].since <= now
        BY <2>1, <2>5 DEF Opened
    <2>6. ASSUME NEW q \in Peers
          PROVE  Behaves(spent'[q], Opened(table', q, now')) /\ TwoLimits(spent'[q])
        <3>1. now' = now /\ spent'[q] = g(q)
            BY <1>2, <1>3
        <3>2. Behaves(g(q), Opened(table', q, now)) /\ TwoLimits(g(q))
            BY <2>1
        <3> HIDE DEF g
        <3>3. Behaves(spent'[q], Opened(table', q, now')) /\ TwoLimits(spent'[q])
            BY <3>1, <3>2
        <3> QED BY <3>3
    <2>7. (LimiterInv)' <=>
             /\ now' \in 0 .. MaxTime
             /\ table' \in [Peers -> Entry \cup {None}]
             /\ spent' \in [Peers -> Spending]
             /\ \A q \in Peers : table'[q] # None => table'[q].since <= now'
             /\ Limit # 0 => \A q \in Peers : /\ Behaves(spent'[q], Opened(table', q, now'))
                                              /\ TwoLimits(spent'[q])
        BY DEF LimiterInv
    <2> HIDE DEF e, g
    <2> QED BY <1>1, <1>2, <2>3, <2>4, <2>5, <2>6, <2>7
<1> QED
    BY <1>4, <1>5

\* An absent entry moves with the clock: nothing was spent at this tick.
LEMMA TickInv == ASSUME LimiterInv, Tick PROVE LimiterInv'
<1>1. /\ now' = now + 1 /\ now < MaxTime /\ table' = table /\ spent' = spent
      /\ now \in 0 .. MaxTime /\ table \in [Peers -> Entry \cup {None}]
      /\ spent \in [Peers -> Spending] /\ Window \in Nat \ {0} /\ MaxTime \in Nat /\ Limit \in Nat
    BY LimiterAssumption DEF Tick, LimiterInv
<1>2. ASSUME NEW p \in Peers, Limit # 0
      PROVE  Behaves(spent[p], Opened(table, p, now + 1))
    <2>1. Behaves(spent[p], Opened(table, p, now)) /\ spent[p] \in Spending
        BY <1>1, <1>2 DEF LimiterInv
    <2>2. CASE table[p] # None
        BY <2>1, <2>2 DEF Opened
    <2>3. CASE table[p] = None
        <3> DEFINE f == spent[p]
        <3>1. Behaves(f, [count |-> 0, since |-> now]) /\ f \in Spending
            BY <2>1, <2>3 DEF Opened
        <3> HIDE DEF f
        <3>2. Over(f, now, MaxTime + 1) = 0
            BY <3>1, <1>1, OverNat DEF Behaves
        <3>3. \A b \in Int : Over(f, now, b) = 0
            <4>1. SUFFICES ASSUME NEW b \in Int PROVE Over(f, now, b) = 0
                OBVIOUS
            <4>2. Over(f, now, b) <= Over(f, now, MaxTime + 1)
                BY <1>1, <3>1, OverToEnd
            <4>3. Over(f, now, b) \in Nat
                BY <1>1, <3>1, OverNat
            <4> QED BY <4>2, <4>3, <3>2
        <3>4. \A a, b \in Int : now <= a => Over(f, a, b) = 0
            <4>1. SUFFICES ASSUME NEW a \in Int, NEW b \in Int, now <= a PROVE Over(f, a, b) = 0
                OBVIOUS
            <4>2. Over(f, a, b) <= Over(f, now, MaxTime + 1)
                BY <1>1, <3>1, <4>1, OverToEnd
            <4>3. Over(f, a, b) \in Nat
                BY <1>1, <3>1, OverNat
            <4> QED BY <4>2, <4>3, <3>2
        <3>5. ASSUME NEW t \in Int, t >= (now + 1) - Window
              PROVE  Over(f, t, now + 1) <= Limit
            <4>1. CASE t <= now
                <5>1. Over(f, t, now + 1) = Over(f, t, now) + Over(f, now, now + 1)
                    BY <4>1, <1>1, <3>1, OverSplit
                <5>2. Over(f, t, now) <= Limit
                    BY <3>1, <3>5, <1>1 DEF Behaves
                <5>3. Over(f, t, now) \in Nat /\ Over(f, now, now + 1) = 0
                    BY <1>1, <3>1, <3>3, OverNat
                <5> QED BY <5>1, <5>2, <5>3, <1>1
            <4>2. CASE t > now
                BY <4>2, <3>4, <1>1
            <4> QED BY <4>1, <4>2, <1>1
        <3>6. Behaves(f, [count |-> 0, since |-> now + 1])
            BY <3>4, <3>5, <1>1 DEF Behaves
        <3> QED BY <3>6, <2>3 DEF f, Opened
    <2> QED BY <2>2, <2>3
<1>3. \A p \in Peers : table'[p] # None => table'[p].since <= now'
    BY <1>1 DEF LimiterInv, Entry
<1>4. ASSUME NEW p \in Peers, Limit # 0
      PROVE  Behaves(spent'[p], Opened(table', p, now')) /\ TwoLimits(spent'[p])
    <2>1. TwoLimits(spent[p])
        BY <1>4 DEF LimiterInv
    <2> QED BY <2>1, <1>1, <1>2, <1>4
<1> QED
    BY <1>1, <1>3, <1>4 DEF LimiterInv

LEMMA LimiterInvariant == LimiterSpec => []LimiterInv
<1>1. LimiterInv /\ [LimiterNext]_limiterVars => LimiterInv'
    <2>1. ASSUME LimiterInv, NEW p \in Peers, NEW n \in 1 .. MaxCredits, AskLimiter(p, n)
          PROVE  LimiterInv'
        <3>1. n \in Nat \ {0}
            OBVIOUS
        <3> QED BY <3>1, <2>1, AskInv
    <2>2. ASSUME LimiterInv, UNCHANGED limiterVars PROVE LimiterInv'
        BY <2>2 DEF limiterVars, LimiterInv
    <2> QED BY <2>1, <2>2, TickInv DEF LimiterNext
<1> QED
    BY <1>1, LimiterStart, PTL DEF LimiterSpec

\* No address is granted more than two limits in any stretch as long as a
\* window (PeerRateLimiter::check_n), for any limit, window and threshold.
THEOREM TwoLimitsAtMost == LimiterSpec => []AtMostTwoLimits
<1>1. LimiterInv => AtMostTwoLimits
    <2> SUFFICES ASSUME LimiterInv, Limit # 0, NEW p \in Peers, NEW t \in 0 .. MaxTime
                 PROVE  Within(p, t) <= 2 * Limit
        BY DEF AtMostTwoLimits
    <2>1. Over(spent[p], t, t + Window) <= 2 * Limit
        BY DEF LimiterInv, TwoLimits
    <2> QED BY <2>1 DEF Over, Stretch, Sum, Within
<1> QED
    BY <1>1, LimiterInvariant, PTL

-----------------------------------------------------------------------------
(* The connection limiter.                                                  *)

ConnectionsSpec == ConnectionsInit /\ [][ConnectionsNext]_connectionVars

ConnectionsInv ==
    /\ acceptor \in {"permit", "accept"} /\ permits \in Nat /\ open \in Nat
    /\ PermitsConserved

\* Every permit of LimitedTcpIncoming is free, with the acceptor or with an open
\* connection, whatever fails (limited_incoming.rs), for any limit.
THEOREM PermitsAccountedFor == ConnectionsSpec => []PermitsConserved
<1> USE ConnectionsAssumption
<1>1. ConnectionsInit => ConnectionsInv
    BY DEF ConnectionsInit, ConnectionsInv, PermitsConserved
<1>2. ConnectionsInv /\ [ConnectionsNext]_connectionVars => ConnectionsInv'
    <2> SUFFICES ASSUME ConnectionsInv, [ConnectionsNext]_connectionVars
                 PROVE  ConnectionsInv'
        OBVIOUS
    <2> USE DEF ConnectionsInv, PermitsConserved
    <2>1. ASSUME Connects PROVE ConnectionsInv'
        BY <2>1 DEF Connects
    <2>2. ASSUME TakePermit PROVE ConnectionsInv'
        BY <2>2 DEF TakePermit
    <2>3. ASSUME Accept PROVE ConnectionsInv'
        BY <2>3 DEF Accept
    <2>4. ASSUME AcceptFails PROVE ConnectionsInv'
        BY <2>4 DEF AcceptFails
    <2>5. ASSUME Closes PROVE ConnectionsInv'
        BY <2>5 DEF Closes
    <2>6. ASSUME UNCHANGED connectionVars PROVE ConnectionsInv'
        BY <2>6 DEF connectionVars
    <2> QED BY <2>1, <2>2, <2>3, <2>4, <2>5, <2>6 DEF ConnectionsNext
<1> QED
    BY <1>1, <1>2, PTL DEF ConnectionsSpec, ConnectionsInv

-----------------------------------------------------------------------------
(* The handlers.                                                            *)

handlersVars == <<limiterVars, admissionVars>>
HandlersNext == AdmissionNext \/ (Tick /\ UNCHANGED admissionVars)
HandlersSpec == LimiterInit /\ AdmissionInit /\ [][HandlersNext]_handlersVars

CallType == [step : {"idle", "upload", "queued", "working", "joined"},
             kind : Kinds \cup {None}, peer : Peers \cup {None}, num : 0 .. MaxKeys,
             keys : Seq(Nat), cur : Nat, ok : BOOLEAN]
HeldType == [bytes : Int, permits : Int, uploads : [Peers -> Int], pirs : [Peers -> Int]]
WorkType == [call : Calls \cup {None}, kind : Kinds \cup {None}, peer : Peers \cup {None}]

\* A call: one that is idle holds nothing, one that uploads has buffered nothing
\* before its header, and no more than it reserved after it.
CallInv(call) ==
    /\ call \in CallType
    /\ call.step = "idle" => call = NoCall
    /\ call.step = "upload" => /\ call.kind \in {"digest", "register"} /\ call.peer \in Peers
                               /\ call.num = 0 => call.keys = <<>> /\ call.cur = 0
    /\ call.kind # None => call.peer \in Peers
    /\ Uploading(call) => Buffers(call) <= Reserved(call)

UploadsAt(cs, p) == {c \in Calls : Uploading(cs[c]) /\ cs[c].peer = p}
PirsAt(cs, p)    == {c \in Calls : cs[c].kind = "pir" /\ cs[c].peer = p}

\* The slots and bytes of a set of calls, as they are counted in h.
Accounted(cs, h) ==
    /\ h.bytes + Sum([c \in Calls |-> Reserved(cs[c])], Calls) = UploadBudget
    /\ h.bytes >= 0
    /\ \A p \in Peers :
          /\ h.uploads[p] = Cardinality(UploadsAt(cs, p)) /\ h.uploads[p] <= MaxUploads
          /\ h.pirs[p] = Cardinality(PirsAt(cs, p)) /\ h.pirs[p] <= MaxPirInflight

CallsInv(cs, h) ==
    /\ cs \in [Calls -> CallType] /\ \A c \in Calls : CallInv(cs[c])
    /\ h \in HeldType
    /\ Accounted(cs, h)

UploadsAs(call, p) == IF Uploading(call) /\ call.peer = p THEN 1 ELSE 0
PirsAs(call, p)    == IF call.kind = "pir" /\ call.peer = p THEN 1 ELSE 0

LEMMA ReservedNat == ASSUME NEW call \in CallType PROVE Reserved(call) \in Nat
<1>1. call.num \in Nat /\ KeyBytes \in Nat
    BY AdmissionAssumption DEF CallType
<1>2. call.num * KeyBytes \in Nat
    BY <1>1
<1> QED
    BY <1>2 DEF Reserved

\* One call changes, and what is free changes by what it holds more or less.
LEMMA Exchange ==
    ASSUME NEW cs, NEW h, CallsInv(cs, h), NEW c \in Calls, NEW call, CallInv(call),
           NEW g \in HeldType, g.bytes >= 0,
           g.bytes = (h.bytes + Reserved(cs[c])) - Reserved(call),
           \A p \in Peers :
              /\ g.uploads[p] = (h.uploads[p] - UploadsAs(cs[c], p)) + UploadsAs(call, p)
              /\ g.pirs[p] = (h.pirs[p] - PirsAs(cs[c], p)) + PirsAs(call, p)
              /\ g.uploads[p] <= MaxUploads /\ g.pirs[p] <= MaxPirInflight
    PROVE  CallsInv([cs EXCEPT ![c] = call], g)
<1> DEFINE ds == [cs EXCEPT ![c] = call]
           f  == [d \in Calls |-> Reserved(cs[d])]
           k  == [d \in Calls |-> Reserved(ds[d])]
<1>1. /\ cs \in [Calls -> CallType] /\ call \in CallType /\ IsFiniteSet(Calls)
      /\ h \in HeldType /\ \A d \in Calls : CallInv(cs[d])
    BY AdmissionAssumption DEF CallsInv, CallInv
<1>2. /\ ds \in [Calls -> CallType] /\ ds[c] = call
      /\ \A d \in Calls \ {c} : ds[d] = cs[d]
    BY <1>1
<1>3. \A d \in Calls : CallInv(ds[d])
    BY <1>1, <1>2
<1> HIDE DEF ds
<1>4. (\A d \in Calls : f[d] \in Int /\ k[d] \in Int) /\ \A d \in Calls \ {c} : f[d] = k[d]
    BY <1>1, <1>2, ReservedNat
<1>5. f[c] = Reserved(cs[c]) /\ k[c] = Reserved(call)
    BY <1>2
<1>6. Sum(k, Calls) = (Sum(f, Calls) - f[c]) + k[c]
    <2> HIDE DEF f, k
    <2> QED BY <1>1, <1>4, SumChange
<1>7. Sum(f, Calls) \in Int
    <2> HIDE DEF f, k
    <2> QED BY <1>1, <1>4, SumInt
<1>8. g.bytes + Sum(k, Calls) = UploadBudget
    <2>1. h.bytes + Sum(f, Calls) = UploadBudget
        BY DEF CallsInv, Accounted
    <2>2. h.bytes \in Int /\ f[c] \in Int /\ k[c] \in Int
        BY <1>1, <1>4 DEF HeldType
    <2> HIDE DEF f, k
    <2> QED BY <2>1, <2>2, <1>5, <1>6, <1>7
<1>9. ASSUME NEW p \in Peers
      PROVE  g.uploads[p] = Cardinality(UploadsAt(ds, p)) /\ g.pirs[p] = Cardinality(PirsAt(ds, p))
    <2>1. h.uploads[p] = Cardinality(UploadsAt(cs, p)) /\ h.pirs[p] = Cardinality(PirsAt(cs, p))
        BY DEF CallsInv, Accounted
    <2>2. IsFiniteSet(UploadsAt(cs, p)) /\ IsFiniteSet(PirsAt(cs, p))
        BY <1>1, FS_Subset DEF UploadsAt, PirsAt
    <2>3. UploadsAt(cs, p) \ {c} = UploadsAt(ds, p) \ {c} /\ PirsAt(cs, p) \ {c} = PirsAt(ds, p) \ {c}
        BY <1>2 DEF UploadsAt, PirsAt
    <2>4. /\ (c \in UploadsAt(cs, p)) <=> (UploadsAs(cs[c], p) = 1)
          /\ (c \in UploadsAt(ds, p)) <=> (UploadsAs(call, p) = 1)
          /\ (c \in PirsAt(cs, p)) <=> (PirsAs(cs[c], p) = 1)
          /\ (c \in PirsAt(ds, p)) <=> (PirsAs(call, p) = 1)
        BY <1>2 DEF UploadsAt, PirsAt, UploadsAs, PirsAs
    <2>5. Cardinality(UploadsAt(ds, p)) =
              (Cardinality(UploadsAt(cs, p)) - (IF c \in UploadsAt(cs, p) THEN 1 ELSE 0))
              + (IF c \in UploadsAt(ds, p) THEN 1 ELSE 0)
        BY <2>2, <2>3, OneElement
    <2>6. Cardinality(PirsAt(ds, p)) =
              (Cardinality(PirsAt(cs, p)) - (IF c \in PirsAt(cs, p) THEN 1 ELSE 0))
              + (IF c \in PirsAt(ds, p) THEN 1 ELSE 0)
        BY <2>2, <2>3, OneElement
    <2>7. /\ UploadsAs(cs[c], p) = IF c \in UploadsAt(cs, p) THEN 1 ELSE 0
          /\ UploadsAs(call, p) = IF c \in UploadsAt(ds, p) THEN 1 ELSE 0
          /\ PirsAs(cs[c], p) = IF c \in PirsAt(cs, p) THEN 1 ELSE 0
          /\ PirsAs(call, p) = IF c \in PirsAt(ds, p) THEN 1 ELSE 0
        BY <2>4 DEF UploadsAs, PirsAs
    <2> QED BY <2>1, <2>5, <2>6, <2>7
<1>10. Accounted(ds, g)
    BY <1>8, <1>9 DEF Accounted
<1> QED
    BY <1>2, <1>3, <1>10 DEF CallsInv, ds

\* A step of a call that takes and gives nothing back.
LEMMA Continues ==
    ASSUME NEW cs, NEW h, CallsInv(cs, h), NEW c \in Calls, NEW call, CallInv(call),
           call.kind = cs[c].kind, call.peer = cs[c].peer, call.num = cs[c].num,
           NEW g \in HeldType, g.bytes = h.bytes, g.uploads = h.uploads, g.pirs = h.pirs
    PROVE  CallsInv([cs EXCEPT ![c] = call], g)
<1>1. Reserved(cs[c]) = Reserved(call)
    BY DEF Reserved, Uploading
<1>2. \A p \in Peers : UploadsAs(cs[c], p) = UploadsAs(call, p) /\ PirsAs(cs[c], p) = PirsAs(call, p)
    BY DEF UploadsAs, PirsAs, Uploading
<1>3. Reserved(call) \in Nat /\ h.bytes \in Int /\ h.bytes >= 0
    BY ReservedNat DEF CallsInv, CallInv, HeldType, Accounted
<1>4. \A p \in Peers : /\ UploadsAs(call, p) \in Int /\ PirsAs(call, p) \in Int
                       /\ h.uploads[p] \in Int /\ h.pirs[p] \in Int
                       /\ h.uploads[p] <= MaxUploads /\ h.pirs[p] <= MaxPirInflight
    BY DEF UploadsAs, PirsAs, CallsInv, HeldType, Accounted
<1>5. g.bytes >= 0 /\ g.bytes = (h.bytes + Reserved(cs[c])) - Reserved(call)
    BY <1>1, <1>3
<1>6. \A p \in Peers :
          /\ g.uploads[p] = (h.uploads[p] - UploadsAs(cs[c], p)) + UploadsAs(call, p)
          /\ g.pirs[p] = (h.pirs[p] - PirsAs(cs[c], p)) + PirsAs(call, p)
          /\ g.uploads[p] <= MaxUploads /\ g.pirs[p] <= MaxPirInflight
    BY <1>2, <1>4
<1> QED
    BY <1>5, <1>6, Exchange

LEMMA NoCallInv == CallInv(NoCall)
<1>1. <<>> \in Seq(Nat)
    OBVIOUS
<1>2. 0 \in 0 .. MaxKeys
    BY AdmissionAssumption
<1>3. NoCall \in CallType
    BY <1>1, <1>2 DEF NoCall, CallType
<1>4. ~ Uploading(NoCall) /\ NoCall.kind = None /\ NoCall.step = "idle"
    BY DEF NoCall, Uploading
<1> QED
    BY <1>3, <1>4 DEF CallInv

\* A handler that ends gives back all that its call holds.
LEMMA EndsInv ==
    ASSUME CallsInv(calls, held), NEW c \in Calls, Ends(c, held)
    PROVE  CallsInv(calls', held') /\ held'.permits = held.permits
<1> DEFINE g == Released(held, c)
           q == calls[c].peer
<1>1. held' = g /\ calls' = [calls EXCEPT ![c] = NoCall]
    BY DEF Ends
<1>2. /\ CallInv(calls[c]) /\ calls[c] \in CallType /\ held \in HeldType
      /\ calls[c].kind \in {"digest", "register", "pir"} => q \in Peers
    BY AdmissionAssumption DEF CallsInv, CallInv, Kinds
<1>3. /\ held.bytes \in Int /\ held.bytes >= 0 /\ held.permits \in Int
      /\ held.uploads \in [Peers -> Int] /\ held.pirs \in [Peers -> Int]
      /\ Reserved(calls[c]) \in Nat
    BY <1>2, ReservedNat DEF CallsInv, HeldType, Accounted
<1>4. /\ g.bytes = held.bytes + Reserved(calls[c]) /\ g.permits = held.permits
      /\ g.uploads = IF Uploading(calls[c]) THEN [held.uploads EXCEPT ![q] = @ - 1] ELSE held.uploads
      /\ g.pirs = IF calls[c].kind = "pir" THEN [held.pirs EXCEPT ![q] = @ - 1] ELSE held.pirs
      /\ g \in HeldType
    <2> DEFINE a == held.bytes + Reserved(calls[c])
               u == IF Uploading(calls[c]) THEN [held.uploads EXCEPT ![q] = @ - 1] ELSE held.uploads
               r == IF calls[c].kind = "pir" THEN [held.pirs EXCEPT ![q] = @ - 1] ELSE held.pirs
    <2>1. g = [held EXCEPT !.bytes = a, !.uploads = u, !.pirs = r]
        BY DEF Released
    <2>a. a \in Int
        BY <1>3
    <2>b. u \in [Peers -> Int]
        BY <1>2, <1>3 DEF Uploading
    <2>c. r \in [Peers -> Int]
        BY <1>2, <1>3
    <2> HIDE DEF g, a, u, r, q
    <2>3. /\ g \in HeldType /\ g.bytes = a /\ g.uploads = u /\ g.pirs = r
          /\ g.permits = held.permits
        BY <1>2, <2>1, <2>a, <2>b, <2>c DEF HeldType
    <2> QED BY <2>3 DEF a, u, r, q
<1>5. Reserved(NoCall) = 0 /\ \A p \in Peers : UploadsAs(NoCall, p) = 0 /\ PirsAs(NoCall, p) = 0
    BY AdmissionAssumption DEF NoCall, Reserved, Uploading, UploadsAs, PirsAs, Kinds
<1> HIDE DEF g
<1>6. g.bytes >= 0 /\ g.bytes = (held.bytes + Reserved(calls[c])) - Reserved(NoCall)
    BY <1>3, <1>4, <1>5
<1>7. ASSUME NEW p \in Peers
      PROVE  /\ g.uploads[p] = (held.uploads[p] - UploadsAs(calls[c], p)) + UploadsAs(NoCall, p)
             /\ g.pirs[p] = (held.pirs[p] - PirsAs(calls[c], p)) + PirsAs(NoCall, p)
             /\ g.uploads[p] <= MaxUploads /\ g.pirs[p] <= MaxPirInflight
    <2>1. /\ held.uploads[p] \in Int /\ held.pirs[p] \in Int
          /\ held.uploads[p] <= MaxUploads /\ held.pirs[p] <= MaxPirInflight
        BY <1>3 DEF CallsInv, Accounted
    <2>2. g.uploads[p] = held.uploads[p] - UploadsAs(calls[c], p)
        BY <2>1, <1>3, <1>4, <1>2 DEF UploadsAs, Uploading
    <2>3. g.pirs[p] = held.pirs[p] - PirsAs(calls[c], p)
        BY <2>1, <1>3, <1>4, <1>2 DEF PirsAs
    <2>4. UploadsAs(calls[c], p) \in {0, 1} /\ PirsAs(calls[c], p) \in {0, 1}
        BY DEF UploadsAs, PirsAs
    <2>5. MaxUploads \in Nat /\ MaxPirInflight \in Nat
        BY AdmissionAssumption DEF MaxPirInflight
    <2> QED BY <2>1, <2>2, <2>3, <2>4, <2>5, <1>5
<1>8. CallsInv([calls EXCEPT ![c] = NoCall], g)
    <2>1. g \in HeldType
        BY <1>4
    <2> HIDE DEF q
    <2> QED BY <2>1, <1>6, <1>7, Exchange, NoCallInv
<1> QED
    BY <1>1, <1>4, <1>8

\* What a part of a key adds to what is buffered.
LEMMA BufferedInv ==
    ASSUME NEW call \in CallType, NEW d \in 0 .. 1, NEW done \in BOOLEAN
    PROVE  LET b == Buffered(call, d, done)
           IN  /\ b \in CallType /\ b.kind = call.kind /\ b.peer = call.peer
               /\ b.num = call.num /\ b.step = call.step
               /\ Buffers(b) = Buffers(call) + d /\ Buffers(call) \in Nat
<1> DEFINE b == Buffered(call, d, done)
<1>1. call.keys \in Seq(Nat) /\ call.cur \in Nat /\ d \in Nat /\ call.cur + d \in Nat
    BY DEF CallType
<1> DEFINE ks == IF done THEN Append(call.keys, call.cur + d) ELSE call.keys
           n  == IF done THEN 0 ELSE call.cur + d
<1>a. b = [call EXCEPT !.keys = ks, !.cur = n]
    BY DEF Buffered
<1>b. ks \in Seq(Nat) /\ n \in Nat
    BY <1>1
<1>c. /\ b \in CallType /\ b.keys = ks /\ b.cur = n
      /\ b.kind = call.kind /\ b.peer = call.peer /\ b.num = call.num /\ b.step = call.step
    <2> HIDE DEF b, ks, n
    <2> QED BY <1>a, <1>b DEF CallType
<1>2. /\ b.keys = IF done THEN Append(call.keys, call.cur + d) ELSE call.keys
      /\ b.cur = IF done THEN 0 ELSE call.cur + d
    BY <1>c
<1>3. /\ b \in CallType
      /\ b.kind = call.kind /\ b.peer = call.peer /\ b.num = call.num /\ b.step = call.step
    BY <1>c
<1>4. SumFunction(call.keys) \in Nat
    BY <1>1, SumOfSeq
<1>5. SumFunction(Append(call.keys, call.cur + d)) = SumFunction(call.keys) + (call.cur + d)
    BY <1>1, SumOfSeq
<1> HIDE DEF b
<1>6. Buffers(b) = SumFunction(b.keys) + b.cur /\ Buffers(call) = SumFunction(call.keys) + call.cur
    BY DEF Buffers, SumLengths
<1>7. Buffers(b) = Buffers(call) + d /\ Buffers(call) \in Nat
    BY <1>1, <1>2, <1>4, <1>5, <1>6
<1> QED
    BY <1>3, <1>7 DEF b

\* What is declared covers a byte, and any one key of the largest size.
LEMMA DeclaredCovers ==
    ASSUME NEW num \in Nat \ {0}
    PROVE  num * KeyBytes \in Nat /\ num * KeyBytes >= KeyBytes /\ num * KeyBytes >= 1
<1>1. PICK k \in Nat : num = k + 1
    BY num - 1 \in Nat /\ num = (num - 1) + 1
<1>2. KeyBytes \in Nat \ {0} /\ k * KeyBytes \in Nat
    BY AdmissionAssumption
<1>3. (k + 1) * KeyBytes = k * KeyBytes + KeyBytes
    BY <1>2
<1> QED
    BY <1>1, <1>2, <1>3

-----------------------------------------------------------------------------
(* The detection pool.                                                      *)

KeysType  == [keys : Seq(Nat), expires : Int]
EntryMaps == UNION {[D -> KeysType] : D \in SUBSET Nat}
PoolType  == [entries : EntryMaps, total : Int, swept : Int]

\* The pool beside what was given out: its handles are among them, and one that
\* has not expired is there with its keys.
PoolInv(p, out, t) ==
    /\ p \in PoolType
    /\ \E n \in Nat : DOMAIN out = 1 .. n
    /\ \A h \in DOMAIN out : out[h] \in KeysType
    /\ DOMAIN p.entries \subseteq DOMAIN out
    /\ p.total = RetainedIn(p.entries) /\ p.total <= MaxPoolBytes
    /\ Cardinality(DOMAIN p.entries) <= MaxHandles
    /\ \A h \in DOMAIN out : LiveAt(out[h], t) =>
          h \in DOMAIN p.entries /\ p.entries[h] = out[h]

LEMMA EntriesType ==
    ASSUME NEW e
    PROVE  /\ e \in EntryMaps => /\ e = [h \in DOMAIN e |-> e[h]]
                                 /\ DOMAIN e \subseteq Nat /\ \A h \in DOMAIN e : e[h] \in KeysType
           /\ (/\ e = [h \in DOMAIN e |-> e[h]]
               /\ DOMAIN e \subseteq Nat /\ \A h \in DOMAIN e : e[h] \in KeysType) => e \in EntryMaps
<1>1. ASSUME e \in EntryMaps
      PROVE  /\ e = [h \in DOMAIN e |-> e[h]]
             /\ DOMAIN e \subseteq Nat /\ \A h \in DOMAIN e : e[h] \in KeysType
    <2>1. PICK D \in SUBSET Nat : e \in [D -> KeysType]
        BY <1>1 DEF EntryMaps
    <2> QED BY <2>1
<1>2. ASSUME e = [h \in DOMAIN e |-> e[h]], DOMAIN e \subseteq Nat, \A h \in DOMAIN e : e[h] \in KeysType
      PROVE  e \in EntryMaps
    <2>1. e \in [DOMAIN e -> KeysType] /\ DOMAIN e \in SUBSET Nat
        BY <1>2
    <2> QED BY <2>1 DEF EntryMaps
<1> QED
    BY <1>1, <1>2

\* What a map of keys retains is a sum over its handles, and grows with them.
LEMMA RetainedSum ==
    ASSUME NEW e, \A h \in DOMAIN e : e[h] \in KeysType
    PROVE  LET f == [h \in DOMAIN e |-> SumLengths(e[h].keys)]
           IN  RetainedIn(e) = Sum(f, DOMAIN e) /\ \A h \in DOMAIN e : f[h] \in Nat
<1> DEFINE f == [h \in DOMAIN e |-> SumLengths(e[h].keys)]
<1>1. \A h \in DOMAIN e : e[h].keys \in Seq(Nat)
    BY DEF KeysType
<1>2. \A h \in DOMAIN e : SumLengths(e[h].keys) \in Nat
    BY <1>1, SumOfSeq DEF SumLengths
<1>3. DOMAIN f = DOMAIN e
    OBVIOUS
<1>4. RetainedIn(e) = SumFunctionOnSet(f, DOMAIN f)
    BY DEF RetainedIn, SumFunction
<1>5. RetainedIn(e) = Sum(f, DOMAIN e)
    BY <1>3, <1>4 DEF Sum
<1> QED
    BY <1>2, <1>5

\* Entries that are no longer live can be taken out.
LEMMA WithoutInv ==
    ASSUME NEW p, NEW out, NEW t \in Int, PoolInv(p, out, t),
           NEW dead, dead \subseteq DOMAIN p.entries,
           \A h \in dead : ~ LiveAt(p.entries[h], t)
    PROVE  /\ PoolInv(Without(p, dead), out, t)
           /\ DOMAIN Without(p, dead).entries = DOMAIN p.entries \ dead
<1> DEFINE e == p.entries
           D == DOMAIN e
           d == [h \in dead |-> e[h]]
           k == [h \in D \ dead |-> e[h]]
           w == Without(p, dead)
           f(x) == [h \in DOMAIN x |-> SumLengths(x[h].keys)]
<1>1. /\ p \in PoolType /\ e \in EntryMaps /\ p.total \in Int /\ p.swept \in Int
      /\ p.total = RetainedIn(e)
    BY DEF PoolInv, PoolType
<1>2. D \subseteq Nat /\ \A h \in D : e[h] \in KeysType
    BY <1>1, EntriesType
<1>3. IsFiniteSet(D)
    <2>1. PICK n \in Nat : DOMAIN out = 1 .. n
        BY DEF PoolInv
    <2>2. D \in SUBSET (1 .. n) /\ IsFiniteSet(1 .. n)
        BY <2>1, FS_Interval DEF PoolInv
    <2> QED BY <2>2, FS_Subset
<1>4. IsFiniteSet(dead) /\ IsFiniteSet(D \ dead) /\ Cardinality(D \ dead) <= Cardinality(D)
    BY <1>3, FS_Subset
<1>5. /\ DOMAIN d = dead /\ DOMAIN k = D \ dead
      /\ \A h \in dead : d[h] = e[h] /\ d[h] \in KeysType
      /\ \A h \in D \ dead : k[h] = e[h] /\ k[h] \in KeysType
    BY <1>2
<1>6. /\ w.entries = k /\ w.total = p.total - RetainedIn(d) /\ w.swept = p.swept
      /\ DOMAIN w = DOMAIN p
    BY <1>1 DEF Without, PoolType
<1>7. k \in EntryMaps
    <2>1. k = [h \in DOMAIN k |-> k[h]]
        BY <1>5
    <2> HIDE DEF k
    <2> QED BY <2>1, <1>2, <1>5, EntriesType
<1> HIDE DEF e, D, d, k, w
<1>8. /\ RetainedIn(e) = Sum(f(e), D) /\ RetainedIn(d) = Sum(f(d), dead)
      /\ RetainedIn(k) = Sum(f(k), D \ dead)
      /\ \A h \in D : f(e)[h] \in Nat
      /\ \A h \in dead : f(d)[h] \in Nat
    <2>1. RetainedIn(e) = Sum(f(e), D) /\ \A h \in D : f(e)[h] \in Nat
        BY <1>2, RetainedSum DEF D
    <2>2. RetainedIn(d) = Sum(f(d), dead) /\ \A h \in dead : f(d)[h] \in Nat
        BY <1>5, RetainedSum
    <2>3. RetainedIn(k) = Sum(f(k), D \ dead)
        BY <1>5, RetainedSum
    <2> QED BY <2>1, <2>2, <2>3
<1>9. (\A h \in dead : f(d)[h] = f(e)[h]) /\ (\A h \in D \ dead : f(k)[h] = f(e)[h])
    BY <1>5 DEF D, e
<1>10. dead \subseteq D
    BY DEF D, e
<1>11. Sum(f(d), dead) = Sum(f(e), dead) /\ Sum(f(k), D \ dead) = Sum(f(e), D \ dead)
    <2> HIDE DEF f
    <2> QED BY <1>4, <1>9, SumSame
<1>12. Sum(f(e), D) = Sum(f(e), dead) + Sum(f(e), D \ dead)
    <2>1. dead \cup (D \ dead) = D /\ dead \cap (D \ dead) = {}
        BY <1>10
    <2>2. \A h \in dead \cup (D \ dead) : f(e)[h] \in Int
        BY <2>1, <1>8
    <2> HIDE DEF f
    <2>3. Sum(f(e), dead \cup (D \ dead)) = Sum(f(e), dead) + Sum(f(e), D \ dead)
        BY <2>1, <2>2, <1>4, SumUnion
    <2>4. Sum(f(e), dead \cup (D \ dead)) = Sum(f(e), D)
        BY <2>1, Zenon
    <2> QED BY <2>3, <2>4
<1>13. Sum(f(d), dead) \in Nat /\ Sum(f(e), D \ dead) \in Nat
    <2>1. \A h \in D \ dead : f(e)[h] \in Nat
        BY <1>8
    <2> HIDE DEF f
    <2> QED BY <2>1, <1>4, <1>8, SumNat
<1>14. w.total = RetainedIn(w.entries) /\ w.total <= MaxPoolBytes /\ w.total \in Int
    <2>1. p.total <= MaxPoolBytes /\ MaxPoolBytes \in Nat
        BY PoolAssumption DEF PoolInv
    <2> HIDE DEF f
    <2> QED BY <2>1, <1>1, <1>6, <1>8, <1>11, <1>12, <1>13
<1>15. w \in PoolType
    <2> DEFINE x == p.total - RetainedIn(d)
    <2>1. w = [p EXCEPT !.entries = k, !.total = x]
        BY DEF w, Without, k, D, d, e
    <2>2. x \in Int
        BY <1>6, <1>14
    <2> HIDE DEF x
    <2> QED BY <2>1, <2>2, <1>1, <1>7 DEF PoolType
<1>16. Cardinality(DOMAIN w.entries) <= MaxHandles
    <2>1. Cardinality(D) <= MaxHandles /\ MaxHandles \in Nat
        BY PoolAssumption DEF PoolInv, D, e
    <2>2. Cardinality(D) \in Nat /\ Cardinality(D \ dead) \in Nat
        BY <1>3, <1>4, FS_CardinalityType
    <2> QED BY <2>1, <2>2, <1>4, <1>5, <1>6
<1>17. ASSUME NEW h \in DOMAIN out, LiveAt(out[h], t)
       PROVE  h \in DOMAIN w.entries /\ w.entries[h] = out[h]
    <2>1. h \in D /\ e[h] = out[h]
        BY <1>17 DEF PoolInv, D, e
    <2>2. h \notin dead
        BY <2>1, <1>17 DEF e
    <2> QED BY <2>1, <2>2, <1>5, <1>6
<1>18. DOMAIN w.entries \subseteq DOMAIN out /\ DOMAIN w.entries = D \ dead
    BY <1>5, <1>6 DEF PoolInv, D, e
<1> QED
    BY <1>14, <1>15, <1>16, <1>17, <1>18 DEF PoolInv, w, D, e

LEMMA SweepInv ==
    ASSUME NEW p, NEW out, NEW t \in Int, PoolInv(p, out, t)
    PROVE  PoolInv(Sweep(p, t), out, t) /\ DOMAIN Sweep(p, t).entries \subseteq DOMAIN p.entries
<1> DEFINE dead == {h \in DOMAIN p.entries : ~ LiveAt(p.entries[h], t)}
           w == Without(p, dead)
           g == [w EXCEPT !.swept = t]
<1>1. Sweep(p, t) = g
    BY DEF Sweep
<1>2. dead \subseteq DOMAIN p.entries /\ \A h \in dead : ~ LiveAt(p.entries[h], t)
    OBVIOUS
<1> HIDE DEF dead, w
<1>3. PoolInv(w, out, t) /\ DOMAIN w.entries = DOMAIN p.entries \ dead
    BY <1>2, WithoutInv DEF w
<1>4. w \in PoolType
    BY <1>3 DEF PoolInv
<1>5. g \in PoolType /\ g.entries = w.entries /\ g.total = w.total
    BY <1>4 DEF PoolType
<1> HIDE DEF g
<1>6. PoolInv(g, out, t)
    BY <1>3, <1>5 DEF PoolInv
<1> QED
    BY <1>1, <1>3, <1>5, <1>6

LEMMA LookupInv ==
    ASSUME NEW p, NEW out, NEW t \in Int, PoolInv(p, out, t), NEW handle
    PROVE  /\ PoolInv(AfterLookup(p, handle, t), out, t)
           /\ DOMAIN AfterLookup(p, handle, t).entries \subseteq DOMAIN p.entries
<1> DEFINE q == IF t - p.swept >= SweepInterval THEN Sweep(p, t) ELSE p
<1>1. PoolInv(q, out, t) /\ DOMAIN q.entries \subseteq DOMAIN p.entries
    BY SweepInv
<1>2. AfterLookup(p, handle, t) =
          IF handle \in DOMAIN q.entries /\ ~LiveAt(q.entries[handle], t)
          THEN Without(q, {handle}) ELSE q
    BY DEF AfterLookup
<1> HIDE DEF q
<1>3. CASE handle \in DOMAIN q.entries /\ ~LiveAt(q.entries[handle], t)
    <2>1. {handle} \subseteq DOMAIN q.entries /\ \A h \in {handle} : ~ LiveAt(q.entries[h], t)
        BY <1>3
    <2>2. PoolInv(Without(q, {handle}), out, t)
            /\ DOMAIN Without(q, {handle}).entries = DOMAIN q.entries \ {handle}
        BY <2>1, <1>1, WithoutInv
    <2> QED BY <2>2, <1>1, <1>2, <1>3
<1>4. CASE ~ (handle \in DOMAIN q.entries /\ ~LiveAt(q.entries[handle], t))
    BY <1>1, <1>2, <1>4
<1> QED
    BY <1>3, <1>4

\* What is taken in is counted, and found under a handle not given out before.
LEMMA InsertInv ==
    ASSUME NEW p, NEW out, NEW t \in Int, PoolInv(p, out, t), NEW keys \in Seq(Nat)
    PROVE  LET handle == Cardinality(DOMAIN out) + 1
               more == IF Takes(p, keys, KeyBytes, t)
                       THEN [h \in DOMAIN out \cup {handle} |->
                                IF h = handle THEN [keys |-> keys, expires |-> t + Ttl] ELSE out[h]]
                       ELSE out
           IN  PoolInv(InsertKeys(p, handle, keys, KeyBytes, t), more, t)
<1> DEFINE handle == Cardinality(DOMAIN out) + 1
           new == [keys |-> keys, expires |-> t + Ttl]
           q == Sweep(p, t)
           ext == [h \in DOMAIN out \cup {handle} |-> IF h = handle THEN new ELSE out[h]]
           e == [h \in DOMAIN q.entries \cup {handle} |-> IF h = handle THEN new ELSE q.entries[h]]
           x == q.total + SumLengths(keys)
           g == [q EXCEPT !.entries = e, !.total = x]
<1>1. PoolInv(q, out, t)
    BY SweepInv
<1>2. CASE ~ Takes(p, keys, KeyBytes, t)
    BY <1>1, <1>2 DEF InsertKeys
<1>3. CASE Takes(p, keys, KeyBytes, t)
    <2>1. InsertKeys(p, handle, keys, KeyBytes, t) = g
        BY <1>3 DEF InsertKeys
    <2>2. Cardinality(DOMAIN q.entries) < MaxHandles /\ x <= MaxPoolBytes
        BY <1>3 DEF Takes
    <2> HIDE DEF q
    <2>3. PICK n \in Nat : DOMAIN out = 1 .. n
        BY <1>1 DEF PoolInv
    <2>4. handle = n + 1 /\ handle \in Nat /\ DOMAIN out \cup {handle} = 1 .. n + 1
            /\ handle \notin DOMAIN out
        <3>1. Cardinality(1 .. n) = n
            BY FS_Interval
        <3>2. handle = n + 1
            BY <3>1, <2>3, Zenon
        <3> QED BY <3>2, <2>3
    <2> HIDE DEF handle
    <2>5. /\ q \in PoolType /\ q.entries \in EntryMaps /\ q.total \in Int
          /\ q.total = RetainedIn(q.entries)
        BY <1>1 DEF PoolInv, PoolType
    <2>6. new \in KeysType
        BY PoolAssumption DEF KeysType
    <2> DEFINE D == DOMAIN q.entries
    <2>7. /\ D \subseteq Nat /\ D \subseteq DOMAIN out /\ handle \notin D
          /\ \A h \in D : q.entries[h] \in KeysType
        BY <2>4, <2>5, <1>1, EntriesType DEF PoolInv
    <2>8. IsFiniteSet(D)
        <3>1. D \in SUBSET (1 .. n) /\ IsFiniteSet(1 .. n)
            BY <2>3, <2>7, FS_Interval
        <3> QED BY <3>1, FS_Subset
    <2> HIDE DEF new, D
    <2>9. /\ DOMAIN e = D \cup {handle} /\ e[handle] = new /\ e[handle] \in KeysType
          /\ \A h \in D : e[h] = q.entries[h] /\ e[h] \in KeysType
        BY <2>6, <2>7 DEF D
    <2>10. e \in EntryMaps
        <3>1. e = [h \in DOMAIN e |-> e[h]] /\ DOMAIN e \subseteq Nat
            BY <2>4, <2>7, <2>9
        <3> HIDE DEF e
        <3> QED BY <3>1, <2>9, EntriesType
    <2> HIDE DEF e
    <2> DEFINE f(y) == [h \in DOMAIN y |-> SumLengths(y[h].keys)]
    <2>11. /\ RetainedIn(e) = Sum(f(e), D \cup {handle})
           /\ \A h \in D \cup {handle} : f(e)[h] \in Nat
        <3>1. \A h \in DOMAIN e : e[h] \in KeysType
            BY <2>9
        <3>2. RetainedIn(e) = Sum(f(e), DOMAIN e) /\ \A h \in DOMAIN e : f(e)[h] \in Nat
            BY <3>1, RetainedSum
        <3> HIDE DEF f
        <3> QED BY <3>2, <2>9, Zenon
    <2>12. RetainedIn(q.entries) = Sum(f(q.entries), D)
        BY <2>7, RetainedSum DEF D
    <2>13. f(e)[handle] = SumLengths(keys) /\ \A h \in D : f(e)[h] = f(q.entries)[h]
        BY <2>9 DEF D, new
    <2>14. SumLengths(keys) \in Nat
        BY SumOfSeq DEF SumLengths
    <2>15. RetainedIn(e) = x
        <3> HIDE DEF f
        <3>1. Sum(f(e), D \cup {handle}) = f(e)[handle] + Sum(f(e), D)
            <4>1. \A h \in D \cup {handle} : f(e)[h] \in Int
                BY <2>11
            <4> QED BY <4>1, <2>7, <2>8, SumAdd
        <3>2. Sum(f(e), D) = Sum(f(q.entries), D)
            BY <2>8, <2>13, SumSame
        <3> QED BY <3>1, <3>2, <2>5, <2>11, <2>12, <2>13, <2>14
    <2>16. x \in Int
        BY <2>5, <2>14
    <2>17. Cardinality(D \cup {handle}) <= MaxHandles
        <3>1. Cardinality(D \cup {handle}) = Cardinality(D) + 1 /\ Cardinality(D) \in Nat
            BY <2>7, <2>8, FS_AddElement, FS_CardinalityType
        <3> QED BY <3>1, <2>2, PoolAssumption DEF D
    <2> HIDE DEF x
    <2>18. g \in PoolType /\ g.entries = e /\ g.total = x
        BY <2>5, <2>10, <2>16 DEF PoolType
    <2> HIDE DEF g
    <2>19. /\ DOMAIN ext = 1 .. n + 1 /\ ext[handle] = new
           /\ \A h \in DOMAIN out : ext[h] = out[h]
        BY <2>4
    <2>20. \A h \in DOMAIN ext : ext[h] \in KeysType
        BY <2>4, <2>6, <2>19, <1>1 DEF PoolInv
    <2> HIDE DEF ext
    <2>21. ASSUME NEW h \in DOMAIN ext, LiveAt(ext[h], t)
           PROVE  h \in DOMAIN e /\ e[h] = ext[h]
        <3>1. CASE h = handle
            BY <3>1, <2>9, <2>19
        <3>2. CASE h # handle
            <4>1. h \in DOMAIN out /\ ext[h] = out[h]
                BY <3>2, <2>4, <2>19
            <4>2. h \in D /\ q.entries[h] = out[h]
                BY <4>1, <2>21, <1>1 DEF PoolInv, D
            <4> QED BY <4>1, <4>2, <2>9
        <3> QED BY <3>1, <3>2
    <2>22. PoolInv(g, ext, t)
        <3>1. DOMAIN e \subseteq DOMAIN ext
            BY <2>4, <2>7, <2>9, <2>19
        <3>2. n + 1 \in Nat
            OBVIOUS
        <3>3. Cardinality(DOMAIN e) <= MaxHandles
            BY <2>9, <2>17, Zenon
        <3> QED BY <3>1, <3>2, <3>3, <2>2, <2>15, <2>18, <2>19, <2>20, <2>21 DEF PoolInv
    <2> QED BY <2>1, <2>22, <1>3 DEF ext, handle, new
<1> QED
    BY <1>2, <1>3

LEMMA PoolLater ==
    ASSUME NEW p, NEW out, NEW t \in Int, NEW u \in Int, t <= u, PoolInv(p, out, t)
    PROVE  PoolInv(p, out, u)
<1>1. \A h \in DOMAIN out : out[h].expires \in Int
    BY DEF PoolInv, KeysType
<1>2. \A h \in DOMAIN out : LiveAt(out[h], u) => LiveAt(out[h], t)
    BY <1>1 DEF LiveAt
<1> QED
    BY <1>2 DEF PoolInv

-----------------------------------------------------------------------------
(* The steps of the handlers.                                               *)

Running(ws) == {w \in 1 .. FheWorkers : ws[w] # None}

PermitsInv(ws, free) ==
    /\ ws \in [1 .. FheWorkers -> WorkType \cup {None}]
    /\ free \in Int /\ free + Cardinality(Running(ws)) = FheWorkers

\* The strengthening of Conserved and PoolExact.
HandlersInv ==
    /\ now \in Nat
    /\ CallsInv(calls, held)
    /\ PermitsInv(workers, held.permits)
    /\ queue \in Seq(Calls)
    /\ PoolInv(pool, issued, now)

LEMMA BeginInv ==
    ASSUME CallsInv(calls, held), NEW c \in Calls, Begin(c)
    PROVE  CallsInv(calls', held)
<1>1. PICK origin \in Origins, kind \in {"digest", "register"} :
          calls' = [calls EXCEPT ![c] = [NoCall EXCEPT !.step = "upload", !.kind = kind,
                                                       !.peer = PeerOf(origin)]]
    BY DEF Begin
<1> DEFINE q == PeerOf(origin)
           call == [NoCall EXCEPT !.step = "upload", !.kind = kind, !.peer = PeerOf(origin)]
<1>2. calls[c] = NoCall /\ held \in HeldType
    BY DEF Begin, CallsInv, CallInv
<1>3. q \in Peers /\ kind \in Kinds
    BY AdmissionAssumption DEF Kinds
<1>4. NoCall \in CallType /\ NoCall.num = 0 /\ NoCall.kind = None
    BY NoCallInv DEF CallInv, NoCall
<1>5. /\ call \in CallType /\ call.step = "upload" /\ call.kind = kind /\ call.peer = q
      /\ call.num = 0 /\ call.keys = NoCall.keys /\ call.cur = NoCall.cur
    <2> HIDE DEF q
    <2>1. call = [NoCall EXCEPT !.step = "upload", !.kind = kind, !.peer = q]
        BY DEF q
    <2> HIDE DEF call
    <2> QED BY <2>1, <1>3, <1>4 DEF CallType
<1> HIDE DEF call, q
<1>6. CallInv(call)
    <2>1. NoCall.keys = <<>> /\ NoCall.cur = 0
        BY DEF NoCall
    <2> QED BY <2>1, <1>3, <1>5 DEF CallInv, Uploading
<1>7. Reserved(call) = 0 /\ Reserved(NoCall) = 0
    BY <1>4, <1>5 DEF Reserved, Uploading
<1>8. \A p \in Peers : /\ UploadsAs(call, p) = 0 /\ UploadsAs(NoCall, p) = 0
                       /\ PirsAs(call, p) = 0 /\ PirsAs(NoCall, p) = 0
    BY <1>4, <1>5, AdmissionAssumption DEF UploadsAs, PirsAs, Uploading, Kinds
<1>9. held.bytes \in Int /\ held.bytes >= 0
        /\ \A p \in Peers : /\ held.uploads[p] \in Int /\ held.pirs[p] \in Int
                             /\ held.uploads[p] <= MaxUploads /\ held.pirs[p] <= MaxPirInflight
    BY DEF CallsInv, Accounted, HeldType
<1>10. held.bytes = (held.bytes + Reserved(calls[c])) - Reserved(call)
    BY <1>2, <1>7, <1>9
<1>11. \A p \in Peers :
           /\ held.uploads[p] = (held.uploads[p] - UploadsAs(calls[c], p)) + UploadsAs(call, p)
           /\ held.pirs[p] = (held.pirs[p] - PirsAs(calls[c], p)) + PirsAs(call, p)
           /\ held.uploads[p] <= MaxUploads /\ held.pirs[p] <= MaxPirInflight
    BY <1>2, <1>8, <1>9
<1>12. CallsInv([calls EXCEPT ![c] = call], held)
    BY <1>2, <1>6, <1>9, <1>10, <1>11, Exchange
<1> QED
    BY <1>1, <1>12 DEF call

\* The header takes the slot and the bytes, both or neither.
LEMMA HeaderInv ==
    ASSUME CallsInv(calls, held), NEW c \in Calls, Header(c)
    PROVE  CallsInv(calls', held') /\ held'.permits = held.permits
<1>1. PICK num \in 0 .. MaxKeys + 1, d \in 0 .. 1, done \in BOOLEAN, window \in BOOLEAN, beaten \in BOOLEAN :
          LET p     == calls[c].peer
              legal == num \in 1 .. MaxKeys /\ (calls[c].kind = "digest" => window)
              paid  == legal /\ Granted(table, p, num, now) /\ ~beaten
              taken == paid /\ CanReserve(held, p, num)
              call  == Buffered([calls[c] EXCEPT !.num = num], d, done)
          IN  /\ beaten => Crowded(c)
              /\ table' = IF legal THEN Charged(table, p, num, now) ELSE table
              /\ held' = IF paid THEN AfterReserve(held, p, num) ELSE held
              /\ calls' = [calls EXCEPT ![c] = IF taken THEN call ELSE NoCall]
    BY Zenon DEF Header
<1> DEFINE q     == calls[c].peer
           legal == num \in 1 .. MaxKeys /\ (calls[c].kind = "digest" => window)
           paid  == legal /\ Granted(table, q, num, now) /\ ~beaten
           taken == paid /\ CanReserve(held, q, num)
           base  == [calls[c] EXCEPT !.num = num]
           call  == Buffered(base, d, done)
<1>2. /\ held' = IF paid THEN AfterReserve(held, q, num) ELSE held
      /\ calls' = [calls EXCEPT ![c] = IF taken THEN call ELSE NoCall]
    BY <1>1
<1>3. /\ calls[c] \in CallType /\ CallInv(calls[c]) /\ held \in HeldType
      /\ calls[c].step = "upload" /\ calls[c].num = 0
      /\ calls[c].kind \in {"digest", "register"} /\ q \in Peers
      /\ calls[c].keys = <<>> /\ calls[c].cur = 0
    BY DEF Header, CallsInv, CallInv
<1>4. Reserved(calls[c]) = 0 /\ \A p \in Peers : UploadsAs(calls[c], p) = 0 /\ PirsAs(calls[c], p) = 0
    BY <1>3 DEF Reserved, Uploading, UploadsAs, PirsAs
<1>5. /\ held.bytes \in Int /\ held.bytes >= 0 /\ held.permits \in Int
      /\ held.uploads \in [Peers -> Int] /\ held.pirs \in [Peers -> Int]
      /\ \A p \in Peers : held.uploads[p] <= MaxUploads /\ held.pirs[p] <= MaxPirInflight
    BY DEF CallsInv, Accounted, HeldType
<1>6. CASE taken
    <2>1. num \in Nat \ {0} /\ num \in 0 .. MaxKeys /\ paid /\ CanReserve(held, q, num)
        BY <1>6
    <2> DEFINE u == [held.uploads EXCEPT ![q] = @ + 1]
               b == held.bytes - num * KeyBytes
               g == [held EXCEPT !.uploads = u, !.bytes = b]
    <2>2. held' = g
        BY <2>1, <1>2 DEF AfterReserve
    <2>3. /\ num * KeyBytes \in Nat /\ num * KeyBytes >= 1
          /\ num * KeyBytes <= held.bytes /\ held.uploads[q] < MaxUploads
        BY <2>1, DeclaredCovers DEF CanReserve
    <2>4. b \in Int /\ b >= 0 /\ u \in [Peers -> Int]
        BY <2>3, <1>3, <1>5
    <2>5. \A p \in Peers : u[p] = held.uploads[p] + (IF p = q THEN 1 ELSE 0) /\ u[p] <= MaxUploads
        <3> SUFFICES ASSUME NEW p \in Peers
                     PROVE  u[p] = held.uploads[p] + (IF p = q THEN 1 ELSE 0) /\ u[p] <= MaxUploads
            OBVIOUS
        <3>1. held.uploads[p] \in Int /\ held.uploads[q] \in Int /\ MaxUploads \in Int
            BY <1>3, <1>5, AdmissionAssumption
        <3>2. u[p] = IF p = q THEN held.uploads[q] + 1 ELSE held.uploads[p]
            BY <1>3, <1>5
        <3> QED BY <3>1, <3>2, <2>3, <1>5
    <2> HIDE DEF u, b
    <2>6. /\ g \in HeldType /\ g.uploads = u /\ g.bytes = b /\ g.pirs = held.pirs
          /\ g.permits = held.permits
        BY <2>4, <1>3 DEF HeldType
    <2>7. /\ base \in CallType /\ base.num = num /\ base.kind = calls[c].kind
          /\ base.peer = q /\ base.step = "upload" /\ base.keys = <<>> /\ base.cur = 0
        BY <2>1, <1>3 DEF CallType
    <2> HIDE DEF base, g
    <2>8. Buffers(base) = 0
        BY <2>7, SumOfSeq DEF Buffers, SumLengths, CallType
    <2>9. /\ call \in CallType /\ call.kind = calls[c].kind /\ call.peer = q
          /\ call.num = num /\ call.step = "upload" /\ Buffers(call) = d
        <3>1. d \in 0 .. 1 /\ done \in BOOLEAN
            OBVIOUS
        <3>2. LET b1 == Buffered(base, d, done)
              IN  /\ b1 \in CallType /\ b1.kind = base.kind /\ b1.peer = base.peer
                  /\ b1.num = base.num /\ b1.step = base.step
                  /\ Buffers(b1) = Buffers(base) + d /\ Buffers(base) \in Nat
            BY <2>7, <3>1, BufferedInv
        <3> QED BY <2>7, <2>8, <3>1, <3>2
    <2> HIDE DEF call
    <2>10. Uploading(call) /\ Reserved(call) = num * KeyBytes
        BY <2>1, <2>9, <1>3 DEF Uploading, Reserved
    <2>11. CallInv(call)
        BY <2>1, <2>3, <2>9, <2>10, <1>3 DEF CallInv
    <2>12. \A p \in Peers : UploadsAs(call, p) = (IF p = q THEN 1 ELSE 0) /\ PirsAs(call, p) = 0
        BY <2>9, <2>10, <1>3 DEF UploadsAs, PirsAs
    <2>13. g.bytes >= 0 /\ g.bytes = (held.bytes + Reserved(calls[c])) - Reserved(call)
        BY <2>3, <2>4, <2>6, <2>10, <1>4, <1>5 DEF b
    <2>14. \A p \in Peers :
              /\ g.uploads[p] = (held.uploads[p] - UploadsAs(calls[c], p)) + UploadsAs(call, p)
              /\ g.pirs[p] = (held.pirs[p] - PirsAs(calls[c], p)) + PirsAs(call, p)
              /\ g.uploads[p] <= MaxUploads /\ g.pirs[p] <= MaxPirInflight
        BY <2>5, <2>6, <2>12, <1>4, <1>5
    <2>15. CallsInv([calls EXCEPT ![c] = call], g)
        BY <2>6, <2>11, <2>13, <2>14, Exchange
    <2> QED BY <2>2, <2>6, <2>15, <1>2, <1>6
<1>7. CASE ~ taken
    <2>1. held' = held /\ calls' = [calls EXCEPT ![c] = NoCall]
        BY <1>2, <1>7 DEF AfterReserve
    <2>2. Reserved(NoCall) = 0 /\ \A p \in Peers : UploadsAs(NoCall, p) = 0 /\ PirsAs(NoCall, p) = 0
        BY AdmissionAssumption DEF NoCall, Reserved, Uploading, UploadsAs, PirsAs, Kinds
    <2>3. held.bytes = (held.bytes + Reserved(calls[c])) - Reserved(NoCall)
        BY <2>2, <1>4, <1>5
    <2>4. \A p \in Peers :
              /\ held.uploads[p] = (held.uploads[p] - UploadsAs(calls[c], p)) + UploadsAs(NoCall, p)
              /\ held.pirs[p] = (held.pirs[p] - PirsAs(calls[c], p)) + PirsAs(NoCall, p)
              /\ held.uploads[p] <= MaxUploads /\ held.pirs[p] <= MaxPirInflight
        BY <2>2, <1>4, <1>5
    <2>5. CallsInv([calls EXCEPT ![c] = NoCall], held)
        BY <2>3, <2>4, <1>3, <1>5, NoCallInv, Exchange
    <2> QED BY <2>1, <2>5
<1> QED
    BY <1>6, <1>7

\* A step that begins a call without an upload: its slot is counted.
LEMMA StartsInv ==
    ASSUME CallsInv(calls, held), NEW c \in Calls, calls[c].step = "idle",
           NEW call \in CallType, call.step = "queued", call.num = 0, call.peer \in Peers,
           call.kind \in {"pool", "pir"}, NEW g \in HeldType,
           g.bytes = held.bytes, g.uploads = held.uploads,
           \A p \in Peers : g.pirs[p] = held.pirs[p] + PirsAs(call, p) /\ g.pirs[p] <= MaxPirInflight
    PROVE  CallsInv([calls EXCEPT ![c] = call], g)
<1>1. calls[c] = NoCall /\ held \in HeldType
    BY DEF CallsInv, CallInv
<1>2. CallInv(call)
    BY DEF CallInv, Uploading
<1>3. NoCall.num = 0 /\ NoCall.kind = None
    BY DEF NoCall
<1>4. Reserved(call) = 0 /\ Reserved(NoCall) = 0
    BY <1>3 DEF Reserved, Uploading
<1>5. \A p \in Peers : UploadsAs(call, p) = 0 /\ UploadsAs(NoCall, p) = 0 /\ PirsAs(NoCall, p) = 0
    BY <1>3, AdmissionAssumption DEF UploadsAs, PirsAs, Uploading, Kinds
<1>6. /\ held.bytes \in Int /\ held.bytes >= 0
      /\ \A p \in Peers : /\ held.uploads[p] \in Int /\ held.pirs[p] \in Int
                           /\ held.uploads[p] <= MaxUploads /\ PirsAs(call, p) \in Int
    BY DEF CallsInv, Accounted, HeldType, PirsAs
<1>7. g.bytes >= 0 /\ g.bytes = (held.bytes + Reserved(calls[c])) - Reserved(call)
    BY <1>1, <1>4, <1>6
<1>8. \A p \in Peers :
          /\ g.uploads[p] = (held.uploads[p] - UploadsAs(calls[c], p)) + UploadsAs(call, p)
          /\ g.pirs[p] = (held.pirs[p] - PirsAs(calls[c], p)) + PirsAs(call, p)
          /\ g.uploads[p] <= MaxUploads /\ g.pirs[p] <= MaxPirInflight
    BY <1>1, <1>5, <1>6
<1> QED
    BY <1>2, <1>7, <1>8, Exchange

LEMMA StartPoolDigestInv ==
    ASSUME CallsInv(calls, held), now \in Int, queue \in Seq(Calls), PoolInv(pool, issued, now),
           NEW c \in Calls, StartPoolDigest(c)
    PROVE  CallsInv(calls', held) /\ queue' \in Seq(Calls) /\ PoolInv(pool', issued, now)
<1>1. PICK origin \in Origins, handle \in DOMAIN issued \cup {0} :
          LET p     == PeerOf(origin)
              tab   == Charged(table, p, 1, now)
              asked == Granted(table, p, 1, now)
              hit   == asked /\ Served(pool, handle, now)
              extra == IF hit THEN Len(pool.entries[handle].keys) - 1 ELSE 0
              goes  == hit /\ (extra > 0 => Granted(tab, p, extra, now))
          IN  /\ table' = IF extra > 0 THEN Charged(tab, p, extra, now) ELSE tab
              /\ pool' = IF asked THEN AfterLookup(pool, handle, now) ELSE pool
              /\ calls' = IF goes
                          THEN [calls EXCEPT ![c] = [NoCall EXCEPT !.step = "queued",
                                    !.kind = "pool", !.peer = p, !.keys = pool.entries[handle].keys]]
                          ELSE calls
              /\ queue' = IF goes THEN Append(queue, c) ELSE queue
    BY Zenon DEF StartPoolDigest
<1> DEFINE q     == PeerOf(origin)
           tab   == Charged(table, q, 1, now)
           asked == Granted(table, q, 1, now)
           hit   == asked /\ Served(pool, handle, now)
           extra == IF hit THEN Len(pool.entries[handle].keys) - 1 ELSE 0
           goes  == hit /\ (extra > 0 => Granted(tab, q, extra, now))
           keys  == pool.entries[handle].keys
           call  == [NoCall EXCEPT !.step = "queued", !.kind = "pool", !.peer = q, !.keys = keys]
<1>2. PoolInv(pool', issued, now)
    <2>1. PoolInv(AfterLookup(pool, handle, now), issued, now)
        BY LookupInv
    <2>2. pool' = IF asked THEN AfterLookup(pool, handle, now) ELSE pool
        BY <1>1
    <2> HIDE DEF asked
    <2> QED BY <2>1, <2>2
<1>3. /\ calls' = IF goes THEN [calls EXCEPT ![c] = call] ELSE calls
      /\ queue' = IF goes THEN Append(queue, c) ELSE queue
    BY <1>1
<1>4. queue' \in Seq(Calls)
    <2> HIDE DEF goes
    <2> QED BY <1>3
<1>5. calls[c].step = "idle"
    BY DEF StartPoolDigest
<1>6. CASE ~ goes
    <2> HIDE DEF goes, call
    <2> QED BY <1>2, <1>3, <1>4, <1>6
<1>7. CASE goes
    <2>1. handle \in DOMAIN AfterLookup(pool, handle, now).entries
        BY <1>7 DEF Served
    <2>2. handle \in DOMAIN pool.entries
        BY <2>1, LookupInv
    <2>3. keys \in Seq(Nat)
        <3>1. pool.entries \in EntryMaps
            BY DEF PoolInv, PoolType
        <3>2. pool.entries[handle] \in KeysType
            BY <2>2, <3>1, EntriesType
        <3> QED BY <3>2 DEF KeysType
    <2>4. NoCall \in CallType /\ NoCall.num = 0
        BY NoCallInv DEF CallInv, NoCall
    <2>5. q \in Peers
        BY AdmissionAssumption
    <2> HIDE DEF q, keys
    <2>6. /\ call \in CallType /\ call.step = "queued" /\ call.kind = "pool" /\ call.peer = q
          /\ call.num = 0
        BY <2>3, <2>4, <2>5 DEF CallType, Kinds
    <2> HIDE DEF call, goes
    <2>7. \A p \in Peers : held.pirs[p] \in Int /\ held.pirs[p] <= MaxPirInflight
        BY DEF CallsInv, Accounted, HeldType
    <2>8. held \in HeldType
        BY DEF CallsInv
    <2>9. \A p \in Peers : held.pirs[p] = held.pirs[p] + PirsAs(call, p) /\ held.pirs[p] <= MaxPirInflight
        BY <2>6, <2>7 DEF PirsAs
    <2>10. CallsInv([calls EXCEPT ![c] = call], held)
        BY <2>5, <2>6, <2>8, <2>9, <1>5, StartsInv
    <2> QED BY <2>10, <1>2, <1>3, <1>4, <1>7
<1> QED
    BY <1>6, <1>7

LEMMA StartPirInv ==
    ASSUME CallsInv(calls, held), queue \in Seq(Calls), NEW c \in Calls, StartPir(c)
    PROVE  CallsInv(calls', held') /\ held'.permits = held.permits /\ queue' \in Seq(Calls)
<1>1. PICK origin \in Origins, valid \in BOOLEAN :
          LET p    == PeerOf(origin)
              goes == Granted(pirTable, p, 1, now) /\ held.pirs[p] < MaxPirInflight /\ valid
          IN  /\ pirTable' = Charged(pirTable, p, 1, now)
              /\ held' = IF goes THEN [held EXCEPT !.pirs[p] = @ + 1] ELSE held
              /\ calls' = IF goes
                          THEN [calls EXCEPT ![c] = [NoCall EXCEPT !.step = "queued",
                                                        !.kind = "pir", !.peer = p]]
                          ELSE calls
              /\ queue' = IF goes THEN Append(queue, c) ELSE queue
    BY Zenon DEF StartPir
<1> DEFINE q    == PeerOf(origin)
           goes == Granted(pirTable, q, 1, now) /\ held.pirs[q] < MaxPirInflight /\ valid
           r    == [held.pirs EXCEPT ![q] = @ + 1]
           g    == [held EXCEPT !.pirs = r]
           call == [NoCall EXCEPT !.step = "queued", !.kind = "pir", !.peer = q]
<1>2. /\ held' = IF goes THEN g ELSE held
      /\ calls' = IF goes THEN [calls EXCEPT ![c] = call] ELSE calls
      /\ queue' = IF goes THEN Append(queue, c) ELSE queue
    BY <1>1
<1>3. calls[c].step = "idle"
    BY DEF StartPir
<1>4. CASE ~ goes
    <2> HIDE DEF goes, call, g
    <2> QED BY <1>2, <1>4
<1>5. CASE goes
    <2>1. q \in Peers /\ held.pirs[q] < MaxPirInflight
        BY <1>5, AdmissionAssumption
    <2>2. NoCall \in CallType /\ NoCall.num = 0
        BY NoCallInv DEF CallInv, NoCall
    <2>3. /\ held \in HeldType /\ held.pirs \in [Peers -> Int]
          /\ \A p \in Peers : held.pirs[p] <= MaxPirInflight
        BY DEF CallsInv, Accounted, HeldType
    <2> HIDE DEF q
    <2>4. /\ call \in CallType /\ call.step = "queued" /\ call.kind = "pir" /\ call.peer = q
          /\ call.num = 0
        BY <2>1, <2>2 DEF CallType, Kinds
    <2> HIDE DEF call, goes
    <2>5. r \in [Peers -> Int] /\ r[q] = held.pirs[q] + 1 /\ \A p \in Peers \ {q} : r[p] = held.pirs[p]
        BY <2>1, <2>3
    <2> HIDE DEF r
    <2>6. /\ g \in HeldType /\ g.bytes = held.bytes /\ g.uploads = held.uploads
          /\ g.pirs = r /\ g.permits = held.permits
        BY <2>3, <2>5 DEF HeldType
    <2> HIDE DEF g
    <2>7. ASSUME NEW p \in Peers
          PROVE  g.pirs[p] = held.pirs[p] + PirsAs(call, p) /\ g.pirs[p] <= MaxPirInflight
        <3>1. held.pirs[p] \in Int /\ held.pirs[q] \in Int /\ MaxPirInflight \in Int
            BY <2>1, <2>3 DEF MaxPirInflight
        <3>2. PirsAs(call, p) = IF p = q THEN 1 ELSE 0
            BY <2>4 DEF PirsAs
        <3> QED BY <3>1, <3>2, <2>1, <2>3, <2>5, <2>6
    <2>8. CallsInv([calls EXCEPT ![c] = call], g)
        BY <2>1, <2>4, <2>6, <2>7, <1>3, StartsInv
    <2> QED BY <2>6, <2>8, <1>2, <1>5
<1> QED
    BY <1>4, <1>5

\* What a chunk adds fits, or the upload is over and gives all back.
LEMMA ChunkInv ==
    ASSUME CallsInv(calls, held), NEW c \in Calls, Chunk(c)
    PROVE  CallsInv(calls', held') /\ held'.permits = held.permits
<1>1. PICK d \in 0 .. 1, done \in BOOLEAN :
          LET call == Buffered(calls[c], d, done)
          IN  IF Fits(call)
              THEN calls' = [calls EXCEPT ![c] = call] /\ UNCHANGED held
              ELSE Ends(c, held)
    BY Zenon DEF Chunk
<1> DEFINE call == Buffered(calls[c], d, done)
<1>2. /\ calls[c].step = "upload" /\ calls[c].num # 0
      /\ calls[c] \in CallType /\ CallInv(calls[c]) /\ held \in HeldType
    BY DEF Chunk, CallsInv, CallInv
<1>3. CASE ~ Fits(call)
    <2>1. Ends(c, held)
        BY <1>1, <1>3
    <2> QED BY <2>1, EndsInv
<1>4. CASE Fits(call)
    <2>1. calls' = [calls EXCEPT ![c] = call] /\ held' = held
        BY <1>1, <1>4
    <2>2. d \in 0 .. 1 /\ done \in BOOLEAN
        OBVIOUS
    <2>3. /\ call \in CallType /\ call.kind = calls[c].kind /\ call.peer = calls[c].peer
          /\ call.num = calls[c].num /\ call.step = calls[c].step
          /\ Buffers(call) \in Int
        <3>1. LET b == Buffered(calls[c], d, done)
              IN  /\ b \in CallType /\ b.kind = calls[c].kind /\ b.peer = calls[c].peer
                  /\ b.num = calls[c].num /\ b.step = calls[c].step
                  /\ Buffers(b) = Buffers(calls[c]) + d /\ Buffers(calls[c]) \in Nat
            BY <1>2, <2>2, BufferedInv
        <3> QED BY <3>1
    <2> HIDE DEF call
    <2>4. Reserved(call) = call.num * KeyBytes /\ call.num \in Nat \ {0} /\ call.peer \in Peers
        BY <1>2, <2>3 DEF Reserved, Uploading, CallInv, CallType
    <2>5. /\ call.num * KeyBytes \in Nat /\ call.num * KeyBytes >= KeyBytes /\ KeyBytes \in Nat
        BY <2>4, DeclaredCovers, AdmissionAssumption
    <2>6. Buffers(call) <= Reserved(call)
        BY <1>4, <2>3, <2>4, <2>5 DEF Fits
    <2>7. CallInv(call)
        BY <1>2, <2>3, <2>4, <2>6 DEF CallInv
    <2>8. CallsInv([calls EXCEPT ![c] = call], held)
        BY <1>2, <2>3, <2>7, Continues
    <2> QED BY <2>1, <2>8
<1> QED
    BY <1>3, <1>4

\* A step of a call that changes where it stands, and nothing it holds.
Moved(call, step, ok) == [call EXCEPT !.step = step, !.ok = ok]

LEMMA MovedInv ==
    ASSUME NEW call, CallInv(call),
           NEW step, step \in {"queued", "working", "joined"}, NEW ok \in BOOLEAN
    PROVE  /\ CallInv(Moved(call, step, ok))
           /\ Moved(call, step, ok).kind = call.kind
           /\ Moved(call, step, ok).peer = call.peer
           /\ Moved(call, step, ok).num = call.num
<1> DEFINE b == Moved(call, step, ok)
<1>1. call \in CallType
    BY DEF CallInv
<1>2. /\ b \in CallType /\ b.kind = call.kind /\ b.peer = call.peer /\ b.num = call.num
      /\ b.step = step /\ b.keys = call.keys /\ b.cur = call.cur
    BY <1>1 DEF CallType, Moved
<1> HIDE DEF b
<1>3. Uploading(b) = Uploading(call) /\ Reserved(b) = Reserved(call) /\ Buffers(b) = Buffers(call)
    BY <1>2 DEF Uploading, Reserved, Buffers
<1>4. CallInv(b)
    BY <1>2, <1>3 DEF CallInv
<1> QED
    BY <1>2, <1>4 DEF b

LEMMA CloseUploadInv ==
    ASSUME CallsInv(calls, held), queue \in Seq(Calls), NEW c \in Calls, CloseUpload(c)
    PROVE  CallsInv(calls', held') /\ held'.permits = held.permits /\ queue' \in Seq(Calls)
<1>1. CASE ~ Complete(calls[c])
    <2>1. Ends(c, held) /\ queue' = queue
        BY <1>1 DEF CloseUpload
    <2> QED BY <2>1, EndsInv
<1>2. CASE Complete(calls[c])
    <2> DEFINE ok   == calls[c].ok
               call == Moved(calls[c], "queued", ok)
    <2>1. /\ calls' = [calls EXCEPT ![c].step = "queued"] /\ queue' = Append(queue, c)
          /\ held' = held
        BY <1>2 DEF CloseUpload
    <2>2. CallInv(calls[c]) /\ held \in HeldType /\ calls \in [Calls -> CallType] /\ calls[c] \in CallType
        BY DEF CallsInv
    <2>3. ok \in BOOLEAN /\ call = [calls[c] EXCEPT !.step = "queued"]
        BY <2>2 DEF CallType, Moved
    <2>4. calls' = [calls EXCEPT ![c] = call]
        BY <2>1, <2>2, <2>3
    <2>5. /\ CallInv(call) /\ call.kind = calls[c].kind /\ call.peer = calls[c].peer
          /\ call.num = calls[c].num
        BY <2>2, <2>3, MovedInv
    <2> HIDE DEF call
    <2>6. CallsInv([calls EXCEPT ![c] = call], held)
        BY <2>2, <2>5, Continues
    <2>7. Append(queue, c) \in Seq(Calls)
        OBVIOUS
    <2> QED BY <2>1, <2>4, <2>6, <2>7
<1> QED
    BY <1>1, <1>2

\* The permit of a worker that begins or ends.
LEMMA WorkerChange ==
    ASSUME NEW ws, NEW free, PermitsInv(ws, free), NEW w \in 1 .. FheWorkers,
           NEW work \in WorkType \cup {None}
    PROVE  PermitsInv([ws EXCEPT ![w] = work],
                      (free + (IF ws[w] # None THEN 1 ELSE 0)) - (IF work # None THEN 1 ELSE 0))
<1> DEFINE vs == [ws EXCEPT ![w] = work]
           gone == IF ws[w] # None THEN 1 ELSE 0
           come == IF work # None THEN 1 ELSE 0
<1>1. /\ ws \in [1 .. FheWorkers -> WorkType \cup {None}]
      /\ free \in Int /\ free + Cardinality(Running(ws)) = FheWorkers
    BY DEF PermitsInv
<1>2. /\ vs \in [1 .. FheWorkers -> WorkType \cup {None}] /\ vs[w] = work
      /\ \A v \in (1 .. FheWorkers) \ {w} : vs[v] = ws[v]
    BY <1>1
<1> HIDE DEF vs
<1>3. Running(ws) \ {w} = Running(vs) \ {w}
    BY <1>2 DEF Running
<1>4. IsFiniteSet(Running(ws))
    <2>1. IsFiniteSet(1 .. FheWorkers)
        BY FS_Interval, AdmissionAssumption
    <2> QED BY <2>1, FS_Subset DEF Running
<1>5. /\ w \in Running(ws) <=> ws[w] # None
      /\ w \in Running(vs) <=> work # None
    BY <1>2 DEF Running
<1>6. Cardinality(Running(vs)) =
          (Cardinality(Running(ws)) - (IF w \in Running(ws) THEN 1 ELSE 0))
          + (IF w \in Running(vs) THEN 1 ELSE 0)
    BY <1>3, <1>4, OneElement
<1>7. Cardinality(Running(ws)) \in Int
    BY <1>4, FS_CardinalityType
<1> QED
    BY <1>1, <1>2, <1>5, <1>6, <1>7 DEF PermitsInv, vs

\* While a permit is free, so is a worker.
LEMMA WorkerFree ==
    ASSUME NEW ws, NEW free, PermitsInv(ws, free), free > 0
    PROVE  \E w \in 1 .. FheWorkers : ws[w] = None
<1>1. SUFFICES ASSUME \A w \in 1 .. FheWorkers : ws[w] # None PROVE FALSE
    OBVIOUS
<1>2. Running(ws) = 1 .. FheWorkers
    BY <1>1 DEF Running
<1>3. FheWorkers \in Nat /\ free \in Int
    BY AdmissionAssumption DEF PermitsInv
<1>4. Cardinality(1 .. FheWorkers) = FheWorkers
    BY <1>3, FS_Interval
<1>5. Cardinality(Running(ws)) = FheWorkers
    BY <1>2, <1>4, Zenon
<1> QED
    BY <1>3, <1>5 DEF PermitsInv

LEMMA TakeInv ==
    ASSUME CallsInv(calls, held), PermitsInv(workers, held.permits), queue \in Seq(Calls), Take
    PROVE  CallsInv(calls', held') /\ PermitsInv(workers', held'.permits) /\ queue' \in Seq(Calls)
<1> DEFINE c    == Head(queue)
           work == [call |-> c, kind |-> calls[c].kind, peer |-> calls[c].peer]
           n    == held.permits - 1
           g    == [held EXCEPT !.permits = n]
           ok   == calls[c].ok
           call == Moved(calls[c], "working", ok)
<1>1. queue # <<>> /\ held.permits > 0 /\ c \in Calls /\ queue' \in Seq(Calls)
    BY DEF Take
<1>2. /\ calls \in [Calls -> CallType] /\ calls[c] \in CallType /\ CallInv(calls[c])
      /\ held \in HeldType /\ held.permits \in Int
    BY <1>1 DEF CallsInv, HeldType
<1>3. CASE Ends(c, held) /\ UNCHANGED workers
    BY <1>1, <1>3, EndsInv
<1>4. CASE /\ workers' = [workers EXCEPT ![FreeWorker] = work]
           /\ held' = [held EXCEPT !.permits = @ - 1]
           /\ calls' = [calls EXCEPT ![c].step = "working"]
    <2>1. FreeWorker \in 1 .. FheWorkers /\ workers[FreeWorker] = None
        <3>1. \E w \in 1 .. FheWorkers : workers[w] = None
            BY <1>1, WorkerFree
        <3> QED BY <3>1 DEF FreeWorker
    <2>2. work \in WorkType /\ work # None
        <3>1. work \in WorkType
            BY <1>1, <1>2 DEF WorkType, CallType
        <3>2. None \notin WorkType
            BY AdmissionAssumption, Zenon DEF WorkType
        <3> QED BY <3>1, <3>2
    <2>3. PermitsInv(workers', held.permits - 1)
        <3> HIDE DEF work
        <3>1. PermitsInv([workers EXCEPT ![FreeWorker] = work],
                         (held.permits + (IF workers[FreeWorker] # None THEN 1 ELSE 0))
                             - (IF work # None THEN 1 ELSE 0))
            BY <2>1, <2>2, WorkerChange
        <3>2. (held.permits + (IF workers[FreeWorker] # None THEN 1 ELSE 0))
                  - (IF work # None THEN 1 ELSE 0) = held.permits - 1
            BY <1>2, <2>1, <2>2
        <3> QED BY <1>4, <3>1, <3>2
    <2>4. ok \in BOOLEAN /\ call = [calls[c] EXCEPT !.step = "working"]
        BY <1>2 DEF CallType, Moved
    <2>5. calls' = [calls EXCEPT ![c] = call] /\ held' = g
        BY <1>1, <1>2, <1>4, <2>4
    <2>6. /\ CallInv(call) /\ call.kind = calls[c].kind /\ call.peer = calls[c].peer
          /\ call.num = calls[c].num
        BY <1>2, <2>4, MovedInv
    <2>7. n \in Int
        BY <1>2
    <2> HIDE DEF n
    <2>8. /\ g \in HeldType /\ g.bytes = held.bytes /\ g.uploads = held.uploads
          /\ g.pirs = held.pirs /\ g.permits = n
        BY <1>2, <2>7 DEF HeldType
    <2> HIDE DEF call, g, c
    <2>9. CallsInv([calls EXCEPT ![c] = call], g)
        BY <1>1, <1>2, <2>6, <2>8, Continues
    <2> QED BY <1>1, <2>3, <2>5, <2>8, <2>9 DEF n
<1> QED
    BY <1>3, <1>4 DEF Take

LEMMA WorkerEndsInv ==
    ASSUME CallsInv(calls, held), PermitsInv(workers, held.permits),
           NEW w \in 1 .. FheWorkers, WorkerEnds(w)
    PROVE  CallsInv(calls', held') /\ PermitsInv(workers', held'.permits)
<1> DEFINE c == workers[w].call
           n == held.permits + 1
           g == [held EXCEPT !.permits = n]
<1>1. PICK ok \in BOOLEAN :
          calls' = IF c = None THEN calls
                   ELSE [calls EXCEPT ![c].step = "joined", ![c].ok = ok]
    BY DEF WorkerEnds
<1>2. /\ workers[w] # None /\ workers' = [workers EXCEPT ![w] = None]
      /\ held' = [held EXCEPT !.permits = @ + 1]
    BY DEF WorkerEnds
<1>3. held' = g
    BY <1>2
<1>4. /\ calls \in [Calls -> CallType] /\ held \in HeldType /\ held.permits \in Int
    BY DEF CallsInv, HeldType
<1>5. c \in Calls \cup {None}
    BY <1>2 DEF PermitsInv, WorkType
<1>6. PermitsInv(workers', held.permits + 1)
    <2>1. PermitsInv([workers EXCEPT ![w] = None],
                     (held.permits + (IF workers[w] # None THEN 1 ELSE 0))
                         - (IF None # None THEN 1 ELSE 0))
        BY WorkerChange
    <2>2. (held.permits + (IF workers[w] # None THEN 1 ELSE 0)) - (IF None # None THEN 1 ELSE 0)
              = held.permits + 1
        BY <1>2, <1>4
    <2> QED BY <1>2, <2>1, <2>2
<1>7. n \in Int
    BY <1>4
<1> HIDE DEF n
<1>8. /\ g \in HeldType /\ g.bytes = held.bytes /\ g.uploads = held.uploads
      /\ g.pirs = held.pirs /\ g.permits = n
    BY <1>4, <1>7 DEF HeldType
<1> HIDE DEF g
<1>9. CallsInv(calls', g)
    <2>1. CASE c = None
        <3>1. CallsInv(calls, g)
            BY <1>8 DEF CallsInv, Accounted
        <3> QED BY <3>1, <2>1, <1>1
    <2>2. CASE c # None
        <3> DEFINE call == Moved(calls[c], "joined", ok)
        <3>1. c \in Calls /\ CallInv(calls[c])
            BY <1>5, <2>2 DEF CallsInv
        <3>2. calls' = [calls EXCEPT ![c] = call]
            BY <1>1, <1>4, <2>2, <3>1 DEF Moved
        <3>3. /\ CallInv(call) /\ call.kind = calls[c].kind /\ call.peer = calls[c].peer
              /\ call.num = calls[c].num
            BY <3>1, MovedInv
        <3> HIDE DEF call, c
        <3>4. CallsInv([calls EXCEPT ![c] = call], g)
            BY <1>8, <3>1, <3>3, Continues
        <3> QED BY <3>2, <3>4
    <2> QED BY <2>1, <2>2
<1> QED
    BY <1>3, <1>6, <1>8, <1>9 DEF n

LEMMA RespondInv ==
    ASSUME CallsInv(calls, held), now \in Int, PoolInv(pool, issued, now), NEW c \in Calls, Respond(c)
    PROVE  CallsInv(calls', held') /\ held'.permits = held.permits /\ PoolInv(pool', issued', now)
<1>1. CallsInv(calls', held') /\ held'.permits = held.permits
    BY EndsInv DEF Respond
<1> DEFINE keys   == calls[c].keys
           handle == Cardinality(DOMAIN issued) + 1
           enters == calls[c].kind = "register" /\ calls[c].ok
           more   == [h \in DOMAIN issued \cup {handle} |->
                         IF h = handle THEN [keys |-> keys, expires |-> now + Ttl] ELSE issued[h]]
<1>2. /\ pool' = IF enters THEN InsertKeys(pool, handle, keys, KeyBytes, now) ELSE pool
      /\ issued' = IF enters /\ Takes(pool, keys, KeyBytes, now) THEN more ELSE issued
    BY DEF Respond
<1>3. keys \in Seq(Nat)
    BY DEF CallsInv, CallType
<1> HIDE DEF keys, enters
<1>4. PoolInv(InsertKeys(pool, handle, keys, KeyBytes, now),
              IF Takes(pool, keys, KeyBytes, now) THEN more ELSE issued, now)
    BY <1>3, InsertInv
<1> HIDE DEF more, handle
<1>5. CASE enters
    BY <1>1, <1>2, <1>4, <1>5
<1>6. CASE ~ enters
    BY <1>1, <1>2, <1>6
<1> QED
    BY <1>5, <1>6

\* A dropped handler gives back what it holds, and its worker keeps its permit.
LEMMA DroppedInv ==
    ASSUME CallsInv(calls, held), PermitsInv(workers, held.permits), queue \in Seq(Calls),
           NEW c \in Calls, Dropped(c)
    PROVE  CallsInv(calls', held') /\ PermitsInv(workers', held'.permits) /\ queue' \in Seq(Calls)
<1>1. CallsInv(calls', held') /\ held'.permits = held.permits
    BY EndsInv DEF Dropped
<1>2. queue' \in Seq(Calls)
    <2> DEFINE at == CHOOSE i \in DOMAIN queue : queue[i] = c
    <2>1. CASE \E i \in DOMAIN queue : queue[i] = c
        <3>1. queue' = SubSeq(queue, 1, at - 1) \o SubSeq(queue, at + 1, Len(queue))
            BY <2>1 DEF Dropped, Dequeued, RemoveAt
        <3>2. at \in 1 .. Len(queue)
            BY <2>1
        <3> HIDE DEF at
        <3>3. SubSeq(queue, 1, at - 1) \in Seq(Calls) /\ SubSeq(queue, at + 1, Len(queue)) \in Seq(Calls)
            BY <3>2
        <3> QED BY <3>1, <3>3
    <2>2. CASE ~ \E i \in DOMAIN queue : queue[i] = c
        BY <2>2 DEF Dropped, Dequeued
    <2> QED BY <2>1, <2>2
<1>3. workers' = [w \in 1 .. FheWorkers |->
                     IF workers[w] # None /\ workers[w].call = c
                     THEN [workers[w] EXCEPT !.call = None] ELSE workers[w]]
    BY DEF Dropped
<1>4. ASSUME NEW w \in 1 .. FheWorkers
      PROVE  /\ workers'[w] \in WorkType \cup {None}
             /\ workers'[w] # None <=> workers[w] # None
    <2>1. workers[w] \in WorkType \cup {None} /\ None \notin WorkType
        BY AdmissionAssumption, Zenon DEF PermitsInv, WorkType
    <2>2. CASE workers[w] # None /\ workers[w].call = c
        <3>1. workers'[w] = [workers[w] EXCEPT !.call = None]
            BY <1>3, <2>2
        <3>2. workers[w] \in WorkType
            BY <2>1, <2>2
        <3>3. [workers[w] EXCEPT !.call = None] \in WorkType
            BY <3>2 DEF WorkType
        <3> QED BY <2>1, <2>2, <3>1, <3>3
    <2>3. CASE ~ (workers[w] # None /\ workers[w].call = c)
        BY <1>3, <2>1, <2>3
    <2> QED BY <2>2, <2>3
<1>5. Running(workers') = Running(workers)
    BY <1>4 DEF Running
<1>6. Cardinality(Running(workers')) = Cardinality(Running(workers))
    BY <1>5, Zenon
<1>7. workers' \in [1 .. FheWorkers -> WorkType \cup {None}]
    BY <1>3, <1>4
<1>8. PermitsInv(workers', held.permits)
    BY <1>6, <1>7 DEF PermitsInv
<1> QED
    BY <1>1, <1>2, <1>8

LEMMA HandlersStart == AdmissionInit /\ LimiterInit => HandlersInv
<1> SUFFICES ASSUME AdmissionInit, LimiterInit PROVE HandlersInv
    OBVIOUS
<1>1. /\ calls = [c \in Calls |-> NoCall] /\ queue = <<>>
      /\ workers = [w \in 1 .. FheWorkers |-> None]
      /\ held = [bytes |-> UploadBudget, permits |-> FheWorkers,
                 uploads |-> [p \in Peers |-> 0], pirs |-> [p \in Peers |-> 0]]
      /\ pool = [entries |-> <<>>, total |-> 0, swept |-> 0] /\ issued = <<>> /\ now = 0
    BY DEF AdmissionInit, LimiterInit, AllFree, EmptyPool
<1>2. CallsInv(calls, held)
    <2>1. /\ calls \in [Calls -> CallType] /\ \A c \in Calls : CallInv(calls[c]) /\ calls[c] = NoCall
        BY <1>1, NoCallInv DEF CallInv
    <2>2. UploadBudget \in Nat /\ FheWorkers \in Nat /\ MaxUploads \in Nat /\ IsFiniteSet(Calls)
        BY AdmissionAssumption
    <2>3. held \in HeldType
        BY <1>1, <2>2 DEF HeldType
    <2>4. NoCall.num = 0 /\ NoCall.kind = None
        BY DEF NoCall
    <2>5. \A p \in Peers : UploadsAt(calls, p) = {} /\ PirsAt(calls, p) = {}
        BY <2>1, <2>4, AdmissionAssumption DEF UploadsAt, PirsAt, Uploading, Kinds
    <2>6. ASSUME NEW p \in Peers
          PROVE  Cardinality(UploadsAt(calls, p)) = 0 /\ Cardinality(PirsAt(calls, p)) = 0
        BY <2>5, FS_EmptySet, Zenon
    <2> DEFINE f == [c \in Calls |-> Reserved(calls[c])]
    <2>7. \A c \in Calls : f[c] = 0
        BY <2>1, <2>4 DEF Reserved, Uploading
    <2>8. Sum(f, Calls) = 0
        <3> HIDE DEF f
        <3>1. {} \subseteq Calls /\ \A c \in Calls \ {} : f[c] = 0
            BY <2>7
        <3>2. Sum(f, Calls) = Sum(f, {})
            BY <2>2, <2>7, <3>1, SumZeros
        <3> QED BY <3>2, SumEmpty
    <2>9. Accounted(calls, held)
        BY <1>1, <2>2, <2>6, <2>8 DEF Accounted, MaxPirInflight
    <2> QED BY <2>1, <2>3, <2>9 DEF CallsInv
<1>3. PermitsInv(workers, held.permits)
    <2>1. Running(workers) = {}
        BY <1>1 DEF Running
    <2>2. Cardinality(Running(workers)) = 0
        BY <2>1, FS_EmptySet, Zenon
    <2> QED BY <1>1, <2>2, AdmissionAssumption DEF PermitsInv
<1>4. PoolInv(pool, issued, now)
    <2>1. DOMAIN issued = {} /\ pool.entries = <<>> /\ pool.total = 0 /\ DOMAIN pool.entries = {}
        BY <1>1
    <2>2. DOMAIN issued = 1 .. 0
        BY <2>1
    <2>3. pool.entries \in EntryMaps
        <3>1. pool.entries = [h \in DOMAIN pool.entries |-> pool.entries[h]]
            BY <2>1
        <3> QED BY <2>1, <3>1, EntriesType
    <2>4. pool \in PoolType
        BY <1>1, <2>3 DEF PoolType
    <2>5. RetainedIn(pool.entries) = 0
        <3>1. /\ RetainedIn(pool.entries)
                   = Sum([h \in DOMAIN pool.entries |-> SumLengths(pool.entries[h].keys)],
                         DOMAIN pool.entries)
            BY <2>1, RetainedSum
        <3> DEFINE f == [h \in DOMAIN pool.entries |-> SumLengths(pool.entries[h].keys)]
        <3>2. RetainedIn(pool.entries) = Sum(f, DOMAIN pool.entries)
            BY <3>1
        <3> HIDE DEF f
        <3> QED BY <2>1, <3>2, SumEmpty, Zenon
    <2>6. Cardinality(DOMAIN pool.entries) = 0
        BY <2>1, FS_EmptySet, Zenon
    <2> QED BY <2>1, <2>2, <2>4, <2>5, <2>6, PoolAssumption DEF PoolInv
<1> QED
    BY <1>1, <1>2, <1>3, <1>4 DEF HandlersInv

LEMMA HandlersStep == HandlersInv /\ [HandlersNext]_handlersVars => HandlersInv'
<1> SUFFICES ASSUME HandlersInv, [HandlersNext]_handlersVars PROVE HandlersInv'
    OBVIOUS
<1>0. /\ now \in Nat /\ now \in Int /\ CallsInv(calls, held) /\ PermitsInv(workers, held.permits)
      /\ queue \in Seq(Calls) /\ PoolInv(pool, issued, now)
    BY DEF HandlersInv
<1> USE DEF limiterVars
<1>1. CASE Take
    <2>1. UNCHANGED <<pool, issued, now>>
        BY <1>1 DEF Take
    <2> QED BY <1>0, <1>1, <2>1, TakeInv DEF HandlersInv
<1>2. ASSUME NEW w \in 1 .. FheWorkers, WorkerEnds(w) PROVE HandlersInv'
    <2>1. UNCHANGED <<queue, pool, issued, now>>
        BY <1>2 DEF WorkerEnds
    <2> QED BY <1>0, <1>2, <2>1, WorkerEndsInv DEF HandlersInv
<1>3. ASSUME NEW c \in Calls, CallNext(c) PROVE HandlersInv'
    <2>1. CASE Begin(c)
        <3>1. UNCHANGED <<queue, workers, held, pool, issued, now>>
            BY <2>1 DEF Begin
        <3> QED BY <1>0, <2>1, <3>1, BeginInv DEF HandlersInv
    <2>2. CASE Header(c)
        <3>1. UNCHANGED <<queue, workers, pool, issued, now>>
            BY <2>2 DEF Header
        <3> QED BY <1>0, <2>2, <3>1, HeaderInv DEF HandlersInv
    <2>3. CASE Chunk(c)
        <3>1. UNCHANGED <<queue, workers, pool, issued, now>>
            BY <2>3 DEF Chunk
        <3> QED BY <1>0, <2>3, <3>1, ChunkInv DEF HandlersInv
    <2>4. CASE CloseUpload(c)
        <3>1. UNCHANGED <<workers, pool, issued, now>>
            BY <2>4 DEF CloseUpload
        <3> QED BY <1>0, <2>4, <3>1, CloseUploadInv DEF HandlersInv
    <2>5. CASE StartPoolDigest(c)
        <3>1. UNCHANGED <<workers, held, issued, now>>
            BY <2>5 DEF StartPoolDigest
        <3> QED BY <1>0, <2>5, <3>1, StartPoolDigestInv DEF HandlersInv
    <2>6. CASE StartPir(c)
        <3>1. UNCHANGED <<workers, pool, issued, now>>
            BY <2>6 DEF StartPir
        <3> QED BY <1>0, <2>6, <3>1, StartPirInv DEF HandlersInv
    <2>7. CASE Respond(c)
        <3>1. UNCHANGED <<queue, workers, now>>
            BY <2>7 DEF Respond
        <3> QED BY <1>0, <2>7, <3>1, RespondInv DEF HandlersInv
    <2>8. CASE TimesOut(c) \/ Cancel(c)
        <3>1. Dropped(c)
            BY <2>8 DEF TimesOut, Cancel
        <3>2. UNCHANGED <<pool, issued, now>>
            BY <3>1 DEF Dropped
        <3> QED BY <1>0, <3>1, <3>2, DroppedInv DEF HandlersInv
    <2> QED BY <1>3, <2>1, <2>2, <2>3, <2>4, <2>5, <2>6, <2>7, <2>8 DEF CallNext
<1>4. CASE Tick /\ UNCHANGED admissionVars
    <2>1. UNCHANGED <<calls, queue, workers, held, pool, issued>>
        BY <1>4 DEF admissionVars
    <2>2. now' = now + 1
        BY <1>4 DEF Tick
    <2>3. now' \in Nat /\ now' \in Int /\ now <= now'
        BY <1>0, <2>2
    <2>4. PoolInv(pool, issued, now')
        BY <1>0, <2>3, PoolLater
    <2> QED BY <1>0, <2>1, <2>3, <2>4 DEF HandlersInv
<1>5. CASE UNCHANGED handlersVars
    BY <1>0, <1>5 DEF HandlersInv, handlersVars, admissionVars
<1> QED
    BY <1>1, <1>2, <1>3, <1>4, <1>5 DEF HandlersNext, AdmissionNext

LEMMA HandlersInvariant == HandlersSpec => []HandlersInv
<1>1. HandlersSpec => [](HandlersInv)
    BY HandlersStart, HandlersStep, PTL DEF HandlersSpec
<1> QED
    BY <1>1

\* Slots, bytes and permits: in every state of the handlers, after any order of
\* failures, timeouts and cancellations, for every number of calls, addresses and
\* workers, what is free and what is held add up.
THEOREM NothingLost == HandlersSpec => []Conserved
<1>1. HandlersInv => Conserved
    <2> SUFFICES ASSUME HandlersInv PROVE Conserved
        OBVIOUS
    <2>1. /\ CallsInv(calls, held) /\ PermitsInv(workers, held.permits)
          /\ Accounted(calls, held) /\ held \in HeldType
        BY DEF HandlersInv, CallsInv
    <2> DEFINE f == [c \in Calls |-> Reserved(calls[c])]
    <2>2. SumFunction(f) = Sum(f, Calls)
        <3>1. DOMAIN f = Calls
            OBVIOUS
        <3> HIDE DEF f
        <3> QED BY <3>1, Zenon DEF SumFunction, SumFunctionOnSet, FoldFunction, Sum, FoldFunctionOnSet
    <2>3. held.bytes + SumFunction(f) = UploadBudget
        <3>1. held.bytes + Sum(f, Calls) = UploadBudget
            BY <2>1 DEF Accounted
        <3> HIDE DEF f
        <3> QED BY <2>2, <3>1
    <2>4. \A p \in Peers : UploadsAt(calls, p) = UploadsOf(p) /\ PirsAt(calls, p) = PirsOf(p)
        BY DEF UploadsAt, PirsAt, UploadsOf, PirsOf
    <2>5. held.permits + Cardinality({w \in 1 .. FheWorkers : workers[w] # None}) = FheWorkers
        BY <2>1 DEF PermitsInv, Running
    <2>6. held.permits >= 0
        <3>1. 1 .. FheWorkers = 1 .. FheWorkers /\ IsFiniteSet(1 .. FheWorkers) /\ FheWorkers \in Nat
            BY FS_Interval, AdmissionAssumption
        <3>2. Cardinality(1 .. FheWorkers) = FheWorkers
            BY <3>1, FS_Interval
        <3>3. Cardinality(Running(workers)) <= Cardinality(1 .. FheWorkers)
                /\ IsFiniteSet(Running(workers))
            BY <3>1, FS_Subset DEF Running
        <3>4. Cardinality(Running(workers)) \in Nat /\ held.permits \in Int
            BY <3>3, FS_CardinalityType, <2>1 DEF HeldType
        <3>5. held.permits + Cardinality(Running(workers)) = FheWorkers
            BY <2>1 DEF PermitsInv
        <3> QED BY <3>1, <3>2, <3>3, <3>4, <3>5
    <2>7. \A c \in Calls : Uploading(calls[c]) => Buffers(calls[c]) <= Reserved(calls[c])
        BY <2>1 DEF CallsInv, CallInv
    <2>8. held.bytes >= 0
        BY <2>1 DEF Accounted
    <2>9. \A p \in Peers :
              /\ held.uploads[p] = Cardinality(UploadsOf(p)) /\ held.uploads[p] <= MaxUploads
              /\ held.pirs[p] = Cardinality(PirsOf(p)) /\ held.pirs[p] <= MaxPirInflight
        BY <2>1 DEF Accounted, UploadsAt, PirsAt, UploadsOf, PirsOf
    <2> QED BY <2>3, <2>5, <2>6, <2>7, <2>8, <2>9 DEF Conserved
<1>2. [](HandlersInv => Conserved)
    BY <1>1, PTL
<1> QED
    BY <1>2, HandlersInvariant, PTL

\* The pool of detection keys: its byte counter is the sum of its entries, it
\* stays within its limits, and a handle given out is served, with its own keys,
\* until it expires, whichever lookups sweep it in between.
THEOREM HandlesKept == HandlersSpec => []PoolExact
<1>1. HandlersInv => PoolExact
    BY DEF HandlersInv, PoolInv, PoolExact
<1>2. [](HandlersInv => PoolExact)
    BY <1>1, PTL
<1> QED
    BY <1>2, HandlersInvariant, PTL
=============================================================================
