----------------------------- MODULE CacheProofs -----------------------------
(***************************************************************************)
(* The fork tree, and what each operation of the cache does to the block   *)
(* rows and the tip, whatever store it starts from: the facts              *)
(* ChainPollerProofs cites.  Inductions are by a least counterexample: the *)
(* theorems of the library that take an operator cannot be instantiated.   *)
(***************************************************************************)
EXTENDS Cache, TLAPS, WellFoundedInduction

-----------------------------------------------------------------------------
(* The fork tree.                                                           *)

\* A non-empty set of naturals has a least element.
LEMMA LeastNat ==
    ASSUME NEW T, T \subseteq Nat, T # {}
    PROVE  \E m \in T : \A n \in T : m <= n
<1> DEFINE R == {ss \in Nat \X Nat : ss[1] < ss[2]}
<1>1. IsWellFoundedOn(R, Nat)
    BY NatLessThanWellFounded, Zenon DEF OpToRel
<1> HIDE DEF R
<1>2. \E m \in T : \A n \in T : ~ (<<n, m>> \in R)
    BY <1>1, WFMin, Zenon
<1>3. ASSUME NEW m \in T, NEW n \in T, ~ (<<n, m>> \in R)
      PROVE  m <= n
    BY <1>3 DEF R
<1> QED
    BY <1>2, <1>3

\* A non-empty set of naturals with a bound has a greatest element.
LEMMA GreatestNat ==
    ASSUME NEW T, NEW n \in Nat, T \subseteq 0 .. n, T # {}
    PROVE  \E m \in T : \A k \in T : k <= m
<1> DEFINE Gaps == {n - k : k \in T}
<1>1. \A k \in T : k \in Nat /\ n - k \in Nat
    OBVIOUS
<1>2. Gaps \subseteq Nat /\ Gaps # {}
    BY <1>1
<1> HIDE DEF Gaps
<1>3. PICK g \in Gaps : \A x \in Gaps : g <= x
    BY <1>2, LeastNat
<1>4. PICK m \in T : g = n - m
    BY <1>3 DEF Gaps
<1>5. ASSUME NEW k \in T PROVE k <= m
    <2>1. n - m <= n - k
        BY <1>3, <1>4 DEF Gaps
    <2> QED
        BY <2>1, <1>1, <1>4
<1> QED
    BY <1>5

\* A block is its own ancestor, and no other ancestor is as high as it.
LEMMA AncestorHeights ==
    ASSUME NEW b \in Hash
    PROVE  /\ b \in Ancestors[b]
           /\ \A a \in Ancestors[b] : a = b \/ HeightOf[a] < HeightOf[b]
<1> DEFINE P(c) == /\ c \in Ancestors[c]
                   /\ \A a \in Ancestors[c] : a = c \/ HeightOf[a] < HeightOf[c]
           Bad == {HeightOf[c] : c \in {c \in Hash : ~ P(c)}}
<1> USE ForkTreeAssumption, LinkAssumption DEF Heights
<1>1. SUFFICES ASSUME ~ P(b) PROVE FALSE
    OBVIOUS
<1>2. Bad \subseteq Nat /\ Bad # {}
    BY <1>1
<1>3. PICK m \in Bad : \A n \in Bad : m <= n
    <2> HIDE DEF Bad
    <2> QED BY <1>2, LeastNat
<1>4. PICK c \in Hash : ~ P(c) /\ HeightOf[c] = m
    BY <1>3
<1>5. CASE c = Genesis
    BY <1>4, <1>5
<1>6. CASE c # Genesis
    <2>1. Prev[c] \in Hash /\ HeightOf[c] = HeightOf[Prev[c]] + 1
            /\ Ancestors[c] = {c} \cup Ancestors[Prev[c]]
        BY <1>6
    <2>2. HeightOf[Prev[c]] \in Nat /\ HeightOf[Prev[c]] < m
        BY <2>1, <1>4
    <2>3. P(Prev[c])
        <3>1. SUFFICES ASSUME ~ P(Prev[c]) PROVE FALSE
            OBVIOUS
        <3>2. HeightOf[Prev[c]] \in Bad
            BY <3>1, <2>1
        <3> HIDE DEF Bad
        <3> QED BY <3>2, <2>2, <1>3, <1>4
    <2>4. \A a \in Ancestors[Prev[c]] : a \in Hash /\ HeightOf[a] \in Nat
        BY <2>1
    <2>5. P(c)
        BY <2>1, <2>2, <2>3, <2>4, <1>4
    <2> QED BY <2>5, <1>4
<1> QED BY <1>5, <1>6

\* What is below an ancestor is below, and a chain has one block at a height.
LEMMA AncestorsBelow ==
    ASSUME NEW b \in Hash, NEW a \in Ancestors[b]
    PROVE  Ancestors[a] \subseteq Ancestors[b]
<1> DEFINE P(c) == \A d \in Ancestors[c] : Ancestors[d] \subseteq Ancestors[c]
           Bad == {HeightOf[c] : c \in {c \in Hash : ~ P(c)}}
<1> USE ForkTreeAssumption, LinkAssumption DEF Heights
<1>1. SUFFICES ASSUME ~ P(b) PROVE FALSE
    OBVIOUS
<1>2. Bad \subseteq Nat /\ Bad # {}
    BY <1>1
<1>3. PICK m \in Bad : \A n \in Bad : m <= n
    <2> HIDE DEF Bad
    <2> QED BY <1>2, LeastNat
<1>4. PICK c \in Hash : ~ P(c) /\ HeightOf[c] = m
    BY <1>3
<1>5. CASE c = Genesis
    BY <1>4, <1>5
<1>6. CASE c # Genesis
    <2>1. Prev[c] \in Hash /\ HeightOf[c] = HeightOf[Prev[c]] + 1
            /\ Ancestors[c] = {c} \cup Ancestors[Prev[c]]
        BY <1>6
    <2>2. HeightOf[Prev[c]] \in Nat /\ HeightOf[Prev[c]] < m
        BY <2>1, <1>4
    <2>3. P(Prev[c])
        <3>1. SUFFICES ASSUME ~ P(Prev[c]) PROVE FALSE
            OBVIOUS
        <3>2. HeightOf[Prev[c]] \in Bad
            BY <3>1, <2>1
        <3> HIDE DEF Bad
        <3> QED BY <3>2, <2>2, <1>3, <1>4
    <2>4. P(c)
        BY <2>1, <2>3
    <2> QED BY <2>4, <1>4
<1> QED BY <1>5, <1>6

LEMMA OneBlockPerHeight ==
    ASSUME NEW b \in Hash, NEW x \in Ancestors[b], NEW y \in Ancestors[b],
           HeightOf[x] = HeightOf[y]
    PROVE  x = y
<1> DEFINE P(c) == \A d, e \in Ancestors[c] : HeightOf[d] = HeightOf[e] => d = e
           Bad == {HeightOf[c] : c \in {c \in Hash : ~ P(c)}}
<1> USE ForkTreeAssumption, LinkAssumption DEF Heights
<1>1. SUFFICES ASSUME ~ P(b) PROVE FALSE
    OBVIOUS
<1>2. Bad \subseteq Nat /\ Bad # {}
    BY <1>1
<1>3. PICK m \in Bad : \A n \in Bad : m <= n
    <2> HIDE DEF Bad
    <2> QED BY <1>2, LeastNat
<1>4. PICK c \in Hash : ~ P(c) /\ HeightOf[c] = m
    BY <1>3
<1>5. CASE c = Genesis
    BY <1>4, <1>5
<1>6. CASE c # Genesis
    <2>1. Prev[c] \in Hash /\ HeightOf[c] = HeightOf[Prev[c]] + 1
            /\ Ancestors[c] = {c} \cup Ancestors[Prev[c]]
        BY <1>6
    <2>2. HeightOf[Prev[c]] \in Nat /\ HeightOf[Prev[c]] < m
        BY <2>1, <1>4
    <2>3. P(Prev[c])
        <3>1. SUFFICES ASSUME ~ P(Prev[c]) PROVE FALSE
            OBVIOUS
        <3>2. HeightOf[Prev[c]] \in Bad
            BY <3>1, <2>1
        <3> HIDE DEF Bad
        <3> QED BY <3>2, <2>2, <1>3, <1>4
    <2>4. \A d \in Ancestors[c] : d = c \/ HeightOf[d] < HeightOf[c]
        BY AncestorHeights
    <2>5. \A d \in Ancestors[c] : d = c \/ d \in Ancestors[Prev[c]]
        BY <2>1
    <2>6. HeightOf[c] \in Nat
        OBVIOUS
    <2>7. P(c)
        BY <2>3, <2>4, <2>5, <2>6
    <2> QED BY <2>7, <1>4
<1> QED BY <1>5, <1>6

-----------------------------------------------------------------------------
(* The operations of the cache.                                             *)

\* r is a store with the block rows, the coins rows and the tip of db.
KeepsRows(r, db) ==
    /\ r \in Stores
    /\ r.blocks = db.blocks /\ r.coins = db.coins /\ r.tip = db.tip

LEMMA KeepsRowsTransitive ==
    ASSUME NEW a, NEW b, NEW c, KeepsRows(a, b), KeepsRows(b, c)
    PROVE  KeepsRows(a, c)
BY DEF KeepsRows

\* The CHOOSE of greatest_snapshot_at_or_below picks one of the snapshots.
LEMMA SeedExists ==
    ASSUME NEW db \in Stores, NEW h \in Heights, SnapsUpTo(db, h) # {}
    PROVE  LET seed == GreatestIn(SnapsUpTo(db, h))
           IN  /\ seed \in 0 .. h
               /\ seed \in Heights
               /\ db.snaps[seed] # None
               /\ \A k \in SnapsUpTo(db, h) : k <= seed
<1> USE ForkTreeAssumption DEF Heights
<1>1. SnapsUpTo(db, h) \subseteq 0 .. h /\ h \in Nat
    BY DEF SnapsUpTo
<1>2. \E m \in SnapsUpTo(db, h) : \A k \in SnapsUpTo(db, h) : k <= m
    BY <1>1, GreatestNat
<1>3. /\ GreatestIn(SnapsUpTo(db, h)) \in SnapsUpTo(db, h)
      /\ \A k \in SnapsUpTo(db, h) : k <= GreatestIn(SnapsUpTo(db, h))
    BY <1>2, Zenon DEF GreatestIn
<1> QED
    BY <1>1, <1>3 DEF SnapsUpTo

\* Replaying coins turns a tree into a tree.
LEMMA ReplayType ==
    ASSUME NEW db \in Stores, NEW leaves \in [Hash -> Nat],
           NEW from \in Nat, NEW upto \in Nat
    PROVE  Replay(db, leaves, from, upto) \in [Hash -> Nat]
BY DEF Replay

\* store_tip_tree leaves the rows and the tip alone.
LEMMA StoreTipTreeShape ==
    ASSUME NEW db \in Stores, NEW prev, NEW h \in Heights,
           NEW leaves \in [Hash -> Nat]
    PROVE  KeepsRows(StoreTipTree(db, prev, h, leaves), db)
BY DEF StoreTipTree, Stores, Trees, KeepsRows

\* So does the replay loop.
LEMMA ReplayFromShape ==
    ASSUME NEW db \in Stores, NEW prev, NEW leaves \in [Hash -> Nat],
           NEW from \in Nat, NEW h \in Heights
    PROVE  KeepsRows(ReplayFrom(db, prev, leaves, from, h), db)
<1> DEFINE snaps == [k \in Heights |->
               IF k \in from .. h /\ k % Interval = 0
               THEN Replay(db, leaves, from, k)
               ELSE db.snaps[k]]
           mid == [db EXCEPT !.snaps = snaps]
<1>1. \A k \in Heights : Replay(db, leaves, from, k) \in [Hash -> Nat]
    BY ForkTreeAssumption, ReplayType, SMTT(30) DEF Heights
<1>2. snaps \in [Heights -> [Hash -> Nat] \cup {None}]
    BY <1>1 DEF Stores
<1> HIDE DEF snaps
<1>3. KeepsRows(mid, db)
    BY <1>2 DEF Stores, KeepsRows
<1>4. ReplayFrom(db, prev, leaves, from, h)
        = StoreTipTree(mid, prev, h, Replay(db, leaves, from, h))
    BY DEF ReplayFrom, snaps
<1> HIDE DEF mid
<1>5. KeepsRows(StoreTipTree(mid, prev, h, Replay(db, leaves, from, h)), mid)
    BY <1>1, <1>3, StoreTipTreeShape DEF KeepsRows
<1> QED
    BY <1>3, <1>4, <1>5, KeepsRowsTransitive

\* rebuild_tip_merkle_tree writes only the tree and the snapshots.
LEMMA RebuildShape ==
    ASSUME NEW db \in Stores, NEW h \in Heights
    PROVE  KeepsRows(RebuildTipTree(db, h), db)
<1> USE ForkTreeAssumption
<1>0. EmptyTree \in [Hash -> Nat]
    BY DEF EmptyTree
<1>1. CASE h = 0 /\ db.blocks[0] = None
    <2>1. RebuildTipTree(db, h)
            = [db EXCEPT !.tree = NoTree, !.snaps = [k \in Heights |-> None]]
        BY <1>1 DEF RebuildTipTree
    <2> DEFINE none == [k \in Heights |-> None]
    <2>2. none \in [Heights -> [Hash -> Nat] \cup {None}] /\ NoTree \in Trees \cup {NoTree}
        OBVIOUS
    <2> HIDE DEF none
    <2> QED
        BY <2>1, <2>2, ZenonT(60) DEF Stores, KeepsRows
<1>2. CASE ~ (h = 0 /\ db.blocks[0] = None)
    <2> DEFINE cut  == [db EXCEPT !.snaps = DeleteFrom(db.snaps, h + 1)]
               seed == GreatestIn(SnapsUpTo(db, h))
    <2>1. KeepsRows(cut, db)
        BY DEF Stores, DeleteFrom, KeepsRows
    <2>2. RebuildTipTree(db, h) =
            IF SnapsUpTo(db, h) = {}
            THEN ReplayFrom(cut, None, EmptyTree, 0, h)
            ELSE ReplayFrom(cut, seed, db.snaps[seed], seed + 1, h)
        BY <1>2 DEF RebuildTipTree
    <2>3. CASE SnapsUpTo(db, h) = {}
        <3> HIDE DEF cut
        <3>1. KeepsRows(ReplayFrom(cut, None, EmptyTree, 0, h), cut)
            BY <1>0, <2>1, ReplayFromShape DEF KeepsRows
        <3> QED
            BY <2>1, <2>2, <2>3, <3>1, KeepsRowsTransitive
    <2>4. CASE SnapsUpTo(db, h) # {}
        <3>1. seed \in Heights /\ db.snaps[seed] # None
            BY <2>4, SeedExists
        <3> HIDE DEF seed
        <3>2. db.snaps[seed] \in [Hash -> Nat] /\ seed + 1 \in Nat
            BY <3>1 DEF Stores, Heights
        <3> HIDE DEF cut
        <3>3. KeepsRows(ReplayFrom(cut, seed, db.snaps[seed], seed + 1, h), cut)
            BY <2>1, <3>2, ReplayFromShape DEF KeepsRows
        <3> QED
            BY <2>1, <2>2, <2>4, <3>3, KeepsRowsTransitive
    <2> QED
        BY <2>3, <2>4
<1> QED
    BY <1>1, <1>2

\* append_coins_to_tip_tree writes only the tree and the snapshots.
LEMMA AppendCoinsShape ==
    ASSUME NEW db \in Stores, NEW h \in Heights, NEW b \in Hash
    PROVE  KeepsRows(AppendCoins(db, h, b), db)
<1> USE ForkTreeAssumption
<1>1. CASE db.tree # NoTree /\ h = 0
    BY <1>1, RebuildShape DEF AppendCoins
<1>2. CASE ~ (db.tree # NoTree /\ h = 0)
    <2> DEFINE base == IF db.tree = NoTree \/ h = db.tree.height + 1
                       THEN db
                       ELSE RebuildTipTree(db, h - 1)
               leaves == [a \in Hash |-> base.tree.leaves[a] +
                             IF a = b /\ b \in CoinBlocks THEN 1 ELSE 0]
    <2>1. KeepsRows(base, db)
        <3>1. CASE db.tree = NoTree \/ h = db.tree.height + 1
            BY <3>1 DEF KeepsRows
        <3>2. CASE ~ (db.tree = NoTree \/ h = db.tree.height + 1)
            <4>1. h # 0
                BY <1>2, <3>2
            <4>2. h - 1 \in Heights
                BY <4>1 DEF Heights
            <4> QED
                BY <3>2, <4>2, RebuildShape
        <3> QED
            BY <3>1, <3>2
    <2>2. AppendCoins(db, h, b) = StoreTipTree(base, base.tree.height, h, leaves)
        BY <1>2 DEF AppendCoins
    <2> HIDE DEF base
    <2>3. base.tree.leaves \in [Hash -> Nat]
        BY <2>1 DEF Stores, Trees, NoTree, EmptyTree, KeepsRows
    <2>4. leaves \in [Hash -> Nat]
        BY <2>3
    <2> HIDE DEF leaves
    <2>5. KeepsRows(StoreTipTree(base, base.tree.height, h, leaves), base)
        BY <2>1, <2>4, StoreTipTreeShape DEF KeepsRows
    <2> QED
        BY <2>1, <2>2, <2>5, KeepsRowsTransitive
<1> QED
    BY <1>1, <1>2

\* insert_compact_block: the block's row is written, and the tip moves to it
\* unless the tip is higher.
LEMMA InsertShape ==
    ASSUME NEW db \in Stores, NEW b \in Hash
    PROVE  LET r == InsertBlock(db, b)
               h == HeightOf[b]
           IN  /\ r \in Stores
               /\ r.blocks = [db.blocks EXCEPT ![h] = b]
               /\ r.coins = IF b \in CoinBlocks THEN [db.coins EXCEPT ![h] = b]
                                                ELSE db.coins
               /\ r.tip = IF db.tip # NoTip /\ h < db.tip.height THEN db.tip
                          ELSE [height |-> h, hash |-> b]
<1> USE ForkTreeAssumption
<1> DEFINE h    == HeightOf[b]
           rows == WriteRows(db, b)
           old  == [rows EXCEPT !.snaps = DeleteFrom(rows.snaps, h)]
           new  == [rows EXCEPT !.tip = [height |-> h, hash |-> b]]
<1>1. h \in Heights
    OBVIOUS
<1>2. /\ rows \in Stores
      /\ rows.blocks = [db.blocks EXCEPT ![h] = b]
      /\ rows.coins = IF b \in CoinBlocks THEN [db.coins EXCEPT ![h] = b]
                                          ELSE db.coins
      /\ rows.tip = db.tip
    BY <1>1 DEF WriteRows, Stores, Rows
<1> HIDE DEF rows, h
<1>3. CASE db.tip # NoTip /\ h < db.tip.height
    <2>1. /\ old \in Stores /\ old.blocks = rows.blocks
          /\ old.coins = rows.coins /\ old.tip = rows.tip
        BY <1>2 DEF Stores, DeleteFrom
    <2>2. InsertBlock(db, b) = RebuildTipTree(old, db.tip.height)
        BY <1>3 DEF InsertBlock, rows, h
    <2>3. db.tip.height \in Heights
        BY <1>3 DEF Stores, Tips
    <2> HIDE DEF old
    <2>4. KeepsRows(RebuildTipTree(old, db.tip.height), old)
        BY <2>1, <2>3, RebuildShape
    <2> QED
        BY <1>2, <1>3, <2>1, <2>2, <2>4 DEF KeepsRows, h
<1>4. CASE ~ (db.tip # NoTip /\ h < db.tip.height)
    <2>1. /\ new \in Stores /\ new.blocks = rows.blocks
          /\ new.coins = rows.coins /\ new.tip = [height |-> h, hash |-> b]
        BY <1>1, <1>2 DEF Stores, Tips
    <2>2. InsertBlock(db, b) = AppendCoins(new, h, b)
        BY <1>4, Zenon DEF InsertBlock, rows, h
    <2> HIDE DEF new
    <2>3. KeepsRows(AppendCoins(new, h, b), new)
        BY <1>1, <2>1, AppendCoinsShape
    <2> QED
        BY <1>2, <1>4, <2>1, <2>2, <2>3 DEF KeepsRows, h
<1> QED
    BY <1>3, <1>4

\* rewind_to_height: the rows above h go, and the tip is the block at h, or
\* none when h is 0 and has no block, or what it was.
LEMMA RewindShape ==
    ASSUME NEW db \in Stores, NEW h \in Heights
    PROVE  LET r == Rewind(db, h)
           IN  /\ r \in Stores
               /\ r.blocks = [k \in Heights |-> IF k > h THEN None ELSE db.blocks[k]]
               /\ r.tip = IF db.blocks[h] # None
                          THEN [height |-> h, hash |-> db.blocks[h]]
                          ELSE IF h = 0 THEN NoTip
                          ELSE db.tip
<1> USE ForkTreeAssumption
<1> DEFINE above  == {k \in Heights : k > h}
           blocks == DeleteWithBlock(db, db.blocks, above)
           coins  == DeleteWithBlock(db, db.coins, above)
           snaps  == DeleteFrom(db.snaps, h + 1)
           tip    == IF db.blocks[h] # None
                     THEN [height |-> h, hash |-> db.blocks[h]]
                     ELSE IF h = 0 THEN NoTip
                     ELSE db.tip
           kept   == [db EXCEPT !.blocks = blocks, !.coins = coins]
           cut    == [kept EXCEPT !.tip = tip, !.snaps = snaps]
<1>1. /\ blocks = [k \in Heights |-> IF k > h THEN None ELSE db.blocks[k]]
      /\ blocks \in Rows
    BY DEF DeleteWithBlock, Stores, Rows
<1>2. coins \in Rows
    BY DEF DeleteWithBlock, Stores, Rows
<1>3. snaps \in [Heights -> [Hash -> Nat] \cup {None}]
    BY DEF DeleteFrom, Stores
<1>4. tip \in Tips \cup {NoTip}
    BY DEF Stores, Tips, Rows
<1>5. Rewind(db, h) = RebuildTipTree(cut, h)
    BY DEF Rewind
<1> HIDE DEF blocks, coins, snaps, tip
<1>6. cut \in Stores /\ cut.blocks = blocks /\ cut.tip = tip
    BY <1>1, <1>2, <1>3, <1>4 DEF Stores
<1> HIDE DEF cut
<1>7. KeepsRows(RebuildTipTree(cut, h), cut)
    BY <1>6, RebuildShape
<1> QED
    BY <1>1, <1>5, <1>6, <1>7 DEF KeepsRows, tip

\* prune_with_retention: rows may go, but not the tip's; the tip stays.
LEMMA PruneShape ==
    ASSUME NEW db \in Stores, NEW window \in Nat
    PROVE  LET r == Prune(db, window)
           IN  /\ r \in Stores
               /\ r.tip = db.tip
               /\ \A k \in Heights : r.blocks[k] \in {db.blocks[k], None}
               /\ MaxHeight <= window => r = db
<1> USE ForkTreeAssumption
<1>1. CASE db.tip = NoTip \/ db.tip.height <= window
    BY <1>1 DEF Prune
<1>2. CASE ~ (db.tip = NoTip \/ db.tip.height <= window)
    <2> DEFINE below  == {k \in Heights : k < db.tip.height - window}
               blocks == DeleteWithBlock(db, db.blocks, below)
               coins  == DeleteWithBlock(db, db.coins, below)
    <2>1. Prune(db, window) = [db EXCEPT !.blocks = blocks, !.coins = coins]
        BY <1>2 DEF Prune
    <2>2. /\ blocks \in Rows
          /\ \A k \in Heights : blocks[k] \in {db.blocks[k], None}
        BY DEF DeleteWithBlock, Stores, Rows
    <2>3. coins \in Rows
        BY DEF DeleteWithBlock, Stores, Rows
    <2>4. ~ (MaxHeight <= window)
        BY <1>2 DEF Stores, Tips, Heights
    <2> HIDE DEF blocks, coins
    <2> QED
        BY <2>1, <2>2, <2>3, <2>4 DEF Stores
<1> QED
    BY <1>1, <1>2

-----------------------------------------------------------------------------
(* Rows that hold one line of blocks, from genesis up.                      *)

\* The rows 0..n of f are a chain.
Line(f, n) ==
    \A k \in 0 .. n : /\ f[k] \in Hash /\ HeightOf[f[k]] = k
                      /\ k # 0 => Prev[f[k]] = f[k - 1]

\* The ancestors of a row's block are the rows up to it.
LEMMA LineAncestors ==
    ASSUME NEW f, NEW n \in Nat, Line(f, n), NEW k \in 0 .. n
    PROVE  \A a : a \in Ancestors[f[k]] <=> \E j \in 0 .. k : f[j] = a
<1> USE LinkAssumption
<1> DEFINE P(i) == \A a : a \in Ancestors[f[i]] <=> \E j \in 0 .. i : f[j] = a
           Bad  == {i \in 0 .. n : ~ P(i)}
<1>1. SUFFICES ASSUME ~ P(k) PROVE FALSE
    OBVIOUS
<1>2. Bad \subseteq Nat /\ Bad # {}
    <2>1. k \in Bad
        BY <1>1
    <2>2. Bad \subseteq 0 .. n /\ 0 .. n \subseteq Nat
        OBVIOUS
    <2> HIDE DEF Bad
    <2> QED
        BY <2>1, <2>2
<1>3. PICK m \in Bad : \A i \in Bad : m <= i
    <2> HIDE DEF Bad
    <2> QED BY <1>2, LeastNat
<1>4. /\ m \in 0 .. n /\ m \in Nat /\ ~ P(m)
      /\ f[m] \in Hash /\ HeightOf[f[m]] = m /\ (m # 0 => Prev[f[m]] = f[m - 1])
    BY DEF Line
<1>5. CASE m = 0
    <2>1. f[0] = Genesis
        BY <1>4, <1>5
    <2>2. 0 .. 0 = {0}
        OBVIOUS
    <2> QED
        BY <1>4, <1>5, <2>1, <2>2
<1>6. CASE m # 0
    <2>1. m - 1 \in 0 .. n /\ m - 1 < m
        BY <1>4, <1>6
    <2>2. P(m - 1)
        <3> SUFFICES ASSUME ~ P(m - 1) PROVE FALSE
            OBVIOUS
        <3>1. m - 1 \in Bad
            BY <2>1
        <3> HIDE DEF Bad
        <3> QED
            BY <1>3, <1>4, <2>1, <3>1
    <2>3. f[m] # Genesis
        BY <1>4, <1>6
    <2>4. Ancestors[f[m]] = {f[m]} \cup Ancestors[f[m - 1]]
        BY <1>4, <1>6, <2>3
    <2>5. 0 .. m = {m} \cup 0 .. (m - 1)
        BY <1>4, <1>6
    <2>6. P(m)
        BY <2>2, <2>4, <2>5
    <2> QED
        BY <1>4, <2>6
<1> QED
    BY <1>5, <1>6

\* The coins rows 0..n are those of the blocks in f.
CoinsOf(f, coins, n) ==
    \A k \in 0 .. n : coins[k] = IF f[k] \in CoinBlocks THEN f[k] ELSE None

\* Replaying the coins above a row onto that row's tree gives the tree of a
\* higher row: no coin twice, none left out.
LEMMA ReplayLine ==
    ASSUME NEW db \in Stores, NEW n \in Heights,
           Line(db.blocks, n), CoinsOf(db.blocks, db.coins, n),
           NEW s \in 0 .. n, NEW k \in s .. n
    PROVE  Replay(db, TrueTree(db.blocks[s]), s + 1, k) = TrueTree(db.blocks[k])
<1> USE ForkTreeAssumption
<1> DEFINE f == db.blocks
<1>1. n \in Nat /\ s \in Nat /\ k \in Nat /\ k \in 0 .. n
    BY DEF Heights
<1>2. \A i \in 0 .. n : f[i] \in Hash /\ HeightOf[f[i]] = i
    BY DEF Line
<1>3. /\ \A a : a \in Ancestors[f[s]] <=> \E j \in 0 .. s : f[j] = a
      /\ \A a : a \in Ancestors[f[k]] <=> \E j \in 0 .. k : f[j] = a
    BY <1>1, LineAncestors
<1> SUFFICES ASSUME NEW a \in Hash
             PROVE  TrueTree(f[s])[a] + (IF \E j \in s + 1 .. k : db.coins[j] = a
                                         THEN 1 ELSE 0)
                      = TrueTree(f[k])[a]
    BY DEF Replay, TrueTree
<1>4. (\E j \in s + 1 .. k : db.coins[j] = a)
        <=> a \in CoinBlocks /\ \E j \in s + 1 .. k : f[j] = a
    BY <1>1 DEF CoinsOf
<1>5. a \in Ancestors[f[k]]
        <=> a \in Ancestors[f[s]] \/ \E j \in s + 1 .. k : f[j] = a
    BY <1>1, <1>3
<1>6. ~ (a \in Ancestors[f[s]] /\ \E j \in s + 1 .. k : f[j] = a)
    BY <1>1, <1>2, <1>3
<1>7. /\ TrueTree(f[s])[a] = IF a \in CoinBlocks /\ a \in Ancestors[f[s]] THEN 1 ELSE 0
      /\ TrueTree(f[k])[a] = IF a \in CoinBlocks /\ a \in Ancestors[f[k]] THEN 1 ELSE 0
    BY DEF TrueTree
<1> HIDE DEF f
<1> QED
    BY <1>4, <1>5, <1>6, <1>7

LEMMA TrueTreeType ==
    ASSUME NEW b
    PROVE  TrueTree(b) \in [Hash -> Nat] /\ TrueTree(b) # None
BY ForkTreeAssumption DEF TrueTree

\* The snapshots that are kept below a tip at height h, and what they hold.
KeptBelow(k, h) == k = h \/ (k < h /\ k % Interval = 0)
SnapsOf(f, snaps, h) ==
    \A k \in Heights : snaps[k] = IF KeptBelow(k, h) THEN TrueTree(f[k]) ELSE None

\* rebuild_tip_merkle_tree at or below the tip, from snapshots that are right.
LEMMA RebuildLine ==
    ASSUME NEW db \in Stores, NEW n \in Heights, NEW h \in 0 .. n,
           Line(db.blocks, h), CoinsOf(db.blocks, db.coins, h),
           \A k \in 0 .. h : db.snaps[k] = IF KeptBelow(k, n) THEN TrueTree(db.blocks[k])
                                          ELSE None
    PROVE  LET r == RebuildTipTree(db, h)
           IN  /\ r.tree = [height |-> h, leaves |-> TrueTree(db.blocks[h])]
               /\ SnapsOf(db.blocks, r.snaps, h)
<1> USE ForkTreeAssumption
<1> DEFINE f    == db.blocks
           cut  == [db EXCEPT !.snaps = DeleteFrom(db.snaps, h + 1)]
           seed == GreatestIn(SnapsUpTo(db, h))
           mids == [k \in Heights |->
                      IF k \in seed + 1 .. h /\ k % Interval = 0
                      THEN Replay(cut, db.snaps[seed], seed + 1, k)
                      ELSE cut.snaps[k]]
           mid  == [cut EXCEPT !.snaps = mids]
<1>1. h \in Heights /\ h \in Nat /\ n \in Nat /\ h <= n
    BY DEF Heights
<1>2. f[0] # None /\ f[h] \in Hash
    BY <1>1 DEF Line
<1>3. /\ KeptBelow(0, n)
      /\ \A k \in 0 .. h : KeptBelow(k, n) => TrueTree(f[k]) # None
    <2>1. 0 % Interval = 0
        BY IntervalAssumption
    <2> QED
        BY <1>1, <2>1, TrueTreeType DEF KeptBelow
<1>4. SnapsUpTo(db, h) # {}
    BY <1>1, <1>3 DEF SnapsUpTo
<1>5. /\ seed \in 0 .. h /\ seed \in Heights /\ db.snaps[seed] # None
      /\ \A k \in SnapsUpTo(db, h) : k <= seed
    BY <1>1, <1>4, SeedExists
<1>6. /\ KeptBelow(seed, n) /\ db.snaps[seed] = TrueTree(f[seed])
      /\ \A k \in 0 .. h : KeptBelow(k, n) => k <= seed
    BY <1>3, <1>5 DEF SnapsUpTo
<1>7. RebuildTipTree(db, h) = ReplayFrom(cut, seed, db.snaps[seed], seed + 1, h)
    BY <1>2, <1>4 DEF RebuildTipTree
<1> HIDE DEF seed
<1>8. /\ cut \in Stores /\ cut.blocks = f /\ cut.coins = db.coins
      /\ cut.snaps = [k \in Heights |-> IF k >= h + 1 THEN None ELSE db.snaps[k]]
    BY DEF Stores, DeleteFrom
<1>9. \A k \in seed .. h : Replay(cut, TrueTree(f[seed]), seed + 1, k) = TrueTree(f[k])
    <2> HIDE DEF cut
    <2>1. Line(cut.blocks, h) /\ CoinsOf(cut.blocks, cut.coins, h)
        BY <1>8
    <2> QED
        BY <1>1, <1>5, <1>8, <2>1, ReplayLine
<1>10. ReplayFrom(cut, seed, db.snaps[seed], seed + 1, h)
         = StoreTipTree(mid, seed, h, TrueTree(f[h]))
    BY <1>1, <1>5, <1>6, <1>9 DEF ReplayFrom
<1> HIDE DEF cut, mids
<1>11. mid.snaps = mids /\ mids \in [Heights -> [Hash -> Nat] \cup {None}]
           /\ mid.blocks = f
    <2>1. mid.snaps = mids /\ mid.blocks = f
        BY <1>8 DEF Stores
    <2>2. ASSUME NEW k \in Heights
          PROVE  mids[k] \in [Hash -> Nat] \cup {None}
        <3>1. CASE k \in seed + 1 .. h /\ k % Interval = 0
            <4>1. k \in seed .. h
                BY <1>1, <1>5, <3>1 DEF Heights
            <4>2. mids[k] = TrueTree(f[k])
                BY <1>6, <1>9, <3>1, <4>1 DEF mids
            <4> QED
                BY <4>2, TrueTreeType
        <3>2. CASE ~ (k \in seed + 1 .. h /\ k % Interval = 0)
            <4>1. mids[k] = cut.snaps[k]
                BY <3>2 DEF mids
            <4> QED
                BY <1>8, <4>1 DEF Stores
        <3> QED
            BY <3>1, <3>2
    <2> QED
        BY <2>1, <2>2 DEF mids
<1> HIDE DEF mid
<1>12. /\ RebuildTipTree(db, h).tree = [height |-> h, leaves |-> TrueTree(f[h])]
       /\ RebuildTipTree(db, h).snaps = [k \in Heights |->
                      IF k = h THEN TrueTree(f[h])
                      ELSE IF k = seed /\ k % Interval # 0 THEN None
                      ELSE mids[k]]
    <2>1. mid \in Stores
        BY <1>8, <1>11 DEF mid, Stores
    <2> DEFINE st == StoreTipTree(mid, seed, h, TrueTree(f[h]))
    <2>2. /\ st.tree = [height |-> h, leaves |-> TrueTree(f[h])]
          /\ st.snaps = [k \in Heights |->
                           IF k = h THEN TrueTree(f[h])
                           ELSE IF k = seed /\ k % Interval # 0 THEN None
                           ELSE mid.snaps[k]]
        BY <2>1 DEF StoreTipTree, Stores
    <2>3. RebuildTipTree(db, h) = st
        BY <1>7, <1>10
    <2> HIDE DEF st
    <2> QED
        BY <1>11, <2>2, <2>3
<1>13. ASSUME NEW k \in Heights
       PROVE  RebuildTipTree(db, h).snaps[k]
                = IF KeptBelow(k, h) THEN TrueTree(f[k]) ELSE None
    <2>1. CASE k = h
        BY <1>12, <2>1 DEF KeptBelow
    <2>2. CASE k > h
        <3>1. k \in Nat /\ seed \in Nat /\ seed <= h
            BY <1>1, <1>5 DEF Heights
        <3>2. k # h /\ ~ KeptBelow(k, h) /\ k >= h + 1 /\ ~ (k \in seed + 1 .. h)
            BY <1>1, <2>2, <3>1 DEF KeptBelow
        <3>3. mids[k] = None
            <4>1. mids[k] = cut.snaps[k]
                BY <3>2 DEF mids
            <4> QED
                BY <1>8, <3>2, <4>1
        <3>4. RebuildTipTree(db, h).snaps[k] = None
            BY <1>12, <3>2, <3>3
        <3> QED
            BY <3>2, <3>4
    <2>3. CASE k < h /\ k % Interval = 0
        <3>1. KeptBelow(k, n) /\ k \in 0 .. h /\ ~ (k \in seed + 1 .. h)
            BY <1>1, <1>5, <1>6, <2>3 DEF KeptBelow, Heights
        <3>2. mids[k] = TrueTree(f[k])
            BY <1>1, <1>8, <3>1 DEF mids
        <3> QED
            BY <1>1, <1>12, <2>3, <3>2 DEF KeptBelow, Heights
    <2>4. CASE k < h /\ k % Interval # 0
        <3>1. ~ KeptBelow(k, n) /\ k \in 0 .. h
            BY <1>1, <2>4 DEF KeptBelow, Heights
        <3>2. mids[k] = None
            BY <1>1, <1>8, <2>4, <3>1 DEF mids
        <3> QED
            BY <1>1, <1>12, <2>4, <3>2 DEF KeptBelow, Heights
    <2> QED
        BY <1>1, <2>1, <2>2, <2>3, <2>4 DEF Heights
<1> QED
    BY <1>12, <1>13 DEF SnapsOf

-----------------------------------------------------------------------------
(* The store of an unpruned cache.                                          *)

\* Empty, or the blocks, coins, tip tree and snapshots of one chain.
Exact(d) ==
    /\ d \in Stores
    /\ IF d.tip = NoTip THEN d = EmptyStore
       ELSE /\ Line(d.blocks, d.tip.height)
            /\ \A k \in Heights : k > d.tip.height => d.blocks[k] = None
            /\ d.tip.hash = d.blocks[d.tip.height]
            /\ CoinsOf(d.blocks, d.coins, MaxHeight)
            /\ d.tree = [height |-> d.tip.height, leaves |-> TrueTree(d.tip.hash)]
            /\ SnapsOf(d.blocks, d.snaps, d.tip.height)

\* The tree of a block is its parent's, with the block's own coins.
LEMMA TrueTreeStep ==
    ASSUME NEW b \in Hash
    PROVE  /\ b = Genesis =>
                TrueTree(b) = [a \in Hash |-> EmptyTree[a] +
                                 IF a = b /\ b \in CoinBlocks THEN 1 ELSE 0]
           /\ b # Genesis =>
                TrueTree(b) = [a \in Hash |-> TrueTree(Prev[b])[a] +
                                 IF a = b /\ b \in CoinBlocks THEN 1 ELSE 0]
<1> USE ForkTreeAssumption
<1>1. CASE b = Genesis
    BY <1>1, LinkAssumption DEF TrueTree, EmptyTree
<1>2. CASE b # Genesis
    <2>1. /\ Prev[b] \in Hash /\ HeightOf[b] = HeightOf[Prev[b]] + 1
          /\ Ancestors[b] = {b} \cup Ancestors[Prev[b]]
          /\ HeightOf[Prev[b]] \in Nat
        BY <1>2, LinkAssumption DEF Heights
    <2>2. b \notin Ancestors[Prev[b]]
        BY <2>1, AncestorHeights
    <2> QED
        BY <1>2, <2>1, <2>2 DEF TrueTree
<1> QED
    BY <1>1, <1>2

\* Inserting the block after the tip.
LEMMA InsertExact ==
    ASSUME NEW d, Exact(d), NEW b \in Hash,
           IF d.tip = NoTip THEN b = Genesis ELSE b # Genesis /\ Prev[b] = d.tip.hash
    PROVE  Exact(InsertBlock(d, b))
<1> USE ForkTreeAssumption
<1> DEFINE h      == HeightOf[b]
           r      == InsertBlock(d, b)
           rows   == WriteRows(d, b)
           new    == [rows EXCEPT !.tip = [height |-> h, hash |-> b]]
           leaves == [a \in Hash |-> d.tree.leaves[a] +
                         IF a = b /\ b \in CoinBlocks THEN 1 ELSE 0]
<1>1. d \in Stores /\ h \in Heights /\ h \in Nat
    BY DEF Exact, Heights
<1>2. d.tip # NoTip =>
        /\ d.tip.height \in Heights /\ d.tip.height \in Nat
        /\ h = d.tip.height + 1
    <2> SUFFICES ASSUME d.tip # NoTip
                 PROVE  /\ d.tip.height \in Heights /\ d.tip.height \in Nat
                        /\ h = d.tip.height + 1
        OBVIOUS
    <2>1. d.tip.height \in Heights /\ d.tip.height \in Nat
        BY <1>1 DEF Stores, Tips, Heights
    <2>2. HeightOf[d.tip.hash] = d.tip.height
        BY <2>1 DEF Exact, Line
    <2> QED
        BY <2>1, <2>2, LinkAssumption
<1>3. /\ r \in Stores
      /\ r.blocks = [d.blocks EXCEPT ![h] = b]
      /\ r.coins = IF b \in CoinBlocks THEN [d.coins EXCEPT ![h] = b] ELSE d.coins
      /\ r.tip = [height |-> h, hash |-> b]
    BY <1>1, <1>2, InsertShape
<1>4. /\ r.tip # NoTip /\ r.tip.height = h /\ r.tip.hash = b
    BY <1>1, <1>3 DEF NoTip, Heights
<1>5. \A k \in Heights : r.blocks[k] = IF k = h THEN b ELSE d.blocks[k]
    BY <1>1, <1>3 DEF Stores, Rows
<1>6. Line(r.blocks, h)
    <2>1. CASE d.tip = NoTip
        <3>1. h = 0
            BY <2>1, LinkAssumption
        <3> QED
            BY <1>1, <1>5, <3>1 DEF Line, Heights
    <2>2. CASE d.tip # NoTip
        <3> SUFFICES ASSUME NEW k \in 0 .. h
                     PROVE  /\ r.blocks[k] \in Hash /\ HeightOf[r.blocks[k]] = k
                            /\ k # 0 => Prev[r.blocks[k]] = r.blocks[k - 1]
            BY DEF Line
        <3>1. k \in Heights /\ k \in Nat /\ (k # 0 => k - 1 \in Heights /\ k - 1 # h)
            BY <1>1 DEF Heights
        <3>2. CASE k = h
            <4>1. k # 0 /\ k - 1 = d.tip.height
                BY <1>2, <2>2, <3>2
            <4> QED
                BY <1>5, <2>2, <3>1, <3>2, <4>1 DEF Exact
        <3>3. CASE k # h
            <4>1. k \in 0 .. d.tip.height
                BY <1>2, <2>2, <3>1, <3>3
            <4> QED
                BY <1>5, <2>2, <3>1, <3>3, <4>1 DEF Exact, Line
        <3> QED
            BY <3>2, <3>3
    <2> QED
        BY <2>1, <2>2
<1>7. \A k \in Heights : k > h => r.blocks[k] = None
    <2> SUFFICES ASSUME NEW k \in Heights, k > h
                 PROVE  r.blocks[k] = None
        OBVIOUS
    <2>1. k \in Nat /\ k # h
        BY <1>1 DEF Heights
    <2>2. r.blocks[k] = d.blocks[k]
        BY <1>5, <2>1
    <2>3. CASE d.tip = NoTip
        BY <2>2, <2>3 DEF Exact, EmptyStore
    <2>4. CASE d.tip # NoTip
        <3>1. k > d.tip.height
            BY <1>1, <1>2, <2>1, <2>4
        <3> QED
            BY <2>2, <2>4, <3>1 DEF Exact
    <2> QED
        BY <2>3, <2>4
<1>8. CoinsOf(r.blocks, r.coins, MaxHeight)
    <2>1. \A k \in Heights : d.coins[k] = IF d.blocks[k] \in CoinBlocks THEN d.blocks[k]
                                          ELSE None
        BY DEF Exact, EmptyStore, CoinsOf, Heights
    <2>2. d.blocks[h] = None
        BY <1>1, <1>2 DEF Exact, EmptyStore, Heights
    <2>3. \A k \in Heights : r.coins[k] = IF k = h /\ b \in CoinBlocks THEN b ELSE d.coins[k]
        BY <1>1, <1>3 DEF Stores, Rows
    <2> QED
        BY <1>1, <1>5, <2>1, <2>2, <2>3 DEF CoinsOf, Heights
<1>9. /\ d.tree = NoTree \/ h = d.tree.height + 1
      /\ ~ (d.tree # NoTree /\ h = 0)
      /\ leaves = TrueTree(b)
    <2>1. CASE d.tip = NoTip
        <3>1. d.tree = NoTree
            BY <2>1 DEF Exact, EmptyStore
        <3>2. leaves = TrueTree(b)
            BY <2>1, <3>1, TrueTreeStep DEF NoTree
        <3> QED
            BY <3>1, <3>2
    <2>2. CASE d.tip # NoTip
        <3>1. d.tree.height = d.tip.height /\ d.tree.leaves = TrueTree(d.tip.hash)
            BY <2>2 DEF Exact
        <3> QED
            BY <1>2, <2>2, <3>1, TrueTreeStep
    <2> QED
        BY <2>1, <2>2
<1>10. r = StoreTipTree(new, d.tree.height, h, TrueTree(b))
    <2>1. r = AppendCoins(new, h, b)
        BY <1>1, <1>2 DEF InsertBlock, WriteRows
    <2>2. new.tree = d.tree
        BY <1>1 DEF WriteRows, Stores
    <2> HIDE DEF new
    <2> QED
        BY <1>9, <2>1, <2>2 DEF AppendCoins
<1>11. /\ r.tree = [height |-> h, leaves |-> TrueTree(b)]
       /\ r.snaps = [k \in Heights |->
                        IF k = h THEN TrueTree(b)
                        ELSE IF k = d.tree.height /\ k % Interval # 0 THEN None
                        ELSE d.snaps[k]]
    <2>1. new.snaps = d.snaps /\ new \in Stores
        BY <1>1 DEF WriteRows, Stores, Rows, Tips
    <2> HIDE DEF new, r
    <2> QED
        BY <1>10, <2>1 DEF StoreTipTree, Stores
<1>12. SnapsOf(r.blocks, r.snaps, h)
    <2> SUFFICES ASSUME NEW k \in Heights
                 PROVE  r.snaps[k] = IF KeptBelow(k, h) THEN TrueTree(r.blocks[k]) ELSE None
        BY DEF SnapsOf
    <2>1. CASE d.tip = NoTip
        <3>1. h = 0 /\ d.snaps[k] = None
            BY <2>1, LinkAssumption DEF Exact, EmptyStore
        <3> QED
            BY <1>5, <1>11, <3>1 DEF KeptBelow, Heights
    <2>2. CASE d.tip # NoTip
        <3>1. /\ d.tree.height = d.tip.height
              /\ d.snaps[k] = IF KeptBelow(k, d.tip.height) THEN TrueTree(d.blocks[k]) ELSE None
            BY <2>2 DEF Exact, SnapsOf
        <3>2. k \in Nat /\ k % Interval \in Int
            BY IntervalAssumption DEF Heights
        <3> QED
            BY <1>1, <1>2, <1>5, <1>11, <2>2, <3>1, <3>2 DEF KeptBelow
    <2> QED
        BY <2>1, <2>2
<1>13. r.tip.hash = r.blocks[h] /\ r.tree = [height |-> h, leaves |-> TrueTree(b)]
    BY <1>1, <1>4, <1>5, <1>11
<1> HIDE DEF r, h
<1>14. Exact(r)
    BY <1>3, <1>4, <1>6, <1>7, <1>8, <1>12, <1>13 DEF Exact
<1> QED
    BY <1>14 DEF r

\* Rewinding to a block of the chain.
LEMMA RewindExact ==
    ASSUME NEW d, Exact(d), d.tip # NoTip, NEW h \in Heights, h <= d.tip.height
    PROVE  /\ Exact(Rewind(d, h))
           /\ Rewind(d, h).tip = [height |-> h, hash |-> d.blocks[h]]
<1> USE ForkTreeAssumption
<1> DEFINE n      == d.tip.height
           r      == Rewind(d, h)
           above  == {k \in Heights : k > h}
           blocks == DeleteWithBlock(d, d.blocks, above)
           coins  == DeleteWithBlock(d, d.coins, above)
           snaps  == DeleteFrom(d.snaps, h + 1)
           tip    == [height |-> h, hash |-> d.blocks[h]]
           kept   == [d EXCEPT !.blocks = blocks, !.coins = coins]
           cut    == [kept EXCEPT !.tip = tip, !.snaps = snaps]
<1>1. /\ d \in Stores /\ n \in Heights /\ n \in Nat /\ h \in Nat /\ h \in 0 .. n
      /\ d.blocks[h] \in Hash
    BY DEF Exact, Stores, Tips, Heights, Line
<1>2. /\ blocks = [k \in Heights |-> IF k > h THEN None ELSE d.blocks[k]]
      /\ blocks \in Rows
    BY <1>1 DEF DeleteWithBlock, Stores, Rows
<1>3. /\ coins \in Rows
      /\ \A k \in Heights : coins[k] = IF k > h THEN None ELSE d.coins[k]
    <2>1. coins \in Rows
        BY <1>1 DEF DeleteWithBlock, Stores, Rows
    <2>2. \A k \in Heights : d.blocks[k] = None => d.coins[k] = None
        BY DEF Exact, CoinsOf, Heights
    <2> QED
        BY <2>1, <2>2 DEF DeleteWithBlock
<1>4. snaps = [k \in Heights |-> IF k >= h + 1 THEN None ELSE d.snaps[k]]
        /\ snaps \in [Heights -> [Hash -> Nat] \cup {None}]
    BY <1>1 DEF DeleteFrom, Stores
<1>5. r = RebuildTipTree(cut, h)
    BY <1>1 DEF Rewind
<1> HIDE DEF blocks, coins, snaps
<1>6. /\ cut \in Stores /\ cut.blocks = blocks /\ cut.coins = coins
      /\ cut.tip = tip /\ cut.snaps = snaps
    BY <1>1, <1>2, <1>3, <1>4 DEF Stores, Tips
<1> HIDE DEF cut, r
<1>7. Line(blocks, h)
    BY <1>1, <1>2 DEF Exact, Line, Heights
<1>8. CoinsOf(blocks, coins, MaxHeight)
    BY <1>1, <1>2, <1>3 DEF Exact, CoinsOf, Heights
<1>9. CoinsOf(blocks, coins, h)
    BY <1>1, <1>8 DEF CoinsOf, Heights
<1>10. \A k \in 0 .. h : snaps[k] = IF KeptBelow(k, n) THEN TrueTree(blocks[k]) ELSE None
    <2> SUFFICES ASSUME NEW k \in 0 .. h
                 PROVE  snaps[k] = IF KeptBelow(k, n) THEN TrueTree(blocks[k]) ELSE None
        OBVIOUS
    <2>1. k \in Heights /\ ~ (k >= h + 1) /\ ~ (k > h)
        BY <1>1 DEF Heights
    <2>2. d.snaps[k] = IF KeptBelow(k, n) THEN TrueTree(d.blocks[k]) ELSE None
        BY <2>1 DEF Exact, SnapsOf
    <2> QED
        BY <1>2, <1>4, <2>1, <2>2
<1> HIDE DEF n
<1>11. /\ RebuildTipTree(cut, h).tree = [height |-> h, leaves |-> TrueTree(blocks[h])]
       /\ SnapsOf(blocks, RebuildTipTree(cut, h).snaps, h)
    <2>1. Line(cut.blocks, h) /\ CoinsOf(cut.blocks, cut.coins, h)
        BY <1>6, <1>7, <1>9
    <2>2. \A k \in 0 .. h : cut.snaps[k] = IF KeptBelow(k, n) THEN TrueTree(cut.blocks[k])
                                           ELSE None
        BY <1>6, <1>10
    <2> QED
        BY <1>1, <1>6, <2>1, <2>2, RebuildLine
<1>12. KeepsRows(r, cut)
    BY <1>5, <1>6, RebuildShape
<1>13. /\ r \in Stores /\ r.blocks = blocks /\ r.coins = coins
       /\ r.tip = tip /\ r.tip # NoTip /\ blocks[h] = d.blocks[h]
       /\ \A k \in Heights : k > h => blocks[k] = None
    BY <1>1, <1>2, <1>6, <1>12 DEF KeepsRows, NoTip
<1>14. /\ r.tip.height = h /\ r.tip.hash = r.blocks[h]
       /\ r.tree = [height |-> h, leaves |-> TrueTree(r.tip.hash)]
       /\ SnapsOf(r.blocks, r.snaps, h)
    BY <1>5, <1>11, <1>13
<1>15. Exact(r)
    BY <1>7, <1>8, <1>13, <1>14 DEF Exact
<1> QED
    BY <1>13, <1>15 DEF r
=============================================================================
