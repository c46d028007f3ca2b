------------------------------- MODULE ReaderProofs -------------------------------
(***************************************************************************)
(* Proofs about the readers of the cache beside the poller's writes: that  *)
(* GetCheckpointSnapshot and GetTreeState hand out the tree of a chain, in *)
(* the middle of a rewind or of a rebuild too, and that a stream of blocks *)
(* that comes to its end has read one chain and sent each item of its      *)
(* blocks once.                                                            *)
(***************************************************************************)
EXTENDS TreeReads, RangeStreams, CacheWritesProofs, SequenceTheorems

-----------------------------------------------------------------------------
(* Snapshot rows a reader may meet.                                         *)

\* No row, or the tree of a chain up to its height.
TrueSnap(k, v) == v = None \/ \E b \in Hash : HeightOf[b] = k /\ v = TrueTree(b)

TrueSnaps(d) == \A k \in Heights : TrueSnap(k, d.snaps[k])

\* No write of a list puts any other snapshot.
TrueWrite(w) == w.tree = "snaps" => TrueSnap(w.key, w.val)
TrueList(W) == IsList(W) /\ \A i \in 1 .. Len(W) : TrueWrite(W[i])

LEMMA TrueConcat ==
    ASSUME NEW A, NEW B, TrueList(A), TrueList(B)
    PROVE  TrueList(A \o B)
<1>1. /\ IsList(A) /\ IsList(B) /\ Len(A) \in Nat /\ Len(B) \in Nat
      /\ \A i \in 1 .. Len(A) : TrueWrite(A[i])
      /\ \A i \in 1 .. Len(B) : TrueWrite(B[i])
    BY ListDomain DEF TrueList
<1> DEFINE C == A \o B
<1>2. /\ IsList(C) /\ Len(C) = Len(A) + Len(B)
      /\ \A i \in 1 .. Len(A) : C[i] = A[i]
      /\ \A i \in 1 .. Len(B) : C[Len(A) + i] = B[i]
    BY <1>1, ConcatList
<1> HIDE DEF C
<1>3. ASSUME NEW i \in 1 .. Len(C) PROVE TrueWrite(C[i])
    <2>1. CASE i \in 1 .. Len(A)
        BY <1>1, <1>2, <2>1
    <2>2. CASE i \notin 1 .. Len(A)
        <3>1. i - Len(A) \in 1 .. Len(B) /\ Len(A) + (i - Len(A)) = i
            BY <1>1, <1>2, <2>2
        <3>2. C[Len(A) + (i - Len(A))] = B[i - Len(A)]
            BY <1>2, <3>1
        <3> QED BY <1>1, <3>1, <3>2
    <2> QED BY <2>1, <2>2
<1> QED
    BY <1>2, <1>3 DEF TrueList, C

LEMMA TruePut ==
    ASSUME NEW t, NEW k, NEW v, t = "snaps" => TrueSnap(k, v)
    PROVE  TrueList(Put(t, k, v))
<1> DEFINE w == [tree |-> t, key |-> k, val |-> v]
<1>1. TrueWrite(w)
    BY DEF TrueWrite
<1>2. Put(t, k, v) = <<w>>
    BY DEF Put
<1> HIDE DEF w
<1>3. IsList(<<w>>) /\ Len(<<w>>) = 1 /\ <<w>>[1] = w
    BY OneWrite
<1> QED
    BY <1>1, <1>2, <1>3 DEF TrueList

LEMMA TrueErase == ASSUME NEW t, NEW k PROVE TrueList(Erase(t, k))
BY TruePut DEF Erase, TrueSnap

LEMMA TrueWhen ==
    ASSUME NEW c, NEW W, c => TrueList(W)
    PROVE  TrueList(When(c, W))
<1>1. TrueList(<<>>)
    BY NoWrite DEF TrueList
<1> QED
    BY <1>1 DEF When

\* Rows of other trees are of no concern, and removing a snapshot does no harm.
LEMMA TrueRows ==
    ASSUME NEW W, IsList(W), \A i \in 1 .. Len(W) : W[i].tree # "snaps" \/ W[i].val = None
    PROVE  TrueList(W)
BY DEF TrueList, TrueWrite, TrueSnap

LEMMA TrueCut == ASSUME NEW d, NEW h PROVE TrueList(RemoveSnapsFrom(d, h))
<1> DEFINE S == RowsIn(d.snaps, {k \in Heights : k >= h})
           W == EraseRows(<<"snaps">>, S)
<1>1. S \subseteq Heights
    BY DEF RowsIn
<1> HIDE DEF S
<1>2. /\ IsList(W) /\ Len(W) = Cardinality(S)
      /\ \A i \in 1 .. Cardinality(S) : W[i] = [tree |-> "snaps", key |-> Ascending(S)[i], val |-> None]
    BY <1>1, EraseOneTree
<1> HIDE DEF W
<1>3. TrueList(W)
    BY <1>2, TrueRows
<1> QED
    BY <1>3 DEF RemoveSnapsFrom, S, W

LEMMA TrueRemove ==
    ASSUME NEW S, S \subseteq Heights
    PROVE  TrueList(RemoveBlocks(S))
<1> DEFINE W == RemoveBlocks(S)
<1>1. IsList(W) /\ \A i \in 1 .. Len(W) : W[i].val = None
    BY EraseThreeTrees
<1> HIDE DEF W
<1>2. TrueList(W)
    BY <1>1, TrueRows
<1> QED
    BY <1>2 DEF W

LEMMA TrueTip ==
    ASSUME NEW v, NEW w
    PROVE  TrueList(Put("meta", "tip_height", v) \o Put("meta", "tip_hash", w))
<1>1. TrueList(Put("meta", "tip_height", v)) /\ TrueList(Put("meta", "tip_hash", w))
    BY TruePut
<1> QED
    BY <1>1, TrueConcat

LEMMA TrueStore ==
    ASSUME NEW prev, NEW h, NEW leaves, TrueSnap(h, leaves)
    PROVE  TrueList(StoreTreeWrites(prev, h, leaves))
<1> DEFINE A == Put("meta", "merkle_tree", leaves)
           B == Put("meta", "merkle_height", h)
           C == Put("snaps", h, leaves)
           D == When(prev \notin {None, h} /\ prev % Interval # 0, Erase("snaps", prev))
           E == Put("live", "tree", [height |-> h, leaves |-> leaves])
<1>1. TrueList(A) /\ TrueList(B) /\ TrueList(C) /\ TrueList(E)
    BY TruePut
<1>2. TrueList(D)
    BY TrueErase, TrueWhen
<1>3. StoreTreeWrites(prev, h, leaves) = A \o B \o C \o D \o E
    BY DEF StoreTreeWrites
<1> HIDE DEF A, B, C, D, E
<1>4. TrueList(A \o B)
    BY <1>1, TrueConcat
<1>5. TrueList(A \o B \o C)
    BY <1>1, <1>4, TrueConcat
<1>6. TrueList(A \o B \o C \o D)
    BY <1>2, <1>5, TrueConcat
<1> QED
    BY <1>1, <1>3, <1>6, TrueConcat

\* Each write of such a list leaves true snapshots.
LEMMA TrueApply ==
    ASSUME NEW d, IsDisk(d), TrueSnaps(d), NEW w, TrueWrite(w)
    PROVE  TrueSnaps(Apply(d, w))
<1>1. ASSUME NEW k \in Heights PROVE TrueSnap(k, Apply(d, w)["snaps"][k])
    <2> DEFINE W == <<w>>
    <2>1. "snaps" \in Trees7 /\ k \in Keys7("snaps")
        BY TreesAre
    <2>2. IsList(W) /\ Len(W) = 1 /\ W[1] = w /\ Play(d, W) = Apply(d, w)
        BY OneWrite, PlayOne
    <2> HIDE DEF W
    <2>3. \A j \in 1 .. Len(W) : Hits(W[j], "snaps", k) => W[j].val = w.val
        BY <2>2
    <2>4. Play(d, W)["snaps"][k] =
              IF \E j \in 1 .. Len(W) : Hits(W[j], "snaps", k) THEN w.val ELSE d["snaps"][k]
        <3>1. IsList(W)
            BY <2>2
        <3> QED BY <2>1, <2>3, <3>1, PlaySame
    <2>5. (\E j \in 1 .. Len(W) : Hits(W[j], "snaps", k)) => TrueSnap(k, w.val)
        BY <2>2 DEF TrueWrite, Hits
    <2> QED BY <2>2, <2>4, <2>5 DEF TrueSnaps
<1> QED
    BY <1>1 DEF TrueSnaps

-----------------------------------------------------------------------------
(* The operations of the poller on the cache of one chain.                  *)

\* The cache of one chain has the snapshots of its blocks.
LEMMA ExactSnaps ==
    ASSUME NEW d, Exact(AsStore(d))
    PROVE  TrueSnaps(d)
<1> DEFINE st == AsStore(d)
<1>1. st.snaps = d.snaps /\ st.tip = Tip(d)
    BY StoreForm
<1> HIDE DEF st
<1>2. Exact(st)
    BY DEF st
<1>3. CASE st.tip = NoTip
    BY <1>1, <1>2, <1>3 DEF Exact, EmptyStore, TrueSnaps, TrueSnap
<1>4. CASE st.tip # NoTip
    <2> DEFINE n == st.tip.height
    <2>1. n \in Heights /\ Line(st.blocks, n) /\ SnapsOf(st.blocks, st.snaps, n)
        BY <1>2, <1>4 DEF Exact, Stores, Tips
    <2> HIDE DEF n
    <2>2. ASSUME NEW k \in Heights, st.snaps[k] # None
          PROVE  \E b \in Hash : HeightOf[b] = k /\ st.snaps[k] = TrueTree(b)
        <3>1. KeptBelow(k, n) /\ st.snaps[k] = TrueTree(st.blocks[k])
            BY <2>1, <2>2 DEF SnapsOf
        <3>2. k \in 0 .. n
            BY <2>1, <3>1, ForkTreeAssumption DEF KeptBelow, Heights
        <3> QED BY <2>1, <3>1, <3>2 DEF Line
    <2> QED BY <1>1, <2>2 DEF TrueSnaps, TrueSnap
<1> QED
    BY <1>3, <1>4

\* Every snapshot rebuild_tip_merkle_tree puts is still there at its end, so it
\* is true when those are.
LEMMA TrueRebuild ==
    ASSUME NEW d, IsDisk(d), NEW h \in Heights, TrueSnaps(Play(d, RebuildWrites(d, h)))
    PROVE  TrueList(RebuildWrites(d, h))
<1>1. CASE h = 0 /\ d.blocks[0] = None
    <2> DEFINE A == Erase("meta", "merkle_tree")
               B == Erase("meta", "merkle_height")
               C == RemoveSnapsFrom(d, 0)
               D == Put("live", "tree", NoTree)
    <2>1. TrueList(A) /\ TrueList(B) /\ TrueList(C) /\ TrueList(D)
        BY TruePut, TrueErase, TrueCut
    <2>2. RebuildWrites(d, h) = A \o B \o C \o D
        BY <1>1 DEF RebuildWrites
    <2> HIDE DEF A, B, C, D
    <2>3. TrueList(A \o B)
        BY <2>1, TrueConcat
    <2>4. TrueList(A \o B \o C)
        BY <2>1, <2>3, TrueConcat
    <2> QED BY <2>1, <2>2, <2>4, TrueConcat
<1>2. CASE ~ (h = 0 /\ d.blocks[0] = None)
    <2> DEFINE st   == AsStore(d)
               e    == Play(d, RebuildWrites(d, h))
               seed == SeedOf(d, h)
               from == FromOf(d, h)
               lv   == LeavesOf(d, h)
               all  == Replay(d, lv, from, h)
               S    == {k \in from .. h : k % Interval = 0}
               A == RemoveSnapsFrom(d, h + 1)
               B == BoundWrites(d, lv, from, h)
               C == StoreTreeWrites(seed, h, all)
    <2>1. RebuildWrites(d, h) = A \o B \o C
        BY <1>2 DEF RebuildWrites, SeedOf, FromOf, LeavesOf, BoundWrites
    <2>2. from \in Nat
        BY SeedIs
    <2>3. /\ IsStore(st) /\ st.blocks = d.blocks /\ st.snaps = d.snaps /\ st.coins = d.coins
          /\ AsStore(e) = RebuildTipTree(st, h) /\ AsStore(e).snaps = e.snaps
        BY StoreForm, RebuildPlay
    <2>4. TrueSnaps(e)
        OBVIOUS
    <2> HIDE DEF st, e
    <2>5. /\ SeedOf(st, h) = seed /\ FromOf(st, h) = from /\ LeavesOf(st, h) = lv
          /\ \A k : Replay(st, lv, from, k) = Replay(d, lv, from, k)
        BY <2>3, SeedReads, ReplayReads
    <2>6. e.snaps = RebuiltSnaps(st, h)
        BY <1>2, <2>3, RebuildForm DEF StoreOf
    <2> HIDE DEF seed, from, lv
    <2>7. /\ e.snaps[h] = all
          /\ \A k \in Heights : (k \in from .. h /\ k % Interval = 0) =>
                                    e.snaps[k] = Replay(d, lv, from, k)
        BY <2>5, <2>6 DEF RebuiltSnaps, StoredSnaps, BoundSnaps
    <2>8. TrueList(C)
        <3>1. TrueSnap(h, all)
            BY <2>4, <2>7 DEF TrueSnaps
        <3> QED BY <3>1, TrueStore
    <2>9. TrueList(B)
        <3>1. IsList(B)
            BY <2>2, BoundsPlay
        <3>2. S \subseteq Heights
            BY <2>2, ForkTreeAssumption DEF Heights
        <3>3. \A i \in 1 .. Len(B) :
                  /\ B[i].tree = "snaps" /\ B[i].key \in S
                  /\ B[i].val = Replay(d, lv, from, B[i].key)
            <4> DEFINE n == Cardinality(S)
                       bounds == Ascending(S)
                       f(i) == [tree |-> "snaps", key |-> bounds[i],
                                val |-> Replay(d, lv, from, bounds[i])]
            <4>1. DOMAIN bounds = 1 .. n
                BY DEF Ascending
            <4>2. \A i \in 1 .. n : bounds[i] \in S
                <5> HIDE DEF S
                <5> QED BY <3>2, AscendingLists
            <4>3. B = [i \in DOMAIN bounds |-> f(i)]
                BY DEF BoundWrites
            <4> HIDE DEF S, bounds, n
            <4>4. DOMAIN B = 1 .. n /\ \A i \in 1 .. n : B[i] = f(i)
                BY <4>1, <4>3
            <4>5. 1 .. Len(B) = 1 .. n
                BY <3>1, <4>4, ListDomain
            <4> HIDE DEF B
            <4>6. ASSUME NEW i \in 1 .. Len(B)
                  PROVE  /\ B[i].tree = "snaps" /\ B[i].key \in S
                         /\ B[i].val = Replay(d, lv, from, B[i].key)
                <5>1. B[i] = f(i) /\ bounds[i] \in S
                    BY <4>2, <4>4, <4>5
                <5> QED BY <5>1
            <4> QED BY <4>6
        <3>4. \A k \in S : TrueSnap(k, Replay(d, lv, from, k))
            BY <2>4, <2>7, <3>2 DEF TrueSnaps
        <3> HIDE DEF B, S
        <3> QED BY <3>1, <3>3, <3>4 DEF TrueList, TrueWrite
    <2>10. TrueList(A)
        BY TrueCut
    <2> HIDE DEF A, B, C
    <2>11. TrueList(A \o B)
        BY <2>9, <2>10, TrueConcat
    <2> QED BY <2>1, <2>8, <2>11, TrueConcat
<1> QED
    BY <1>1, <1>2

\* rewind_to_height.
LEMMA TrueRewind ==
    ASSUME NEW d, IsDisk(d), NEW h \in Heights, TrueSnaps(Play(d, RewindWrites(d, h)))
    PROVE  TrueList(RewindWrites(d, h))
<1> DEFINE S     == RowsIn(d.blocks, {k \in Heights : k > h})
           gone  == RemoveBlocks(S)
           reset == Put("meta", "tip_height", None) \o Put("meta", "tip_hash", None)
           set   == Put("meta", "tip_height", h) \o Put("meta", "tip_hash", d.blocks[h])
           tip   == IF d.blocks[h] # None THEN set ELSE When(h = 0, reset)
           rows  == gone \o tip
           cut   == RemoveSnapsFrom(d, h + 1)
           d1    == Play(d, rows \o cut)
           tree  == RebuildWrites(d1, h)
<1>1. RewindWrites(d, h) = rows \o cut \o tree
    BY DEF RewindWrites, Erase
<1>2. TrueList(gone)
    <2>1. S \subseteq Heights
        BY DEF RowsIn
    <2> HIDE DEF S
    <2> QED BY <2>1, TrueRemove
<1>3. TrueList(tip)
    <2>1. TrueList(set) /\ TrueList(reset)
        BY TrueTip
    <2> HIDE DEF set, reset
    <2>2. TrueList(When(h = 0, reset))
        BY <2>1, TrueWhen
    <2> QED BY <2>1, <2>2
<1>4. TrueList(cut) /\ IsDisk(d1)
    BY TrueCut, PlayDisk
<1> HIDE DEF gone, tip, cut
<1>5. TrueList(rows)
    BY <1>2, <1>3, TrueConcat
<1> HIDE DEF rows
<1>6. TrueList(rows \o cut)
    BY <1>4, <1>5, TrueConcat
<1> DEFINE early == rows \o cut
<1>7. IsList(early) /\ d1 = Play(d, early)
    BY <1>6 DEF TrueList
<1>8. IsList(tree)
    <2> HIDE DEF d1
    <2> QED BY <1>4, TypedRebuild DEF TypedList
<1> HIDE DEF tree, early
<1>9. Play(d, early \o tree) = Play(d1, tree)
    BY <1>7, <1>8, PlayConcat
<1>10. TrueSnaps(Play(d1, tree))
    BY <1>1, <1>9 DEF early
<1> HIDE DEF d1
<1>11. TrueList(tree)
    BY <1>4, <1>10, TrueRebuild DEF tree
<1> QED
    BY <1>1, <1>6, <1>11, TrueConcat

\* insert_compact_block, for the block after the tip.
LEMMA TrueInsert ==
    ASSUME NEW d, IsDisk(d), Exact(AsStore(d)), NEW b \in Hash,
           IF Tip(d) = NoTip THEN b = Genesis ELSE b # Genesis /\ Prev[b] = Tip(d).hash
    PROVE  TrueList(InsertWrites(d, b))
<1> DEFINE st   == AsStore(d)
           h    == HeightOf[b]
           A    == Put("blocks", h, b)
           B    == Put("hashes", h, b)
           C    == When(b \in CoinBlocks, Put("coins", h, b))
           rows == A \o B \o C
           tip  == Put("meta", "tip_height", h) \o Put("meta", "tip_hash", b)
           d1   == Play(d, rows)
           d2   == Play(d, rows \o tip)
           live == d.live.tree
           new  == Grown(live.leaves, b)
           D    == StoreTreeWrites(live.height, h, new)
<1>1. /\ st.tip = Tip(d) /\ st.tree = live /\ st.blocks = d.blocks /\ Exact(st)
      /\ None \notin Heights
    BY StoreForm, ForkTreeAssumption DEF Heights
<1>2. h \in Heights /\ h \in Nat /\ (h = 0 <=> b = Genesis)
    BY ForkTreeAssumption, LinkAssumption DEF Heights
<1> HIDE DEF st
<1>3. Tip(d) # NoTip => /\ h = Tip(d).height + 1 /\ Tip(d).height \in Nat
                        /\ live.height = Tip(d).height
                        /\ live.leaves = TrueTree(Tip(d).hash)
    <2> SUFFICES ASSUME Tip(d) # NoTip
                 PROVE  /\ h = Tip(d).height + 1 /\ Tip(d).height \in Nat
                        /\ live.height = Tip(d).height
                        /\ live.leaves = TrueTree(Tip(d).hash)
        OBVIOUS
    <2>1. Tip(d).height \in Heights /\ Tip(d).height \in Nat
        BY <1>1, ForkTreeAssumption DEF Exact, Stores, Tips, Heights
    <2>2. HeightOf[Tip(d).hash] = Tip(d).height
        BY <1>1, <2>1 DEF Exact, Line
    <2>3. live = [height |-> Tip(d).height, leaves |-> TrueTree(Tip(d).hash)]
        BY <1>1 DEF Exact
    <2>4. h = HeightOf[Prev[b]] + 1
        BY LinkAssumption
    <2> QED BY <2>1, <2>2, <2>3, <2>4
<1>4. Tip(d) = NoTip => live = NoTree
    BY <1>1 DEF Exact, EmptyStore
<1>5. /\ live.height = None \/ h = live.height + 1
      /\ ~ (Tip(d) # NoTip /\ h < Tip(d).height)
    BY <1>2, <1>3, <1>4 DEF NoTree
<1>6. new = TrueTree(b)
    <2>1. CASE Tip(d) = NoTip
        BY <1>4, <2>1, TrueTreeStep DEF NoTree, Grown
    <2>2. CASE Tip(d) # NoTip
        <3>1. Prev[b] = Tip(d).hash /\ b # Genesis /\ live.leaves = TrueTree(Prev[b])
            BY <1>3, <2>2
        <3> QED BY <3>1, TrueTreeStep DEF Grown
    <2> QED BY <2>1, <2>2
<1>7. d2.live.tree = live /\ IsDisk(d2)
    <2>1. IsList(rows) /\ IsDisk(d1) /\ d1.live.tree = live
        BY <1>2, RowsPlay
    <2> HIDE DEF d1
    <2>2. IsList(tip) /\ Play(d1, tip).live.tree = d1.live.tree /\ IsDisk(Play(d1, tip))
        BY <2>1, TipPlay
    <2> HIDE DEF rows, tip
    <2>3. d2 = Play(d1, tip)
        BY <2>1, <2>2, PlayConcat DEF d1
    <2> QED BY <2>1, <2>2, <2>3
<1>8. AppendWrites(d2, h, b) = <<>> \o D
    <2> HIDE DEF d2, live, h
    <2>1. Play(d2, <<>>) = d2
        BY <1>7, PlayEmpty
    <2>2. ~ (d2.live.tree.height # None /\ h # d2.live.tree.height + 1)
        BY <1>5, <1>7
    <2> QED BY <1>7, <2>1, <2>2 DEF AppendWrites, When, Grown
<1>9. InsertWrites(d, b) = rows \o (tip \o (<<>> \o D))
    BY <1>5, <1>8 DEF InsertWrites
<1>10. TrueList(rows)
    <2>1. TrueList(A) /\ TrueList(B) /\ TrueList(C)
        BY TruePut, TrueWhen
    <2> HIDE DEF A, B, C
    <2>2. TrueList(A \o B)
        BY <2>1, TrueConcat
    <2> QED BY <2>1, <2>2, TrueConcat
<1>11. TrueList(tip)
    BY TrueTip
<1>12. TrueList(D)
    <2>1. TrueSnap(h, new)
        BY <1>6 DEF TrueSnap
    <2> HIDE DEF new
    <2> QED BY <2>1, TrueStore
<1>13. TrueList(<<>>)
    BY NoWrite DEF TrueList
<1> HIDE DEF rows, tip, D
<1>14. TrueList(<<>> \o D)
    <2> DEFINE nil == <<>>
    <2>1. TrueList(nil)
        BY <1>13
    <2> HIDE DEF nil
    <2>2. TrueList(nil \o D)
        BY <1>12, <2>1, TrueConcat
    <2> QED BY <2>2 DEF nil
<1> DEFINE E == <<>> \o D
<1> HIDE DEF E
<1>15. TrueList(tip \o E)
    BY <1>11, <1>14, TrueConcat DEF E
<1>16. TrueList(rows \o (tip \o E))
    BY <1>10, <1>15, TrueConcat
<1> QED
    BY <1>9, <1>16 DEF E

-----------------------------------------------------------------------------
(* What Cache::new leaves of a new disk or of an old version's.             *)

Touched(W, t, k) == \E i \in 1 .. Len(W) : Hits(W[i], t, k)

\* Every write to the row removes it.
Removed(W, t, k) == IsList(W) /\ \A i \in 1 .. Len(W) : Hits(W[i], t, k) => W[i].val = None

LEMMA TouchedConcat ==
    ASSUME NEW A, NEW B, IsList(A), IsList(B), NEW t, NEW k
    PROVE  /\ IsList(A \o B)
           /\ Touched(A \o B, t, k) <=> Touched(A, t, k) \/ Touched(B, t, k)
           /\ Removed(A, t, k) /\ Removed(B, t, k) => Removed(A \o B, t, k)
<1> DEFINE C == A \o B
<1>1. /\ IsList(C) /\ Len(C) = Len(A) + Len(B)
      /\ \A i \in 1 .. Len(A) : C[i] = A[i]
      /\ \A i \in 1 .. Len(B) : C[Len(A) + i] = B[i]
      /\ Len(A) \in Nat /\ Len(B) \in Nat
    BY ConcatList, ListDomain
<1> HIDE DEF C
<1>2. \A i \in 1 .. Len(C) : \/ i \in 1 .. Len(A) /\ C[i] = A[i]
                             \/ i - Len(A) \in 1 .. Len(B) /\ C[i] = B[i - Len(A)]
    <2> TAKE i \in 1 .. Len(C)
    <2>1. CASE i \in 1 .. Len(A)
        BY <1>1, <2>1
    <2>2. CASE i \notin 1 .. Len(A)
        <3>1. i - Len(A) \in 1 .. Len(B) /\ Len(A) + (i - Len(A)) = i
            BY <1>1, <2>2
        <3>2. C[Len(A) + (i - Len(A))] = B[i - Len(A)]
            BY <1>1, <3>1
        <3> QED BY <3>1, <3>2
    <2> QED BY <2>1, <2>2
<1>3. ASSUME NEW i \in 1 .. Len(A) PROVE i \in 1 .. Len(C) /\ C[i] = A[i]
    BY <1>1
<1>4. ASSUME NEW i \in 1 .. Len(B) PROVE Len(A) + i \in 1 .. Len(C) /\ C[Len(A) + i] = B[i]
    BY <1>1
<1>5. Touched(C, t, k) => Touched(A, t, k) \/ Touched(B, t, k)
    BY <1>2 DEF Touched
<1>6. Touched(A, t, k) => Touched(C, t, k)
    BY <1>3 DEF Touched
<1>7. Touched(B, t, k) => Touched(C, t, k)
    BY <1>4 DEF Touched
<1>8. Removed(A, t, k) /\ Removed(B, t, k) => Removed(C, t, k)
    BY <1>1, <1>2, Zenon DEF Removed
<1> QED
    BY <1>1, <1>5, <1>6, <1>7, <1>8 DEF C

LEMMA RemovedRow ==
    ASSUME NEW d, IsDisk(d), NEW W, NEW t \in Trees7, NEW k \in Keys7(t), Removed(W, t, k),
           d[t][k] # None => Touched(W, t, k)
    PROVE  Play(d, W)[t][k] = None
<1> DEFINE v == None
<1>1. IsList(W) /\ \A j \in 1 .. Len(W) : Hits(W[j], t, k) => W[j].val = v
    BY DEF Removed
<1> HIDE DEF v
<1>2. IsList(W)
    BY <1>1
<1>3. \A j \in 1 .. Len(W) : Hits(W[j], t, k) => W[j].val = v
    BY <1>1
<1>4. Play(d, W)[t][k] = IF \E j \in 1 .. Len(W) : Hits(W[j], t, k) THEN v ELSE d[t][k]
    BY <1>2, <1>3, PlaySame, SMTT(30)
<1> QED
    BY <1>4 DEF Touched, v

LEMMA EraseTouches ==
    ASSUME NEW u, NEW S, S \subseteq Heights
    PROVE  /\ IsList(EraseRows(<<u>>, S))
           /\ \A h \in S : Touched(EraseRows(<<u>>, S), u, h)
           /\ \A t, k : Removed(EraseRows(<<u>>, S), t, k)
<1> DEFINE W == EraseRows(<<u>>, S)
<1>1. /\ IsList(W) /\ Len(W) = Cardinality(S)
      /\ \A i \in 1 .. Cardinality(S) : W[i] = [tree |-> u, key |-> Ascending(S)[i], val |-> None]
    BY EraseOneTree
<1>2. \A h \in S : \E i \in 1 .. Cardinality(S) : Ascending(S)[i] = h
    BY AscendingLists
<1> HIDE DEF W
<1>3. \A h \in S : Touched(W, u, h)
    BY <1>1, <1>2 DEF Touched, Hits
<1>4. \A t, k : Removed(W, t, k)
    BY <1>1 DEF Removed
<1> QED
    BY <1>1, <1>3, <1>4 DEF W

LEMMA PutTouches ==
    ASSUME NEW u, NEW l, NEW v
    PROVE  /\ IsList(Put(u, l, v)) /\ Touched(Put(u, l, v), u, l)
           /\ \A t, k : (v = None \/ t # u \/ k # l) => Removed(Put(u, l, v), t, k)
<1> DEFINE w == [tree |-> u, key |-> l, val |-> v]
           W == <<w>>
<1>1. IsList(W) /\ Len(W) = 1 /\ W[1] = w
    BY OneWrite
<1> HIDE DEF W
<1>2. Touched(W, u, l)
    BY <1>1 DEF Touched, Hits
<1>3. \A t, k : (v = None \/ t # u \/ k # l) => Removed(W, t, k)
    BY <1>1 DEF Removed, Hits
<1> QED
    BY <1>1, <1>2, <1>3 DEF Put, W

\* The rows of blocks, hashes, coins and snapshots, and the keys of the tip.
BlockRow(t, k) == \/ t \in {"blocks", "hashes", "coins", "snaps"} /\ k \in Heights
                  \/ t = "meta" /\ k \in {"tip_height", "tip_hash", "merkle_tree", "merkle_height"}

LEMMA MoveWithin ==
    ASSUME NEW d, NEW old \in SecretKeys, NEW new \in SecretKeys
    PROVE  Within(MoveSecret(d, old, new), {"meta", "pubkeys"}, SecretKeys)
<1> DEFINE T == {"meta", "pubkeys"}
           A == Put("meta", new, d.meta[old])
           B == Erase("meta", old)
           C == When(d.meta[new] = None /\ d.meta[old] # None, A)
           D == When(d.meta[old] # None, B)
<1>1. "meta" \in T
    OBVIOUS
<1> HIDE DEF T
<1>2. Within(A, T, SecretKeys) /\ Within(B, T, SecretKeys)
    BY <1>1, WithinPut
<1> HIDE DEF A, B
<1>3. Within(C, T, SecretKeys) /\ Within(D, T, SecretKeys)
    BY <1>2, WithinWhen
<1>4. MoveSecret(d, old, new) = C \o D
    BY DEF MoveSecret, A, B
<1> HIDE DEF C, D
<1>5. Within(C \o D, T, SecretKeys)
    BY <1>3, WithinConcat
<1> QED
    BY <1>4, <1>5 DEF T

LEMMA RetireRemoves ==
    ASSUME NEW d, NEW t, NEW k, BlockRow(t, k)
    PROVE  Removed(RetireWrites(d), t, k)
<1> DEFINE T == {"meta", "pubkeys"}
           A == MoveSecret(d, "attest_v2", "attest")
           B == MoveSecret(d, "pepper_v1", "pepper")
           P == Put("pubkeys", "current", d.pubkeys.old)
           Q == Erase("pubkeys", "old")
           C == When(d.pubkeys.current = None /\ d.pubkeys.old # None, P)
           D == When(d.pubkeys.old # None, Q)
           W == RetireWrites(d)
<1>1. Within(A, T, SecretKeys) /\ Within(B, T, SecretKeys)
    BY MoveWithin DEF SecretKeys
<1>2. W = A \o B \o C \o D
    BY DEF RetireWrites
<1>3. "pubkeys" \in T
    OBVIOUS
<1> HIDE DEF A, B, T, W
<1>4. Within(P, T, SecretKeys) /\ Within(Q, T, SecretKeys)
    BY <1>3, WithinPut
<1> HIDE DEF P, Q
<1>5. Within(C, T, SecretKeys) /\ Within(D, T, SecretKeys)
    BY <1>4, WithinWhen
<1> HIDE DEF C, D
<1>6. Within(A \o B, T, SecretKeys)
    BY <1>1, WithinConcat
<1>7. Within(A \o B \o C, T, SecretKeys)
    BY <1>5, <1>6, WithinConcat
<1>8. Within(W, T, SecretKeys)
    BY <1>2, <1>5, <1>7, WithinConcat
<1>9. t \notin T \/ (t = "meta" /\ k \notin SecretKeys)
    BY DEF BlockRow, T, SecretKeys
<1>10. IsList(W) /\ \A i \in 1 .. Len(W) : ~ Hits(W[i], t, k)
    BY <1>8, <1>9 DEF Within, Hits
<1> QED
    BY <1>10 DEF Removed, W

\* clear_derived_block_cache removes every row that is there.
LEMMA ClearRemoves ==
    ASSUME NEW d, NEW t, NEW k, BlockRow(t, k)
    PROVE  /\ Removed(ClearWrites(d), t, k)
           /\ d[t][k] # None => Touched(ClearWrites(d), t, k)
<1> DEFINE rb == RowsIn(d.blocks, Heights)
           rh == RowsIn(d.hashes, Heights)
           rc == RowsIn(d.coins, Heights)
           rs == RowsIn(d.snaps, {h \in Heights : h >= 0})
           A == EraseRows(<<"blocks">>, rb)
           B == EraseRows(<<"hashes">>, rh)
           C == EraseRows(<<"coins">>, rc)
           D == EraseRows(<<"snaps">>, rs)
           E == Put("meta", "tip_height", None)
           F == Put("meta", "tip_hash", None)
           G == Put("meta", "merkle_tree", None)
           H == Put("meta", "merkle_height", None)
           W == ClearWrites(d)
<1>1. W = A \o B \o C \o D \o E \o F \o G \o H
    BY DEF ClearWrites, RemoveSnapsFrom, Erase
<1>2. rb \subseteq Heights /\ rh \subseteq Heights /\ rc \subseteq Heights /\ rs \subseteq Heights
    BY DEF RowsIn
<1>3. /\ t = "blocks" /\ d[t][k] # None => k \in rb
      /\ t = "hashes" /\ d[t][k] # None => k \in rh
      /\ t = "coins" /\ d[t][k] # None => k \in rc
      /\ t = "snaps" /\ d[t][k] # None => k \in rs
    BY ForkTreeAssumption DEF BlockRow, RowsIn, Heights
<1> HIDE DEF rb, rh, rc, rs, W
<1>4. /\ IsList(A) /\ (\A h \in rb : Touched(A, "blocks", h)) /\ Removed(A, t, k)
      /\ IsList(B) /\ (\A h \in rh : Touched(B, "hashes", h)) /\ Removed(B, t, k)
      /\ IsList(C) /\ (\A h \in rc : Touched(C, "coins", h)) /\ Removed(C, t, k)
      /\ IsList(D) /\ (\A h \in rs : Touched(D, "snaps", h)) /\ Removed(D, t, k)
    BY <1>2, EraseTouches
<1>5. /\ IsList(E) /\ Touched(E, "meta", "tip_height") /\ Removed(E, t, k)
      /\ IsList(F) /\ Touched(F, "meta", "tip_hash") /\ Removed(F, t, k)
      /\ IsList(G) /\ Touched(G, "meta", "merkle_tree") /\ Removed(G, t, k)
      /\ IsList(H) /\ Touched(H, "meta", "merkle_height") /\ Removed(H, t, k)
    BY PutTouches
<1> HIDE DEF A, B, C, D, E, F, G, H
<1>6. /\ IsList(A \o B) /\ Removed(A \o B, t, k)
      /\ Touched(A \o B, t, k) <=> Touched(A, t, k) \/ Touched(B, t, k)
    BY <1>4, TouchedConcat
<1>7. /\ IsList(A \o B \o C) /\ Removed(A \o B \o C, t, k)
      /\ Touched(A \o B \o C, t, k) <=> Touched(A \o B, t, k) \/ Touched(C, t, k)
    BY <1>4, <1>6, TouchedConcat
<1>8. /\ IsList(A \o B \o C \o D) /\ Removed(A \o B \o C \o D, t, k)
      /\ Touched(A \o B \o C \o D, t, k) <=> Touched(A \o B \o C, t, k) \/ Touched(D, t, k)
    BY <1>4, <1>7, TouchedConcat
<1> DEFINE X == A \o B \o C \o D
<1>9. IsList(X) /\ Removed(X, t, k) /\ W = X \o E \o F \o G \o H
    BY <1>1, <1>8
<1>10. (t = "blocks" \/ t = "hashes" \/ t = "coins" \/ t = "snaps") /\ d[t][k] # None => Touched(X, t, k)
    BY <1>3, <1>4, <1>6, <1>7, <1>8
<1> HIDE DEF X
<1>11. /\ IsList(X \o E) /\ Removed(X \o E, t, k)
       /\ Touched(X \o E, t, k) <=> Touched(X, t, k) \/ Touched(E, t, k)
    BY <1>5, <1>9, TouchedConcat
<1>12. /\ IsList(X \o E \o F) /\ Removed(X \o E \o F, t, k)
       /\ Touched(X \o E \o F, t, k) <=> Touched(X \o E, t, k) \/ Touched(F, t, k)
    BY <1>5, <1>11, TouchedConcat
<1>13. /\ IsList(X \o E \o F \o G) /\ Removed(X \o E \o F \o G, t, k)
       /\ Touched(X \o E \o F \o G, t, k) <=> Touched(X \o E \o F, t, k) \/ Touched(G, t, k)
    BY <1>5, <1>12, TouchedConcat
<1>14. /\ Removed(W, t, k)
       /\ Touched(W, t, k) <=> Touched(X \o E \o F \o G, t, k) \/ Touched(H, t, k)
    BY <1>5, <1>9, <1>13, TouchedConcat
<1>15. t = "meta" => Touched(W, t, k)
    BY <1>5, <1>11, <1>12, <1>13, <1>14 DEF BlockRow
<1> QED
    BY <1>10, <1>11, <1>12, <1>13, <1>14, <1>15 DEF BlockRow, W

\* A new disk has no rows, and those of an old version are cleared.
Fresh(d) == Old(d) \/ \A t, k : BlockRow(t, k) => d[t][k] = None

LEMMA FormatRemoves ==
    ASSUME NEW d, IsDisk(d), Fresh(d), NEW t, NEW k, BlockRow(t, k)
    PROVE  /\ Removed(FormatWrites(d), t, k)
           /\ d[t][k] # None => Touched(FormatWrites(d), t, k)
<1> DEFINE stamp == Put("meta", "format", Format)
           W == FormatWrites(d)
           C == ClearWrites(d)
<1>1. Removed(stamp, t, k) /\ IsList(stamp)
    BY PutTouches DEF BlockRow
<1> HIDE DEF stamp
<1>2. CASE Old(d)
    <2>1. W = C \o stamp
        BY <1>2 DEF FormatWrites, Old, stamp
    <2>2. Removed(C, t, k) /\ (d[t][k] # None => Touched(C, t, k)) /\ IsList(C)
        BY ClearRemoves DEF Removed
    <2> HIDE DEF C, W
    <2>3. Removed(C \o stamp, t, k) /\ (Touched(C, t, k) => Touched(C \o stamp, t, k))
        BY <1>1, <2>2, TouchedConcat
    <2> QED BY <2>1, <2>2, <2>3 DEF W
<1>3. CASE ~ Old(d)
    <2>1. W = When(d.meta.format = None, stamp)
        BY <1>3 DEF FormatWrites, Old, stamp
    <2>2. Removed(<<>>, t, k)
        BY NoWrite DEF Removed
    <2>3. d[t][k] = None
        BY <1>3 DEF Fresh
    <2> HIDE DEF W
    <2>4. Removed(W, t, k)
        BY <1>1, <2>1, <2>2 DEF When
    <2> QED BY <2>3, <2>4 DEF W
<1> QED
    BY <1>2, <1>3

LEMMA StartEmpty ==
    ASSUME NEW d, IsDisk(d), Fresh(d)
    PROVE  /\ AsStore(Play(d, StartWrites(d))) = EmptyStore
           /\ \A k \in Heights : Play(d, StartWrites(d)).hashes[k] = None
<1> DEFINE R     == RetireWrites(d)
           F     == FormatWrites(d)
           early == R \o F
           e     == Play(d, early)
           tree  == TreeOnDisk(e)
           L     == Put("live", "tree", NoTree)
           f     == Play(e, L)
           W     == StartWrites(d)
<1>1. ASSUME NEW t, NEW k, BlockRow(t, k)
      PROVE  Removed(early, t, k) /\ (d[t][k] # None => Touched(early, t, k))
    <2>1. Removed(R, t, k) /\ Removed(F, t, k) /\ (d[t][k] # None => Touched(F, t, k))
        BY <1>1, RetireRemoves, FormatRemoves
    <2> HIDE DEF R, F
    <2>2. IsList(R) /\ IsList(F)
        BY <2>1 DEF Removed
    <2> QED BY <2>1, <2>2, TouchedConcat
<1>2. BlockRow("meta", "tip_height") /\ IsDisk(e)
    BY PlayDisk DEF BlockRow
<1> DEFINE V == early
<1> HIDE DEF V
<1>3. IsList(V)
    BY <1>1, <1>2 DEF Removed, V
<1>4. ASSUME NEW t, NEW k, BlockRow(t, k)
      PROVE  t \in Trees7 /\ k \in Keys7(t) /\ Play(d, V)[t][k] = None
    <2>1. t \in Trees7 /\ k \in Keys7(t)
        BY <1>4, TreesAre DEF BlockRow, MetaKeys
    <2>2. Removed(V, t, k) /\ (d[t][k] # None => Touched(V, t, k))
        BY <1>1, <1>4 DEF V
    <2> QED BY <2>1, <2>2, RemovedRow
<1>5. e = Play(d, V)
    BY DEF V
<1> HIDE DEF e
<1>6. /\ \A k \in Heights : /\ e["blocks"][k] = None /\ e["hashes"][k] = None
                            /\ e["coins"][k] = None /\ e["snaps"][k] = None
      /\ e["meta"]["tip_height"] = None /\ e["meta"]["merkle_height"] = None
    BY <1>4, <1>5 DEF BlockRow
<1>7. tree = NoTree
    BY <1>6 DEF TreeOnDisk
<1>8. W = V \o <<>> \o L
    <2>1. W = early \o When(FALSE, Put("snaps", tree.height, tree.leaves)) \o Put("live", "tree", tree)
        BY <1>7 DEF StartWrites, e
    <2> HIDE DEF tree
    <2> QED BY <1>7, <2>1 DEF When, V
<1>9. /\ IsList(L) /\ IsDisk(f)
      /\ \A u \in Trees7 : \A l \in Keys7(u) :
            f[u][l] = IF u = "live" /\ l = "tree" THEN NoTree ELSE e[u][l]
    BY <1>2, PutCells
<1>10. Play(d, W) = f
    <2> DEFINE nil == <<>>
    <2>1. IsList(nil) /\ Play(e, nil) = e
        BY <1>2, NoWrite, PlayEmpty
    <2>2. W = V \o nil \o L
        BY <1>8
    <2> HIDE DEF nil, W, L
    <2>3. IsList(V \o nil) /\ Play(d, V \o nil) = e
        BY <1>3, <1>5, <2>1, ConcatList, PlayConcat
    <2> QED BY <1>9, <2>2, <2>3, PlayConcat
<1> HIDE DEF f, W
<1>11. /\ \A k \in Heights : /\ f["blocks"][k] = None /\ f["hashes"][k] = None
                             /\ f["coins"][k] = None /\ f["snaps"][k] = None
       /\ f["meta"]["tip_height"] = None /\ f["live"]["tree"] = NoTree
    BY <1>6, <1>9, TreesAre DEF CoreKeys
<1>12. /\ f.blocks = [k \in Heights |-> None] /\ f.coins = [k \in Heights |-> None]
       /\ f.snaps = [k \in Heights |-> None]
    BY <1>9, <1>11, RowFunctions
<1>13. Tip(f) = NoTip /\ f.live.tree = NoTree
    BY <1>11 DEF Tip
<1>14. AsStore(f) = EmptyStore
    BY <1>12, <1>13 DEF AsStore, EmptyStore
<1> QED
    BY <1>10, <1>11, <1>14 DEF W

LEMMA FirstFresh == Fresh(EmptyDisk) /\ Fresh(OldDisk)
<1>1. Fresh(OldDisk)
    BY OldDiskAssumption DEF Fresh, Old
<1>2. /\ EmptyDisk.blocks = NoRows /\ EmptyDisk.hashes = NoRows /\ EmptyDisk.coins = NoRows /\ EmptyDisk.snaps = NoRows
      /\ EmptyDisk.meta = [k \in MetaKeys |-> None]
    BY DEF EmptyDisk
<1>3. ASSUME NEW t, NEW k, BlockRow(t, k) PROVE EmptyDisk[t][k] = None
    BY <1>2, <1>3 DEF BlockRow, NoRows, MetaKeys
<1> QED
    BY <1>1, <1>3 DEF Fresh

-----------------------------------------------------------------------------
(* The cache beside one request for a tree.                                 *)

treeVars == <<cacheVars, answer>>

\* A crash ends the request.
TreeReadsNext ==
    \/ (StartInsert \/ StartRewind \/ StartPrune \/ Write \/ Serve) /\ UNCHANGED answer
    \/ Crash /\ answer' = NoAnswer
    \/ TreeNext

TreeReadsSpec == CacheInit /\ answer = NoAnswer /\ [][TreeReadsNext]_treeVars

\* The running operation leads to the cache of one chain, and neither what is
\* there nor what it still writes is a snapshot of anything else.
SnapInv ==
    /\ crashes \in Nat
    /\ Undamaged => Exact(AsStore(Play(db, todo)))
    /\ (Undamaged /\ mode = "serving") => TrueSnaps(db) /\ TrueList(todo)

\* What a request has read stays true.
AnswerInv ==
    /\ mode = "starting" => answer = NoAnswer
    /\ answer = [step |-> answer.step, from |-> answer.from, height |-> answer.height,
                 leaves |-> answer.leaves, hash |-> answer.hash]
    /\ answer.step = "row" => answer.from = "row" /\ answer.height \in Heights
    /\ answer.step \in {"treeHeight", "tree"} => answer.from = "tip"
    /\ (answer.step \in {"hash", "done"} /\ answer.from = "row" /\ Undamaged) =>
           answer.leaves # None /\ TrueSnap(answer.height, answer.leaves)

LEMMA EmptyExact == Exact(EmptyStore)
BY ForkTreeAssumption DEF Exact, EmptyStore, Stores, Rows, NoTip, NoTree

\* The block the poller inserts into the cache of one chain continues it.
LEMMA NextExact ==
    ASSUME NEW d, Fine(d, "serving"), Exact(AsStore(d)), NEW b \in NextBlocks(d)
    PROVE  /\ b \in Hash
           /\ IF Tip(d) = NoTip THEN b = Genesis ELSE b # Genesis /\ Prev[b] = Tip(d).hash
<1> USE ForkTreeAssumption, LinkAssumption
<1> DEFINE st == AsStore(d)
           n  == Tip(d).height
<1>1. st.tip = Tip(d) /\ st.blocks = d.blocks /\ Exact(st) /\ b \in Hash
    BY StoreForm DEF NextBlocks
<1> HIDE DEF st
<1>2. CASE Tip(d) = NoTip
    BY <1>1, <1>2 DEF NextBlocks
<1>3. CASE Tip(d) # NoTip
    <2>1. /\ n \in Heights /\ n \in Nat /\ 0 \in 0 .. n /\ n \in 0 .. n
          /\ Line(d.blocks, n) /\ Tip(d).hash = d.blocks[n]
        BY <1>1, <1>3 DEF Exact, Stores, Tips, Heights
    <2>2. n = d.meta.tip_height
        BY <1>3 DEF Tip
    <2> HIDE DEF n
    <2>3. d.blocks[0] \in Hash /\ d.blocks[n] \in Hash /\ HeightOf[d.blocks[n]] = n
        BY <2>1 DEF Line
    <2>4. HeightOf[b] = n + 1 /\ d.hashes[HeightOf[b] - 1] \in {None, Prev[b]}
        BY <1>3, <2>3 DEF NextBlocks, n
    <2>5. b # Genesis /\ d.hashes[n] \in {None, Prev[b]} /\ Prev[b] \in Hash /\ HeightOf[Prev[b]] = n
        <3>1. HeightOf[b] # 0 /\ HeightOf[b] - 1 = n
            BY <2>1, <2>4
        <3>2. b # Genesis
            BY <1>1, <3>1
        <3>3. Prev[b] \in Hash /\ HeightOf[b] = HeightOf[Prev[b]] + 1 /\ HeightOf[Prev[b]] \in Nat
            BY <1>1, <3>2 DEF Heights
        <3> QED BY <2>1, <2>4, <3>1, <3>2, <3>3
    <2>6. CASE n = 0
        <3>1. HeightOf[d.blocks[n]] = 0 /\ HeightOf[Prev[b]] = 0
            BY <2>3, <2>5, <2>6
        <3>2. d.blocks[n] = Genesis /\ Prev[b] = Genesis
            BY <2>3, <2>5, <3>1
        <3> QED BY <1>1, <1>3, <2>1, <2>5, <3>2
    <2>7. CASE n # 0
        <3>1. ~ Old(d) /\ DiskOK(d)
            BY DEF Fine
        <3>2. n \in Heights \ {0} /\ n <= d.meta.tip_height
            BY <2>1, <2>2, <2>7
        <3>3. d.hashes[n] = d.blocks[n]
            BY <1>3, <2>3, <3>1, <3>2 DEF DiskOK, BoundedByTip
        <3>4. Prev[b] = d.blocks[n]
            BY <2>3, <2>5, <3>3
        <3> QED BY <1>1, <1>3, <2>1, <2>5, <3>4
    <2> QED BY <2>6, <2>7
<1> QED
    BY <1>1, <1>2, <1>3

\* One write less to make, and the same end.
LEMMA PlayTail ==
    ASSUME NEW d, IsDisk(d), NEW W, IsList(W), W # <<>>
    PROVE  Play(Apply(d, Head(W)), Tail(W)) = Play(d, W)
<1> DEFINE A == <<Head(W)>>
           B == Tail(W)
<1>1. IsList(A) /\ IsList(B) /\ W = A \o B
    BY SplitHead, OneWrite
<1>2. Play(d, A) = Apply(d, Head(W))
    BY PlayOne
<1> HIDE DEF A, B
<1>3. Play(d, A \o B) = Play(Play(d, A), B)
    BY <1>1, PlayConcat
<1> QED
    BY <1>1, <1>2, <1>3 DEF B

LEMMA TrueTail ==
    ASSUME NEW W, TrueList(W), W # <<>>
    PROVE  TrueWrite(Head(W)) /\ TrueList(Tail(W))
<1>1. IsList(W) /\ \A i \in 1 .. Len(W) : TrueWrite(W[i])
    BY DEF TrueList
<1>2. /\ IsList(Tail(W)) /\ Len(Tail(W)) = Len(W) - 1 /\ Len(W) \in Nat \ {0} /\ Head(W) = W[1]
      /\ \A i \in 1 .. Len(Tail(W)) : Tail(W)[i] = W[i + 1]
    BY <1>1, SplitHead
<1>3. TrueWrite(W[1])
    BY <1>1, <1>2
<1>4. ASSUME NEW i \in 1 .. Len(Tail(W)) PROVE TrueWrite(Tail(W)[i])
    <2>1. i + 1 \in 1 .. Len(W)
        BY <1>2
    <2> QED BY <1>1, <1>2, <2>1
<1> QED
    BY <1>2, <1>3, <1>4 DEF TrueList

LEMMA SnapStarts ==
    ASSUME CacheInit
    PROVE  SnapInv
<1>1. db \in {EmptyDisk, OldDisk} /\ todo = StartWrites(db) /\ mode = "starting" /\ crashes = 0
    BY DEF CacheInit
<1>2. IsDisk(db) /\ Fresh(db)
    BY <1>1, FirstFresh, FirstDisks DEF DiskOK
<1>3. AsStore(Play(db, StartWrites(db))) = EmptyStore
    BY <1>2, StartEmpty
<1> QED
    BY <1>1, <1>3, EmptyExact DEF SnapInv

LEMMA SnapStep ==
    ASSUME CacheInv, TreeInv, SnapInv, [CacheNext]_cacheVars
    PROVE  SnapInv' /\ (Undamaged' => Undamaged)
<1>0. /\ IsDisk(db) /\ Fine(db, mode) /\ TreeOK(db) /\ IsList(todo)
      /\ Tip(db) # NoTip => Tip(db).height \in Heights
    <2>1. IsDisk(db) /\ IsList(todo) /\ (Tip(db) # NoTip => Tip(db).height \in Heights)
        BY DEF CacheInv, DiskOK, AllFine, Tip, NoTip
    <2>2. 0 \in 0 .. Len(todo) /\ Prefix(todo, 0) = <<>>
        BY PrefixNone DEF CacheInv, AllFine
    <2>3. Fine(Play(db, Prefix(todo, 0)), mode)
        BY <2>2 DEF CacheInv, AllFine
    <2> QED BY <2>1, <2>2, <2>3, PlayEmpty DEF TreeInv, TypedTree
<1>00. ASSUME todo = <<>>, Undamaged PROVE Exact(AsStore(db)) /\ TrueSnaps(db)
    <2>1. Play(db, todo) = db
        BY <1>0, <1>00, PlayEmpty
    <2>2. Exact(AsStore(db))
        BY <1>00, <2>1 DEF SnapInv
    <2> QED BY <2>2, ExactSnaps
<1>1. CASE StartInsert
    <2>1. PICK b \in NextBlocks(db) : todo' = InsertWrites(db, b)
        BY <1>1 DEF StartInsert
    <2>2. /\ mode = "serving" /\ todo = <<>> /\ db' = db /\ mode' = mode /\ crashes' = crashes
          /\ pruned' = pruned
        BY <1>1 DEF StartInsert, Idle
    <2> DEFINE W == InsertWrites(db, b)
    <2>3. ASSUME Undamaged PROVE Exact(AsStore(Play(db, W))) /\ TrueList(W)
        <3>1. Exact(AsStore(db)) /\ Fine(db, "serving")
            BY <1>0, <1>00, <2>2, <2>3
        <3>2. /\ b \in Hash
              /\ IF Tip(db) = NoTip THEN b = Genesis ELSE b # Genesis /\ Prev[b] = Tip(db).hash
            BY <3>1, NextExact
        <3>3. TrueList(W)
            BY <1>0, <3>1, <3>2, TrueInsert
        <3>4. AsStore(Play(db, W)) = InsertBlock(AsStore(db), b)
            BY <1>0, <3>2, InsertPlay
        <3> DEFINE st == AsStore(db)
        <3>5. st.tip = Tip(db) /\ Exact(st)
            BY <3>1, StoreForm
        <3> HIDE DEF st
        <3>6. Exact(InsertBlock(st, b))
            BY <3>2, <3>5, InsertExact
        <3> QED BY <3>3, <3>4, <3>6 DEF st
    <2> HIDE DEF W
    <2>4. Undamaged' <=> Undamaged
        BY <2>2 DEF Undamaged
    <2>5. todo' = W
        BY <2>1 DEF W
    <2> QED BY <1>00, <2>2, <2>3, <2>4, <2>5 DEF SnapInv
<1>2. CASE StartRewind
    <2>1. PICK h \in 0 .. Tip(db).height : todo' = RewindWrites(db, h)
        BY <1>2 DEF StartRewind
    <2>2. /\ mode = "serving" /\ todo = <<>> /\ db' = db /\ mode' = mode /\ crashes' = crashes
          /\ pruned' = pruned /\ Tip(db) # NoTip
        BY <1>2 DEF StartRewind, Idle
    <2> DEFINE W == RewindWrites(db, h)
    <2>3. h \in Heights /\ h <= Tip(db).height
        <3>1. Tip(db).height \in Heights
            BY <1>0, <2>2
        <3> QED BY <3>1, ForkTreeAssumption DEF Heights
    <2>4. ASSUME Undamaged PROVE Exact(AsStore(Play(db, W))) /\ TrueList(W)
        <3>1. AsStore(Play(db, W)) = Rewind(AsStore(db), h)
            BY <1>0, <2>3, RewindPlay
        <3> DEFINE st == AsStore(db)
        <3>2. st.tip = Tip(db) /\ Exact(st)
            BY <1>00, <2>2, <2>4, StoreForm
        <3> HIDE DEF st
        <3>3. Exact(Rewind(st, h))
            BY <2>2, <2>3, <3>2, RewindExact
        <3>4. Exact(AsStore(Play(db, W)))
            BY <3>1, <3>3 DEF st
        <3>5. TrueSnaps(Play(db, W))
            <4> HIDE DEF W
            <4> QED BY <3>4, ExactSnaps
        <3> QED BY <1>0, <2>3, <3>4, <3>5, TrueRewind
    <2> HIDE DEF W
    <2>5. Undamaged' <=> Undamaged
        BY <2>2 DEF Undamaged
    <2>6. todo' = W
        BY <2>1 DEF W
    <2> QED BY <1>00, <2>2, <2>4, <2>5, <2>6 DEF SnapInv
<1>3. CASE StartPrune
    BY <1>3 DEF StartPrune, SnapInv, Undamaged
<1>4. CASE Write
    <2>1. /\ todo # <<>> /\ db' = Apply(db, Head(todo)) /\ todo' = Tail(todo) /\ mode' = mode
          /\ crashes' = crashes /\ pruned' = pruned
        BY <1>4 DEF Write
    <2>2. Play(db', todo') = Play(db, todo)
        BY <1>0, <2>1, PlayTail
    <2>3. Undamaged' <=> Undamaged
        BY <2>1 DEF Undamaged
    <2>4. ASSUME Undamaged, mode = "serving"
          PROVE  TrueSnaps(Apply(db, Head(todo))) /\ TrueList(Tail(todo))
        <3>1. TrueSnaps(db) /\ TrueList(todo)
            BY <2>4 DEF SnapInv
        <3>2. TrueWrite(Head(todo)) /\ TrueList(Tail(todo))
            BY <2>1, <3>1, TrueTail
        <3> QED BY <1>0, <3>1, <3>2, TrueApply
    <2> QED BY <2>1, <2>2, <2>3, <2>4 DEF SnapInv
<1>5. CASE Serve
    <2>1. /\ todo = <<>> /\ db' = db /\ todo' = todo /\ crashes' = crashes /\ pruned' = pruned
        BY <1>5 DEF Serve
    <2>2. Undamaged' <=> Undamaged
        BY <2>1 DEF Undamaged
    <2>3. TrueList(<<>>)
        BY NoWrite DEF TrueList
    <2>4. TrueList(todo)
        BY <2>1, <2>3
    <2> QED BY <1>00, <2>1, <2>2, <2>4 DEF SnapInv
<1>6. CASE Crash
    <2>1. crashes' = crashes + 1 /\ crashes \in Nat
        BY <1>6 DEF Crash, SnapInv
    <2>2. crashes' \in Nat /\ ~ Undamaged'
        BY <2>1 DEF Undamaged
    <2> QED BY <2>2 DEF SnapInv
<1>7. CASE UNCHANGED cacheVars
    BY <1>7 DEF cacheVars, SnapInv, Undamaged
<1> QED
    BY <1>1, <1>2, <1>3, <1>4, <1>5, <1>6, <1>7 DEF CacheNext

\* One step of the request, on a cache with true snapshots.
LEMMA TreeReadStep ==
    ASSUME AnswerInv, CacheInv, SnapInv, TreeNext
    PROVE  AnswerInv'
<1> USE DEF AnswerInv
<1>a. UNCHANGED cacheVars
    BY DEF TreeNext, AskTree, AskCheckpoint, ReadTreeHeight, ReadTree, ReadSnapshot, ReadHash, Answer
<1>b. NoAnswer.step = "none"
    BY DEF NoAnswer
<1>0. UNCHANGED cacheVars /\ NoAnswer.step = "none"
    BY <1>a, <1>b
<1>1. mode' = mode /\ (Undamaged' <=> Undamaged) /\ (mode = "starting" \/ mode = "serving")
    BY <1>0 DEF cacheVars, Undamaged, CacheInv
<1>2. CASE AskTree
    <2>1. PICK h \in Heights :
              LET tip == IF Tip(db) = NoTip THEN 0 ELSE Tip(db).height
              IN  answer' = [NoAnswer EXCEPT !.height = h,
                                 !.step = IF h = tip THEN "treeHeight" ELSE "row",
                                 !.from = IF h = tip THEN "tip" ELSE "row"]
        BY <1>2 DEF AskTree
    <2>2. mode = "serving"
        BY <1>2 DEF AskTree
    <2>3. PICK s \in {"treeHeight", "row"} :
              answer' = [step |-> s, from |-> IF s = "row" THEN "row" ELSE "tip", height |-> h,
                         leaves |-> None, hash |-> None]
        BY <2>1 DEF NoAnswer
    <2> QED BY <1>1, <2>2, <2>3
<1>3. CASE AskCheckpoint
    <2>1. PICK upto \in Heights :
              answer' = IF SnapsUpTo(db, upto) = {} THEN NoAnswer
                        ELSE [step   |-> "hash", from |-> "row",
                              height |-> GreatestIn(SnapsUpTo(db, upto)),
                              leaves |-> db.snaps[GreatestIn(SnapsUpTo(db, upto))],
                              hash   |-> None]
        <3>1. PICK preferred \in Heights :
                  LET upto == IF preferred = 0 THEN MaxHeight ELSE preferred
                  IN  answer' = IF SnapsUpTo(db, upto) = {} THEN NoAnswer
                                ELSE [step   |-> "hash", from |-> "row",
                                      height |-> GreatestIn(SnapsUpTo(db, upto)),
                                      leaves |-> db.snaps[GreatestIn(SnapsUpTo(db, upto))],
                                      hash   |-> None]
            BY <1>3 DEF AskCheckpoint
        <3>2. MaxHeight \in Heights
            BY ForkTreeAssumption DEF Heights
        <3> QED BY <3>1, <3>2
    <2>2. mode = "serving"
        BY <1>3 DEF AskCheckpoint
    <2>3. CASE SnapsUpTo(db, upto) = {}
        BY <1>1, <2>1, <2>2, <2>3 DEF NoAnswer
    <2>4. CASE SnapsUpTo(db, upto) # {}
        <3> DEFINE g == GreatestIn(SnapsUpTo(db, upto))
        <3>1. g \in Heights /\ db.snaps[g] # None
            <4>1. upto \in Nat /\ SnapsUpTo(db, upto) \subseteq 0 .. upto
                      /\ SnapsUpTo(db, upto) \subseteq Heights
                BY ForkTreeAssumption DEF SnapsUpTo, Heights
            <4>2. \E m \in SnapsUpTo(db, upto) : \A k \in SnapsUpTo(db, upto) : k <= m
                BY <2>4, <4>1, GreatestNat
            <4>3. g \in SnapsUpTo(db, upto)
                BY <4>2 DEF GreatestIn
            <4> QED BY <4>1, <4>3 DEF SnapsUpTo
        <3>2. answer' = [step |-> "hash", from |-> "row", height |-> g, leaves |-> db.snaps[g],
                         hash |-> None]
            BY <2>1, <2>4
        <3> HIDE DEF g
        <3>3. Undamaged => TrueSnap(g, db.snaps[g])
            BY <2>2, <3>1 DEF SnapInv, TrueSnaps
        <3> QED BY <1>1, <2>2, <3>1, <3>2, <3>3
    <2> QED BY <2>3, <2>4
<1>4. CASE ReadTreeHeight
    <2>1. answer.step = "treeHeight" /\ answer.from = "tip" /\ mode = "serving"
        BY <1>0, <1>1, <1>4 DEF ReadTreeHeight
    <2>2. \/ answer' = [answer EXCEPT !.step = "tree"]
          \/ answer' = [answer EXCEPT !.step = "done", !.from = "nothing", !.leaves = EmptyTree]
          \/ answer' = NoAnswer
        BY <1>4 DEF ReadTreeHeight
    <2>3. CASE answer' = [answer EXCEPT !.step = "tree"]
        <3>1. answer' = [step |-> "tree", from |-> "tip", height |-> answer.height,
                         leaves |-> answer.leaves, hash |-> answer.hash]
            BY <2>1, <2>3
        <3> QED BY <1>1, <2>1, <3>1
    <2>4. CASE answer' = [answer EXCEPT !.step = "done", !.from = "nothing", !.leaves = EmptyTree]
        <3>1. answer' = [step |-> "done", from |-> "nothing", height |-> answer.height,
                         leaves |-> EmptyTree, hash |-> answer.hash]
            BY <2>4
        <3> QED BY <1>1, <2>1, <3>1
    <2>5. CASE answer' = NoAnswer
        BY <1>1, <2>1, <2>5 DEF NoAnswer
    <2> QED BY <2>2, <2>3, <2>4, <2>5
<1>5. CASE ReadTree
    <2>1. answer.step = "tree" /\ answer.from = "tip" /\ mode = "serving"
        BY <1>0, <1>1, <1>5 DEF ReadTree
    <2>2. \/ answer' = [answer EXCEPT !.step = "hash", !.leaves = db.meta.merkle_tree]
          \/ answer' = [answer EXCEPT !.step = "done", !.from = "nothing", !.leaves = EmptyTree]
          \/ answer' = NoAnswer
        BY <1>5 DEF ReadTree
    <2>3. CASE answer' = [answer EXCEPT !.step = "hash", !.leaves = db.meta.merkle_tree]
        <3>1. answer' = [step |-> "hash", from |-> "tip", height |-> answer.height,
                         leaves |-> db.meta.merkle_tree, hash |-> answer.hash]
            BY <2>1, <2>3
        <3> QED BY <1>1, <2>1, <3>1
    <2>4. CASE answer' = [answer EXCEPT !.step = "done", !.from = "nothing", !.leaves = EmptyTree]
        <3>1. answer' = [step |-> "done", from |-> "nothing", height |-> answer.height,
                         leaves |-> EmptyTree, hash |-> answer.hash]
            BY <2>4
        <3> QED BY <1>1, <2>1, <3>1
    <2>5. CASE answer' = NoAnswer
        BY <1>1, <2>1, <2>5 DEF NoAnswer
    <2> QED BY <2>2, <2>3, <2>4, <2>5
<1>6. CASE ReadSnapshot
    <2>1. answer.step = "row" /\ answer.from = "row" /\ mode = "serving" /\ answer.height \in Heights
        BY <1>0, <1>1, <1>6 DEF ReadSnapshot
    <2>2. \/ db.snaps[answer.height] # None
                /\ answer' = [answer EXCEPT !.step = "hash", !.leaves = db.snaps[answer.height]]
          \/ answer' = NoAnswer
        BY <1>6 DEF ReadSnapshot
    <2>3. CASE answer' = NoAnswer
        BY <1>1, <2>1, <2>3 DEF NoAnswer
    <2>4. CASE /\ db.snaps[answer.height] # None
               /\ answer' = [answer EXCEPT !.step = "hash", !.leaves = db.snaps[answer.height]]
        <3>1. answer' = [step |-> "hash", from |-> "row", height |-> answer.height,
                         leaves |-> db.snaps[answer.height], hash |-> answer.hash]
            BY <2>1, <2>4
        <3>2. Undamaged => TrueSnap(answer.height, db.snaps[answer.height])
            BY <2>1 DEF SnapInv, TrueSnaps
        <3> QED BY <1>1, <2>1, <2>4, <3>1, <3>2
    <2> QED BY <2>2, <2>3, <2>4
<1>7. CASE ReadHash
    <2>1. answer.step = "hash" /\ mode = "serving"
        BY <1>0, <1>1, <1>7 DEF ReadHash
    <2>2. answer' = [answer EXCEPT !.step = "done", !.hash = db.hashes[answer.height]]
        BY <1>7 DEF ReadHash
    <2> QED BY <1>1, <2>1, <2>2
<1>8. CASE Answer
    BY <1>1, <1>8 DEF Answer, NoAnswer
<1> QED
    BY <1>2, <1>3, <1>4, <1>5, <1>6, <1>7, <1>8 DEF TreeNext

\* The cache changes under the request.
LEMMA TreeWriteStep ==
    ASSUME AnswerInv, Undamaged' => Undamaged,
           \/ (StartInsert \/ StartRewind \/ StartPrune \/ Write \/ Serve) /\ UNCHANGED answer
           \/ Crash /\ answer' = NoAnswer
    PROVE  AnswerInv'
<1> USE DEF AnswerInv
<1>1. CASE (StartInsert \/ StartRewind \/ StartPrune \/ Write \/ Serve) /\ UNCHANGED answer
    <2>1. mode' = "starting" => mode = "starting"
        BY <1>1 DEF StartInsert, StartRewind, StartPrune, Write, Serve, Idle
    <2> QED BY <1>1, <2>1
<1>2. CASE Crash /\ answer' = NoAnswer
    BY <1>2 DEF NoAnswer
<1> QED
    BY <1>1, <1>2

LEMMA TreeReadsStep ==
    ASSUME CacheInv, TreeInv, SnapInv, AnswerInv, [TreeReadsNext]_treeVars
    PROVE  CacheInv' /\ TreeInv' /\ SnapInv' /\ AnswerInv'
<1>1. [CacheNext]_cacheVars
    BY DEF TreeReadsNext, treeVars, CacheNext, TreeNext, AskTree, AskCheckpoint, ReadTreeHeight, ReadTree,
           ReadSnapshot, ReadHash, Answer
<1>2. CacheInv' /\ TreeInv' /\ SnapInv' /\ (Undamaged' => Undamaged)
    BY <1>1, CacheStep, TreeStep, SnapStep
<1>3. CASE TreeNext
    BY <1>2, <1>3, TreeReadStep
<1>4. CASE \/ (StartInsert \/ StartRewind \/ StartPrune \/ Write \/ Serve) /\ UNCHANGED answer
           \/ Crash /\ answer' = NoAnswer
    BY <1>2, <1>4, TreeWriteStep
<1>5. CASE UNCHANGED treeVars
    <2>1. AnswerInv'
        BY <1>5 DEF treeVars, cacheVars, AnswerInv, Undamaged
    <2> QED BY <1>2, <2>1
<1> QED
    BY <1>2, <1>3, <1>4, <1>5 DEF TreeReadsNext

\* GetCheckpointSnapshot and GetTreeState: whatever insertion, rewind or rebuild
\* runs between the reads of a request, and at whichever of its writes, the
\* snapshot handed out is the tree of a chain up to the height it is given for,
\* as long as no crash and no pruning has taken rows from under a tree.
THEOREM SnapshotsAreTrees == TreeReadsSpec => []CheckpointTrees
<1>1. CacheInit /\ answer = NoAnswer => CacheInv /\ TreeInv /\ SnapInv /\ AnswerInv
    <2>1. CacheInit => CacheInv /\ TreeInv /\ SnapInv
        BY CacheStarts, TreeStarts, SnapStarts
    <2>2. answer = NoAnswer => AnswerInv
        BY DEF AnswerInv, NoAnswer
    <2> QED BY <2>1, <2>2
<1>2. CacheInv /\ TreeInv /\ SnapInv /\ AnswerInv /\ [TreeReadsNext]_treeVars
          => (CacheInv /\ TreeInv /\ SnapInv /\ AnswerInv)'
    BY TreeReadsStep
<1>3. AnswerInv => CheckpointTrees
    BY DEF AnswerInv, CheckpointTrees, TrueSnap
<1> QED
    BY <1>1, <1>2, <1>3, PTL DEF TreeReadsSpec

-----------------------------------------------------------------------------
(* The streams of blocks and of their parts.                                *)

LEMMA RangeWanted ==
    ASSUME NEW start \in Heights, NEW end \in Heights, start <= end
    PROVE  /\ HeightsFrom(start, end) \in Seq(Heights)
           /\ Len(HeightsFrom(start, end)) = end - start + 1
           /\ \A i \in 1 .. end - start + 1 : HeightsFrom(start, end)[i] = start + i - 1
<1> DEFINE n == end - start + 1
           W == HeightsFrom(start, end)
<1>1. start \in Nat /\ end \in Nat /\ MaxHeight \in Nat /\ n \in Nat
    BY ForkTreeAssumption DEF Heights
<1>2. W = [i \in 1 .. n |-> start + i - 1]
    BY DEF HeightsFrom
<1>3. \A i \in 1 .. n : start + i - 1 \in Heights
    BY <1>1 DEF Heights
<1> HIDE DEF n
<1>4. W \in [1 .. n -> Heights]
    BY <1>2, <1>3
<1> HIDE DEF W
<1>5. W \in Seq(Heights) /\ Len(W) = n
    BY <1>1, <1>4
<1> QED
    BY <1>2, <1>5 DEF n, W

LEMMA SparseWanted ==
    ASSUME NEW S, S \subseteq Heights
    PROVE  Ascending(S) \in Seq(Heights) /\ Len(Ascending(S)) = Cardinality(S)
<1> DEFINE n == Cardinality(S)
           W == Ascending(S)
<1>1. n \in Nat /\ \A i \in 1 .. n : W[i] \in S
    <2>1. 0 \in Heights
        BY ForkTreeAssumption DEF Heights
    <2> QED BY <2>1, BelowType, AscendingLists
<1>2. DOMAIN W = 1 .. n /\ W = [i \in 1 .. n |-> W[i]]
    <2> DEFINE at(i) == CHOOSE h \in S : Cardinality({k \in S : k < h}) = i - 1
    <2>1. W = [i \in 1 .. n |-> at(i)]
        BY DEF Ascending
    <2> HIDE DEF at, W, n
    <2> QED BY <2>1
<1> HIDE DEF n, W
<1>3. W \in [1 .. n -> Heights]
    BY <1>1, <1>2
<1>4. W \in Seq(Heights) /\ Len(W) = n
    BY <1>1, <1>3
<1> QED
    BY <1>4 DEF n, W

\* Blocks that follow each other are a piece of the chain of the last one.
LEMMA ChainPiece ==
    ASSUME NEW rows \in Seq(Hash), NEW base \in Nat, NEW n \in 1 .. Len(rows),
           \A i \in 1 .. Len(rows) : HeightOf[rows[i]] = base + i - 1,
           \A i \in 2 .. Len(rows) : Prev[rows[i]] = rows[i - 1]
    PROVE  \A a : (a \in Ancestors[rows[n]] /\ HeightOf[a] >= base)
                      <=> \E j \in 1 .. n : rows[j] = a
<1> DEFINE P(i) == \A a : (a \in Ancestors[rows[i]] /\ HeightOf[a] >= base)
                              <=> \E j \in 1 .. i : rows[j] = a
           Bad  == {i \in 1 .. Len(rows) : ~ P(i)}
<1>0. \A i \in 1 .. Len(rows) : rows[i] \in Hash
    OBVIOUS
<1>1. SUFFICES ASSUME ~ P(n) PROVE FALSE
    OBVIOUS
<1>2. Bad \subseteq Nat /\ Bad # {}
    <2>1. n \in Bad
        BY <1>1
    <2>2. Bad \subseteq 1 .. Len(rows) /\ 1 .. Len(rows) \subseteq Nat
        OBVIOUS
    <2> HIDE DEF Bad
    <2> QED BY <2>1, <2>2
<1>3. PICK m \in Bad : \A i \in Bad : m <= i
    <2> HIDE DEF Bad
    <2> QED BY <1>2, LeastNat
<1>4. m \in 1 .. Len(rows) /\ m \in Nat /\ ~ P(m) /\ rows[m] \in Hash /\ HeightOf[rows[m]] = base + m - 1
    BY <1>0
<1>5. /\ rows[m] \in Ancestors[rows[m]]
      /\ \A a \in Ancestors[rows[m]] : a = rows[m] \/ HeightOf[a] < HeightOf[rows[m]]
      /\ \A a \in Ancestors[rows[m]] : a \in Hash /\ HeightOf[a] \in Nat
    <2>1. \A a \in Ancestors[rows[m]] : a \in Hash /\ HeightOf[a] \in Nat
        BY <1>4, ForkTreeAssumption, SMTT(30) DEF Heights
    <2> QED BY <2>1, <1>4, AncestorHeights
<1>6. CASE m = 1
    <2>1. HeightOf[rows[1]] = base
        BY <1>4, <1>6
    <2>2. 1 .. 1 = {1}
        OBVIOUS
    <2>3. \A a \in Ancestors[rows[1]] : HeightOf[a] >= base => a = rows[1]
        BY <1>5, <1>6, <2>1
    <2> QED BY <1>4, <1>5, <1>6, <2>1, <2>2, <2>3
<1>7. CASE m # 1
    <2>1. m - 1 \in 1 .. Len(rows) /\ m - 1 < m /\ m \in 2 .. Len(rows)
        BY <1>4, <1>7
    <2>2. P(m - 1)
        <3> SUFFICES ASSUME ~ P(m - 1) PROVE FALSE
            OBVIOUS
        <3>1. m - 1 \in Bad
            BY <2>1
        <3> HIDE DEF Bad
        <3> QED BY <1>3, <1>4, <2>1, <3>1
    <2>3. rows[m] # Genesis /\ HeightOf[rows[m]] >= base
        BY <1>4, <1>7, LinkAssumption
    <2>4. Ancestors[rows[m]] = {rows[m]} \cup Ancestors[rows[m - 1]]
        BY <1>4, <2>1, <2>3, LinkAssumption, SMTT(30)
    <2>5. 1 .. m = {m} \cup 1 .. (m - 1)
        BY <1>4, <1>7
    <2>6. P(m)
        BY <2>2, <2>3, <2>4, <2>5
    <2> QED BY <1>4, <2>6
<1> QED
    BY <1>6, <1>7

-----------------------------------------------------------------------------
(* What a stream has read at any moment.                                    *)

StreamReadsNext ==
    \/ (StartInsert \/ StartRewind \/ StartPrune \/ Write \/ Serve) /\ UNCHANGED stream
    \/ Crash /\ stream' = NoStream
    \/ StreamNext

streamVars == <<cacheVars, stream>>

StreamReadsSpec == CacheInit /\ stream = NoStream /\ [][StreamReadsNext]_streamVars

\* The heights a request resolves to.
Wanted(kind, want) ==
    IF kind = "sparse" THEN \E S \in SUBSET Heights : want = Ascending(S)
    ELSE \E start, end \in Heights : start <= end /\ want = HeightsFrom(start, end)

\* Rows read for a request: each has the height it was read for and, but for a
\* sparse list, continues the one before.
RowsFor(kind, want, rows) ==
    /\ rows \in Seq(Hash) /\ Len(rows) <= Len(want)
    /\ \A i \in 1 .. Len(rows) : HeightOf[rows[i]] = want[i]
    /\ kind # "sparse" => \A i \in 2 .. Len(rows) : Prev[rows[i]] = rows[i - 1]

\* A stream that was asked for.
StreamOK(s) ==
    /\ s = [state |-> s.state, kind |-> s.kind, want |-> s.want, rows |-> s.rows]
    /\ Wanted(s.kind, s.want) /\ RowsFor(s.kind, s.want, s.rows)
    /\ s.state = "done" => /\ Len(s.rows) = Len(s.want)
                           /\ s.kind = "sparse" => AdjacentPairs(s.rows)

\* A restart ends every stream, so rows are read only of a cache that serves.
StreamInv == stream # NoStream => mode = "serving" /\ StreamOK(stream)

LEMMA WantedHeights ==
    ASSUME NEW kind, NEW want, Wanted(kind, want)
    PROVE  want \in Seq(Heights) /\ Len(want) \in Nat
<1>1. CASE kind = "sparse"
    <2>1. PICK S \in SUBSET Heights : want = Ascending(S)
        BY <1>1 DEF Wanted
    <2> QED BY <2>1, SparseWanted
<1>2. CASE kind # "sparse"
    <2>1. PICK start \in Heights, end \in Heights : start <= end /\ want = HeightsFrom(start, end)
        BY <1>2 DEF Wanted
    <2> QED BY <2>1, RangeWanted
<1> QED
    BY <1>1, <1>2

\* A request starts with no row.
LEMMA NothingRead ==
    ASSUME NEW kind, NEW want, Wanted(kind, want)
    PROVE  StreamOK([state |-> "open", kind |-> kind, want |-> want, rows |-> <<>>])
<1>1. Len(want) \in Nat
    BY WantedHeights
<1>2. RowsFor(kind, want, <<>>)
    BY <1>1 DEF RowsFor
<1> QED
    BY <1>2 DEF StreamOK

\* Every range that a handler takes.
LEMMA RangesTaken ==
    ASSUME CacheInv, Tip(db) # NoTip, NEW start \in Heights, NEW end \in Heights
    PROVE  /\ BlockRange(Tip(db).height, start, end) # <<>>
                  => Wanted("blocks", BlockRange(Tip(db).height, start, end))
           /\ PartRange(Tip(db).height, start, end) # <<>>
                  => Wanted("parts", PartRange(Tip(db).height, start, end))
<1> DEFINE tip == Tip(db).height
<1>1. tip \in Heights
    <2>1. DiskOK(db)
        BY DEF CacheInv
    <2>2. tip = db.meta.tip_height /\ db.meta.tip_height # None
        BY DEF Tip
    <2> QED BY <2>1, <2>2 DEF DiskOK
<1> HIDE DEF tip
<1>2. Heights \subseteq Int
    BY ForkTreeAssumption DEF Heights
<1>3. ASSUME BlockRange(tip, start, end) # <<>>
      PROVE  Wanted("blocks", BlockRange(tip, start, end))
    <2> DEFINE last == IF end = 0 THEN tip ELSE Min({end, tip})
    <2>1. last \in Heights
        <3>1. \E m \in {end, tip} : \A k \in {end, tip} : m <= k
            BY <1>1, <1>2
        <3>2. Min({end, tip}) \in {end, tip}
            BY <3>1 DEF Min
        <3> HIDE DEF tip
        <3> QED BY <3>2, <1>1
    <2>2. BlockRange(tip, start, end) = IF start > last \/ last - start + 1 > MaxBlocks
                                        THEN <<>> ELSE HeightsFrom(start, last)
        BY DEF BlockRange
    <2> HIDE DEF last
    <2>3. start <= last /\ BlockRange(tip, start, end) = HeightsFrom(start, last)
        BY <1>2, <1>3, <2>1, <2>2
    <2> QED BY <2>1, <2>3 DEF Wanted
<1>4. ASSUME PartRange(tip, start, end) # <<>>
      PROVE  Wanted("parts", PartRange(tip, start, end))
    <2>1. ~ Rejected(start, end, tip) /\ PartRange(tip, start, end) = HeightsFrom(start, end)
        BY <1>4 DEF PartRange
    <2>2. start <= end
        BY <1>2, <2>1 DEF Rejected
    <2> QED BY <2>1, <2>2 DEF Wanted
<1> QED
    BY <1>3, <1>4 DEF tip

LEMMA OpenStep ==
    ASSUME CacheInv, StreamInv, OpenRange \/ OpenSparse
    PROVE  StreamInv'
<1>1. mode = "serving" /\ mode' = "serving"
    BY DEF OpenRange, OpenSparse, cacheVars
<1>2. CASE OpenRange
    <2>1. PICK start \in Heights, end \in Heights :
              \/ /\ BlockRange(Tip(db).height, start, end) # <<>>
                 /\ stream' = [NoStream EXCEPT !.state = "open", !.kind = "blocks",
                                   !.want = BlockRange(Tip(db).height, start, end)]
              \/ /\ PartRange(Tip(db).height, start, end) # <<>>
                 /\ stream' = [NoStream EXCEPT !.state = "open", !.kind = "parts",
                                   !.want = PartRange(Tip(db).height, start, end)]
        BY <1>2 DEF OpenRange
    <2>2. Tip(db) # NoTip
        BY <1>2 DEF OpenRange
    <2>3. PICK kind, want : /\ Wanted(kind, want)
                            /\ stream' = [NoStream EXCEPT !.state = "open", !.kind = kind, !.want = want]
        BY <2>1, <2>2, RangesTaken
    <2>4. stream' = [state |-> "open", kind |-> kind, want |-> want, rows |-> <<>>]
        BY <2>3 DEF NoStream
    <2>5. StreamOK([state |-> "open", kind |-> kind, want |-> want, rows |-> <<>>])
        BY <2>3, NothingRead
    <2> QED BY <1>1, <2>4, <2>5 DEF StreamInv
<1>3. CASE OpenSparse
    <2>1. PICK S \in SUBSET Heights :
              stream' = [NoStream EXCEPT !.state = "open", !.kind = "sparse", !.want = Ascending(S)]
        BY <1>3 DEF OpenSparse
    <2> DEFINE want == Ascending(S)
    <2>2. Wanted("sparse", want)
        BY DEF Wanted
    <2>3. stream' = [NoStream EXCEPT !.state = "open", !.kind = "sparse", !.want = want]
        BY <2>1
    <2> HIDE DEF want
    <2>4. stream' = [state |-> "open", kind |-> "sparse", want |-> want, rows |-> <<>>]
        BY <2>3 DEF NoStream
    <2>5. StreamOK([state |-> "open", kind |-> "sparse", want |-> want, rows |-> <<>>])
        BY <2>2, NothingRead
    <2> QED BY <1>1, <2>4, <2>5 DEF StreamInv
<1> QED
    BY <1>2, <1>3

\* The row that is read is a block of the height asked for, whatever the poller
\* is doing.
LEMMA RowStep ==
    ASSUME CacheInv, StreamInv, ReadRow
    PROVE  StreamInv'
<1> DEFINE want == stream.want
           rows == stream.rows
           n    == Len(stream.rows)
           b    == db.blocks[stream.want[Len(stream.rows) + 1]]
<1>1. /\ stream # NoStream /\ mode = "serving" /\ mode' = "serving" /\ stream.state = "open"
      /\ n < Len(want) /\ StreamOK(stream)
    BY DEF ReadRow, StreamInv, NoStream, cacheVars
<1>2. /\ stream = [state |-> "open", kind |-> stream.kind, want |-> want, rows |-> rows]
      /\ Wanted(stream.kind, want) /\ RowsFor(stream.kind, want, rows)
    BY <1>1 DEF StreamOK
<1>3. /\ want \in Seq(Heights) /\ Len(want) \in Nat /\ n \in Nat /\ rows \in Seq(Hash)
      /\ n + 1 \in 1 .. Len(want) /\ want[n + 1] \in Heights
    BY <1>1, <1>2, WantedHeights DEF RowsFor
<1>4. stream' = IF Continues(rows, b) THEN [stream EXCEPT !.rows = Append(@, b)]
                                      ELSE [stream EXCEPT !.state = "aborted"]
    BY DEF ReadRow
<1>5. CASE ~ Continues(rows, b)
    <2>1. stream' = [state |-> "aborted", kind |-> stream.kind, want |-> want, rows |-> rows]
        BY <1>2, <1>4, <1>5
    <2>2. StreamOK([state |-> "aborted", kind |-> stream.kind, want |-> want, rows |-> rows])
        BY <1>2 DEF StreamOK
    <2> QED BY <1>1, <2>1, <2>2 DEF StreamInv
<1>6. CASE Continues(rows, b)
    <2> DEFINE more == Append(rows, b)
    <2>1. b \in Hash /\ HeightOf[b] = want[n + 1]
        <3>1. b # None
            BY <1>6 DEF Continues
        <3>2. b # OldRow
            <4>1. NoOldRows
                BY FineServes
            <4> QED BY <1>1, <1>3, <4>1 DEF NoOldRows
        <3> QED BY <1>3, <3>1, <3>2 DEF CacheInv, DiskOK
    <2>2. stream.kind # "sparse" /\ n # 0 => Prev[b] = rows[n]
        <3>1. n # 0 => rows # <<>> /\ Last(rows) = rows[n]
            BY <1>3 DEF Last
        <3> QED BY <3>1, <1>6 DEF Continues, CheckSuccessor
    <2> HIDE DEF b, n
    <2>3. /\ more \in Seq(Hash) /\ Len(more) = n + 1 /\ more[n + 1] = b
          /\ \A i \in 1 .. n : more[i] = rows[i]
        BY <1>3, <2>1 DEF n
    <2> HIDE DEF more, rows, want
    <2>4. /\ Len(rows) = n /\ \A i \in 1 .. n : HeightOf[rows[i]] = want[i]
          /\ stream.kind # "sparse" => \A i \in 2 .. n : Prev[rows[i]] = rows[i - 1]
        BY <1>2 DEF RowsFor, n, rows
    <2>5. \A i \in 1 .. n + 1 : HeightOf[more[i]] = want[i]
        BY <1>3, <2>1, <2>3, <2>4
    <2>6. ASSUME stream.kind # "sparse", NEW i \in 2 .. n + 1
          PROVE  Prev[more[i]] = more[i - 1]
        <3>1. i - 1 \in 1 .. n
            BY <1>3
        <3>2. CASE i = n + 1
            BY <1>3, <2>2, <2>3, <2>6, <3>1, <3>2
        <3>3. CASE i # n + 1
            <4>1. i \in 2 .. n /\ i \in 1 .. n
                BY <1>3, <3>3
            <4> QED BY <2>3, <2>4, <2>6, <3>1, <4>1
        <3> QED BY <3>2, <3>3
    <2>7. RowsFor(stream.kind, want, more)
        BY <1>3, <2>3, <2>5, <2>6 DEF RowsFor
    <2>8. stream' = [stream EXCEPT !.rows = more]
        BY <1>4, <1>6 DEF more, rows
    <2>9. stream' = [state |-> "open", kind |-> stream.kind, want |-> want, rows |-> more]
        BY <1>2, <2>8
    <2>10. StreamOK([state |-> "open", kind |-> stream.kind, want |-> want, rows |-> more])
        BY <1>2, <2>7 DEF StreamOK
    <2> QED BY <1>1, <2>9, <2>10 DEF StreamInv
<1> QED
    BY <1>5, <1>6

LEMMA FinishStep ==
    ASSUME StreamInv, Finish
    PROVE  StreamInv'
<1>1. /\ stream # NoStream /\ mode = "serving" /\ mode' = "serving" /\ stream.state = "open"
      /\ Len(stream.rows) = Len(stream.want) /\ StreamOK(stream)
    BY DEF Finish, StreamInv, NoStream, cacheVars
<1>2. /\ stream = [state |-> "open", kind |-> stream.kind, want |-> stream.want, rows |-> stream.rows]
      /\ Wanted(stream.kind, stream.want) /\ RowsFor(stream.kind, stream.want, stream.rows)
    BY <1>1 DEF StreamOK
<1>3. stream' = [stream EXCEPT !.state = IF stream.kind = "sparse" /\ ~ AdjacentPairs(stream.rows)
                                         THEN "aborted" ELSE "done"]
    BY DEF Finish
<1>4. PICK s \in {"aborted", "done"} :
          /\ stream' = [state |-> s, kind |-> stream.kind, want |-> stream.want, rows |-> stream.rows]
          /\ s = "done" => (stream.kind = "sparse" => AdjacentPairs(stream.rows))
    BY <1>2, <1>3
<1>5. StreamOK([state |-> s, kind |-> stream.kind, want |-> stream.want, rows |-> stream.rows])
    BY <1>1, <1>2, <1>4 DEF StreamOK
<1> QED
    BY <1>1, <1>4, <1>5 DEF StreamInv

LEMMA StreamStep ==
    ASSUME CacheInv, StreamInv, [StreamReadsNext]_streamVars
    PROVE  CacheInv' /\ StreamInv'
<1>1. [CacheNext]_cacheVars
    BY DEF StreamReadsNext, streamVars, CacheNext, StreamNext, OpenRange, OpenSparse, ReadRow, Finish, Hangup
<1>2. CacheInv'
    BY <1>1, CacheStep
<1>3. CASE (StartInsert \/ StartRewind \/ StartPrune \/ Write \/ Serve) /\ UNCHANGED stream
    <2>1. mode = "serving" => mode' = "serving"
        BY <1>3 DEF StartInsert, StartRewind, StartPrune, Write, Serve, Idle
    <2> QED BY <1>2, <1>3, <2>1 DEF StreamInv, StreamOK, Wanted, RowsFor, AdjacentPairs
<1>4. CASE stream' = NoStream
    BY <1>2, <1>4 DEF StreamInv
<1>5. CASE StreamNext
    BY <1>2, <1>4, <1>5, OpenStep, RowStep, FinishStep DEF StreamNext, Hangup
<1>6. CASE UNCHANGED streamVars
    BY <1>2, <1>6 DEF streamVars, cacheVars, StreamInv
<1> QED
    BY <1>3, <1>4, <1>5, <1>6 DEF StreamReadsNext

\* Neighbours of a sparse list are neighbours of the set that was asked for.
LEMMA NextWanted ==
    ASSUME NEW S, S \subseteq Heights, NEW i \in 1 .. Cardinality(S), Ascending(S)[i] + 1 \in S
    PROVE  i + 1 \in 1 .. Cardinality(S) /\ Ascending(S)[i + 1] = Ascending(S)[i] + 1
<1> DEFINE h == Ascending(S)[i]
<1>1. h \in S /\ Cardinality(Below(S, h)) = i - 1
    BY AscendingLists
<1> HIDE DEF h
<1>2. h + 1 \in S /\ h \in Int /\ h + 1 \in Heights /\ \A k \in S : k \in Int
    BY <1>1, ForkTreeAssumption DEF Heights, h
<1>3. Cardinality(Below(S, h + 1)) = Cardinality(Below(S, h)) + 1
    <2>1. h < h + 1 /\ \A k \in S : k < h + 1 => k <= h
        BY <1>2
    <2> QED BY <1>1, <1>2, <2>1, NextBelow
<1>4. /\ Cardinality(Below(S, h + 1)) + 1 \in 1 .. Cardinality(S)
      /\ Ascending(S)[Cardinality(Below(S, h + 1)) + 1] = h + 1
    BY <1>2, AscendingLists
<1>5. Cardinality(Below(S, h + 1)) + 1 = i + 1
    BY <1>1, <1>3
<1> QED
    BY <1>4, <1>5 DEF h

LEMMA DoneIsChain ==
    ASSUME StreamInv
    PROVE  OneChain
<1> DEFINE rows == stream.rows
           want == stream.want
           n    == Len(stream.rows)
<1>1. SUFFICES ASSUME stream.state = "done"
               PROVE  /\ [i \in DOMAIN rows |-> HeightOf[rows[i]]] = want
                      /\ stream.kind = "sparse" => \A i \in DOMAIN rows :
                            HeightOf[rows[i]] + 1 \in Range(want) => rows[i] = Prev[rows[i + 1]]
                      /\ stream.kind # "sparse" =>
                            Range(rows) = {a \in Ancestors[Last(rows)] : HeightOf[a] >= want[1]}
    BY DEF OneChain
<1>2. /\ Wanted(stream.kind, want) /\ RowsFor(stream.kind, want, rows) /\ n = Len(want)
      /\ stream.kind = "sparse" => AdjacentPairs(rows)
    BY <1>1 DEF StreamInv, NoStream, StreamOK
<1>3. /\ rows \in Seq(Hash) /\ want \in Seq(Heights) /\ n \in Nat
      /\ \A i \in 1 .. n : HeightOf[rows[i]] = want[i]
      /\ stream.kind # "sparse" => \A i \in 2 .. n : Prev[rows[i]] = rows[i - 1]
    BY <1>2, WantedHeights DEF RowsFor
<1>4. DOMAIN rows = 1 .. n /\ DOMAIN want = 1 .. n /\ Len(rows) = n
    BY <1>2, <1>3
<1>5. [i \in DOMAIN rows |-> HeightOf[rows[i]]] = want
    <2>1. want = [i \in 1 .. n |-> want[i]]
        BY <1>3, <1>4
    <2> HIDE DEF rows, want, n
    <2> QED BY <2>1, <1>3, <1>4
<1> HIDE DEF rows, want, n
<1>6. ASSUME stream.kind = "sparse", NEW i \in 1 .. n, HeightOf[rows[i]] + 1 \in Range(want)
      PROVE  rows[i] = Prev[rows[i + 1]]
    <2>1. PICK S \in SUBSET Heights : want = Ascending(S)
        BY <1>2, <1>6 DEF Wanted
    <2>2. n = Cardinality(S)
        BY <1>2, <2>1, SparseWanted
    <2>3. want[i] + 1 \in S
        <3>1. PICK j \in 1 .. n : want[i] + 1 = want[j]
            BY <1>3, <1>4, <1>6 DEF Range
        <3>2. want[j] \in S
            BY <2>1, <2>2, AscendingLists
        <3> QED BY <3>1, <3>2
    <2>4. i + 1 \in 1 .. n /\ want[i + 1] = want[i] + 1
        BY <2>1, <2>2, <2>3, NextWanted
    <2>5. i + 1 \in 2 .. Len(rows) /\ (i + 1) - 1 = i /\ HeightOf[rows[i + 1]] = HeightOf[rows[i]] + 1
        BY <1>3, <1>4, <2>4
    <2>6. CheckSuccessor(rows[i], rows[i + 1])
        <3>1. AdjacentPairs(rows)
            BY <1>2, <1>6
        <3> QED BY <2>5, <3>1 DEF AdjacentPairs
    <2> QED BY <2>6 DEF CheckSuccessor
<1>7. ASSUME stream.kind # "sparse"
      PROVE  Range(rows) = {a \in Ancestors[Last(rows)] : HeightOf[a] >= want[1]}
    <2>1. PICK start \in Heights, end \in Heights : start <= end /\ want = HeightsFrom(start, end)
        BY <1>2, <1>7 DEF Wanted
    <2>2. start \in Nat /\ end \in Nat
        BY ForkTreeAssumption DEF Heights
    <2>3. n = end - start + 1 /\ \A i \in 1 .. n : want[i] = start + i - 1
        BY <1>2, <2>1, RangeWanted
    <2>4. n \in 1 .. n /\ want[1] = start
        BY <2>1, <2>2, <2>3
    <2>5. \A a : (a \in Ancestors[rows[n]] /\ HeightOf[a] >= start) <=> \E j \in 1 .. n : rows[j] = a
        <3>1. \A i \in 1 .. Len(rows) : HeightOf[rows[i]] = start + i - 1
            BY <1>3, <1>4, <2>3
        <3>2. \A i \in 2 .. Len(rows) : Prev[rows[i]] = rows[i - 1]
            BY <1>3, <1>4, <1>7
        <3>3. rows \in Seq(Hash) /\ n \in 1 .. Len(rows)
            BY <1>3, <1>4, <2>4
        <3> QED BY <2>2, <3>1, <3>2, <3>3, ChainPiece
    <2>6. Range(rows) = {rows[j] : j \in 1 .. n} /\ Last(rows) = rows[n]
        BY <1>4 DEF Range, Last
    <2> QED BY <2>4, <2>5, <2>6
<1> QED
    BY <1>4, <1>5, <1>6, <1>7

\* GetBlockRange, GetCompactBlocksAtHeights and the streams of parts: a stream
\* that comes to its end has read the blocks of one chain, each height it was
\* asked for once and in order, whatever rows the poller inserted, rewound or
\* pruned between the reads, at every single write and with crashes; a sparse
\* list owes it of every two neighbouring heights.
THEOREM StreamsReadOneChain == StreamReadsSpec => []OneChain
<1>1. CacheInit /\ stream = NoStream => CacheInv /\ StreamInv
    BY CacheStarts DEF StreamInv
<1>2. CacheInv /\ StreamInv /\ [StreamReadsNext]_streamVars => (CacheInv /\ StreamInv)'
    BY StreamStep
<1>3. StreamInv => OneChain
    BY DoneIsChain
<1> QED
    BY <1>1, <1>2, <1>3, PTL DEF StreamReadsSpec

-----------------------------------------------------------------------------
(* Lists laid end to end.                                                   *)

\* Induction up to a bound, over the set of the good indices.
LEMMA Upwards ==
    ASSUME NEW n \in Nat, NEW Good, 0 \in Good, \A m \in 1 .. n : m - 1 \in Good => m \in Good
    PROVE  \A m \in 0 .. n : m \in Good
<1> DEFINE Bad == {m \in 0 .. n : m \notin Good}
<1>1. SUFFICES ASSUME Bad # {} PROVE FALSE
    OBVIOUS
<1>2. PICK m \in Bad : \A k \in Bad : m <= k
    <2>1. Bad \subseteq Nat
        OBVIOUS
    <2> HIDE DEF Bad
    <2> QED BY <1>1, <2>1, LeastNat
<1>3. m \in 1 .. n /\ m - 1 \in 0 .. n /\ m - 1 < m /\ m \notin Good
    OBVIOUS
<1>4. m - 1 \notin Bad
    <2> HIDE DEF Bad
    <2> QED BY <1>2, <1>3
<1> QED
    BY <1>3, <1>4

\* What the recursion of FlattenSeq says of the function it defines.
Flattens(f, seqs, n) ==
    f = [i \in 1 .. n |-> IF i = 1 THEN seqs[i] ELSE f[i - 1] \o seqs[i]]

\* A list of lists has its elements laid end to end in some list.
LEMMA FlattensExists ==
    ASSUME NEW seqs, NEW n \in Nat
    PROVE  \E f : Flattens(f, seqs, n)
<1> DEFINE Bad == {m \in Nat : ~ \E f : Flattens(f, seqs, m)}
<1>1. SUFFICES ASSUME Bad # {} PROVE FALSE
    OBVIOUS
<1>2. PICK m \in Bad : \A k \in Bad : m <= k
    <2>1. Bad \subseteq Nat
        OBVIOUS
    <2> HIDE DEF Bad
    <2> QED BY <1>1, <2>1, LeastNat
<1>3. m \in Nat /\ ~ \E f : Flattens(f, seqs, m)
    OBVIOUS
<1>4. m # 0
    <2> DEFINE f == [i \in 1 .. 0 |-> seqs[i]]
    <2>1. f = [i \in 1 .. 0 |-> IF i = 1 THEN seqs[i] ELSE f[i - 1] \o seqs[i]]
        <3> DEFINE g == [i \in 1 .. 0 |-> IF i = 1 THEN seqs[i] ELSE f[i - 1] \o seqs[i]]
        <3>1. DOMAIN f = {} /\ DOMAIN g = {} /\ f = [i \in DOMAIN f |-> f[i]] /\ g = [i \in DOMAIN g |-> g[i]]
            OBVIOUS
        <3> HIDE DEF f, g
        <3>2. f = g
            BY <3>1
        <3> QED BY <3>2 DEF g
    <2> HIDE DEF f
    <2>2. Flattens(f, seqs, 0)
        BY <2>1 DEF Flattens
    <2> QED BY <1>3, <2>2
<1>5. PICK g : Flattens(g, seqs, m - 1)
    <2>1. m - 1 \in Nat /\ m - 1 < m
        BY <1>3, <1>4
    <2>2. m - 1 \notin Bad
        <3> HIDE DEF Bad
        <3> QED BY <1>2, <1>3, <2>1
    <2> QED BY <2>1, <2>2
<1> HIDE DEF Bad
<1> DEFINE f == [i \in 1 .. m |-> IF i = 1 THEN seqs[i]
                                  ELSE g[i - 1] \o seqs[i]]
           h == [i \in 1 .. m |-> IF i = 1 THEN seqs[i] ELSE f[i - 1] \o seqs[i]]
<1>6. ASSUME NEW i \in 1 .. m PROVE f[i] = h[i]
    <2>1. CASE i = 1
        BY <2>1
    <2>2. CASE i # 1
        <3>1. i - 1 \in 1 .. m - 1 /\ i - 1 \in 1 .. m
            BY <1>3, <2>2
        <3>2. g[i - 1] = IF i - 1 = 1 THEN seqs[i - 1] ELSE g[(i - 1) - 1] \o seqs[i - 1]
            BY <1>5, <3>1 DEF Flattens
        <3>3. f[i - 1] = IF i - 1 = 1 THEN seqs[i - 1] ELSE g[(i - 1) - 1] \o seqs[i - 1]
            BY <3>1
        <3>4. h[i] = f[i - 1] \o seqs[i]
            <4> HIDE DEF f
            <4> QED BY <2>2
        <3>5. f[i] = g[i - 1] \o seqs[i]
            BY <2>2
        <3> HIDE DEF f, h
        <3> QED BY <3>2, <3>3, <3>4, <3>5
    <2> QED BY <2>1, <2>2
<1>7. f = [i \in 1 .. m |-> f[i]] /\ h = [i \in 1 .. m |-> h[i]]
    OBVIOUS
<1>8. f = h
    <2> HIDE DEF f, h
    <2> QED BY <1>6, <1>7
<1>9. Flattens(f, seqs, m)
    <2> HIDE DEF f
    <2> QED BY <1>8 DEF Flattens
<1> QED
    BY <1>3, <1>9

\* The lists laid end to end, one more at a time.
LEMMA FlattenRuns ==
    ASSUME NEW S, NEW seqs \in Seq(Seq(S))
    PROVE  \E f \in [0 .. Len(seqs) -> Seq(S)] :
              /\ f[0] = <<>> /\ f[Len(seqs)] = FlattenSeq(seqs)
              /\ \A i \in 1 .. Len(seqs) : f[i] = f[i - 1] \o seqs[i]
<1> DEFINE n == Len(seqs)
           g == CHOOSE f : f = [i \in 1 .. n |-> IF i = 1 THEN seqs[i] ELSE f[i - 1] \o seqs[i]]
           f == [i \in 0 .. n |-> IF i = 0 THEN <<>> ELSE g[i]]
<1>1. n \in Nat /\ \A i \in 1 .. n : seqs[i] \in Seq(S)
    OBVIOUS
<1>2. FlattenSeq(seqs) = IF n = 0 THEN seqs ELSE g[n]
    BY DEF FlattenSeq
<1> HIDE DEF n
<1>3. g = [i \in 1 .. n |-> IF i = 1 THEN seqs[i] ELSE g[i - 1] \o seqs[i]]
    <2>1. \E h : h = [i \in 1 .. n |-> IF i = 1 THEN seqs[i] ELSE h[i - 1] \o seqs[i]]
        BY <1>1, FlattensExists DEF Flattens
    <2> QED BY <2>1
<1> HIDE DEF g
<1>4. \A i \in 1 .. n : g[i] = IF i = 1 THEN seqs[i] ELSE g[i - 1] \o seqs[i]
    BY <1>3
<1>5. f[0] = <<>> /\ \A i \in 1 .. n : f[i] = g[i]
    BY <1>1
<1>6. f = [i \in 0 .. n |-> f[i]]
    OBVIOUS
<1>7. f[n] = FlattenSeq(seqs)
    <2>1. n = 0 => seqs = <<>>
        BY DEF n
    <2>2. n # 0 => n \in 1 .. n
        BY <1>1
    <2> HIDE DEF f
    <2> QED BY <1>2, <1>5, <2>1, <2>2
<1> HIDE DEF f
<1>8. ASSUME NEW i \in 1 .. n PROVE f[i] = f[i - 1] \o seqs[i]
    <2>1. CASE i = 1
        <3>1. f[i] = seqs[i] /\ f[i - 1] = <<>> /\ seqs[i] \in Seq(S)
            BY <1>1, <1>4, <1>5, <2>1
        <3> QED BY <3>1, ConcatEmptySeq
    <2>2. CASE i # 1
        <3>1. i - 1 \in 1 .. n
            BY <1>1, <2>2
        <3> QED BY <1>4, <1>5, <2>2, <3>1
    <2> QED BY <2>1, <2>2
<1>9. \A i \in 0 .. n : f[i] \in Seq(S)
    <2> DEFINE Good == {i \in 0 .. n : f[i] \in Seq(S)}
    <2>1. 0 \in Good
        <3>1. f[0] \in Seq(S)
            BY <1>5, EmptySeq
        <3> QED BY <1>1, <3>1
    <2>2. ASSUME NEW m \in 1 .. n, m - 1 \in Good PROVE m \in Good
        <3>1. f[m - 1] \in Seq(S) /\ m \in 0 .. n
            BY <1>1, <2>2
        <3> QED BY <1>1, <1>8, <3>1, ConcatProperties, ZenonT(60)
    <2> HIDE DEF Good
    <2>3. \A m \in 0 .. n : m \in Good
        BY <1>1, <2>1, <2>2, Upwards
    <2> QED BY <2>3 DEF Good
<1>10. f \in [0 .. n -> Seq(S)]
    BY <1>6, <1>9
<1> QED
    BY <1>5, <1>7, <1>8, <1>10 DEF n

Running(f, seqs, n) == \A i \in 1 .. n : f[i] = f[i - 1] \o seqs[i]
Agree(s, t, n) == \A i \in 1 .. n : s[i] = t[i]

\* The runs of two lists of lists that agree on the first n.
LEMMA RunsAgree ==
    ASSUME NEW n \in Nat, NEW f, NEW g, f[0] = g[0], NEW seqs, NEW others,
           Running(f, seqs, n), Running(g, others, n), Agree(seqs, others, n)
    PROVE  f[n] = g[n]
<1> DEFINE Good == {i \in 0 .. n : f[i] = g[i]}
<1>1. 0 \in Good
    OBVIOUS
<1>2. ASSUME NEW m \in 1 .. n, m - 1 \in Good PROVE m \in Good
    <2>1. m \in 0 .. n /\ f[m - 1] = g[m - 1]
        BY <1>2
    <2>2. f[m] = f[m - 1] \o seqs[m] /\ g[m] = g[m - 1] \o others[m] /\ seqs[m] = others[m]
        BY DEF Running, Agree
    <2> QED BY <2>1, <2>2
<1> HIDE DEF Good
<1>3. \A m \in 0 .. n : m \in Good
    BY <1>1, <1>2, Upwards
<1> QED
    BY <1>3 DEF Good

\* Nothing to lay end to end.
LEMMA FlattenEmpty == FlattenSeq(<<>>) = <<>>
BY DEF FlattenSeq

\* The elements are those of the lists.
LEMMA FlattenType ==
    ASSUME NEW S, NEW seqs \in Seq(Seq(S))
    PROVE  FlattenSeq(seqs) \in Seq(S)
<1> DEFINE n == Len(seqs)
<1>1. n \in Nat
    OBVIOUS
<1>2. PICK f \in [0 .. n -> Seq(S)] : f[n] = FlattenSeq(seqs)
    BY FlattenRuns
<1> HIDE DEF n
<1> QED
    BY <1>1, <1>2

\* One list more comes last.
LEMMA FlattenAppend ==
    ASSUME NEW S, NEW seqs \in Seq(Seq(S)), NEW s \in Seq(S)
    PROVE  FlattenSeq(Append(seqs, s)) = FlattenSeq(seqs) \o s
<1> DEFINE n == Len(seqs)
           more == Append(seqs, s)
<1>1. /\ n \in Nat /\ more \in Seq(Seq(S)) /\ Len(more) = n + 1 /\ more[n + 1] = s
      /\ \A i \in 1 .. n : more[i] = seqs[i]
    BY AppendProperties
<1> HIDE DEF more
<1>2. PICK f \in [0 .. n -> Seq(S)] :
              /\ f[0] = <<>> /\ f[n] = FlattenSeq(seqs)
              /\ \A i \in 1 .. n : f[i] = f[i - 1] \o seqs[i]
    BY FlattenRuns
<1> HIDE DEF n
<1>3. PICK g \in [0 .. n + 1 -> Seq(S)] :
              /\ g[0] = <<>> /\ g[n + 1] = FlattenSeq(more)
              /\ \A i \in 1 .. n + 1 : g[i] = g[i - 1] \o more[i]
    <2>1. \E g \in [0 .. Len(more) -> Seq(S)] :
              /\ g[0] = <<>> /\ g[Len(more)] = FlattenSeq(more)
              /\ \A i \in 1 .. Len(more) : g[i] = g[i - 1] \o more[i]
        BY <1>1, FlattenRuns
    <2> QED BY <1>1, <2>1
<1>4. g[n] = f[n]
    <2>1. \A i \in 1 .. n : i \in 1 .. n + 1
        BY <1>1
    <2>2. Running(g, more, n)
        BY <1>3, <2>1 DEF Running
    <2>3. Agree(more, seqs, n)
        BY <1>1 DEF n, Agree
    <2>4. Running(f, seqs, n)
        BY <1>2 DEF Running
    <2>5. g[0] = f[0] /\ n \in Nat
        BY <1>1, <1>2, <1>3
    <2> QED BY <2>2, <2>3, <2>4, <2>5, RunsAgree
<1>5. g[n + 1] = g[n] \o s
    <2>1. n + 1 \in 1 .. n + 1 /\ (n + 1) - 1 = n
        BY <1>1 DEF n
    <2> QED BY <1>1, <1>3, <2>1
<1> QED
    BY <1>2, <1>3, <1>4, <1>5 DEF more

\* The places of two lists laid end to end.
LEMMA ConcatPlaces ==
    ASSUME NEW S, NEW s \in Seq(S), NEW t \in Seq(S), NEW c, c = s \o t
    PROVE  /\ c \in Seq(S) /\ Len(c) = Len(s) + Len(t)
           /\ \A j \in 1 .. Len(s) : j \in 1 .. Len(c) /\ c[j] = s[j]
           /\ \A k \in 1 .. Len(t) : Len(s) + k \in 1 .. Len(c) /\ c[Len(s) + k] = t[k]
           /\ \A j \in 1 .. Len(c) :
                 \/ j \in 1 .. Len(s)
                 \/ j - Len(s) \in 1 .. Len(t) /\ c[j] = t[j - Len(s)]
<1>1. /\ c \in Seq(S) /\ Len(c) = Len(s) + Len(t)
      /\ \A j \in 1 .. Len(s) + Len(t) : c[j] = IF j <= Len(s) THEN s[j] ELSE t[j - Len(s)]
    BY ConcatProperties
<1> DEFINE a == Len(s)
           b == Len(t)
<1>2. a \in Nat /\ b \in Nat
    OBVIOUS
<1> HIDE DEF a, b
<1>3. Len(c) = a + b /\ \A j \in 1 .. a + b : c[j] = IF j <= a THEN s[j] ELSE t[j - a]
    BY <1>1 DEF a, b
<1>4. ASSUME NEW j \in 1 .. a PROVE j \in 1 .. Len(c) /\ c[j] = s[j]
    BY <1>2, <1>3
<1>5. ASSUME NEW k \in 1 .. b PROVE a + k \in 1 .. Len(c) /\ c[a + k] = t[k]
    <2>1. a + k \in 1 .. a + b /\ ~ (a + k <= a) /\ (a + k) - a = k
        BY <1>2
    <2> QED BY <1>3, <2>1
<1>6. ASSUME NEW j \in 1 .. Len(c)
      PROVE  j \in 1 .. a \/ (j - a \in 1 .. b /\ c[j] = t[j - a])
    BY <1>2, <1>3
<1> QED
    BY <1>1, <1>4, <1>5, <1>6 DEF a, b

Has(s, x) == \E j \in 1 .. Len(s) : s[j] = x

\* What two lists laid end to end hold.
LEMMA ConcatItems ==
    ASSUME NEW S, NEW s \in Seq(S), NEW t \in Seq(S), NEW x
    PROVE  Has(s \o t, x) <=> Has(s, x) \/ Has(t, x)
<1>1. PICK c : c = s \o t
    OBVIOUS
<1>2. /\ \A j \in 1 .. Len(s) : j \in 1 .. Len(c) /\ c[j] = s[j]
      /\ \A k \in 1 .. Len(t) : Len(s) + k \in 1 .. Len(c) /\ c[Len(s) + k] = t[k]
      /\ \A j \in 1 .. Len(c) :
            \/ j \in 1 .. Len(s)
            \/ j - Len(s) \in 1 .. Len(t) /\ c[j] = t[j - Len(s)]
    BY <1>1, ConcatPlaces
<1>3. ASSUME NEW j \in 1 .. Len(c), c[j] = x
      PROVE  (\E i \in 1 .. Len(s) : s[i] = x) \/ (\E k \in 1 .. Len(t) : t[k] = x)
    BY <1>2, <1>3
<1>4. ASSUME NEW j \in 1 .. Len(s), s[j] = x PROVE \E i \in 1 .. Len(c) : c[i] = x
    BY <1>2, <1>4
<1>5. ASSUME NEW k \in 1 .. Len(t), t[k] = x PROVE \E i \in 1 .. Len(c) : c[i] = x
    BY <1>2, <1>5
<1> QED
    BY <1>1, <1>3, <1>4, <1>5 DEF Has

\* A list without repetition.
Once(s) == \A i, j \in 1 .. Len(s) : s[i] = s[j] => i = j

\* Two lists with nothing twice and nothing in common have nothing twice.
LEMMA ConcatOnce ==
    ASSUME NEW S, NEW s \in Seq(S), NEW t \in Seq(S), Once(s), Once(t),
           \A j \in 1 .. Len(s) : \A k \in 1 .. Len(t) : s[j] # t[k]
    PROVE  Once(s \o t)
<1>1. PICK c : c = s \o t
    OBVIOUS
<1>2. /\ \A j \in 1 .. Len(s) : j \in 1 .. Len(c) /\ c[j] = s[j]
      /\ \A j \in 1 .. Len(c) :
            \/ j \in 1 .. Len(s)
            \/ j - Len(s) \in 1 .. Len(t) /\ c[j] = t[j - Len(s)]
    BY <1>1, ConcatPlaces
<1> DEFINE a == Len(s)
           b == Len(t)
<1>3. a \in Nat /\ Len(c) \in Nat
    <2>1. c \in Seq(S)
        BY <1>1, ConcatProperties
    <2> QED BY <2>1
<1>4. SUFFICES ASSUME NEW i \in 1 .. Len(c), NEW j \in 1 .. Len(c), c[i] = c[j] PROVE i = j
    BY <1>1 DEF Once
<1>5. CASE i \in 1 .. a /\ j \in 1 .. a
    BY <1>2, <1>4, <1>5 DEF Once
<1>6. CASE i \in 1 .. a /\ j \notin 1 .. a
    BY <1>2, <1>4, <1>6
<1>7. CASE i \notin 1 .. a /\ j \in 1 .. a
    BY <1>2, <1>4, <1>7
<1>8. CASE i \notin 1 .. a /\ j \notin 1 .. a
    <2>1. i - a \in 1 .. b /\ j - a \in 1 .. b /\ t[i - a] = t[j - a]
        BY <1>2, <1>4, <1>8
    <2> HIDE DEF a
    <2>2. i - a = j - a
        BY <2>1 DEF Once
    <2> QED BY <1>3, <2>2
<1> QED
    BY <1>5, <1>6, <1>7, <1>8

\* What is in the flat list is in one of the lists, and the other way round.
LEMMA FlattenItems ==
    ASSUME NEW S, NEW seqs \in Seq(Seq(S)), NEW x
    PROVE  Has(FlattenSeq(seqs), x) <=> \E i \in 1 .. Len(seqs) : Has(seqs[i], x)
<1> DEFINE n == Len(seqs)
<1>1. n \in Nat /\ \A i \in 1 .. n : seqs[i] \in Seq(S)
    OBVIOUS
<1>2. PICK f \in [0 .. n -> Seq(S)] :
              /\ f[0] = <<>> /\ f[n] = FlattenSeq(seqs)
              /\ \A i \in 1 .. n : f[i] = f[i - 1] \o seqs[i]
    BY FlattenRuns
<1> HIDE DEF n
<1> DEFINE P(m) == Has(f[m], x) <=> \E i \in 1 .. m : Has(seqs[i], x)
           Good == {m \in 0 .. n : P(m)}
<1>3. P(0)
    <2>1. f[0] = <<>> /\ ~ \E i \in 1 .. 0 : Has(seqs[i], x)
        BY <1>2
    <2>2. ~ Has(<<>>, x)
        BY EmptySeq DEF Has
    <2> QED BY <2>1, <2>2
<1>4. ASSUME NEW m \in 1 .. n, P(m - 1) PROVE P(m)
    <2>1. m \in Nat /\ m \in 0 .. n /\ m - 1 \in 0 .. n /\ 1 .. m = (1 .. m - 1) \cup {m}
        BY <1>1
    <2>2. f[m] = f[m - 1] \o seqs[m] /\ f[m - 1] \in Seq(S) /\ seqs[m] \in Seq(S)
        BY <1>1, <1>2, <2>1
    <2>3. PICK s : s = f[m - 1]
        OBVIOUS
    <2>4. PICK t : t = seqs[m]
        OBVIOUS
    <2>5. Has(s \o t, x) <=> Has(s, x) \/ Has(t, x)
        <3>1. s \in Seq(S) /\ t \in Seq(S)
            BY <2>2, <2>3, <2>4
        <3> QED BY <3>1, ConcatItems
    <2>6. Has(s, x) <=> \E i \in 1 .. m - 1 : Has(seqs[i], x)
        BY <1>4, <2>3
    <2> QED BY <2>1, <2>2, <2>3, <2>4, <2>5, <2>6
<1>5. 0 \in Good
    BY <1>1, <1>3
<1>6. ASSUME NEW m \in 1 .. n, m - 1 \in Good PROVE m \in Good
    <2>1. P(m - 1) /\ m \in 0 .. n
        BY <1>1, <1>6
    <2>2. P(m)
        BY <1>4, <2>1
    <2> QED BY <2>1, <2>2
<1>7. n \in Good
    <2> HIDE DEF Good
    <2>1. \A m \in 0 .. n : m \in Good
        BY <1>1, <1>5, <1>6, Upwards
    <2> QED BY <1>1, <2>1
<1>8. Has(FlattenSeq(seqs), x) <=> \E i \in 1 .. n : Has(seqs[i], x)
    BY <1>2, <1>7
<1> QED
    BY <1>8 DEF n

\* Lists without repetition that share nothing make a flat list without repetition.
LEMMA FlattenOnce ==
    ASSUME NEW S, NEW seqs \in Seq(Seq(S)),
           \A i \in 1 .. Len(seqs) : Once(seqs[i]),
           \A i, j \in 1 .. Len(seqs) : \A k \in 1 .. Len(seqs[i]) : \A l \in 1 .. Len(seqs[j]) :
               seqs[i][k] = seqs[j][l] => i = j
    PROVE  Once(FlattenSeq(seqs))
<1> DEFINE n == Len(seqs)
<1>1. n \in Nat /\ \A i \in 1 .. n : seqs[i] \in Seq(S)
    OBVIOUS
<1>2. PICK f \in [0 .. n -> Seq(S)] :
              /\ f[0] = <<>> /\ f[n] = FlattenSeq(seqs)
              /\ \A i \in 1 .. n : f[i] = f[i - 1] \o seqs[i]
    BY FlattenRuns
<1>3. /\ \A i \in 1 .. n : Once(seqs[i])
      /\ \A i, j \in 1 .. n : \A k \in 1 .. Len(seqs[i]) : \A l \in 1 .. Len(seqs[j]) :
               seqs[i][k] = seqs[j][l] => i = j
    OBVIOUS
<1> HIDE DEF n
<1> DEFINE From(s, m) == \A j \in 1 .. Len(s) :
                             \E i \in 1 .. m : \E k \in 1 .. Len(seqs[i]) : seqs[i][k] = s[j]
           P(m) == Once(f[m]) /\ From(f[m], m)
           Good == {m \in 0 .. n : P(m)}
<1>4. P(0)
    <2>1. f[0] = <<>> /\ Len(f[0]) = 0
        BY <1>2, EmptySeq
    <2> QED BY <2>1 DEF Once
<1>5. ASSUME NEW m \in 1 .. n, P(m - 1) PROVE P(m)
    <2>1. m \in Nat /\ m \in 0 .. n /\ m - 1 \in 0 .. n /\ 1 .. m = (1 .. m - 1) \cup {m} /\ m \notin 1 .. m - 1
        BY <1>1
    <2>2. f[m] = f[m - 1] \o seqs[m] /\ f[m - 1] \in Seq(S) /\ seqs[m] \in Seq(S)
        BY <1>1, <1>2, <2>1
    <2>3. PICK s : s = f[m - 1]
        OBVIOUS
    <2>4. PICK t : t = seqs[m]
        OBVIOUS
    <2>5. s \in Seq(S) /\ t \in Seq(S) /\ f[m] = s \o t
        BY <2>2, <2>3, <2>4
    <2>6. Once(s) /\ Once(t) /\ From(s, m - 1)
        BY <1>3, <1>5, <2>3, <2>4
    <2>7. \A j \in 1 .. Len(s), k \in 1 .. Len(t) : s[j] # t[k]
        <3> SUFFICES ASSUME NEW j \in 1 .. Len(s), NEW k \in 1 .. Len(t), s[j] = t[k] PROVE FALSE
            OBVIOUS
        <3>1. PICK i \in 1 .. m - 1 : \E l \in 1 .. Len(seqs[i]) : seqs[i][l] = s[j]
            BY <2>6
        <3>2. i \in 1 .. n /\ i # m /\ m \in 1 .. n
            BY <1>1
        <3>3. PICK l \in 1 .. Len(seqs[i]) : seqs[i][l] = s[j]
            BY <3>1
        <3>4. k \in 1 .. Len(seqs[m]) /\ seqs[m][k] = seqs[i][l]
            BY <2>4, <3>3
        <3> QED BY <1>3, <3>2, <3>3, <3>4
    <2>8. Once(f[m])
        <3>1. \A j \in 1 .. Len(s) : \A k \in 1 .. Len(t) : s[j] # t[k]
            BY <2>7
        <3>2. Once(s \o t)
            BY <2>5, <2>6, <3>1, ConcatOnce
        <3> QED BY <2>5, <3>2
    <2>9. From(f[m], m)
        <3> SUFFICES ASSUME NEW j \in 1 .. Len(f[m])
                     PROVE \E i \in 1 .. m : \E k \in 1 .. Len(seqs[i]) : seqs[i][k] = f[m][j]
            OBVIOUS
        <3>1. (\E i \in 1 .. Len(s) : s[i] = f[m][j]) \/ (\E k \in 1 .. Len(t) : t[k] = f[m][j])
            <4>1. PICK x : x = f[m][j]
                OBVIOUS
            <4>2. Has(s \o t, x)
                BY <2>5, <4>1 DEF Has
            <4>3. Has(s, x) \/ Has(t, x)
                BY <2>5, <4>2, ConcatItems
            <4> QED BY <4>1, <4>3 DEF Has
        <3>2. CASE \E i \in 1 .. Len(s) : s[i] = f[m][j]
            BY <2>1, <2>6, <3>2, SMTT(30)
        <3>3. CASE \E k \in 1 .. Len(t) : t[k] = f[m][j]
            BY <2>1, <2>4, <3>3
        <3> QED BY <3>1, <3>2, <3>3
    <2> QED BY <2>8, <2>9
<1> HIDE DEF From
<1>6. 0 \in Good
    BY <1>1, <1>4
<1>7. ASSUME NEW m \in 1 .. n, m - 1 \in Good PROVE m \in Good
    <2>1. P(m - 1) /\ m \in 0 .. n
        BY <1>1, <1>7
    <2>2. P(m)
        BY <1>5, <2>1
    <2> QED BY <2>1, <2>2
<1>8. n \in Good
    <2> HIDE DEF Good
    <2>1. \A m \in 0 .. n : m \in Good
        BY <1>1, <1>6, <1>7, Upwards
    <2> QED BY <1>1, <2>1
<1> QED
    BY <1>2, <1>8

\* A list of lists, and lists that share no item.
Lists(g) == IsList(g) /\ \A i \in 1 .. Len(g) : IsList(g[i])
Apart(g) == \A i, j \in 1 .. Len(g) : \A x : Has(g[i], x) /\ Has(g[j], x) => i = j

\* Lists have a common set of elements.
LEMMA ListsIn ==
    ASSUME NEW g, Lists(g)
    PROVE  \E S : g \in Seq(Seq(S))
<1> DEFINE S == UNION {{g[i][k] : k \in 1 .. Len(g[i])} : i \in 1 .. Len(g)}
<1>1. Len(g) \in Nat /\ g = [i \in 1 .. Len(g) |-> g[i]]
    BY ListDomain DEF Lists
<1>2. ASSUME NEW i \in 1 .. Len(g) PROVE g[i] \in Seq(S)
    <2>1. Len(g[i]) \in Nat /\ g[i] = [k \in 1 .. Len(g[i]) |-> g[i][k]]
        BY ListDomain DEF Lists
    <2>2. \A k \in 1 .. Len(g[i]) : g[i][k] \in S
        OBVIOUS
    <2> HIDE DEF S
    <2>3. PICK t : t = g[i]
        OBVIOUS
    <2>4. PICK n : n = Len(g[i])
        OBVIOUS
    <2>5. t \in [1 .. n -> S] /\ n \in Nat
        BY <2>1, <2>2, <2>3, <2>4
    <2>6. t \in Seq(S)
        BY <2>5
    <2> QED BY <2>3, <2>6
<1> HIDE DEF S
<1>3. PICK n : n = Len(g)
    OBVIOUS
<1>4. g \in [1 .. n -> Seq(S)] /\ n \in Nat
    BY <1>1, <1>2, <1>3
<1> QED
    BY <1>4

\* Lists laid end to end are a list.
LEMMA FlatList ==
    ASSUME NEW g, Lists(g)
    PROVE  IsList(FlattenSeq(g))
<1>1. PICK S : g \in Seq(Seq(S))
    BY ListsIn
<1> QED
    BY <1>1, FlattenType, SeqIsList

\* It has what one of them has.
LEMMA FlatHas ==
    ASSUME NEW g, Lists(g), NEW x
    PROVE  Has(FlattenSeq(g), x) <=> \E i \in 1 .. Len(g) : Has(g[i], x)
<1>1. PICK S : g \in Seq(Seq(S))
    BY ListsIn
<1> QED
    BY <1>1, FlattenItems

\* It has nothing twice if they have not, alone and together.
LEMMA FlatOnce ==
    ASSUME NEW g, Lists(g), \A i \in 1 .. Len(g) : Once(g[i]), Apart(g)
    PROVE  Once(FlattenSeq(g))
<1>1. PICK S : g \in Seq(Seq(S))
    BY ListsIn
<1>2. \A i, j \in 1 .. Len(g) : \A k \in 1 .. Len(g[i]) : \A l \in 1 .. Len(g[j]) :
          g[i][k] = g[j][l] => i = j
    BY DEF Apart, Has
<1> QED
    BY <1>1, <1>2, FlattenOnce

\* The empty list.
LEMMA NoItem == IsList(<<>>) /\ Once(<<>>) /\ \A x : ~ Has(<<>>, x)
<1>1. PICK s : s = <<>>
    OBVIOUS
<1>2. s \in Seq({}) /\ Len(s) = 0 /\ 1 .. 0 = {}
    BY <1>1
<1>3. IsList(s)
    BY <1>2, SeqIsList
<1>4. Once(s) /\ \A x : ~ Has(s, x)
    BY <1>2 DEF Once, Has
<1> QED
    BY <1>1, <1>3, <1>4

\* A list of one item.
LEMMA OneItem ==
    ASSUME NEW e
    PROVE  IsList(<<e>>) /\ Once(<<e>>) /\ \A x : Has(<<e>>, x) <=> x = e
<1>1. <<e>> \in Seq({e}) /\ Len(<<e>>) = 1 /\ <<e>>[1] = e
    OBVIOUS
<1>2. 1 .. 1 = {1}
    OBVIOUS
<1> QED
    BY <1>1, <1>2, SeqIsList DEF Once, Has

\* The items e[i] of the places in A, in their order.
Picked(n, A, e) == FlattenSeq([i \in 1 .. n |-> IF i \in A THEN <<e[i]>> ELSE <<>>])

\* What is picked, and that nothing is picked twice.
LEMMA PickedItems ==
    ASSUME NEW n \in Nat, NEW A, NEW e
    PROVE  /\ IsList(Picked(n, A, e))
           /\ \A x : Has(Picked(n, A, e), x) <=> \E i \in 1 .. n : i \in A /\ x = e[i]
           /\ (\A i, j \in 1 .. n : (i \in A /\ j \in A /\ e[i] = e[j]) => i = j)
                  => Once(Picked(n, A, e))
<1> DEFINE g == [i \in 1 .. n |-> IF i \in A THEN <<e[i]>> ELSE <<>>]
<1>1. Picked(n, A, e) = FlattenSeq(g)
    BY DEF Picked
<1>2. g = [i \in 1 .. n |-> g[i]]
    OBVIOUS
<1>3. \A i \in 1 .. n : g[i] = IF i \in A THEN <<e[i]>> ELSE <<>>
    OBVIOUS
<1> HIDE DEF g
<1>4. IsList(g) /\ Len(g) = n
    BY <1>2, ListOf
<1>5. ASSUME NEW i \in 1 .. n
      PROVE  IsList(g[i]) /\ Once(g[i]) /\ \A x : Has(g[i], x) <=> i \in A /\ x = e[i]
    <2>1. CASE i \in A
        <3>1. g[i] = <<e[i]>>
            BY <1>3, <2>1
        <3>2. PICK y : y = e[i]
            OBVIOUS
        <3> QED BY <2>1, <3>1, <3>2, OneItem
    <2>2. CASE i \notin A
        BY <1>3, <2>2, NoItem
    <2> QED BY <2>1, <2>2
<1>6. Lists(g)
    BY <1>4, <1>5 DEF Lists
<1>7. \A x : Has(FlattenSeq(g), x) <=> \E i \in 1 .. n : i \in A /\ x = e[i]
    BY <1>4, <1>5, <1>6, FlatHas
<1>8. ASSUME \A i, j \in 1 .. n : (i \in A /\ j \in A /\ e[i] = e[j]) => i = j
      PROVE  Once(FlattenSeq(g))
    <2>1. Apart(g)
        <3> SUFFICES ASSUME NEW i \in 1 .. n, NEW j \in 1 .. n, NEW x, Has(g[i], x), Has(g[j], x)
                     PROVE  i = j
            BY <1>4 DEF Apart
        <3>1. i \in A /\ j \in A /\ x = e[i] /\ x = e[j]
            BY <1>5
        <3> QED BY <1>8, <3>1
    <2> QED BY <1>4, <1>5, <1>6, <2>1, FlatOnce
<1> QED
    BY <1>1, <1>6, <1>7, <1>8, FlatList

-----------------------------------------------------------------------------
(* What a compact block keeps of its transactions.                          *)

\* The transactions, calls, outputs and nullifiers of a block are lists.
LEMMA RawLists ==
    ASSUME NEW b \in Hash
    PROVE  /\ IsList(RawTxs[b])
           /\ \A i \in 1 .. Len(RawTxs[b]) :
                 /\ IsList(RawTxs[b][i].calls)
                 /\ \A j \in 1 .. Len(RawTxs[b][i].calls) :
                       LET c == RawTxs[b][i].calls[j]
                       IN  IsList(c.outputs) /\ IsList(c.nullifiers) /\ CallShape(c)
<1>1. /\ RawTxs[b] \in Seq(Range(RawTxs[b]))
      /\ \A t \in Range(RawTxs[b]) :
            t.calls \in Seq(Range(t.calls)) /\ \A c \in Range(t.calls) : CallShape(c)
    BY RawTxsAssumption, ChainAssumption
<1>2. IsList(RawTxs[b])
    BY <1>1 DEF IsList, Range
<1>3. ASSUME NEW i \in 1 .. Len(RawTxs[b])
      PROVE  /\ IsList(RawTxs[b][i].calls)
             /\ \A j \in 1 .. Len(RawTxs[b][i].calls) :
                   LET c == RawTxs[b][i].calls[j]
                   IN  IsList(c.outputs) /\ IsList(c.nullifiers) /\ CallShape(c)
    <2>1. PICK t \in Range(RawTxs[b]) : t = RawTxs[b][i]
        <3>1. i \in DOMAIN RawTxs[b]
            BY <1>2, ListDomain
        <3> QED BY <3>1 DEF Range
    <2>2. IsList(t.calls)
        BY <1>1 DEF IsList, Range
    <2>3. ASSUME NEW j \in 1 .. Len(t.calls)
          PROVE  IsList(t.calls[j].outputs) /\ IsList(t.calls[j].nullifiers) /\ CallShape(t.calls[j])
        <3>1. PICK c \in Range(t.calls) : c = t.calls[j]
            <4>1. j \in DOMAIN t.calls
                BY <2>2, ListDomain
            <4> QED BY <4>1 DEF Range
        <3>2. CallShape(c)
            BY <1>1
        <3>3. IsList(c.outputs) /\ IsList(c.nullifiers)
            BY <3>2 DEF CallShape, IsList, Range
        <3> QED BY <3>1, <3>2, <3>3
    <2> QED BY <2>1, <2>2, <2>3
<1> QED
    BY <1>2, <1>3

OutputOf(c, k) == [coin |-> c.outputs[k].coin, func |-> c.func]

\* The outputs a call adds: those that are not spent in its transaction.
LEMMA CallOutputsItems ==
    ASSUME NEW c, IsList(c.outputs)
    PROVE  /\ IsList(CallOutputs(c))
           /\ \A x : Has(CallOutputs(c), x)
                        <=> \E k \in 1 .. Len(c.outputs) : Adds(c, c.outputs[k]) /\ x = OutputOf(c, k)
           /\ (\A k, l \in 1 .. Len(c.outputs) :
                  (Adds(c, c.outputs[k]) /\ Adds(c, c.outputs[l])
                       /\ c.outputs[k].coin = c.outputs[l].coin) => k = l) => Once(CallOutputs(c))
<1> DEFINE n == Len(c.outputs)
           A == {k \in 1 .. n : Adds(c, c.outputs[k])}
           e == [k \in 1 .. n |-> OutputOf(c, k)]
<1>1. n \in Nat /\ DOMAIN c.outputs = 1 .. n
    BY ListDomain
<1>2. CallOutputs(c) = Picked(n, A, e)
    <2>1. CallOutputs(c) = FlattenSeq([k \in 1 .. n |-> IF Adds(c, c.outputs[k])
                                                        THEN <<OutputOf(c, k)>> ELSE <<>>])
        BY <1>1 DEF CallOutputs, Concat, OutputOf
    <2>2. ASSUME NEW k \in 1 .. n
          PROVE  (IF Adds(c, c.outputs[k]) THEN <<OutputOf(c, k)>> ELSE <<>>)
                     = (IF k \in A THEN <<e[k]>> ELSE <<>>)
        OBVIOUS
    <2> HIDE DEF A, e, n
    <2>3. [k \in 1 .. n |-> IF Adds(c, c.outputs[k]) THEN <<OutputOf(c, k)>> ELSE <<>>]
              = [k \in 1 .. n |-> IF k \in A THEN <<e[k]>> ELSE <<>>]
        BY <2>2
    <2> QED BY <2>1, <2>3 DEF Picked
<1>3. \A k \in 1 .. n : (k \in A <=> Adds(c, c.outputs[k])) /\ e[k] = OutputOf(c, k)
    OBVIOUS
<1> HIDE DEF A, e
<1>4. /\ IsList(Picked(n, A, e))
      /\ \A x : Has(Picked(n, A, e), x) <=> \E k \in 1 .. n : k \in A /\ x = e[k]
      /\ (\A k, l \in 1 .. n : (k \in A /\ l \in A /\ e[k] = e[l]) => k = l) => Once(Picked(n, A, e))
    <2> HIDE DEF n
    <2> QED BY <1>1, PickedItems
<1>5. ASSUME NEW k \in 1 .. n, NEW l \in 1 .. n, e[k] = e[l]
      PROVE  c.outputs[k].coin = c.outputs[l].coin
    <2>1. OutputOf(c, k) = OutputOf(c, l)
        BY <1>3, <1>5
    <2>2. OutputOf(c, k).coin = c.outputs[k].coin /\ OutputOf(c, l).coin = c.outputs[l].coin
        BY DEF OutputOf
    <2> QED BY <2>1, <2>2
<1> HIDE DEF n
<1>6. ASSUME \A k, l \in 1 .. n : (Adds(c, c.outputs[k]) /\ Adds(c, c.outputs[l])
                 /\ c.outputs[k].coin = c.outputs[l].coin) => k = l
      PROVE  Once(CallOutputs(c))
    BY <1>2, <1>3, <1>4, <1>5, <1>6
<1>7. \A x : Has(CallOutputs(c), x) <=> \E k \in 1 .. n : Adds(c, c.outputs[k]) /\ x = OutputOf(c, k)
    BY <1>2, <1>3, <1>4
<1> QED
    BY <1>2, <1>4, <1>6, <1>7 DEF n

\* A list of lists given place by place.
LEMMA Placed ==
    ASSUME NEW n \in Nat, NEW g, g = [i \in 1 .. n |-> g[i]], \A i \in 1 .. n : IsList(g[i])
    PROVE  /\ Lists(g) /\ Len(g) = n /\ IsList(FlattenSeq(g))
           /\ \A x : Has(FlattenSeq(g), x) <=> \E i \in 1 .. n : Has(g[i], x)
<1>1. Lists(g) /\ Len(g) = n
    BY ListOf DEF Lists
<1> QED
    BY <1>1, FlatList, FlatHas

\* Lists placed one after the other, with nothing twice.
LEMMA PlacedOnce ==
    ASSUME NEW n \in Nat, NEW g, g = [i \in 1 .. n |-> g[i]], \A i \in 1 .. n : IsList(g[i]),
           \A i \in 1 .. n : Once(g[i]),
           \A i, j \in 1 .. n : \A x : Has(g[i], x) /\ Has(g[j], x) => i = j
    PROVE  Once(FlattenSeq(g))
<1>1. Lists(g) /\ Len(g) = n
    BY Placed
<1> QED
    BY <1>1, FlatOnce DEF Apart

\* An output a transaction adds: the k-th of its j-th call.
TxOutputAt(t, j, k) ==
    /\ j \in 1 .. Len(t.calls) /\ k \in 1 .. Len(t.calls[j].outputs)
    /\ Adds(t.calls[j], t.calls[j].outputs[k])

TxLists(t) ==
    /\ IsList(t.calls)
    /\ \A j \in 1 .. Len(t.calls) : IsList(t.calls[j].outputs) /\ IsList(t.calls[j].nullifiers)

\* The outputs of a compact transaction are those its calls add.
LEMMA TxOutputsItems ==
    ASSUME NEW t, TxLists(t)
    PROVE  /\ IsList(CompactTx(t).outputs)
           /\ \A x : Has(CompactTx(t).outputs, x)
                        <=> \E j, k : TxOutputAt(t, j, k) /\ x = OutputOf(t.calls[j], k)
           /\ (\A j, k, l, m : (TxOutputAt(t, j, k) /\ TxOutputAt(t, l, m)
                  /\ t.calls[j].outputs[k].coin = t.calls[l].outputs[m].coin) => j = l /\ k = m)
              => Once(CompactTx(t).outputs)
<1> DEFINE n == Len(t.calls)
           g == [j \in 1 .. n |-> CallOutputs(t.calls[j])]
<1>1. n \in Nat /\ DOMAIN t.calls = 1 .. n
    BY ListDomain DEF TxLists
<1>2. CompactTx(t).outputs = FlattenSeq(g)
    BY <1>1 DEF CompactTx, Concat
<1>3. g = [j \in 1 .. n |-> g[j]] /\ \A j \in 1 .. n : g[j] = CallOutputs(t.calls[j])
    OBVIOUS
<1> HIDE DEF g
<1>4. ASSUME NEW j \in 1 .. n
      PROVE  /\ IsList(g[j])
             /\ \A x : Has(g[j], x) <=> \E k : TxOutputAt(t, j, k) /\ x = OutputOf(t.calls[j], k)
             /\ (\A k, l : (TxOutputAt(t, j, k) /\ TxOutputAt(t, j, l)
                    /\ t.calls[j].outputs[k].coin = t.calls[j].outputs[l].coin) => k = l) => Once(g[j])
    <2>1. PICK c : c = t.calls[j]
        OBVIOUS
    <2>2. /\ IsList(CallOutputs(c))
          /\ \A x : Has(CallOutputs(c), x)
                        <=> \E k \in 1 .. Len(c.outputs) : Adds(c, c.outputs[k]) /\ x = OutputOf(c, k)
          /\ (\A k, l \in 1 .. Len(c.outputs) :
                  (Adds(c, c.outputs[k]) /\ Adds(c, c.outputs[l])
                       /\ c.outputs[k].coin = c.outputs[l].coin) => k = l) => Once(CallOutputs(c))
        <3>1. IsList(c.outputs)
            BY <2>1 DEF TxLists
        <3> QED BY <3>1, CallOutputsItems
    <2>3. \A k : TxOutputAt(t, j, k) <=> k \in 1 .. Len(c.outputs) /\ Adds(c, c.outputs[k])
        BY <2>1 DEF TxOutputAt
    <2> QED BY <1>3, <2>1, <2>2, <2>3
<1>6. /\ IsList(FlattenSeq(g))
      /\ \A x : Has(FlattenSeq(g), x) <=> \E j \in 1 .. n : Has(g[j], x)
    <2>1. \A j \in 1 .. n : IsList(g[j])
        BY <1>4
    <2> HIDE DEF n
    <2> QED BY <1>1, <1>3, <2>1, Placed
<1>7. \A x : Has(FlattenSeq(g), x) <=> \E j, k : TxOutputAt(t, j, k) /\ x = OutputOf(t.calls[j], k)
    <2>1. \A j, k : TxOutputAt(t, j, k) => j \in 1 .. n
        BY DEF TxOutputAt
    <2> QED BY <1>4, <1>6, <2>1
<1>8. ASSUME \A j, k, l, m : (TxOutputAt(t, j, k) /\ TxOutputAt(t, l, m)
                 /\ t.calls[j].outputs[k].coin = t.calls[l].outputs[m].coin) => j = l /\ k = m
      PROVE  Once(FlattenSeq(g))
    <2>1. \A j \in 1 .. n : Once(g[j])
        BY <1>4, <1>8
    <2>2. ASSUME NEW i \in 1 .. n, NEW j \in 1 .. n, NEW x, Has(g[i], x), Has(g[j], x)
          PROVE  i = j
        <3>1. PICK k : TxOutputAt(t, i, k) /\ x = OutputOf(t.calls[i], k)
            BY <1>4, <2>2
        <3>2. PICK l : TxOutputAt(t, j, l) /\ x = OutputOf(t.calls[j], l)
            BY <1>4, <2>2
        <3>3. t.calls[i].outputs[k].coin = t.calls[j].outputs[l].coin
            BY <3>1, <3>2 DEF OutputOf
        <3> QED BY <1>8, <3>1, <3>2, <3>3
    <2>3. \A j \in 1 .. n : IsList(g[j])
        BY <1>4
    <2> HIDE DEF n
    <2> QED BY <1>1, <1>3, <2>1, <2>2, <2>3, PlacedOnce
<1> QED
    BY <1>2, <1>6, <1>7, <1>8

\* A nullifier a transaction reveals: the k-th of its j-th call.
TxNullifierAt(t, j, k) ==
    /\ j \in 1 .. Len(t.calls) /\ k \in 1 .. Len(t.calls[j].nullifiers)
    /\ MoneyCall(t.calls[j]) /\ t.calls[j].func \in InputFunctions

\* The nullifiers of a compact transaction are those of its inputs.
LEMMA TxNullifiersItems ==
    ASSUME NEW t, TxLists(t)
    PROVE  /\ IsList(CompactTx(t).nullifiers)
           /\ \A x : Has(CompactTx(t).nullifiers, x)
                        <=> \E j, k : TxNullifierAt(t, j, k) /\ x = t.calls[j].nullifiers[k]
           /\ (\A j, k, l, m : (TxNullifierAt(t, j, k) /\ TxNullifierAt(t, l, m)
                  /\ t.calls[j].nullifiers[k] = t.calls[l].nullifiers[m]) => j = l /\ k = m)
              => Once(CompactTx(t).nullifiers)
<1> DEFINE n == Len(t.calls)
           g == [j \in 1 .. n |-> CallNullifiers(t.calls[j])]
<1>1. n \in Nat /\ DOMAIN t.calls = 1 .. n
    BY ListDomain DEF TxLists
<1>2. CompactTx(t).nullifiers = FlattenSeq(g)
    BY <1>1 DEF CompactTx, Concat
<1>3. g = [j \in 1 .. n |-> g[j]] /\ \A j \in 1 .. n : g[j] = CallNullifiers(t.calls[j])
    OBVIOUS
<1> HIDE DEF g
<1>4. ASSUME NEW j \in 1 .. n
      PROVE  /\ IsList(g[j])
             /\ \A x : Has(g[j], x) <=> \E k : TxNullifierAt(t, j, k) /\ x = t.calls[j].nullifiers[k]
             /\ (\A k, l : (TxNullifierAt(t, j, k) /\ TxNullifierAt(t, j, l)
                    /\ t.calls[j].nullifiers[k] = t.calls[j].nullifiers[l]) => k = l) => Once(g[j])
    <2>1. CASE MoneyCall(t.calls[j]) /\ t.calls[j].func \in InputFunctions
        <3>1. g[j] = t.calls[j].nullifiers
            BY <1>3, <2>1 DEF CallNullifiers
        <3>2. IsList(g[j])
            BY <3>1 DEF TxLists
        <3> QED BY <2>1, <3>1, <3>2 DEF TxNullifierAt, Has, Once
    <2>2. CASE ~ (MoneyCall(t.calls[j]) /\ t.calls[j].func \in InputFunctions)
        <3>1. g[j] = <<>>
            BY <1>3, <2>2 DEF CallNullifiers
        <3> QED BY <2>2, <3>1, NoItem DEF TxNullifierAt
    <2> QED BY <2>1, <2>2
<1>6. /\ IsList(FlattenSeq(g))
      /\ \A x : Has(FlattenSeq(g), x) <=> \E j \in 1 .. n : Has(g[j], x)
    <2>1. \A j \in 1 .. n : IsList(g[j])
        BY <1>4
    <2> HIDE DEF n
    <2> QED BY <1>1, <1>3, <2>1, Placed
<1>7. \A x : Has(FlattenSeq(g), x) <=> \E j, k : TxNullifierAt(t, j, k) /\ x = t.calls[j].nullifiers[k]
    <2>1. \A j, k : TxNullifierAt(t, j, k) => j \in 1 .. n
        BY DEF TxNullifierAt
    <2>2. ASSUME NEW x, NEW j \in 1 .. n
          PROVE  Has(g[j], x) <=> \E k : TxNullifierAt(t, j, k) /\ x = t.calls[j].nullifiers[k]
        BY <1>4
    <2> HIDE <1>4
    <2>3. ASSUME NEW x
          PROVE  Has(FlattenSeq(g), x) <=> \E j, k : TxNullifierAt(t, j, k) /\ x = t.calls[j].nullifiers[k]
        <3>1. ASSUME Has(FlattenSeq(g), x)
              PROVE  \E j, k : TxNullifierAt(t, j, k) /\ x = t.calls[j].nullifiers[k]
            <4>1. PICK j \in 1 .. n : Has(g[j], x)
                BY <1>6, <3>1
            <4>2. PICK k : TxNullifierAt(t, j, k) /\ x = t.calls[j].nullifiers[k]
                BY <2>2, <4>1
            <4> HIDE <2>2
            <4> QED BY <4>2
        <3>2. ASSUME NEW j, NEW k, TxNullifierAt(t, j, k), x = t.calls[j].nullifiers[k]
              PROVE  Has(FlattenSeq(g), x)
            <4>1. j \in 1 .. n
                BY <2>1, <3>2
            <4>2. Has(g[j], x)
                BY <2>2, <3>2, <4>1
            <4> QED BY <1>6, <4>1, <4>2
        <3> QED BY <3>1, <3>2
    <2> QED BY <2>3
<1>8. ASSUME \A j, k, l, m : (TxNullifierAt(t, j, k) /\ TxNullifierAt(t, l, m)
                 /\ t.calls[j].nullifiers[k] = t.calls[l].nullifiers[m]) => j = l /\ k = m
      PROVE  Once(FlattenSeq(g))
    <2>1. \A j \in 1 .. n : Once(g[j])
        BY <1>4, <1>8
    <2>2. ASSUME NEW i \in 1 .. n, NEW j \in 1 .. n, NEW x, Has(g[i], x), Has(g[j], x)
          PROVE  i = j
        <3>1. PICK k : TxNullifierAt(t, i, k) /\ x = t.calls[i].nullifiers[k]
            BY <1>4, <2>2
        <3>2. PICK l : TxNullifierAt(t, j, l) /\ x = t.calls[j].nullifiers[l]
            BY <1>4, <2>2
        <3> QED BY <1>8, <3>1, <3>2
    <2>3. \A j \in 1 .. n : IsList(g[j])
        BY <1>4
    <2> HIDE DEF n
    <2> QED BY <1>1, <1>3, <2>1, <2>2, <2>3, PlacedOnce
<1> QED
    BY <1>2, <1>6, <1>7, <1>8

\* An output and a nullifier of a block: of the j-th call of its i-th transaction.
OutputAt(b, i, j, k) == i \in 1 .. Len(RawTxs[b]) /\ TxOutputAt(RawTxs[b][i], j, k)
CoinAt(b, i, j, k)   == RawTxs[b][i].calls[j].outputs[k].coin
OutputItem(b, i, j, k) ==
    [tx |-> RawTxs[b][i].hash, coin |-> CoinAt(b, i, j, k), func |-> RawTxs[b][i].calls[j].func]
NullifierAt(b, i, j, k) == i \in 1 .. Len(RawTxs[b]) /\ TxNullifierAt(RawTxs[b][i], j, k)
NullifierItem(b, i, j, k) == RawTxs[b][i].calls[j].nullifiers[k]

\* A transaction of a block, with calls that decode.
LEMMA TxOf ==
    ASSUME NEW b \in Hash, NEW i \in 1 .. Len(RawTxs[b])
    PROVE  /\ TxLists(RawTxs[b][i])
           /\ \A j \in 1 .. Len(RawTxs[b][i].calls) : CallShape(RawTxs[b][i].calls[j])
BY RawLists DEF TxLists

\* What ChainAssumption says of transaction i of b, with calls t, and transaction
\* m of c, with calls u.
OnePlace(b, c, i, m, t, u) ==
    /\ RawTxs[b][i].hash = RawTxs[c][m].hash => b = c /\ i = m
    /\ \A j \in DOMAIN t, n \in DOMAIN u : MoneyCall(t[j]) /\ MoneyCall(u[n]) =>
          /\ \A k \in DOMAIN t[j].outputs, l \in DOMAIN u[n].outputs :
                t[j].outputs[k].coin = u[n].outputs[l].coin => b = c /\ i = m /\ j = n /\ k = l
          /\ \A k \in DOMAIN t[j].nullifiers, l \in DOMAIN u[n].nullifiers :
                t[j].nullifiers[k] = u[n].nullifiers[l] => b = c /\ i = m /\ j = n /\ k = l

LEMMA OnePlaces ==
    \A top \in Hash : \A b, c \in Ancestors[top] :
        \A i \in DOMAIN RawTxs[b], m \in DOMAIN RawTxs[c] :
            OnePlace(b, c, i, m, RawTxs[b][i].calls, RawTxs[c][m].calls)
BY ChainAssumption, Zenon DEF OnePlace

\* A hash, a coin or a nullifier has one place on a chain.
LEMMA ChainPlaces ==
    ASSUME NEW top \in Hash, NEW b \in Ancestors[top], NEW c \in Ancestors[top],
           NEW i \in 1 .. Len(RawTxs[b]), NEW m \in 1 .. Len(RawTxs[c])
    PROVE  /\ RawTxs[b][i].hash = RawTxs[c][m].hash => b = c /\ i = m
           /\ \A j, k, n, l : (OutputAt(b, i, j, k) /\ OutputAt(c, m, n, l)
                                  /\ CoinAt(b, i, j, k) = CoinAt(c, m, n, l))
                                      => b = c /\ i = m /\ j = n /\ k = l
           /\ \A j, k, n, l : (NullifierAt(b, i, j, k) /\ NullifierAt(c, m, n, l)
                                  /\ NullifierItem(b, i, j, k) = NullifierItem(c, m, n, l))
                                      => b = c /\ i = m /\ j = n /\ k = l
<1>1. b \in Hash /\ c \in Hash
    BY ForkTreeAssumption
<1>2. /\ i \in DOMAIN RawTxs[b] /\ m \in DOMAIN RawTxs[c]
      /\ TxLists(RawTxs[b][i]) /\ TxLists(RawTxs[c][m])
    BY <1>1, RawLists, ListDomain, TxOf
<1>3. PICK t : t = RawTxs[b][i].calls
    OBVIOUS
<1>4. PICK u : u = RawTxs[c][m].calls
    OBVIOUS
<1>5. /\ RawTxs[b][i].hash = RawTxs[c][m].hash => b = c /\ i = m
      /\ \A j \in DOMAIN t, n \in DOMAIN u : MoneyCall(t[j]) /\ MoneyCall(u[n]) =>
            /\ \A k \in DOMAIN t[j].outputs, l \in DOMAIN u[n].outputs :
                  t[j].outputs[k].coin = u[n].outputs[l].coin => b = c /\ i = m /\ j = n /\ k = l
            /\ \A k \in DOMAIN t[j].nullifiers, l \in DOMAIN u[n].nullifiers :
                  t[j].nullifiers[k] = u[n].nullifiers[l] => b = c /\ i = m /\ j = n /\ k = l
    <2>1. OnePlace(b, c, i, m, RawTxs[b][i].calls, RawTxs[c][m].calls)
        BY <1>2, OnePlaces, Zenon
    <2>2. OnePlace(b, c, i, m, t, u)
        BY <2>1, <1>3, <1>4, Zenon
    <2> QED BY <2>2, Zenon DEF OnePlace
<1>6. /\ DOMAIN t = 1 .. Len(t) /\ DOMAIN u = 1 .. Len(u)
      /\ \A j \in 1 .. Len(t) : /\ DOMAIN t[j].outputs = 1 .. Len(t[j].outputs)
                                /\ DOMAIN t[j].nullifiers = 1 .. Len(t[j].nullifiers)
      /\ \A j \in 1 .. Len(u) : /\ DOMAIN u[j].outputs = 1 .. Len(u[j].outputs)
                                /\ DOMAIN u[j].nullifiers = 1 .. Len(u[j].nullifiers)
    <2>1. IsList(t) /\ \A j \in 1 .. Len(t) : IsList(t[j].outputs) /\ IsList(t[j].nullifiers)
        BY <1>2, <1>3 DEF TxLists
    <2>2. IsList(u) /\ \A j \in 1 .. Len(u) : IsList(u[j].outputs) /\ IsList(u[j].nullifiers)
        BY <1>2, <1>4 DEF TxLists
    <2> QED BY <2>1, <2>2, ListDomain
<1>7. ASSUME NEW j, NEW k, NEW n, NEW l, OutputAt(b, i, j, k), OutputAt(c, m, n, l),
             CoinAt(b, i, j, k) = CoinAt(c, m, n, l)
      PROVE  b = c /\ i = m /\ j = n /\ k = l
    <2>1. /\ j \in 1 .. Len(t) /\ k \in 1 .. Len(t[j].outputs) /\ MoneyCall(t[j])
          /\ n \in 1 .. Len(u) /\ l \in 1 .. Len(u[n].outputs) /\ MoneyCall(u[n])
        BY <1>3, <1>4, <1>7 DEF OutputAt, TxOutputAt, Adds
    <2>2. t[j].outputs[k].coin = u[n].outputs[l].coin
        BY <1>3, <1>4, <1>7 DEF CoinAt
    <2>3. /\ j \in DOMAIN t /\ n \in DOMAIN u
          /\ k \in DOMAIN t[j].outputs /\ l \in DOMAIN u[n].outputs
        BY <1>6, <2>1
    <2> QED BY <1>5, <2>1, <2>2, <2>3, SMTT(30)
<1>8. ASSUME NEW j, NEW k, NEW n, NEW l, NullifierAt(b, i, j, k), NullifierAt(c, m, n, l),
             NullifierItem(b, i, j, k) = NullifierItem(c, m, n, l)
      PROVE  b = c /\ i = m /\ j = n /\ k = l
    <2>1. /\ j \in 1 .. Len(t) /\ k \in 1 .. Len(t[j].nullifiers) /\ MoneyCall(t[j])
          /\ n \in 1 .. Len(u) /\ l \in 1 .. Len(u[n].nullifiers) /\ MoneyCall(u[n])
        BY <1>3, <1>4, <1>8 DEF NullifierAt, TxNullifierAt
    <2>2. t[j].nullifiers[k] = u[n].nullifiers[l]
        BY <1>3, <1>4, <1>8 DEF NullifierItem
    <2>3. /\ j \in DOMAIN t /\ n \in DOMAIN u
          /\ k \in DOMAIN t[j].nullifiers /\ l \in DOMAIN u[n].nullifiers
        BY <1>6, <2>1
    <2> QED BY <1>5, <2>1, <2>2, <2>3
<1> QED
    BY <1>5, <1>7, <1>8

\* A block is on the chain below it.
LEMMA OwnAncestor == ASSUME NEW b \in Hash PROVE b \in Ancestors[b]
BY LinkAssumption, ForkTreeAssumption

\* The transactions a compact block keeps.
TxKept(t) == CompactTx(t).outputs # <<>> \/ CompactTx(t).nullifiers # <<>>

\* A compact block has the transactions with outputs or nullifiers, once.
LEMMA TxsItems ==
    ASSUME NEW b \in Hash
    PROVE  /\ IsList(CompactBlocks[b].txs) /\ Once(CompactBlocks[b].txs)
           /\ \A y : Has(CompactBlocks[b].txs, y)
                        <=> \E i \in 1 .. Len(RawTxs[b]) : TxKept(RawTxs[b][i]) /\ y = CompactTx(RawTxs[b][i])
<1> DEFINE n == Len(RawTxs[b])
           A == {i \in 1 .. n : TxKept(RawTxs[b][i])}
           e == [i \in 1 .. n |-> CompactTx(RawTxs[b][i])]
<1>1. n \in Nat /\ DOMAIN RawTxs[b] = 1 .. n
    BY RawLists, ListDomain
<1>2. CompactBlocks[b].txs = Picked(n, A, e)
    <2>1. CompactBlocks[b].txs = FlattenSeq([i \in 1 .. n |-> IF TxKept(RawTxs[b][i])
                                                 THEN <<CompactTx(RawTxs[b][i])>> ELSE <<>>])
        BY <1>1 DEF CompactBlocks, ProcessBlock, Concat, TxKept
    <2>2. \A i \in 1 .. n : (i \in A <=> TxKept(RawTxs[b][i])) /\ e[i] = CompactTx(RawTxs[b][i])
        OBVIOUS
    <2> HIDE DEF A, e, n
    <2>3. [i \in 1 .. n |-> IF TxKept(RawTxs[b][i]) THEN <<CompactTx(RawTxs[b][i])>> ELSE <<>>]
              = [i \in 1 .. n |-> IF i \in A THEN <<e[i]>> ELSE <<>>]
        BY <2>2
    <2> QED BY <2>1, <2>3 DEF Picked
<1>3. \A i \in 1 .. n : (i \in A <=> TxKept(RawTxs[b][i])) /\ e[i] = CompactTx(RawTxs[b][i])
    OBVIOUS
<1> HIDE DEF A, e
<1>4. /\ IsList(Picked(n, A, e))
      /\ \A x : Has(Picked(n, A, e), x) <=> \E i \in 1 .. n : i \in A /\ x = e[i]
      /\ (\A i, j \in 1 .. n : (i \in A /\ j \in A /\ e[i] = e[j]) => i = j) => Once(Picked(n, A, e))
    <2> HIDE DEF n
    <2> QED BY <1>1, PickedItems
<1>5. ASSUME NEW i \in 1 .. n, NEW j \in 1 .. n, e[i] = e[j] PROVE i = j
    <2>1. CompactTx(RawTxs[b][i]).tx_hash = RawTxs[b][i].hash /\ CompactTx(RawTxs[b][j]).tx_hash = RawTxs[b][j].hash
        BY DEF CompactTx
    <2>2. RawTxs[b][i].hash = RawTxs[b][j].hash
        BY <1>3, <1>5, <2>1
    <2> QED BY <2>2, OwnAncestor, ChainPlaces
<1> QED
    BY <1>2, <1>3, <1>4, <1>5

\* The outputs of a transaction, each named for it.
LEMMA Labelled ==
    ASSUME NEW h, NEW s, IsList(s), \A o : Has(s, o) => o = [coin |-> o.coin, func |-> o.func],
           NEW g, g = [k \in DOMAIN s |-> [tx |-> h, coin |-> s[k].coin, func |-> s[k].func]]
    PROVE  /\ IsList(g) /\ (Once(s) => Once(g))
           /\ \A x : Has(g, x) <=> \E o : Has(s, o) /\ x = [tx |-> h, coin |-> o.coin, func |-> o.func]
<1>1. PICK n \in Nat : n = Len(s) /\ DOMAIN s = 1 .. n
    BY ListDomain
<1>2. g = [k \in 1 .. n |-> g[k]] /\ \A k \in 1 .. n : g[k] = [tx |-> h, coin |-> s[k].coin, func |-> s[k].func]
    BY <1>1
<1>3. IsList(g) /\ Len(g) = n
    BY <1>2, ListOf
<1>4. ASSUME Once(s), NEW i \in 1 .. n, NEW j \in 1 .. n, g[i] = g[j] PROVE i = j
    <2>1. s[i].coin = s[j].coin /\ s[i].func = s[j].func
        BY <1>2, <1>4
    <2>2. Has(s, s[i]) /\ Has(s, s[j])
        BY <1>1 DEF Has
    <2>3. s[i] = [coin |-> s[i].coin, func |-> s[i].func] /\ s[j] = [coin |-> s[j].coin, func |-> s[j].func]
        BY <2>2
    <2>4. s[i] = s[j]
        BY <2>1, <2>3
    <2> QED BY <1>1, <1>4, <2>4 DEF Once
<1>5. ASSUME NEW x
      PROVE  Has(g, x) <=> \E o : Has(s, o) /\ x = [tx |-> h, coin |-> o.coin, func |-> o.func]
    BY <1>1, <1>2, <1>3 DEF Has
<1> QED
    BY <1>3, <1>4, <1>5 DEF Once

\* The outputs sent of a block are those its calls add, each once.
LEMMA OutputsItems ==
    ASSUME NEW b \in Hash
    PROVE  /\ IsList(Outputs(b)) /\ Once(Outputs(b))
           /\ \A x : Has(Outputs(b), x) <=> \E i, j, k : OutputAt(b, i, j, k) /\ x = OutputItem(b, i, j, k)
<1> DEFINE txs == CompactBlocks[b].txs
           n == Len(txs)
           of(t) == [k \in DOMAIN t.outputs |->
                        [tx |-> t.tx_hash, coin |-> t.outputs[k].coin, func |-> t.outputs[k].func]]
           g == [p \in 1 .. n |-> of(txs[p])]
<1>1. /\ IsList(txs) /\ Once(txs)
      /\ \A y : Has(txs, y)
                    <=> \E i \in 1 .. Len(RawTxs[b]) : TxKept(RawTxs[b][i]) /\ y = CompactTx(RawTxs[b][i])
    BY TxsItems
<1>2. n \in Nat /\ DOMAIN txs = 1 .. n
    BY <1>1, ListDomain
<1>3. Outputs(b) = FlattenSeq(g)
    BY <1>2 DEF Outputs, Concat
<1>4. g = [p \in 1 .. n |-> g[p]] /\ \A p \in 1 .. n : g[p] = of(txs[p])
    OBVIOUS
<1> HIDE DEF g, txs
<1>5. ASSUME NEW i \in 1 .. Len(RawTxs[b])
      PROVE  LET s == of(CompactTx(RawTxs[b][i]))
             IN  /\ IsList(s) /\ Once(s)
                 /\ \A x : Has(s, x) <=> \E j, k : OutputAt(b, i, j, k) /\ x = OutputItem(b, i, j, k)
    <2>1. PICK t : t = RawTxs[b][i]
        OBVIOUS
    <2>2. TxLists(t)
        BY <2>1, TxOf
    <2>3. PICK o : o = CompactTx(t).outputs
        OBVIOUS
    <2>4. /\ IsList(o)
          /\ \A x : Has(o, x) <=> \E j, k : TxOutputAt(t, j, k) /\ x = OutputOf(t.calls[j], k)
          /\ (\A j, k, l, m : (TxOutputAt(t, j, k) /\ TxOutputAt(t, l, m)
                  /\ t.calls[j].outputs[k].coin = t.calls[l].outputs[m].coin) => j = l /\ k = m)
              => Once(o)
        BY <2>2, <2>3, TxOutputsItems
    <2>5. ASSUME NEW j, NEW k, NEW l, NEW m, TxOutputAt(t, j, k), TxOutputAt(t, l, m),
                 t.calls[j].outputs[k].coin = t.calls[l].outputs[m].coin
          PROVE  j = l /\ k = m
        <3>1. /\ OutputAt(b, i, j, k) /\ OutputAt(b, i, l, m) /\ CoinAt(b, i, j, k) = CoinAt(b, i, l, m)
            BY <2>1, <2>5 DEF OutputAt, CoinAt
        <3> QED BY <3>1, OwnAncestor, ChainPlaces
    <2>6. Once(o)
        BY <2>4, <2>5
    <2>7. ASSUME NEW y, Has(o, y) PROVE y = [coin |-> y.coin, func |-> y.func]
        <3>1. PICK j, k : y = OutputOf(t.calls[j], k)
            BY <2>4, <2>7
        <3> QED BY <3>1 DEF OutputOf
    <2>8. PICK s : s = of(CompactTx(t))
        OBVIOUS
    <2>9. s = [k \in DOMAIN o |-> [tx |-> t.hash, coin |-> o[k].coin, func |-> o[k].func]]
        BY <2>3, <2>8 DEF CompactTx
    <2>10. /\ IsList(s) /\ Once(s)
           /\ \A x : Has(s, x) <=> \E y : Has(o, y) /\ x = [tx |-> t.hash, coin |-> y.coin, func |-> y.func]
        <3>1. PICK h : h = t.hash
            OBVIOUS
        <3>2. s = [k \in DOMAIN o |-> [tx |-> h, coin |-> o[k].coin, func |-> o[k].func]]
            BY <2>9, <3>1
        <3>3. \A y : Has(o, y) => y = [coin |-> y.coin, func |-> y.func]
            BY <2>7
        <3>4. /\ IsList(s) /\ (Once(o) => Once(s))
              /\ \A x : Has(s, x) <=> \E y : Has(o, y) /\ x = [tx |-> h, coin |-> y.coin, func |-> y.func]
            <4>1. IsList(o)
                BY <2>4
            <4> HIDE <2>4, <2>7, <2>9
            <4> QED BY <3>2, <3>3, <4>1, Labelled, SMTT(30)
        <3> QED BY <2>6, <3>1, <3>4
    <2>11. ASSUME NEW x
           PROVE  Has(s, x) <=> \E j, k : OutputAt(b, i, j, k) /\ x = OutputItem(b, i, j, k)
        <3>1. ASSUME NEW j, NEW k
              PROVE  /\ OutputAt(b, i, j, k) <=> TxOutputAt(t, j, k)
                     /\ OutputItem(b, i, j, k) = [tx |-> t.hash, coin |-> OutputOf(t.calls[j], k).coin,
                                                  func |-> OutputOf(t.calls[j], k).func]
            BY <2>1 DEF OutputAt, OutputItem, OutputOf, CoinAt
        <3>2. ASSUME Has(s, x) PROVE \E j, k : OutputAt(b, i, j, k) /\ x = OutputItem(b, i, j, k)
            <4>1. PICK y : Has(o, y) /\ x = [tx |-> t.hash, coin |-> y.coin, func |-> y.func]
                BY <2>10, <3>2
            <4>2. PICK j, k : TxOutputAt(t, j, k) /\ y = OutputOf(t.calls[j], k)
                BY <2>4, <4>1
            <4> QED BY <3>1, <4>1, <4>2
        <3>3. ASSUME NEW j, NEW k, OutputAt(b, i, j, k), x = OutputItem(b, i, j, k) PROVE Has(s, x)
            <4>1. Has(o, OutputOf(t.calls[j], k))
                BY <2>4, <3>1, <3>3
            <4>2. x = [tx |-> t.hash, coin |-> OutputOf(t.calls[j], k).coin, func |-> OutputOf(t.calls[j], k).func]
                BY <3>1, <3>3
            <4> QED BY <2>10, <4>1, <4>2
        <3> QED BY <3>2, <3>3
    <2> QED BY <2>1, <2>8, <2>10, <2>11
<1> HIDE DEF of
<1>6. ASSUME NEW p \in 1 .. n
      PROVE  \E i \in 1 .. Len(RawTxs[b]) :
                 TxKept(RawTxs[b][i]) /\ txs[p] = CompactTx(RawTxs[b][i]) /\ g[p] = of(CompactTx(RawTxs[b][i]))
    <2>1. Has(txs, txs[p])
        BY DEF Has
    <2> QED BY <1>1, <1>4, <2>1
<1>7. \A p \in 1 .. n : IsList(g[p]) /\ Once(g[p])
    BY <1>5, <1>6
<1>8. /\ IsList(FlattenSeq(g)) /\ \A x : Has(FlattenSeq(g), x) <=> \E p \in 1 .. n : Has(g[p], x)
    <2> HIDE DEF n
    <2> QED BY <1>2, <1>4, <1>7, Placed
<1>9. ASSUME NEW p \in 1 .. n, NEW q \in 1 .. n, NEW x, Has(g[p], x), Has(g[q], x) PROVE p = q
    <2>1. PICK i \in 1 .. Len(RawTxs[b]) : txs[p] = CompactTx(RawTxs[b][i]) /\ g[p] = of(CompactTx(RawTxs[b][i]))
        BY <1>6
    <2>2. PICK m \in 1 .. Len(RawTxs[b]) : txs[q] = CompactTx(RawTxs[b][m]) /\ g[q] = of(CompactTx(RawTxs[b][m]))
        BY <1>6
    <2>3. PICK j, k : OutputAt(b, i, j, k) /\ x = OutputItem(b, i, j, k)
        BY <1>5, <1>9, <2>1
    <2>4. PICK u, v : OutputAt(b, m, u, v) /\ x = OutputItem(b, m, u, v)
        BY <1>5, <1>9, <2>2
    <2>5. CoinAt(b, i, j, k) = CoinAt(b, m, u, v)
        BY <2>3, <2>4 DEF OutputItem
    <2>6. i = m
        BY <2>3, <2>4, <2>5, OwnAncestor, ChainPlaces
    <2>7. txs[p] = txs[q]
        BY <2>1, <2>2, <2>6
    <2> QED BY <1>1, <2>7 DEF Once
<1>10. Once(FlattenSeq(g))
    <2> HIDE DEF n
    <2> QED BY <1>2, <1>4, <1>7, <1>9, PlacedOnce
<1>11. ASSUME NEW x
       PROVE  Has(FlattenSeq(g), x) <=> \E i, j, k : OutputAt(b, i, j, k) /\ x = OutputItem(b, i, j, k)
    <2>1. ASSUME Has(FlattenSeq(g), x) PROVE \E i, j, k : OutputAt(b, i, j, k) /\ x = OutputItem(b, i, j, k)
        <3>1. PICK p \in 1 .. n : Has(g[p], x)
            BY <1>8, <2>1
        <3>2. PICK i \in 1 .. Len(RawTxs[b]) : g[p] = of(CompactTx(RawTxs[b][i]))
            BY <1>6
        <3>3. PICK j, k : OutputAt(b, i, j, k) /\ x = OutputItem(b, i, j, k)
            BY <1>5, <3>1, <3>2
        <3> QED BY <3>3
    <2>2. ASSUME NEW i, NEW j, NEW k, OutputAt(b, i, j, k), x = OutputItem(b, i, j, k)
          PROVE  Has(FlattenSeq(g), x)
        <3>1. i \in 1 .. Len(RawTxs[b]) /\ TxOutputAt(RawTxs[b][i], j, k)
            BY <2>2 DEF OutputAt
        <3>2. TxKept(RawTxs[b][i])
            <4>1. PICK t : t = RawTxs[b][i]
                OBVIOUS
            <4>2. Has(CompactTx(t).outputs, OutputOf(t.calls[j], k))
                BY <3>1, <4>1, TxOf, TxOutputsItems
            <4>3. CompactTx(t).outputs # <<>>
                BY <4>2, NoItem
            <4> QED BY <4>1, <4>3 DEF TxKept
        <3>3. PICK p \in 1 .. n : txs[p] = CompactTx(RawTxs[b][i])
            BY <1>1, <3>1, <3>2 DEF Has
        <3>4. g[p] = of(CompactTx(RawTxs[b][i]))
            BY <1>4, <3>3
        <3>5. Has(g[p], x)
            BY <1>5, <2>2, <3>1, <3>4
        <3> QED BY <1>8, <3>5
    <2> QED BY <2>1, <2>2
<1> QED
    BY <1>3, <1>8, <1>10, <1>11

\* The nullifiers of a block, as they are sent.
Nullifiers(b) == Concat(CompactBlocks[b].txs, LAMBDA t : t.nullifiers)

\* The nullifiers sent of a block are those of its inputs, each once.
LEMMA NullifiersItems ==
    ASSUME NEW b \in Hash
    PROVE  /\ IsList(Nullifiers(b)) /\ Once(Nullifiers(b))
           /\ \A x : Has(Nullifiers(b), x)
                         <=> \E i, j, k : NullifierAt(b, i, j, k) /\ x = NullifierItem(b, i, j, k)
<1> DEFINE txs == CompactBlocks[b].txs
           n == Len(txs)
           g == [p \in 1 .. n |-> txs[p].nullifiers]
<1>1. /\ IsList(txs) /\ Once(txs)
      /\ \A y : Has(txs, y)
                    <=> \E i \in 1 .. Len(RawTxs[b]) : TxKept(RawTxs[b][i]) /\ y = CompactTx(RawTxs[b][i])
    BY TxsItems
<1>2. n \in Nat /\ DOMAIN txs = 1 .. n
    BY <1>1, ListDomain
<1>3. Nullifiers(b) = FlattenSeq(g)
    BY <1>2 DEF Nullifiers, Concat
<1>4. g = [p \in 1 .. n |-> g[p]] /\ \A p \in 1 .. n : g[p] = txs[p].nullifiers
    OBVIOUS
<1> HIDE DEF g, txs
<1>5. ASSUME NEW i \in 1 .. Len(RawTxs[b])
      PROVE  LET s == CompactTx(RawTxs[b][i]).nullifiers
             IN  /\ IsList(s) /\ Once(s)
                 /\ \A x : Has(s, x) <=> \E j, k : NullifierAt(b, i, j, k) /\ x = NullifierItem(b, i, j, k)
    <2>1. PICK t : t = RawTxs[b][i]
        OBVIOUS
    <2>2. TxLists(t)
        BY <2>1, TxOf
    <2>3. PICK s : s = CompactTx(t).nullifiers
        OBVIOUS
    <2>4. /\ IsList(s)
          /\ \A x : Has(s, x) <=> \E j, k : TxNullifierAt(t, j, k) /\ x = t.calls[j].nullifiers[k]
          /\ (\A j, k, l, m : (TxNullifierAt(t, j, k) /\ TxNullifierAt(t, l, m)
                  /\ t.calls[j].nullifiers[k] = t.calls[l].nullifiers[m]) => j = l /\ k = m)
              => Once(s)
        <3>1. /\ IsList(CompactTx(t).nullifiers)
              /\ \A x : Has(CompactTx(t).nullifiers, x)
                            <=> \E j, k : TxNullifierAt(t, j, k) /\ x = t.calls[j].nullifiers[k]
              /\ (\A j, k, l, m : (TxNullifierAt(t, j, k) /\ TxNullifierAt(t, l, m)
                     /\ t.calls[j].nullifiers[k] = t.calls[l].nullifiers[m]) => j = l /\ k = m)
                 => Once(CompactTx(t).nullifiers)
            BY <2>2, TxNullifiersItems
        <3> QED BY <2>3, <3>1
    <2>5. ASSUME NEW j, NEW k, NEW l, NEW m, TxNullifierAt(t, j, k), TxNullifierAt(t, l, m),
                 t.calls[j].nullifiers[k] = t.calls[l].nullifiers[m]
          PROVE  j = l /\ k = m
        <3>1. /\ NullifierAt(b, i, j, k) /\ NullifierAt(b, i, l, m)
              /\ NullifierItem(b, i, j, k) = NullifierItem(b, i, l, m)
            BY <2>1, <2>5 DEF NullifierAt, NullifierItem
        <3> QED BY <3>1, OwnAncestor, ChainPlaces
    <2>6. Once(s)
        BY <2>4, <2>5
    <2>7. ASSUME NEW j, NEW k
          PROVE  /\ NullifierAt(b, i, j, k) <=> TxNullifierAt(t, j, k)
                 /\ NullifierItem(b, i, j, k) = t.calls[j].nullifiers[k]
        BY <2>1 DEF NullifierAt, NullifierItem
    <2>8. ASSUME NEW x
          PROVE  Has(s, x) <=> \E j, k : NullifierAt(b, i, j, k) /\ x = NullifierItem(b, i, j, k)
        <3>1. ASSUME Has(s, x) PROVE \E j, k : NullifierAt(b, i, j, k) /\ x = NullifierItem(b, i, j, k)
            <4>1. PICK j, k : TxNullifierAt(t, j, k) /\ x = t.calls[j].nullifiers[k]
                BY <2>4, <3>1
            <4> QED BY <2>7, <4>1
        <3>2. ASSUME NEW j, NEW k, NullifierAt(b, i, j, k), x = NullifierItem(b, i, j, k) PROVE Has(s, x)
            BY <2>4, <2>7, <3>2
        <3> QED BY <3>1, <3>2
    <2> QED BY <2>1, <2>3, <2>4, <2>6, <2>8
<1>6. ASSUME NEW p \in 1 .. n
      PROVE  \E i \in 1 .. Len(RawTxs[b]) :
                 txs[p] = CompactTx(RawTxs[b][i]) /\ g[p] = CompactTx(RawTxs[b][i]).nullifiers
    <2>1. Has(txs, txs[p])
        BY DEF Has
    <2> QED BY <1>1, <1>4, <2>1
<1>7. \A p \in 1 .. n : IsList(g[p]) /\ Once(g[p])
    BY <1>5, <1>6
<1>8. /\ IsList(FlattenSeq(g)) /\ \A x : Has(FlattenSeq(g), x) <=> \E p \in 1 .. n : Has(g[p], x)
    <2> HIDE DEF n
    <2> QED BY <1>2, <1>4, <1>7, Placed
<1>9. ASSUME NEW p \in 1 .. n, NEW q \in 1 .. n, NEW x, Has(g[p], x), Has(g[q], x) PROVE p = q
    <2>1. PICK i \in 1 .. Len(RawTxs[b]) : txs[p] = CompactTx(RawTxs[b][i]) /\ g[p] = CompactTx(RawTxs[b][i]).nullifiers
        BY <1>6
    <2>2. PICK m \in 1 .. Len(RawTxs[b]) : txs[q] = CompactTx(RawTxs[b][m]) /\ g[q] = CompactTx(RawTxs[b][m]).nullifiers
        BY <1>6
    <2>3. PICK j, k : NullifierAt(b, i, j, k) /\ x = NullifierItem(b, i, j, k)
        BY <1>5, <1>9, <2>1
    <2>4. PICK u, v : NullifierAt(b, m, u, v) /\ x = NullifierItem(b, m, u, v)
        BY <1>5, <1>9, <2>2
    <2>5. NullifierItem(b, i, j, k) = NullifierItem(b, m, u, v)
        BY <2>3, <2>4
    <2>6. i = m
        BY <2>3, <2>4, <2>5, OwnAncestor, ChainPlaces
    <2>7. txs[p] = txs[q]
        BY <2>1, <2>2, <2>6
    <2> QED BY <1>1, <2>7 DEF Once
<1>10. Once(FlattenSeq(g))
    <2> HIDE DEF n
    <2> QED BY <1>2, <1>4, <1>7, <1>9, PlacedOnce
<1>11. ASSUME NEW x
       PROVE  Has(FlattenSeq(g), x) <=> \E i, j, k : NullifierAt(b, i, j, k) /\ x = NullifierItem(b, i, j, k)
    <2>1. ASSUME Has(FlattenSeq(g), x)
          PROVE  \E i, j, k : NullifierAt(b, i, j, k) /\ x = NullifierItem(b, i, j, k)
        <3>1. PICK p \in 1 .. n : Has(g[p], x)
            BY <1>8, <2>1
        <3>2. PICK i \in 1 .. Len(RawTxs[b]) : g[p] = CompactTx(RawTxs[b][i]).nullifiers
            BY <1>6
        <3>3. PICK j, k : NullifierAt(b, i, j, k) /\ x = NullifierItem(b, i, j, k)
            BY <1>5, <3>1, <3>2
        <3> QED BY <3>3
    <2>2. ASSUME NEW i, NEW j, NEW k, NullifierAt(b, i, j, k), x = NullifierItem(b, i, j, k)
          PROVE  Has(FlattenSeq(g), x)
        <3>1. i \in 1 .. Len(RawTxs[b]) /\ TxNullifierAt(RawTxs[b][i], j, k)
            BY <2>2 DEF NullifierAt
        <3>2. Has(CompactTx(RawTxs[b][i]).nullifiers, x)
            BY <1>5, <2>2, <3>1
        <3>3. TxKept(RawTxs[b][i])
            BY <3>2, NoItem DEF TxKept
        <3>4. PICK p \in 1 .. n : txs[p] = CompactTx(RawTxs[b][i])
            BY <1>1, <3>1, <3>3 DEF Has
        <3>5. Has(g[p], x)
            BY <1>4, <3>2, <3>4
        <3> QED BY <1>8, <3>5
    <2> QED BY <2>1, <2>2
<1> QED
    BY <1>3, <1>8, <1>10, <1>11

\* Records of some calls of a block: the items e[i][j] of the places j \in P[i].
Grid(n, m, P, e) == FlattenSeq([i \in 1 .. n |-> Picked(m[i], P[i], e[i])])

\* What is picked of the rows of a grid.
LEMMA GridItems ==
    ASSUME NEW n \in Nat, NEW m, \A i \in 1 .. n : m[i] \in Nat, NEW P, NEW e
    PROVE  /\ IsList(Grid(n, m, P, e))
           /\ \A x : Has(Grid(n, m, P, e), x)
                        <=> \E i \in 1 .. n : \E j \in 1 .. m[i] : j \in P[i] /\ x = e[i][j]
           /\ (\A i, k \in 1 .. n : \A j \in 1 .. m[i] : \A l \in 1 .. m[k] :
                  (j \in P[i] /\ l \in P[k] /\ e[i][j] = e[k][l]) => i = k /\ j = l)
              => Once(Grid(n, m, P, e))
<1> DEFINE g == [i \in 1 .. n |-> Picked(m[i], P[i], e[i])]
<1>1. g = [i \in 1 .. n |-> g[i]] /\ \A i \in 1 .. n : g[i] = Picked(m[i], P[i], e[i])
    OBVIOUS
<1>2. Grid(n, m, P, e) = FlattenSeq(g)
    BY DEF Grid
<1> HIDE DEF g
<1>3. ASSUME NEW i \in 1 .. n
      PROVE  /\ IsList(g[i])
             /\ \A x : Has(g[i], x) <=> \E j \in 1 .. m[i] : j \in P[i] /\ x = e[i][j]
             /\ (\A j, l \in 1 .. m[i] : (j \in P[i] /\ l \in P[i] /\ e[i][j] = e[i][l]) => j = l)
                    => Once(g[i])
    <2>1. PICK q \in Nat : q = m[i]
        OBVIOUS
    <2>2. PICK A : A = P[i]
        OBVIOUS
    <2>3. PICK f : f = e[i]
        OBVIOUS
    <2>4. /\ IsList(Picked(q, A, f))
          /\ \A x : Has(Picked(q, A, f), x) <=> \E j \in 1 .. q : j \in A /\ x = f[j]
          /\ (\A j, l \in 1 .. q : (j \in A /\ l \in A /\ f[j] = f[l]) => j = l) => Once(Picked(q, A, f))
        BY PickedItems
    <2>5. g[i] = Picked(q, A, f)
        BY <1>1, <2>1, <2>2, <2>3
    <2> QED BY <2>1, <2>2, <2>3, <2>4, <2>5
<1>4. \A i \in 1 .. n : IsList(g[i])
    BY <1>3
<1>5. IsList(FlattenSeq(g)) /\ \A x : Has(FlattenSeq(g), x) <=> \E i \in 1 .. n : Has(g[i], x)
    BY <1>1, <1>4, Placed
<1>6. ASSUME \A i, k \in 1 .. n : \A j \in 1 .. m[i] : \A l \in 1 .. m[k] :
                 (j \in P[i] /\ l \in P[k] /\ e[i][j] = e[k][l]) => i = k /\ j = l
      PROVE  Once(FlattenSeq(g))
    <2>1. \A i \in 1 .. n : Once(g[i])
        BY <1>3, <1>6
    <2>2. ASSUME NEW i \in 1 .. n, NEW k \in 1 .. n, NEW x, Has(g[i], x), Has(g[k], x) PROVE i = k
        <3>1. PICK j \in 1 .. m[i] : j \in P[i] /\ x = e[i][j]
            BY <1>3, <2>2
        <3>2. PICK l \in 1 .. m[k] : l \in P[k] /\ x = e[k][l]
            BY <1>3, <2>2
        <3> QED BY <1>6, <3>1, <3>2
    <2> QED BY <1>1, <1>4, <2>1, <2>2, PlacedOnce
<1> QED
    BY <1>2, <1>3, <1>5, <1>6

CallAt(b, i, j) == i \in 1 .. Len(RawTxs[b]) /\ j \in 1 .. Len(RawTxs[b][i].calls)
DaoCall(c) == c.contract = "dao" /\ c.func \in DaoFunctions /\ c.ok
AuthCall(c) == MoneyCall(c) /\ c.func \in AuthFunctions
DaoItem(b, i, j)   == [tx_hash |-> RawTxs[b][i].hash, kind |-> RawTxs[b][i].calls[j].func]
EventItem(b, i, j) == [tx_hash |-> RawTxs[b][i].hash, func |-> RawTxs[b][i].calls[j].func]

\* No transaction of a block has two calls of one function.
NoRepeats(b) ==
    \A i \in 1 .. Len(RawTxs[b]) : \A j, k \in 1 .. Len(RawTxs[b][i].calls) :
        (/\ RawTxs[b][i].calls[j].contract = RawTxs[b][i].calls[k].contract
         /\ RawTxs[b][i].calls[j].func = RawTxs[b][i].calls[k].func) => j = k

\* A block has no transaction twice.
LEMMA SameTx ==
    ASSUME NEW b \in Hash, NEW i \in 1 .. Len(RawTxs[b]), NEW m \in 1 .. Len(RawTxs[b]),
           RawTxs[b][i].hash = RawTxs[b][m].hash
    PROVE  i = m
BY OwnAncestor, ChainPlaces

\* The DAO records of a block are those of its calls.
LEMMA DaoItems ==
    ASSUME NEW b \in Hash
    PROVE  LET L == CompactBlocks[b].dao_calls
           IN  /\ IsList(L) /\ (NoRepeats(b) => Once(L))
               /\ \A x : Has(L, x) <=> \E i, j : CallAt(b, i, j) /\ DaoCall(RawTxs[b][i].calls[j])
                                                     /\ x = DaoItem(b, i, j)
<1> DEFINE n == Len(RawTxs[b])
           m == [i \in 1 .. n |-> Len(RawTxs[b][i].calls)]
           P == [i \in 1 .. n |-> {j \in 1 .. m[i] : DaoCall(RawTxs[b][i].calls[j])}]
           e == [i \in 1 .. n |-> [j \in 1 .. m[i] |-> DaoItem(b, i, j)]]
<1>1. n \in Nat /\ DOMAIN RawTxs[b] = 1 .. n
    BY RawLists, ListDomain
<1>2. \A i \in 1 .. n : m[i] \in Nat /\ DOMAIN RawTxs[b][i].calls = 1 .. m[i]
    BY RawLists, ListDomain
<1>3. \A i \in 1 .. n : \A j \in 1 .. m[i] :
          (j \in P[i] <=> DaoCall(RawTxs[b][i].calls[j])) /\ e[i][j] = DaoItem(b, i, j)
    OBVIOUS
<1>4. \A i \in 1 .. n : m[i] = Len(RawTxs[b][i].calls)
    OBVIOUS
<1>5. CompactBlocks[b].dao_calls = Grid(n, m, P, e)
    <2>1. CompactBlocks[b].dao_calls = FlattenSeq([i \in 1 .. n |-> TxDaoCalls(RawTxs[b][i])])
        BY <1>1 DEF CompactBlocks, ProcessBlock, Concat
    <2>2. ASSUME NEW i \in 1 .. n PROVE TxDaoCalls(RawTxs[b][i]) = Picked(m[i], P[i], e[i])
        <3>1. TxDaoCalls(RawTxs[b][i]) = FlattenSeq([j \in 1 .. m[i] |->
                  IF DaoCall(RawTxs[b][i].calls[j]) THEN <<DaoItem(b, i, j)>> ELSE <<>>])
            BY <1>2 DEF TxDaoCalls, Concat, DaoCall, DaoItem
        <3> HIDE DEF P, e, m
        <3>2. [j \in 1 .. m[i] |-> IF DaoCall(RawTxs[b][i].calls[j]) THEN <<DaoItem(b, i, j)>> ELSE <<>>]
                  = [j \in 1 .. m[i] |-> IF j \in P[i] THEN <<e[i][j]>> ELSE <<>>]
            BY <1>3
        <3> QED BY <3>1, <3>2 DEF Picked
    <2> HIDE DEF P, e, m, n
    <2>3. [i \in 1 .. n |-> TxDaoCalls(RawTxs[b][i])] = [i \in 1 .. n |-> Picked(m[i], P[i], e[i])]
        BY <2>2
    <2> QED BY <2>1, <2>3 DEF Grid
<1> HIDE DEF m, P, e
<1>6. /\ IsList(Grid(n, m, P, e))
      /\ \A x : Has(Grid(n, m, P, e), x)
                    <=> \E i \in 1 .. n : \E j \in 1 .. m[i] : j \in P[i] /\ x = e[i][j]
      /\ (\A i, k \in 1 .. n : \A j \in 1 .. m[i] : \A l \in 1 .. m[k] :
              (j \in P[i] /\ l \in P[k] /\ e[i][j] = e[k][l]) => i = k /\ j = l)
         => Once(Grid(n, m, P, e))
    <2> HIDE DEF n
    <2>1. \A i \in 1 .. n : m[i] \in Nat
        BY <1>2
    <2> QED BY <1>1, <2>1, GridItems
<1>7. ASSUME NoRepeats(b), NEW i \in 1 .. n, NEW k \in 1 .. n, NEW j \in 1 .. m[i], NEW l \in 1 .. m[k],
             j \in P[i], l \in P[k], e[i][j] = e[k][l]
      PROVE  i = k /\ j = l
    <2>1. DaoItem(b, i, j) = DaoItem(b, k, l)
        BY <1>3, <1>7
    <2>2. RawTxs[b][i].hash = RawTxs[b][k].hash /\ RawTxs[b][i].calls[j].func = RawTxs[b][k].calls[l].func
        BY <2>1 DEF DaoItem
    <2>3. i = k
        BY <2>2, SameTx
    <2>4. RawTxs[b][i].calls[j].contract = RawTxs[b][k].calls[l].contract
        BY <1>3, <1>7 DEF DaoCall
    <2> QED BY <1>4, <1>7, <2>2, <2>3, <2>4 DEF NoRepeats
<1>8. ASSUME NEW x
      PROVE  (\E i \in 1 .. n : \E j \in 1 .. m[i] : j \in P[i] /\ x = e[i][j])
                 <=> \E i, j : CallAt(b, i, j) /\ DaoCall(RawTxs[b][i].calls[j]) /\ x = DaoItem(b, i, j)
    <2>1. \A i, j : CallAt(b, i, j) <=> i \in 1 .. n /\ j \in 1 .. m[i]
        BY <1>4 DEF CallAt
    <2> HIDE DEF n
    <2> QED BY <1>3, <2>1
<1>9. NoRepeats(b) => Once(Grid(n, m, P, e))
    BY <1>6, <1>7
<1>10. ASSUME NEW x
       PROVE  Has(Grid(n, m, P, e), x) <=> \E i, j : CallAt(b, i, j) /\ DaoCall(RawTxs[b][i].calls[j])
                                                         /\ x = DaoItem(b, i, j)
    BY <1>6, <1>8
<1> HIDE <1>7, <1>8
<1> QED
    BY <1>5, <1>6, <1>9, <1>10

\* The auth-token events of a block are those of its calls.
LEMMA EventItems ==
    ASSUME NEW b \in Hash
    PROVE  LET L == CompactBlocks[b].func_events
           IN  /\ IsList(L) /\ (NoRepeats(b) => Once(L))
               /\ \A x : Has(L, x) <=> \E i, j : CallAt(b, i, j) /\ AuthCall(RawTxs[b][i].calls[j])
                                                     /\ x = EventItem(b, i, j)
<1> DEFINE n == Len(RawTxs[b])
           m == [i \in 1 .. n |-> Len(RawTxs[b][i].calls)]
           P == [i \in 1 .. n |-> {j \in 1 .. m[i] : AuthCall(RawTxs[b][i].calls[j])}]
           e == [i \in 1 .. n |-> [j \in 1 .. m[i] |-> EventItem(b, i, j)]]
<1>1. n \in Nat /\ DOMAIN RawTxs[b] = 1 .. n
    BY RawLists, ListDomain
<1>2. \A i \in 1 .. n : m[i] \in Nat /\ DOMAIN RawTxs[b][i].calls = 1 .. m[i]
    BY RawLists, ListDomain
<1>3. \A i \in 1 .. n : \A j \in 1 .. m[i] :
          (j \in P[i] <=> AuthCall(RawTxs[b][i].calls[j])) /\ e[i][j] = EventItem(b, i, j)
    OBVIOUS
<1>4. \A i \in 1 .. n : m[i] = Len(RawTxs[b][i].calls)
    OBVIOUS
<1>5. CompactBlocks[b].func_events = Grid(n, m, P, e)
    <2>1. CompactBlocks[b].func_events = FlattenSeq([i \in 1 .. n |-> TxEvents(RawTxs[b][i])])
        BY <1>1 DEF CompactBlocks, ProcessBlock, Concat
    <2>2. ASSUME NEW i \in 1 .. n PROVE TxEvents(RawTxs[b][i]) = Picked(m[i], P[i], e[i])
        <3>1. TxEvents(RawTxs[b][i]) = FlattenSeq([j \in 1 .. m[i] |->
                  IF AuthCall(RawTxs[b][i].calls[j]) THEN <<EventItem(b, i, j)>> ELSE <<>>])
            BY <1>2 DEF TxEvents, Concat, AuthCall, EventItem
        <3> HIDE DEF P, e, m
        <3>2. [j \in 1 .. m[i] |-> IF AuthCall(RawTxs[b][i].calls[j]) THEN <<EventItem(b, i, j)>> ELSE <<>>]
                  = [j \in 1 .. m[i] |-> IF j \in P[i] THEN <<e[i][j]>> ELSE <<>>]
            BY <1>3
        <3> QED BY <3>1, <3>2 DEF Picked
    <2> HIDE DEF P, e, m, n
    <2>3. [i \in 1 .. n |-> TxEvents(RawTxs[b][i])] = [i \in 1 .. n |-> Picked(m[i], P[i], e[i])]
        BY <2>2
    <2> QED BY <2>1, <2>3 DEF Grid
<1> HIDE DEF m, P, e
<1>6. /\ IsList(Grid(n, m, P, e))
      /\ \A x : Has(Grid(n, m, P, e), x)
                    <=> \E i \in 1 .. n : \E j \in 1 .. m[i] : j \in P[i] /\ x = e[i][j]
      /\ (\A i, k \in 1 .. n : \A j \in 1 .. m[i] : \A l \in 1 .. m[k] :
              (j \in P[i] /\ l \in P[k] /\ e[i][j] = e[k][l]) => i = k /\ j = l)
         => Once(Grid(n, m, P, e))
    <2> HIDE DEF n
    <2>1. \A i \in 1 .. n : m[i] \in Nat
        BY <1>2
    <2> QED BY <1>1, <2>1, GridItems
<1>7. ASSUME NoRepeats(b), NEW i \in 1 .. n, NEW k \in 1 .. n, NEW j \in 1 .. m[i], NEW l \in 1 .. m[k],
             j \in P[i], l \in P[k], e[i][j] = e[k][l]
      PROVE  i = k /\ j = l
    <2>1. EventItem(b, i, j) = EventItem(b, k, l)
        BY <1>3, <1>7
    <2>2. RawTxs[b][i].hash = RawTxs[b][k].hash /\ RawTxs[b][i].calls[j].func = RawTxs[b][k].calls[l].func
        BY <2>1 DEF EventItem
    <2>3. i = k
        BY <2>2, SameTx
    <2>4. RawTxs[b][i].calls[j].contract = RawTxs[b][k].calls[l].contract
        BY <1>3, <1>7 DEF AuthCall, MoneyCall
    <2> QED BY <1>4, <1>7, <2>2, <2>3, <2>4 DEF NoRepeats
<1>8. ASSUME NEW x
      PROVE  (\E i \in 1 .. n : \E j \in 1 .. m[i] : j \in P[i] /\ x = e[i][j])
                 <=> \E i, j : CallAt(b, i, j) /\ AuthCall(RawTxs[b][i].calls[j]) /\ x = EventItem(b, i, j)
    <2>1. \A i, j : CallAt(b, i, j) <=> i \in 1 .. n /\ j \in 1 .. m[i]
        BY <1>4 DEF CallAt
    <2> HIDE DEF n
    <2> QED BY <1>3, <2>1
<1>9. NoRepeats(b) => Once(Grid(n, m, P, e))
    BY <1>6, <1>7
<1>10. ASSUME NEW x
       PROVE  Has(Grid(n, m, P, e), x) <=> \E i, j : CallAt(b, i, j) /\ AuthCall(RawTxs[b][i].calls[j])
                                                         /\ x = EventItem(b, i, j)
    BY <1>6, <1>8
<1> HIDE <1>7, <1>8
<1> QED
    BY <1>5, <1>6, <1>9, <1>10

-----------------------------------------------------------------------------
(* What is sent of a block is what a wallet must learn of it.               *)

\* What a list ranges over, by place.
LEMMA InRange ==
    ASSUME NEW s, IsList(s), NEW x
    PROVE  x \in Range(s) <=> \E i \in 1 .. Len(s) : x = s[i]
BY ListDomain DEF Range

\* A list has what it ranges over.
LEMMA HasRange ==
    ASSUME NEW s, IsList(s), NEW x
    PROVE  x \in Range(s) <=> Has(s, x)
BY InRange DEF Has

\* The Money calls of the raw block, by place.
LEMMA RawMoneyAre ==
    ASSUME NEW b \in Hash, NEW r
    PROVE  r \in RawMoneyCalls(b)
               <=> \E i, j : /\ CallAt(b, i, j) /\ MoneyCall(RawTxs[b][i].calls[j])
                             /\ r = [tx |-> RawTxs[b][i].hash, call |-> RawTxs[b][i].calls[j]]
<1>1. r \in RawMoneyCalls(b)
          <=> \E t \in Range(RawTxs[b]) : \E c \in Range(t.calls) :
                  MoneyCall(c) /\ r = [tx |-> t.hash, call |-> c]
    BY DEF RawMoneyCalls, RawCalls
<1>2. \A t : t \in Range(RawTxs[b]) <=> \E i \in 1 .. Len(RawTxs[b]) : t = RawTxs[b][i]
    BY RawLists, InRange
<1>3. ASSUME NEW i \in 1 .. Len(RawTxs[b])
      PROVE  \A c : c \in Range(RawTxs[b][i].calls)
                        <=> \E j \in 1 .. Len(RawTxs[b][i].calls) : c = RawTxs[b][i].calls[j]
    <2>1. PICK s : s = RawTxs[b][i].calls
        OBVIOUS
    <2>2. IsList(s)
        BY <2>1, RawLists
    <2>3. \A c : c \in Range(s) <=> \E j \in 1 .. Len(s) : c = s[j]
        BY <2>2, InRange
    <2> QED BY <2>1, <2>3
<1>4. ASSUME r \in RawMoneyCalls(b)
      PROVE  \E i, j : /\ CallAt(b, i, j) /\ MoneyCall(RawTxs[b][i].calls[j])
                       /\ r = [tx |-> RawTxs[b][i].hash, call |-> RawTxs[b][i].calls[j]]
    <2>1. PICK i \in 1 .. Len(RawTxs[b]) : \E c \in Range(RawTxs[b][i].calls) :
              MoneyCall(c) /\ r = [tx |-> RawTxs[b][i].hash, call |-> c]
        BY <1>1, <1>2, <1>4
    <2>2. PICK c \in Range(RawTxs[b][i].calls) : MoneyCall(c) /\ r = [tx |-> RawTxs[b][i].hash, call |-> c]
        BY <2>1
    <2>3. PICK j \in 1 .. Len(RawTxs[b][i].calls) : c = RawTxs[b][i].calls[j]
        BY <1>3
    <2> QED BY <2>2, <2>3 DEF CallAt
<1>5. ASSUME NEW i, NEW j, CallAt(b, i, j), MoneyCall(RawTxs[b][i].calls[j]),
             r = [tx |-> RawTxs[b][i].hash, call |-> RawTxs[b][i].calls[j]]
      PROVE  r \in RawMoneyCalls(b)
    <2>1. i \in 1 .. Len(RawTxs[b]) /\ j \in 1 .. Len(RawTxs[b][i].calls)
        BY <1>5 DEF CallAt
    <2>2. PICK t \in Range(RawTxs[b]) : t = RawTxs[b][i]
        BY <1>2, <2>1
    <2>3. PICK c \in Range(t.calls) : c = t.calls[j]
        BY <1>3, <2>1, <2>2
    <2> QED BY <1>1, <1>5, <2>2, <2>3
<1> QED
    BY <1>4, <1>5

\* The DAO calls a wallet is owed, by place.
LEMMA RawDaoAre ==
    ASSUME NEW b \in Hash, NEW x
    PROVE  x \in Owed("dao", b)
               <=> \E i, j : CallAt(b, i, j) /\ DaoCall(RawTxs[b][i].calls[j]) /\ x = DaoItem(b, i, j)
<1>1. Owed("dao", b) = {[tx_hash |-> r.tx, kind |-> r.call.func] :
                           r \in RawDaoCalls(b)}
    BY DEF Owed, MoneyFunctions
<1>2. x \in Owed("dao", b)
          <=> \E t \in Range(RawTxs[b]) : \E c \in Range(t.calls) :
                  (c.contract = "dao" /\ c.ok) /\ x = [tx_hash |-> t.hash, kind |-> c.func]
    <2>1. \A r : r \in RawDaoCalls(b)
                    <=> \E t \in Range(RawTxs[b]) : \E c \in Range(t.calls) :
                            (c.contract = "dao" /\ c.ok) /\ r = [tx |-> t.hash, call |-> c]
        BY DEF RawDaoCalls, RawCalls
    <2>2. ASSUME x \in Owed("dao", b)
          PROVE  \E t \in Range(RawTxs[b]) : \E c \in Range(t.calls) :
                     (c.contract = "dao" /\ c.ok) /\ x = [tx_hash |-> t.hash, kind |-> c.func]
        <3>1. PICK r \in RawDaoCalls(b) : x = [tx_hash |-> r.tx, kind |-> r.call.func]
            BY <1>1, <2>2
        <3>2. PICK t \in Range(RawTxs[b]) : \E c \in Range(t.calls) :
                  (c.contract = "dao" /\ c.ok) /\ r = [tx |-> t.hash, call |-> c]
            BY <2>1
        <3>3. PICK c \in Range(t.calls) : (c.contract = "dao" /\ c.ok) /\ r = [tx |-> t.hash, call |-> c]
            BY <3>2
        <3> QED BY <3>1, <3>3
    <2>3. ASSUME NEW t \in Range(RawTxs[b]), NEW c \in Range(t.calls),
                 c.contract = "dao" /\ c.ok, x = [tx_hash |-> t.hash, kind |-> c.func]
          PROVE  x \in Owed("dao", b)
        <3>1. PICK r : r = [tx |-> t.hash, call |-> c]
            OBVIOUS
        <3>2. r \in RawDaoCalls(b)
            BY <2>1, <2>3, <3>1
        <3> QED BY <1>1, <2>3, <3>1, <3>2
    <2> QED BY <2>2, <2>3
<1>3. \A t : t \in Range(RawTxs[b]) <=> \E i \in 1 .. Len(RawTxs[b]) : t = RawTxs[b][i]
    BY RawLists, InRange
<1>4. ASSUME NEW i \in 1 .. Len(RawTxs[b])
      PROVE  /\ \A c : c \in Range(RawTxs[b][i].calls)
                           <=> \E j \in 1 .. Len(RawTxs[b][i].calls) : c = RawTxs[b][i].calls[j]
             /\ \A j \in 1 .. Len(RawTxs[b][i].calls) : LET c == RawTxs[b][i].calls[j]
                                                        IN  (c.contract = "dao" /\ c.ok) <=> DaoCall(c)
    <2>1. PICK s : s = RawTxs[b][i].calls
        OBVIOUS
    <2>2. IsList(s) /\ \A j \in 1 .. Len(s) : CallShape(s[j])
        BY <2>1, RawLists
    <2>3. \A c : c \in Range(s) <=> \E j \in 1 .. Len(s) : c = s[j]
        BY <2>2, InRange
    <2>4. \A j \in 1 .. Len(s) : (s[j].contract = "dao" /\ s[j].ok) <=> DaoCall(s[j])
        BY <2>2 DEF CallShape, DaoCall
    <2> QED BY <2>1, <2>3, <2>4
<1>5. ASSUME x \in Owed("dao", b)
      PROVE  \E i, j : CallAt(b, i, j) /\ DaoCall(RawTxs[b][i].calls[j]) /\ x = DaoItem(b, i, j)
    <2>1. PICK i \in 1 .. Len(RawTxs[b]) : \E c \in Range(RawTxs[b][i].calls) :
              (c.contract = "dao" /\ c.ok) /\ x = [tx_hash |-> RawTxs[b][i].hash, kind |-> c.func]
        BY <1>2, <1>3, <1>5
    <2>2. PICK c \in Range(RawTxs[b][i].calls) :
              (c.contract = "dao" /\ c.ok) /\ x = [tx_hash |-> RawTxs[b][i].hash, kind |-> c.func]
        BY <2>1
    <2>3. PICK j \in 1 .. Len(RawTxs[b][i].calls) : c = RawTxs[b][i].calls[j]
        BY <1>4
    <2>4. DaoCall(RawTxs[b][i].calls[j])
        BY <1>4, <2>2, <2>3
    <2> QED BY <2>2, <2>3, <2>4 DEF CallAt, DaoItem
<1>6. ASSUME NEW i, NEW j, CallAt(b, i, j), DaoCall(RawTxs[b][i].calls[j]), x = DaoItem(b, i, j)
      PROVE  x \in Owed("dao", b)
    <2>1. i \in 1 .. Len(RawTxs[b]) /\ j \in 1 .. Len(RawTxs[b][i].calls)
        BY <1>6 DEF CallAt
    <2>2. PICK t \in Range(RawTxs[b]) : t = RawTxs[b][i]
        BY <1>3, <2>1
    <2>3. PICK c \in Range(t.calls) : c = t.calls[j]
        BY <1>4, <2>1, <2>2
    <2>4. (c.contract = "dao" /\ c.ok) /\ x = [tx_hash |-> t.hash, kind |-> c.func]
        BY <1>6, <2>2, <2>3 DEF DaoCall, DaoItem
    <2> QED BY <1>2, <2>4
<1> QED
    BY <1>5, <1>6

\* The outputs a wallet is owed, by place: the ones a compact block keeps.
LEMMA RawOutputsAre ==
    ASSUME NEW b \in Hash, NEW x
    PROVE  x \in RawOutputs(b) <=> \E i, j, k : OutputAt(b, i, j, k) /\ x = OutputItem(b, i, j, k)
<1>1. x \in RawOutputs(b)
          <=> \E r \in RawMoneyCalls(b) : \E o \in Range(r.call.outputs) :
                  ~o.local /\ x = [tx |-> r.tx, coin |-> o.coin, func |-> r.call.func]
    BY DEF RawOutputs
<1>2. ASSUME NEW i, NEW j, CallAt(b, i, j), MoneyCall(RawTxs[b][i].calls[j])
      PROVE  LET c == RawTxs[b][i].calls[j]
             IN  /\ \A o : o \in Range(c.outputs) <=> \E k \in 1 .. Len(c.outputs) : o = c.outputs[k]
                 /\ \A k \in 1 .. Len(c.outputs) : Adds(c, c.outputs[k]) <=> ~c.outputs[k].local
    <2>1. PICK c : c = RawTxs[b][i].calls[j]
        OBVIOUS
    <2>2. IsList(c.outputs) /\ CallShape(c) /\ MoneyCall(c)
        BY <1>2, <2>1, RawLists DEF CallAt
    <2>3. PICK s : s = c.outputs
        OBVIOUS
    <2>4. \A o : o \in Range(s) <=> \E k \in 1 .. Len(s) : o = s[k]
        BY <2>2, <2>3, InRange
    <2>5. ASSUME NEW k \in 1 .. Len(s) PROVE Adds(c, s[k]) <=> ~s[k].local
        <3>1. s # <<>>
            <4>1. Has(s, s[k])
                BY DEF Has
            <4> QED BY <4>1, NoItem
        <3>2. c.func \in OutputFunctions /\ (c.func = "TokenMintV1" => ~s[k].local)
            BY <2>2, <2>3, <2>4, <3>1 DEF CallShape
        <3> QED BY <2>2, <3>2 DEF Adds
    <2> QED BY <2>1, <2>3, <2>4, <2>5
<1>5. ASSUME NEW i, NEW j, CallAt(b, i, j), MoneyCall(RawTxs[b][i].calls[j]),
             NEW k \in 1 .. Len(RawTxs[b][i].calls[j].outputs)
      PROVE  Adds(RawTxs[b][i].calls[j], RawTxs[b][i].calls[j].outputs[k])
                 <=> ~RawTxs[b][i].calls[j].outputs[k].local
    BY <1>2, <1>5
<1>3. ASSUME x \in RawOutputs(b)
      PROVE  \E i, j, k : OutputAt(b, i, j, k) /\ x = OutputItem(b, i, j, k)
    <2>1. PICK r \in RawMoneyCalls(b) : \E o \in Range(r.call.outputs) :
              ~o.local /\ x = [tx |-> r.tx, coin |-> o.coin, func |-> r.call.func]
        BY <1>1, <1>3
    <2>2. PICK i, j : /\ CallAt(b, i, j) /\ MoneyCall(RawTxs[b][i].calls[j])
                      /\ r = [tx |-> RawTxs[b][i].hash, call |-> RawTxs[b][i].calls[j]]
        BY RawMoneyAre
    <2>3. r.tx = RawTxs[b][i].hash /\ r.call = RawTxs[b][i].calls[j]
        BY <2>2
    <2>4. PICK o \in Range(RawTxs[b][i].calls[j].outputs) :
              ~o.local /\ x = [tx |-> RawTxs[b][i].hash, coin |-> o.coin, func |-> RawTxs[b][i].calls[j].func]
        BY <2>1, <2>3
    <2>5. PICK k \in 1 .. Len(RawTxs[b][i].calls[j].outputs) : o = RawTxs[b][i].calls[j].outputs[k]
        <3>1. PICK q : q = RawTxs[b][i].calls[j].outputs
            OBVIOUS
        <3>2. IsList(q)
            BY <2>2, <3>1, RawLists DEF CallAt
        <3>3. \E k \in 1 .. Len(q) : o = q[k]
            BY <3>1, <3>2, InRange
        <3> QED BY <3>1, <3>3
    <2>6. Adds(RawTxs[b][i].calls[j], RawTxs[b][i].calls[j].outputs[k])
        BY <1>5, <2>2, <2>4, <2>5
    <2>7. OutputAt(b, i, j, k)
        BY <2>2, <2>6 DEF OutputAt, TxOutputAt, CallAt
    <2>8. x = OutputItem(b, i, j, k)
        BY <2>4, <2>5 DEF OutputItem, CoinAt
    <2> QED BY <2>7, <2>8
<1>4. ASSUME NEW i, NEW j, NEW k, OutputAt(b, i, j, k), x = OutputItem(b, i, j, k)
      PROVE  x \in RawOutputs(b)
    <2>1. PICK c : c = RawTxs[b][i].calls[j]
        OBVIOUS
    <2>2. CallAt(b, i, j) /\ MoneyCall(c) /\ k \in 1 .. Len(c.outputs) /\ Adds(c, c.outputs[k])
        BY <1>4, <2>1 DEF OutputAt, TxOutputAt, CallAt, Adds
    <2>3. PICK o \in Range(c.outputs) : o = c.outputs[k] /\ ~o.local
        BY <1>2, <2>1, <2>2, ZenonT(60)
    <2>4. PICK r \in RawMoneyCalls(b) : r = [tx |-> RawTxs[b][i].hash, call |-> c]
        BY <2>1, <2>2, RawMoneyAre
    <2>5. o \in Range(r.call.outputs) /\ x = [tx |-> r.tx, coin |-> o.coin, func |-> r.call.func]
        BY <1>4, <2>1, <2>3, <2>4 DEF OutputItem, CoinAt
    <2> QED BY <1>1, <2>3, <2>5
<1> QED
    BY <1>3, <1>4

\* The nullifiers a wallet is owed, by place.
LEMMA RawNullifiersAre ==
    ASSUME NEW b \in Hash, NEW x
    PROVE  x \in Owed("nullifiers", b)
               <=> \E i, j, k : NullifierAt(b, i, j, k) /\ x = NullifierItem(b, i, j, k)
<1>1. x \in Owed("nullifiers", b)
          <=> \E r \in RawMoneyCalls(b) : x \in Range(r.call.nullifiers)
    BY DEF Owed, MoneyFunctions
<1>2. ASSUME NEW i, NEW j, CallAt(b, i, j), MoneyCall(RawTxs[b][i].calls[j])
      PROVE  LET c == RawTxs[b][i].calls[j]
             IN  /\ x \in Range(c.nullifiers) <=> \E k \in 1 .. Len(c.nullifiers) : x = c.nullifiers[k]
                 /\ \A k \in 1 .. Len(c.nullifiers) : c.func \in InputFunctions
    <2>1. PICK c : c = RawTxs[b][i].calls[j]
        OBVIOUS
    <2>2. IsList(c.nullifiers) /\ CallShape(c) /\ MoneyCall(c)
        BY <1>2, <2>1, RawLists DEF CallAt
    <2>3. PICK s : s = c.nullifiers
        OBVIOUS
    <2>4. x \in Range(s) <=> \E k \in 1 .. Len(s) : x = s[k]
        BY <2>2, <2>3, InRange
    <2>5. ASSUME NEW k \in 1 .. Len(s) PROVE c.func \in InputFunctions
        <3>1. s # <<>>
            <4>1. Has(s, s[k])
                BY DEF Has
            <4> QED BY <4>1, NoItem
        <3> QED BY <2>2, <2>3, <3>1 DEF CallShape
    <2> QED BY <2>1, <2>3, <2>4, <2>5
<1>3. ASSUME x \in Owed("nullifiers", b)
      PROVE  \E i, j, k : NullifierAt(b, i, j, k) /\ x = NullifierItem(b, i, j, k)
    <2>1. PICK r \in RawMoneyCalls(b) : x \in Range(r.call.nullifiers)
        BY <1>1, <1>3
    <2>2. PICK i, j : /\ CallAt(b, i, j) /\ MoneyCall(RawTxs[b][i].calls[j])
                      /\ r = [tx |-> RawTxs[b][i].hash, call |-> RawTxs[b][i].calls[j]]
        BY RawMoneyAre
    <2>3. x \in Range(RawTxs[b][i].calls[j].nullifiers)
        BY <2>1, <2>2
    <2>4. PICK k \in 1 .. Len(RawTxs[b][i].calls[j].nullifiers) : x = RawTxs[b][i].calls[j].nullifiers[k]
        BY <1>2, <2>2, <2>3
    <2>5. RawTxs[b][i].calls[j].func \in InputFunctions
        BY <1>2, <2>2
    <2>6. NullifierAt(b, i, j, k) /\ x = NullifierItem(b, i, j, k)
        BY <2>2, <2>4, <2>5 DEF NullifierAt, TxNullifierAt, CallAt, NullifierItem
    <2> QED BY <2>6
<1>4. ASSUME NEW i, NEW j, NEW k, NullifierAt(b, i, j, k), x = NullifierItem(b, i, j, k)
      PROVE  x \in Owed("nullifiers", b)
    <2>1. PICK c : c = RawTxs[b][i].calls[j]
        OBVIOUS
    <2>2. CallAt(b, i, j) /\ MoneyCall(c) /\ k \in 1 .. Len(c.nullifiers) /\ x = c.nullifiers[k]
        BY <1>4, <2>1 DEF NullifierAt, TxNullifierAt, CallAt, NullifierItem
    <2>3. x \in Range(c.nullifiers)
        BY <1>2, <2>1, <2>2
    <2>4. PICK r \in RawMoneyCalls(b) : r = [tx |-> RawTxs[b][i].hash, call |-> c]
        BY <2>1, <2>2, RawMoneyAre
    <2> QED BY <1>1, <2>3, <2>4
<1> QED
    BY <1>3, <1>4

-----------------------------------------------------------------------------
(* Each stream's items of a block.                                          *)

\* What is sent of a block is what is owed of it, each item once when the
\* records of the kind tell their calls apart.
SentRight(kind, b) ==
    /\ IsList(Sent(kind, b))
    /\ \A x : Has(Sent(kind, b), x) <=> x \in Owed(kind, b)
    /\ TellsApart(kind, b) => Once(Sent(kind, b))

\* An output stands at one place of its block.
LEMMA SameOutput ==
    ASSUME NEW b \in Hash, NEW i, NEW j, NEW k, NEW m, NEW n, NEW l,
           OutputAt(b, i, j, k), OutputAt(b, m, n, l), CoinAt(b, i, j, k) = CoinAt(b, m, n, l)
    PROVE  i = m /\ j = n /\ k = l
<1>1. i \in 1 .. Len(RawTxs[b]) /\ m \in 1 .. Len(RawTxs[b])
    BY DEF OutputAt
<1> QED BY <1>1, OwnAncestor, ChainPlaces

\* The stream of commitments.
LEMMA CommitmentsRight == ASSUME NEW b \in Hash PROVE SentRight("commitments", b)
<1>1. PICK s : s = Outputs(b)
    OBVIOUS
<1>2. /\ IsList(s) /\ Once(s)
      /\ \A x : Has(s, x) <=> \E i, j, k : OutputAt(b, i, j, k) /\ x = OutputItem(b, i, j, k)
    BY <1>1, OutputsItems
<1>3. PICK n \in Nat : n = Len(s) /\ DOMAIN s = 1 .. n
    BY <1>2, ListDomain
<1>4. PICK g : g = [k \in 1 .. n |-> s[k].coin]
    OBVIOUS
<1>5. Sent("commitments", b) = g
    BY <1>1, <1>3, <1>4 DEF Sent, MoneyFunctions
<1>6. IsList(g) /\ Len(g) = n
    BY <1>4, ListOf
<1>7. \A x : x \in Owed("commitments", b) <=> \E o \in RawOutputs(b) : x = o.coin
    BY DEF Owed, MoneyFunctions
<1>8. \A o : o \in RawOutputs(b) <=> Has(s, o)
    BY <1>2, RawOutputsAre
<1>9. ASSUME NEW x PROVE Has(g, x) <=> x \in Owed("commitments", b)
    <2>1. Has(g, x) <=> \E k \in 1 .. n : s[k].coin = x
        BY <1>4, <1>6 DEF Has
    <2>2. \A o : Has(s, o) <=> \E k \in 1 .. n : s[k] = o
        BY <1>3 DEF Has
    <2> QED BY <1>7, <1>8, <2>1, <2>2
<1>10. ASSUME NEW k \in 1 .. n, NEW l \in 1 .. n, g[k] = g[l] PROVE k = l
    <2>1. s[k].coin = s[l].coin
        BY <1>4, <1>10
    <2>2. Has(s, s[k]) /\ Has(s, s[l])
        BY <1>3 DEF Has
    <2>3. PICK i, j, p : OutputAt(b, i, j, p) /\ s[k] = OutputItem(b, i, j, p)
        BY <1>2, <2>2
    <2>4. PICK m, q, r : OutputAt(b, m, q, r) /\ s[l] = OutputItem(b, m, q, r)
        BY <1>2, <2>2
    <2>5. CoinAt(b, i, j, p) = CoinAt(b, m, q, r)
        BY <2>1, <2>3, <2>4 DEF OutputItem
    <2>6. i = m /\ j = q /\ p = r
        BY <2>3, <2>4, <2>5, SameOutput
    <2>7. s[k] = s[l]
        BY <2>3, <2>4, <2>6
    <2> QED BY <1>2, <1>3, <2>7 DEF Once
<1>11. Once(g)
    BY <1>6, <1>10 DEF Once
<1> QED BY <1>5, <1>6, <1>9, <1>11 DEF SentRight

\* The stream of nullifiers.
LEMMA NullifiersRight == ASSUME NEW b \in Hash PROVE SentRight("nullifiers", b)
<1>1. Sent("nullifiers", b) = Nullifiers(b)
    BY DEF Sent, MoneyFunctions, Nullifiers
<1> QED BY <1>1, NullifiersItems, RawNullifiersAre DEF SentRight

\* The stream of outputs.
LEMMA OutputsRight == ASSUME NEW b \in Hash PROVE SentRight("outputs", b)
<1>1. Sent("outputs", b) = Outputs(b) /\ Owed("outputs", b) = RawOutputs(b)
    BY DEF Sent, Owed, MoneyFunctions
<1> QED BY <1>1, OutputsItems, RawOutputsAre DEF SentRight

\* What lets records of calls be told apart.
LEMMA ApartNoRepeats ==
    ASSUME NEW b \in Hash, NEW kind \in AuthFunctions \cup {"dao"}, TellsApart(kind, b)
    PROVE  NoRepeats(b)
<1>1. \A t \in Range(RawTxs[b]) : \A i, j \in DOMAIN t.calls :
          (t.calls[i].contract = t.calls[j].contract /\ t.calls[i].func = t.calls[j].func) => i = j
    BY DEF TellsApart
<1>2. ASSUME NEW i \in 1 .. Len(RawTxs[b]) PROVE RawTxs[b][i] \in Range(RawTxs[b])
    BY <1>2, RawLists, InRange
<1>3. ASSUME NEW i \in 1 .. Len(RawTxs[b]) PROVE DOMAIN RawTxs[b][i].calls = 1 .. Len(RawTxs[b][i].calls)
    BY <1>3, RawLists, ListDomain
<1> QED BY <1>1, <1>2, <1>3 DEF NoRepeats

\* The stream of DAO calls.
LEMMA DaoRight == ASSUME NEW b \in Hash PROVE SentRight("dao", b)
<1>1. Sent("dao", b) = CompactBlocks[b].dao_calls
    BY DEF Sent, MoneyFunctions
<1>2. TellsApart("dao", b) => NoRepeats(b)
    BY ApartNoRepeats
<1>3. PICK L : L = CompactBlocks[b].dao_calls
    OBVIOUS
<1>4. /\ IsList(L) /\ (NoRepeats(b) => Once(L))
      /\ \A x : Has(L, x) <=> \E i, j : CallAt(b, i, j) /\ DaoCall(RawTxs[b][i].calls[j])
                                           /\ x = DaoItem(b, i, j)
    BY <1>3, DaoItems
<1>5. \A x : Has(L, x) <=> x \in Owed("dao", b)
    BY <1>4, RawDaoAre
<1> QED BY <1>1, <1>2, <1>3, <1>4, <1>5 DEF SentRight

\* Two lists have a common set of elements.
LEMMA TwoLists ==
    ASSUME NEW A, NEW B, IsList(A), IsList(B)
    PROVE  \E S : A \in Seq(S) /\ B \in Seq(S)
<1> DEFINE S == {A[i] : i \in DOMAIN A} \cup {B[i] : i \in DOMAIN B}
<1>1. A = [i \in 1 .. Len(A) |-> A[i]] /\ Len(A) \in Nat /\ DOMAIN A = 1 .. Len(A)
    BY ListDomain
<1>2. B = [i \in 1 .. Len(B) |-> B[i]] /\ Len(B) \in Nat /\ DOMAIN B = 1 .. Len(B)
    BY ListDomain
<1>3. (\A i \in 1 .. Len(A) : A[i] \in S) /\ \A i \in 1 .. Len(B) : B[i] \in S
    BY <1>1, <1>2
<1> HIDE DEF S
<1>4. A \in Seq(S) /\ B \in Seq(S)
    BY <1>1, <1>2, <1>3
<1> QED BY <1>4

\* The record of one call of a function, as it is sent.
FunctionItem(b, i, kind) == [tx |-> RawTxs[b][i].hash, coin |-> None, func |-> kind]

\* The outputs and the events of one function.
OutputsOf(b, kind) == Filter(Outputs(b), LAMBDA o : o.func = kind)
EventsOf(b, kind) ==
    Concat(CompactBlocks[b].func_events, LAMBDA e :
        IF e.func = kind THEN <<[tx |-> e.tx_hash, coin |-> None, func |-> kind]>> ELSE <<>>)

\* The outputs of one function, as they are sent.
LEMMA FunctionOutputs ==
    ASSUME NEW b \in Hash, NEW kind, NEW F, F = OutputsOf(b, kind)
    PROVE  /\ IsList(F) /\ Once(F)
           /\ \A x : Has(F, x) <=> x \in RawOutputs(b) /\ x.func = kind
<1>1. PICK s : s = Outputs(b)
    OBVIOUS
<1>2. IsList(s) /\ Once(s) /\ \A x : Has(s, x) <=> x \in RawOutputs(b)
    BY <1>1, OutputsItems, RawOutputsAre
<1>3. PICK n \in Nat : n = Len(s) /\ DOMAIN s = 1 .. n
    BY <1>2, ListDomain
<1>4. PICK A : A = {i \in 1 .. n : s[i].func = kind}
    OBVIOUS
<1>5. F = Picked(n, A, s)
    <2>1. F = FlattenSeq([i \in 1 .. n |-> IF s[i].func = kind THEN <<s[i]>> ELSE <<>>])
        BY <1>1, <1>3 DEF OutputsOf, Filter, Concat
    <2>2. \A i \in 1 .. n : s[i].func = kind <=> i \in A
        BY <1>4
    <2>3. [i \in 1 .. n |-> IF s[i].func = kind THEN <<s[i]>> ELSE <<>>]
              = [i \in 1 .. n |-> IF i \in A THEN <<s[i]>> ELSE <<>>]
        BY <2>2
    <2> QED BY <2>1, <2>3 DEF Picked
<1>6. /\ IsList(F)
      /\ \A x : Has(F, x) <=> \E i \in 1 .. n : i \in A /\ x = s[i]
      /\ (\A i, j \in 1 .. n : (i \in A /\ j \in A /\ s[i] = s[j]) => i = j) => Once(F)
    BY <1>5, PickedItems
<1>7. Once(F)
    BY <1>2, <1>3, <1>6 DEF Once
<1>8. \A x : Has(F, x) <=> Has(s, x) /\ x.func = kind
    BY <1>3, <1>4, <1>6 DEF Has
<1> QED BY <1>2, <1>6, <1>7, <1>8

\* The events of one function.
LEMMA FunctionEvents ==
    ASSUME NEW b \in Hash, NEW kind, NEW E,
           E = EventsOf(b, kind)
    PROVE  /\ IsList(E) /\ (NoRepeats(b) => Once(E))
           /\ \A x : Has(E, x) <=> \E i, j : /\ CallAt(b, i, j) /\ AuthCall(RawTxs[b][i].calls[j])
                                              /\ RawTxs[b][i].calls[j].func = kind
                                              /\ x = FunctionItem(b, i, kind)
<1>1. PICK s : s = CompactBlocks[b].func_events
    OBVIOUS
<1>2. /\ IsList(s) /\ (NoRepeats(b) => Once(s))
      /\ \A x : Has(s, x) <=> \E i, j : CallAt(b, i, j) /\ AuthCall(RawTxs[b][i].calls[j])
                                            /\ x = EventItem(b, i, j)
    BY <1>1, EventItems
<1>3. PICK n \in Nat : n = Len(s) /\ DOMAIN s = 1 .. n
    BY <1>2, ListDomain
<1>4. PICK A : A = {p \in 1 .. n : s[p].func = kind}
    OBVIOUS
<1>5. PICK e : e = [p \in 1 .. n |-> [tx |-> s[p].tx_hash, coin |-> None, func |-> kind]]
    OBVIOUS
<1>6. E = Picked(n, A, e)
    <2>1. E = FlattenSeq([p \in 1 .. n |-> IF s[p].func = kind
                             THEN <<[tx |-> s[p].tx_hash, coin |-> None, func |-> kind]>> ELSE <<>>])
        BY <1>1, <1>3 DEF EventsOf, Concat
    <2>2. ASSUME NEW p \in 1 .. n
          PROVE  (IF s[p].func = kind
                  THEN <<[tx |-> s[p].tx_hash, coin |-> None, func |-> kind]>> ELSE <<>>)
                     = (IF p \in A THEN <<e[p]>> ELSE <<>>)
        BY <1>4, <1>5
    <2>3. [p \in 1 .. n |-> IF s[p].func = kind
               THEN <<[tx |-> s[p].tx_hash, coin |-> None, func |-> kind]>> ELSE <<>>]
              = [p \in 1 .. n |-> IF p \in A THEN <<e[p]>> ELSE <<>>]
        BY <2>2
    <2> QED BY <2>1, <2>3 DEF Picked
<1>7. /\ IsList(E)
      /\ \A x : Has(E, x) <=> \E p \in 1 .. n : p \in A /\ x = e[p]
      /\ (\A p, q \in 1 .. n : (p \in A /\ q \in A /\ e[p] = e[q]) => p = q) => Once(E)
    BY <1>6, PickedItems
<1>8. ASSUME NEW p \in 1 .. n
      PROVE  \E i, j : CallAt(b, i, j) /\ AuthCall(RawTxs[b][i].calls[j]) /\ s[p] = EventItem(b, i, j)
    <2>1. Has(s, s[p])
        BY <1>3 DEF Has
    <2> QED BY <1>2, <2>1
<1>9. ASSUME NoRepeats(b), NEW p \in 1 .. n, NEW q \in 1 .. n, p \in A, q \in A, e[p] = e[q]
      PROVE  p = q
    <2>1. s[p].tx_hash = s[q].tx_hash /\ s[p].func = s[q].func
        BY <1>4, <1>5, <1>9
    <2>2. PICK i, j : s[p] = EventItem(b, i, j)
        BY <1>8
    <2>3. PICK m, l : s[q] = EventItem(b, m, l)
        BY <1>8
    <2>4. s[p] = s[q]
        BY <2>1, <2>2, <2>3 DEF EventItem
    <2> QED BY <1>2, <1>3, <1>9, <2>4 DEF Once
<1>10. ASSUME NEW x, Has(E, x)
       PROVE  \E i, j : /\ CallAt(b, i, j) /\ AuthCall(RawTxs[b][i].calls[j])
                        /\ RawTxs[b][i].calls[j].func = kind
                        /\ x = FunctionItem(b, i, kind)
    <2>1. PICK p \in 1 .. n : p \in A /\ x = e[p]
        BY <1>7, <1>10
    <2>2. s[p].func = kind /\ x = [tx |-> s[p].tx_hash, coin |-> None, func |-> kind]
        BY <1>4, <1>5, <2>1
    <2>3. PICK i, j : CallAt(b, i, j) /\ AuthCall(RawTxs[b][i].calls[j]) /\ s[p] = EventItem(b, i, j)
        BY <1>8
    <2>4. s[p].tx_hash = RawTxs[b][i].hash /\ s[p].func = RawTxs[b][i].calls[j].func
        BY <2>3 DEF EventItem
    <2> QED BY <2>2, <2>3, <2>4 DEF FunctionItem
<1>11. ASSUME NEW x, NEW i, NEW j, CallAt(b, i, j), AuthCall(RawTxs[b][i].calls[j]),
              RawTxs[b][i].calls[j].func = kind, x = FunctionItem(b, i, kind)
       PROVE  Has(E, x)
    <2>1. PICK y : y = EventItem(b, i, j)
        OBVIOUS
    <2>2. Has(s, y)
        BY <1>2, <1>11, <2>1
    <2>3. PICK p \in 1 .. n : s[p] = y
        BY <1>3, <2>2 DEF Has
    <2>4. s[p].tx_hash = RawTxs[b][i].hash /\ s[p].func = kind
        BY <1>11, <2>1, <2>3 DEF EventItem
    <2>5. p \in A /\ x = e[p]
        BY <1>4, <1>5, <1>11, <2>4 DEF FunctionItem
    <2> QED BY <1>7, <2>5
<1> QED BY <1>7, <1>9, <1>10, <1>11, <1>2

\* The streams of one function: its outputs, or its events, never both.
LEMMA MoneyRight == ASSUME NEW b \in Hash, NEW kind \in MoneyFunctions PROVE SentRight(kind, b)
<1>1. PICK F : F = OutputsOf(b, kind)
    OBVIOUS
<1>2. PICK E : E = EventsOf(b, kind)
    OBVIOUS
<1>3. Sent(kind, b) = F \o E
    BY <1>1, <1>2 DEF Sent, MoneyFunctions, OutputsOf, EventsOf
<1>4. /\ IsList(F) /\ Once(F)
      /\ \A x : Has(F, x) <=> x \in RawOutputs(b) /\ x.func = kind
    BY <1>1, FunctionOutputs
<1>5. /\ IsList(E) /\ (NoRepeats(b) => Once(E))
      /\ \A x : Has(E, x) <=> \E i, j : /\ CallAt(b, i, j) /\ AuthCall(RawTxs[b][i].calls[j])
                                         /\ RawTxs[b][i].calls[j].func = kind
                                         /\ x = FunctionItem(b, i, kind)
    BY <1>2, FunctionEvents
<1>6. PICK S : F \in Seq(S) /\ E \in Seq(S)
    BY <1>4, <1>5, TwoLists
<1>7. IsList(F \o E)
    <2>1. F \o E \in Seq(S)
        BY <1>6
    <2> QED BY <2>1, SeqIsList
<1>8. \A x : Has(F \o E, x) <=> Has(F, x) \/ Has(E, x)
    BY <1>6, ConcatItems
<1>9. \A x : x \in Owed(kind, b)
          <=> \/ x \in RawOutputs(b) /\ x.func = kind
              \/ \E r \in RawMoneyCalls(b) : /\ kind \in AuthFunctions /\ r.call.func = kind
                                             /\ x = [tx |-> r.tx, coin |-> None, func |-> kind]
    BY DEF Owed, MoneyFunctions
<1>10. ASSUME NEW x, Has(E, x)
       PROVE  \E r \in RawMoneyCalls(b) : /\ kind \in AuthFunctions /\ r.call.func = kind
                                          /\ x = [tx |-> r.tx, coin |-> None, func |-> kind]
    <2>1. PICK i, j : /\ CallAt(b, i, j) /\ AuthCall(RawTxs[b][i].calls[j])
                      /\ RawTxs[b][i].calls[j].func = kind /\ x = FunctionItem(b, i, kind)
        BY <1>5, <1>10
    <2>2. PICK r : r = [tx |-> RawTxs[b][i].hash, call |-> RawTxs[b][i].calls[j]]
        OBVIOUS
    <2>3. r \in RawMoneyCalls(b)
        BY <2>1, <2>2, RawMoneyAre DEF AuthCall
    <2> QED BY <2>1, <2>2, <2>3 DEF AuthCall, FunctionItem
<1>11. ASSUME NEW x, NEW r \in RawMoneyCalls(b), kind \in AuthFunctions, r.call.func = kind,
              x = [tx |-> r.tx, coin |-> None, func |-> kind]
       PROVE  Has(E, x)
    <2>1. PICK i, j : /\ CallAt(b, i, j) /\ MoneyCall(RawTxs[b][i].calls[j])
                      /\ r = [tx |-> RawTxs[b][i].hash, call |-> RawTxs[b][i].calls[j]]
        BY RawMoneyAre
    <2>2. r.tx = RawTxs[b][i].hash /\ RawTxs[b][i].calls[j].func = kind
        BY <1>11, <2>1
    <2>3. AuthCall(RawTxs[b][i].calls[j]) /\ x = FunctionItem(b, i, kind)
        BY <1>11, <2>1, <2>2 DEF AuthCall, FunctionItem
    <2> QED BY <1>5, <2>1, <2>2, <2>3
<1>12. ASSUME NEW x PROVE Has(F \o E, x) <=> x \in Owed(kind, b)
    BY <1>4, <1>8, <1>9, <1>10, <1>11
<1>13. ASSUME TellsApart(kind, b) PROVE Once(F \o E)
    <2>1. CASE kind \in AuthFunctions
        <3>1. Once(E)
            BY <1>5, <1>13, <2>1, ApartNoRepeats
        <3>2. ASSUME NEW x, Has(F, x) PROVE FALSE
            <4>1. PICK i, j, k : OutputAt(b, i, j, k) /\ x = OutputItem(b, i, j, k)
                BY <1>4, <3>2, RawOutputsAre
            <4>2. RawTxs[b][i].calls[j].func = kind
                BY <1>4, <3>2, <4>1 DEF OutputItem
            <4>3. RawTxs[b][i].calls[j].func \in OutputFunctions
                BY <4>1 DEF OutputAt, TxOutputAt, Adds
            <4> QED BY <2>1, <4>2, <4>3 DEF AuthFunctions, OutputFunctions
        <3>3. \A j \in 1 .. Len(F) : \A k \in 1 .. Len(E) : F[j] # E[k]
            BY <3>2 DEF Has
        <3> QED BY <1>4, <1>6, <3>1, <3>3, ConcatOnce
    <2>2. CASE kind \notin AuthFunctions
        <3>1. ASSUME NEW x, Has(E, x) PROVE FALSE
            BY <1>10, <2>2, <3>1
        <3>2. Once(E)
            BY <3>1 DEF Once, Has
        <3>3. \A j \in 1 .. Len(F) : \A k \in 1 .. Len(E) : F[j] # E[k]
            BY <3>1 DEF Has
        <3> QED BY <1>4, <1>6, <3>2, <3>3, ConcatOnce
    <2> QED BY <2>1, <2>2
<1> QED BY <1>3, <1>7, <1>12, <1>13 DEF SentRight

\* Every stream.
LEMMA KindRight == ASSUME NEW b \in Hash, NEW kind \in Kinds PROVE SentRight(kind, b)
BY CommitmentsRight, NullifiersRight, OutputsRight, DaoRight, MoneyRight DEF Kinds

-----------------------------------------------------------------------------
(* A whole stream.                                                          *)

\* The transaction a record names.
LEMMA OwedTx ==
    ASSUME NEW b \in Hash, NEW kind \in {"outputs"} \cup MoneyFunctions, NEW x \in Owed(kind, b)
    PROVE  \E i \in 1 .. Len(RawTxs[b]) : x.tx = RawTxs[b][i].hash
<1>1. ASSUME x \in RawOutputs(b)
      PROVE  \E i \in 1 .. Len(RawTxs[b]) : x.tx = RawTxs[b][i].hash
    <2>1. PICK i, j, k : OutputAt(b, i, j, k) /\ x = OutputItem(b, i, j, k)
        BY <1>1, RawOutputsAre
    <2>2. i \in 1 .. Len(RawTxs[b]) /\ x.tx = RawTxs[b][i].hash
        BY <2>1 DEF OutputAt, OutputItem
    <2> QED BY <2>2
<1>2. CASE kind = "outputs"
    <2>1. x \in RawOutputs(b)
        BY <1>2 DEF Owed, MoneyFunctions
    <2> QED BY <1>1, <2>1
<1>3. CASE kind \in MoneyFunctions
    <2>1. \/ x \in RawOutputs(b)
          \/ \E r \in RawMoneyCalls(b) : x = [tx |-> r.tx, coin |-> None, func |-> kind]
        BY <1>3 DEF Owed, MoneyFunctions
    <2>2. ASSUME NEW r \in RawMoneyCalls(b), x = [tx |-> r.tx, coin |-> None, func |-> kind]
          PROVE  \E i \in 1 .. Len(RawTxs[b]) : x.tx = RawTxs[b][i].hash
        <3>1. PICK i, j : /\ CallAt(b, i, j)
                          /\ r = [tx |-> RawTxs[b][i].hash, call |-> RawTxs[b][i].calls[j]]
            BY RawMoneyAre
        <3>2. i \in 1 .. Len(RawTxs[b]) /\ x.tx = RawTxs[b][i].hash
            BY <2>2, <3>1 DEF CallAt
        <3> QED BY <3>2
    <2> QED BY <1>1, <2>1, <2>2
<1> QED BY <1>2, <1>3

\* Two blocks of one chain owe a wallet nothing in common.
LEMMA OwedApart ==
    ASSUME NEW top \in Hash, NEW b \in Ancestors[top], NEW c \in Ancestors[top],
           NEW kind \in Kinds, NEW x, x \in Owed(kind, b), x \in Owed(kind, c)
    PROVE  b = c
<1>1. b \in Hash /\ c \in Hash
    BY ForkTreeAssumption
<1>2. ASSUME NEW i \in 1 .. Len(RawTxs[b]), NEW m \in 1 .. Len(RawTxs[c]),
             RawTxs[b][i].hash = RawTxs[c][m].hash
      PROVE  b = c
    BY <1>2, ChainPlaces
<1>3. CASE kind = "commitments"
    <2>1. \A d \in Hash : \A y : y \in Owed("commitments", d) <=> \E o \in RawOutputs(d) : y = o.coin
        BY DEF Owed, MoneyFunctions
    <2>2. PICK o \in RawOutputs(b) : x = o.coin
        BY <1>1, <1>3, <2>1
    <2>3. PICK u \in RawOutputs(c) : x = u.coin
        BY <1>1, <1>3, <2>1
    <2>4. PICK i, j, k : OutputAt(b, i, j, k) /\ o = OutputItem(b, i, j, k)
        BY <1>1, <2>2, RawOutputsAre
    <2>5. PICK m, n, l : OutputAt(c, m, n, l) /\ u = OutputItem(c, m, n, l)
        BY <1>1, <2>3, RawOutputsAre
    <2>6. CoinAt(b, i, j, k) = CoinAt(c, m, n, l)
        BY <2>2, <2>3, <2>4, <2>5 DEF OutputItem
    <2>7. i \in 1 .. Len(RawTxs[b]) /\ m \in 1 .. Len(RawTxs[c])
        BY <2>4, <2>5 DEF OutputAt
    <2> QED BY <2>4, <2>5, <2>6, <2>7, ChainPlaces
<1>4. CASE kind = "nullifiers"
    <2>1. PICK i, j, k : NullifierAt(b, i, j, k) /\ x = NullifierItem(b, i, j, k)
        BY <1>1, <1>4, RawNullifiersAre
    <2>2. PICK m, n, l : NullifierAt(c, m, n, l) /\ x = NullifierItem(c, m, n, l)
        BY <1>1, <1>4, RawNullifiersAre
    <2>3. i \in 1 .. Len(RawTxs[b]) /\ m \in 1 .. Len(RawTxs[c])
        BY <2>1, <2>2 DEF NullifierAt
    <2> QED BY <2>1, <2>2, <2>3, ChainPlaces
<1>5. CASE kind = "dao"
    <2>1. PICK i, j : CallAt(b, i, j) /\ x = DaoItem(b, i, j)
        BY <1>1, <1>5, RawDaoAre
    <2>2. PICK m, n : CallAt(c, m, n) /\ x = DaoItem(c, m, n)
        BY <1>1, <1>5, RawDaoAre
    <2>3. RawTxs[b][i].hash = RawTxs[c][m].hash
        BY <2>1, <2>2 DEF DaoItem
    <2>4. i \in 1 .. Len(RawTxs[b]) /\ m \in 1 .. Len(RawTxs[c])
        BY <2>1, <2>2 DEF CallAt
    <2> QED BY <1>2, <2>3, <2>4
<1>6. CASE kind \in {"outputs"} \cup MoneyFunctions
    <2>1. PICK i \in 1 .. Len(RawTxs[b]) : x.tx = RawTxs[b][i].hash
        BY <1>1, <1>6, OwedTx
    <2>2. PICK m \in 1 .. Len(RawTxs[c]) : x.tx = RawTxs[c][m].hash
        BY <1>1, <1>6, OwedTx
    <2> QED BY <1>2, <2>1, <2>2
<1> QED BY <1>3, <1>4, <1>5, <1>6 DEF Kinds

\* The whole of a stream of one kind.
Delivered(kind, rows) == Concat(rows, LAMBDA b : Sent(kind, b))

\* What a whole stream has sent, and when it has sent nothing twice.
LEMMA DeliveredItems ==
    ASSUME NEW rows \in Seq(Hash), NEW kind \in Kinds
    PROVE  /\ IsList(Delivered(kind, rows))
           /\ \A x : Has(Delivered(kind, rows), x)
                        <=> \E i \in 1 .. Len(rows) : x \in Owed(kind, rows[i])
           /\ (/\ \A i \in 1 .. Len(rows) : TellsApart(kind, rows[i])
               /\ \A i, j \in 1 .. Len(rows) : \A x :
                     x \in Owed(kind, rows[i]) /\ x \in Owed(kind, rows[j]) => i = j)
                  => Once(Delivered(kind, rows))
<1>1. PICK n \in Nat : n = Len(rows) /\ DOMAIN rows = 1 .. n
    OBVIOUS
<1>2. PICK g : g = [i \in 1 .. n |-> Sent(kind, rows[i])]
    OBVIOUS
<1>3. Delivered(kind, rows) = FlattenSeq(g)
    BY <1>1, <1>2 DEF Delivered, Concat
<1>4. ASSUME NEW i \in 1 .. n PROVE g[i] = Sent(kind, rows[i]) /\ SentRight(kind, rows[i])
    BY <1>1, <1>2, KindRight
<1>5. \A i \in 1 .. n : /\ IsList(g[i])
                        /\ \A x : Has(g[i], x) <=> x \in Owed(kind, rows[i])
    BY <1>4 DEF SentRight
<1>6. g = [i \in 1 .. n |-> g[i]]
    BY <1>2
<1>7. /\ IsList(FlattenSeq(g))
      /\ \A x : Has(FlattenSeq(g), x) <=> \E i \in 1 .. n : Has(g[i], x)
    BY <1>1, <1>5, <1>6, Placed
<1>8. ASSUME \A i \in 1 .. n : TellsApart(kind, rows[i]),
             \A i, j \in 1 .. n : \A x : x \in Owed(kind, rows[i]) /\ x \in Owed(kind, rows[j]) => i = j
      PROVE  Once(FlattenSeq(g))
    <2>1. \A i \in 1 .. n : Once(g[i])
        BY <1>4, <1>8 DEF SentRight
    <2>2. \A i, j \in 1 .. n : \A x : Has(g[i], x) /\ Has(g[j], x) => i = j
        BY <1>5, <1>8
    <2>3. \A i \in 1 .. n : IsList(g[i])
        BY <1>5
    <2> QED BY <1>1, <1>6, <2>1, <2>2, <2>3, PlacedOnce
<1> QED BY <1>1, <1>3, <1>5, <1>7, <1>8

\* Nothing twice, as the property says it.
LEMMA OnceInjective == ASSUME NEW s, IsList(s), Once(s) PROVE IsInjective(s)
BY ListDomain DEF Once, IsInjective

\* The rows of a range are of one chain, no two of one height.
LEMMA RangeRows ==
    ASSUME StreamInv, stream.state = "done", stream.kind # "sparse"
    PROVE  \E top \in Hash : \A i \in 1 .. Len(stream.rows) : stream.rows[i] \in Ancestors[top]
<1>1. /\ Wanted(stream.kind, stream.want) /\ RowsFor(stream.kind, stream.want, stream.rows)
      /\ Len(stream.rows) = Len(stream.want)
    BY DEF StreamInv, NoStream, StreamOK
<1>2. PICK rows, n : rows = stream.rows /\ n = Len(rows)
    OBVIOUS
<1>3. PICK start \in Heights, end \in Heights : start <= end /\ stream.want = HeightsFrom(start, end)
    BY <1>1 DEF Wanted
<1>4. start \in Nat /\ end \in Nat
    BY ForkTreeAssumption DEF Heights
<1>5. n = end - start + 1 /\ n \in 1 .. Len(rows) /\ rows \in Seq(Hash) /\ rows[n] \in Hash
    <2>1. rows \in Seq(Hash) /\ n = end - start + 1
        BY <1>1, <1>2, <1>3, RangeWanted DEF RowsFor
    <2>2. n \in 1 .. Len(rows)
        BY <1>2, <1>3, <1>4, <2>1
    <2>3. rows[n] \in Hash
        BY <2>1, <2>2
    <2> QED BY <2>1, <2>2, <2>3
<1>6. \A i \in 1 .. Len(rows) : HeightOf[rows[i]] = start + i - 1
    BY <1>1, <1>2, <1>3, <1>5, RangeWanted DEF RowsFor
<1>7. \A i \in 2 .. Len(rows) : Prev[rows[i]] = rows[i - 1]
    BY <1>1, <1>2 DEF RowsFor
<1>8. \A a : (a \in Ancestors[rows[n]] /\ HeightOf[a] >= start) <=> \E j \in 1 .. n : rows[j] = a
    <2>1. rows \in Seq(Hash) /\ n \in 1 .. Len(rows)
        BY <1>5
    <2> QED BY <1>4, <1>6, <1>7, <2>1, ChainPiece
<1>9. \A i \in 1 .. n : rows[i] \in Ancestors[rows[n]]
    BY <1>8
<1> QED BY <1>2, <1>5, <1>9

\* No row is read twice.
LEMMA RowsDiffer ==
    ASSUME StreamInv, stream.state = "done", stream.kind # "sparse",
           NEW i \in 1 .. Len(stream.rows), NEW j \in 1 .. Len(stream.rows),
           stream.rows[i] = stream.rows[j]
    PROVE  i = j
<1>1. /\ Wanted(stream.kind, stream.want) /\ RowsFor(stream.kind, stream.want, stream.rows)
      /\ Len(stream.rows) = Len(stream.want)
    BY DEF StreamInv, NoStream, StreamOK
<1>2. PICK start \in Heights, end \in Heights : start <= end /\ stream.want = HeightsFrom(start, end)
    BY <1>1 DEF Wanted
<1>3. start \in Nat /\ end \in Nat
    BY ForkTreeAssumption DEF Heights
<1>4. PICK n : n = Len(stream.rows)
    OBVIOUS
<1>5. n = end - start + 1 /\ \A k \in 1 .. n : stream.want[k] = start + k - 1
    BY <1>1, <1>2, <1>4, RangeWanted
<1>6. HeightOf[stream.rows[i]] = start + i - 1 /\ HeightOf[stream.rows[j]] = start + j - 1
    BY <1>1, <1>4, <1>5 DEF RowsFor
<1> QED BY <1>3, <1>4, <1>5, <1>6

\* A stream that comes to its end has sent each item once.
LEMMA DoneDelivers == ASSUME StreamInv PROVE EachItemOnce
<1>1. SUFFICES ASSUME stream.state = "done", NEW k \in Kinds
               PROVE  /\ Range(Delivered(k, stream.rows))
                             = UNION {Owed(k, b) : b \in Range(stream.rows)}
                      /\ (\A b \in Range(stream.rows) : TellsApart(k, b)) =>
                            IF stream.kind = "sparse"
                            THEN \A b \in Range(stream.rows) : IsInjective(Sent(k, b))
                            ELSE IsInjective(Delivered(k, stream.rows))
    BY DEF EachItemOnce, Delivered
<1>2. PICK rows, S : rows = stream.rows /\ S = Delivered(k, rows)
    OBVIOUS
<1>3. rows \in Seq(Hash)
    BY <1>1, <1>2 DEF StreamInv, NoStream, StreamOK, RowsFor
<1>4. \A b : b \in Range(rows) <=> \E i \in 1 .. Len(rows) : b = rows[i]
    BY <1>3, SeqIsList, InRange
<1>5. /\ IsList(S)
      /\ \A x : Has(S, x) <=> \E i \in 1 .. Len(rows) : x \in Owed(k, rows[i])
    BY <1>2, <1>3, DeliveredItems
<1>6. Range(S) = UNION {Owed(k, b) : b \in Range(rows)}
    <2>1. \A x : x \in Range(S) <=> Has(S, x)
        BY <1>5, HasRange
    <2>2. \A x : x \in UNION {Owed(k, b) : b \in Range(rows)} <=> \E b \in Range(rows) : x \in Owed(k, b)
        OBVIOUS
    <2> QED BY <1>4, <1>5, <2>1, <2>2
<1>7. ASSUME \A b \in Range(rows) : TellsApart(k, b), NEW b \in Range(rows)
      PROVE  IsInjective(Sent(k, b))
    <2>1. b \in Hash
        BY <1>3, <1>4
    <2>2. IsList(Sent(k, b)) /\ Once(Sent(k, b))
        BY <1>7, <2>1, KindRight DEF SentRight
    <2> QED BY <2>2, OnceInjective
<1>8. ASSUME \A b \in Range(rows) : TellsApart(k, b), stream.kind # "sparse"
      PROVE  IsInjective(S)
    <2>1. \A i \in 1 .. Len(rows) : TellsApart(k, rows[i])
        BY <1>4, <1>8
    <2>2. PICK top \in Hash : \A i \in 1 .. Len(rows) : rows[i] \in Ancestors[top]
        BY <1>1, <1>2, <1>8, RangeRows
    <2>3. ASSUME NEW i \in 1 .. Len(rows), NEW j \in 1 .. Len(rows), NEW x,
                 x \in Owed(k, rows[i]), x \in Owed(k, rows[j])
          PROVE  i = j
        <3>1. rows[i] = rows[j]
            BY <2>2, <2>3, OwedApart
        <3> QED BY <1>1, <1>2, <1>8, <3>1, RowsDiffer
    <2>4. Once(S)
        BY <1>2, <1>3, <2>1, <2>3, DeliveredItems
    <2> QED BY <1>5, <2>4, OnceInjective
<1> QED BY <1>2, <1>6, <1>7, <1>8

\* The streams of blocks and of their parts, to a wallet: a stream that comes to
\* its end has delivered one chain, and of each of its blocks every coin,
\* nullifier, output, event and DAO call of the raw transactions, none that is
\* not in them, and none twice.
THEOREM StreamsDeliver == StreamReadsSpec => []StreamDeliversChain
<1>1. CacheInit /\ stream = NoStream => CacheInv /\ StreamInv
    BY CacheStarts DEF StreamInv
<1>2. CacheInv /\ StreamInv /\ [StreamReadsNext]_streamVars => (CacheInv /\ StreamInv)'
    BY StreamStep
<1>3. StreamInv => StreamDeliversChain
    BY DoneIsChain, DoneDelivers DEF StreamDeliversChain
<1> QED
    BY <1>1, <1>2, <1>3, PTL DEF StreamReadsSpec
=============================================================================
