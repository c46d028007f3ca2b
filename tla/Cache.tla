-------------------------------- MODULE Cache --------------------------------
(***************************************************************************)
(* The block part of the sled cache (src/src/cache.rs): one operator per   *)
(* operation the chain poller calls, from a store to the store it leaves.  *)
(* A store is a record of the sled trees the operations touch:             *)
(*                                                                         *)
(*   blocks  compact_blocks and block_hashes, by height (both are written  *)
(*           and deleted together, under one key)                          *)
(*   coins   the coins tree, by height: the block whose coins the row has  *)
(*   tip     META_TIP_HEIGHT and META_TIP_HASH                             *)
(*   tree    META_TIP_MERKLE_HEIGHT and META_TIP_MERKLE_TREE, and their    *)
(*           copy in memory (LiveTipTree), which follows every write       *)
(*   snaps   merkle_snapshots, by height                                   *)
(*                                                                         *)
(* A Merkle tree counts the times each block's coins were appended to it   *)
(* (ForkTree!TrueTree).  nullifiers is written and deleted with the keys   *)
(* of coins, and hash_to_height is never read: neither is modelled.        *)
(***************************************************************************)
EXTENDS ForkTree

CONSTANT Interval      \* MERKLE_SNAPSHOT_INTERVAL

ASSUME IntervalAssumption == Interval \in Nat \ {0}

NoTip  == [height |-> None, hash |-> None]
NoTree == [height |-> None, leaves |-> EmptyTree]

Tips  == [height : Heights, hash : Hash]
Trees == [height : Heights, leaves : [Hash -> Nat]]
Rows  == [Heights -> Hash \cup {None}]

Stores == [ blocks : Rows,
            coins  : Rows,
            tip    : Tips \cup {NoTip},
            tree   : Trees \cup {NoTree},
            snaps  : [Heights -> [Hash -> Nat] \cup {None}] ]

EmptyStore == [ blocks |-> [h \in Heights |-> None],
                coins  |-> [h \in Heights |-> None],
                tip    |-> NoTip,
                tree   |-> NoTree,
                snaps  |-> [h \in Heights |-> None] ]

-----------------------------------------------------------------------------
(* Merkle-tree snapshots.                                                   *)

DeleteFrom_OffByOne(snaps, h) == [k \in Heights |-> IF k > h THEN None ELSE snaps[k]]

\* delete_snapshots_at_or_above; delete_snapshots_above(h) starts at h + 1.
DeleteFrom(snaps, h) == [k \in Heights |-> IF k >= h THEN None ELSE snaps[k]]

StoreTipTree_DropsBoundary(db, prev, h, leaves) ==
    [db EXCEPT
        !.tree  = [height |-> h, leaves |-> leaves],
        !.snaps = [k \in Heights |-> IF k = h THEN leaves
                                     ELSE IF k = prev THEN None
                                     ELSE db.snaps[k]]]

\* store_tip_tree: the tip keys, a snapshot row at the tip, and the previous
\* tip's row dropped unless it is on an interval boundary.
StoreTipTree(db, prev, h, leaves) ==
    [db EXCEPT
        !.tree  = [height |-> h, leaves |-> leaves],
        !.snaps = [k \in Heights |->
                      IF k = h THEN leaves
                      ELSE IF k = prev /\ k % Interval # 0 THEN None
                      ELSE db.snaps[k]]]

\* The heights of the snapshots greatest_snapshot_at_or_below(h) chooses from.
SnapsUpTo(db, h) == {k \in 0 .. h : db.snaps[k] # None}

GreatestIn(S) == CHOOSE k \in S : \A j \in S : j <= k

\* The coins of the rows from..upto, appended to a tree.
Replay(db, leaves, from, upto) ==
    [b \in Hash |-> leaves[b] + IF \E k \in from .. upto : db.coins[k] = b
                                THEN 1 ELSE 0]

\* The replay loop of rebuild_tip_merkle_tree, from the block after the seed
\* to h: an interval snapshot at every boundary passed, then the tip tree.
ReplayFrom(db, prev, leaves, from, h) ==
    StoreTipTree(
        [db EXCEPT !.snaps = [k \in Heights |->
            IF k \in from .. h /\ k % Interval = 0
            THEN Replay(db, leaves, from, k)
            ELSE db.snaps[k]]],
        prev, h, Replay(db, leaves, from, h))

RebuildTipTree_SeedTwice(db, h) ==
    IF h = 0 /\ db.blocks[0] = None
    THEN [db EXCEPT !.tree = NoTree, !.snaps = [k \in Heights |-> None]]
    ELSE LET cut  == [db EXCEPT !.snaps = DeleteFrom(db.snaps, h + 1)]
             seed == GreatestIn(SnapsUpTo(db, h))
         IN  IF SnapsUpTo(db, h) = {}
             THEN ReplayFrom(cut, None, EmptyTree, 0, h)
             ELSE ReplayFrom(cut, seed, db.snaps[seed], seed, h)

\* rebuild_tip_merkle_tree: seed with the greatest snapshot at or below h (or
\* the empty tree) and replay the coins above it.
RebuildTipTree(db, h) ==
    IF h = 0 /\ db.blocks[0] = None
    THEN [db EXCEPT !.tree = NoTree, !.snaps = [k \in Heights |-> None]]
    ELSE LET cut  == [db EXCEPT !.snaps = DeleteFrom(db.snaps, h + 1)]
             seed == GreatestIn(SnapsUpTo(db, h))
         IN  IF SnapsUpTo(db, h) = {}
             THEN ReplayFrom(cut, None, EmptyTree, 0, h)
             ELSE ReplayFrom(cut, seed, db.snaps[seed], seed + 1, h)

\* append_coins_to_tip_tree, for block b at height h: a tree that does not end
\* just below h is first rebuilt up to the parent.
AppendCoins(db, h, b) ==
    LET base == IF db.tree = NoTree \/ h = db.tree.height + 1
                THEN db
                ELSE RebuildTipTree(db, h - 1)
    IN  IF db.tree # NoTree /\ h = 0
        THEN RebuildTipTree(db, 0)
        ELSE StoreTipTree(base, base.tree.height, h,
                          [a \in Hash |-> base.tree.leaves[a] +
                              IF a = b /\ b \in CoinBlocks THEN 1 ELSE 0])

-----------------------------------------------------------------------------
(* The operations on blocks.                                                *)

\* The rows a block writes.  A block without coins writes no coins row, and
\* leaves one that is already there.
WriteRows(db, b) ==
    [db EXCEPT
        !.blocks[HeightOf[b]] = b,
        !.coins[HeightOf[b]]  = IF b \in CoinBlocks THEN b ELSE @]

InsertBlock_AlwaysTip(db, b) ==
    LET h == HeightOf[b]
    IN  AppendCoins([WriteRows(db, b) EXCEPT !.tip = [height |-> h, hash |-> b]], h, b)

\* insert_compact_block: a block below the tip (the genesis backfill) leaves
\* the tip, and has the trees that lack its coins rebuilt.
InsertBlock(db, b) ==
    LET h    == HeightOf[b]
        rows == WriteRows(db, b)
    IN  IF db.tip # NoTip /\ h < db.tip.height
        THEN RebuildTipTree(
                 [rows EXCEPT !.snaps = DeleteFrom(rows.snaps, h)],
                 db.tip.height)
        ELSE AppendCoins([rows EXCEPT !.tip = [height |-> h, hash |-> b]], h, b)

\* Rewind and prune delete the rows of every tree under the doomed keys that
\* compact_blocks holds.
DeleteWithBlock(db, f, doomed) ==
    [k \in Heights |-> IF k \in doomed /\ db.blocks[k] # None THEN None ELSE f[k]]

Rewind_Exclusive(db, h) ==
    LET above == {k \in Heights : k >= h}
        kept  == [db EXCEPT !.blocks = DeleteWithBlock(db, db.blocks, above),
                            !.coins  = DeleteWithBlock(db, db.coins, above)]
    IN  RebuildTipTree(
            [kept EXCEPT !.tip = [height |-> h, hash |-> db.blocks[h]]], h)

Rewind_TipStays(db, h) ==
    LET above == {k \in Heights : k > h}
        kept  == [db EXCEPT !.blocks = DeleteWithBlock(db, db.blocks, above),
                            !.coins  = DeleteWithBlock(db, db.coins, above)]
    IN  RebuildTipTree(kept, h)

\* rewind_to_height: the tip moves to h when there is a block at h, goes away
\* when h is 0, and otherwise stays where it was.
Rewind(db, h) ==
    LET above == {k \in Heights : k > h}
        kept  == [db EXCEPT !.blocks = DeleteWithBlock(db, db.blocks, above),
                            !.coins  = DeleteWithBlock(db, db.coins, above)]
        tip   == IF db.blocks[h] # None THEN [height |-> h, hash |-> db.blocks[h]]
                 ELSE IF h = 0 THEN NoTip
                 ELSE db.tip
    IN  RebuildTipTree([kept EXCEPT !.tip = tip,
                                    !.snaps = DeleteFrom(db.snaps, h + 1)], h)

Prune_WrongEnd(db, window) ==
    IF db.tip = NoTip \/ db.tip.height <= window
    THEN db
    ELSE LET above == {k \in Heights : k >= db.tip.height - window}
         IN  [db EXCEPT !.blocks = DeleteWithBlock(db, db.blocks, above),
                        !.coins  = DeleteWithBlock(db, db.coins, above)]

\* prune_with_retention and prune_below_height: block data older than the
\* window goes, snapshots and tip stay.
Prune(db, window) ==
    IF db.tip = NoTip \/ db.tip.height <= window
    THEN db
    ELSE LET below == {k \in Heights : k < db.tip.height - window}
         IN  [db EXCEPT !.blocks = DeleteWithBlock(db, db.blocks, below),
                        !.coins  = DeleteWithBlock(db, db.coins, below)]
=============================================================================
