------------------------------ MODULE CacheWrites ------------------------------
(***************************************************************************)
(* The block part of the cache as sled sees it (src/src/cache.rs): every   *)
(* operation is a list of writes of single rows, a reader may come between *)
(* any two of them, and a crash may cut the list anywhere.  sled replays   *)
(* its log in order, so what a crash loses is the end of the list.         *)
(*                                                                         *)
(* The one writer is the chain poller.  Of its choices this module keeps   *)
(* only what ChainPoller guarantees about them: it inserts a block one     *)
(* above the tip that continues the cached hash below it, or the missing   *)
(* genesis block, it rewinds to a height at or below the tip, and it never *)
(* inserts a block that the block processor refuses.                       *)
(***************************************************************************)
EXTENDS Cache, BlockProcessor

CONSTANTS
    Format,      \* CACHE_FORMAT_VERSION
    OldRow,      \* a row in the layout of an older version
    OldDisk,     \* the sled database an older version left behind
    Retention,   \* the poller's retention_blocks, 0 when it never prunes
    MaxCrashes   \* bound on crashes

ASSUME RetentionAssumption == Retention \in Nat

\* The coins a block creates are those its compact form keeps.
ASSUME CoinBlocksAssumption ==
    \A b \in {a \in Hash : ~Refused(a)} :
        b \in CoinBlocks <=> \E t \in Range(ProcessBlock(b).txs) : t.outputs # <<>>

VARIABLES
    db,          \* the sled trees, and the tip tree in memory
    todo,        \* the writes the running operation still has to make
    mode,        \* "starting" (Cache::new) or "serving"
    owed,        \* the cache has changed since the poller last called notify_tip
    pruned,      \* history: rows have been pruned
    crashes

cacheVars == <<db, todo, mode, owed, pruned, crashes>>

-----------------------------------------------------------------------------
(* Trees and writes.                                                        *)

\* The keys of the meta tree.  merkle_tree holds leaves (ForkTree!TrueTree).
MetaKeys == {"tip_height", "tip_hash", "merkle_tree", "merkle_height", "format",
             "attest", "attest_v2", "pepper", "pepper_v1"}

NoRows == [h \in Heights |-> None]

EmptyDisk ==
    [ blocks |-> NoRows, hashes |-> NoRows, coins |-> NoRows, snaps |-> NoRows,
      meta |-> [k \in MetaKeys |-> None],
      pubkeys |-> [current |-> None, old |-> None],
      live |-> [tree |-> NoTree] ]

\* The trees and keys of every disk.
IsDisk(d) == /\ d = [t \in DOMAIN EmptyDisk |-> d[t]]
             /\ \A t \in DOMAIN EmptyDisk : d[t] = [k \in DOMAIN EmptyDisk[t] |-> d[t][k]]

\* The rows an older version left are in its own layout, under its own version.
ASSUME OldDiskAssumption ==
    /\ Format # None /\ OldRow \notin Hash \cup {None}
    /\ IsDisk(OldDisk)
    /\ OldDisk.meta.format \notin {None, Format}
    /\ OldDisk.blocks \in [Heights -> {OldRow, None}]
    /\ OldDisk.meta.tip_height \in Heights \cup {None} /\ OldDisk.meta.tip_hash \in Hash \cup {None}
    /\ OldDisk.meta.merkle_height \in Heights \cup {None} /\ OldDisk.live.tree = NoTree

\* One row of one tree; None removes it.
Put(tree, key, val)  == <<[tree |-> tree, key |-> key, val |-> val]>>
Erase(tree, key)    == Put(tree, key, None)
When(cond, writes)   == IF cond THEN writes ELSE <<>>

\* The heights of S in ascending order, and the removal of their rows: those of
\* the first height in each of the trees, then those of the next one.
Ascending(S) == [i \in 1 .. Cardinality(S) |->
                    CHOOSE h \in S : Cardinality({k \in S : k < h}) = i - 1]
EraseRows(trees, S) ==
    LET n == Len(trees)
    IN  [i \in 1 .. n * Cardinality(S) |->
            [tree |-> trees[((i - 1) % n) + 1], key |-> Ascending(S)[((i - 1) \div n) + 1],
             val |-> None]]

Apply(d, w) == [d EXCEPT ![w.tree][w.key] = w.val]

\* A list of writes played to its end: the last write to a row decides.
WritesTo(writes, t, k) == {i \in DOMAIN writes : writes[i].tree = t /\ writes[i].key = k}
Play(d, writes) ==
    [t \in DOMAIN d |-> [k \in DOMAIN d[t] |->
        LET at == WritesTo(writes, t, k)
        IN  IF at = {} THEN d[t][k] ELSE writes[Max(at)].val]]

RowsIn(f, S) == {h \in S : f[h] # None}

\* get_tip: no tip unless both keys are there.
Tip(d) == IF None \in {d.meta.tip_height, d.meta.tip_hash} THEN NoTip
          ELSE [height |-> d.meta.tip_height, hash |-> d.meta.tip_hash]

\* get_tip_tree_state, read in one go.
TreeOnDisk(d) == IF None \in {d.meta.merkle_height, d.meta.merkle_tree} THEN NoTree
                 ELSE [height |-> d.meta.merkle_height, leaves |-> d.meta.merkle_tree]

-----------------------------------------------------------------------------
(* The tip tree.                                                            *)

RemoveSnapsFrom(d, h) ==
    EraseRows(<<"snaps">>, RowsIn(d.snaps, {k \in Heights : k >= h}))

\* store_tip_tree: the tree, then its height, then the snapshot row; at last
\* the copy in memory, which its callers set.
StoreTreeWrites(prev, h, leaves) ==
    Put("meta", "merkle_tree", leaves) \o Put("meta", "merkle_height", h)
        \o Put("snaps", h, leaves)
        \o When(prev \notin {None, h} /\ prev % Interval # 0, Erase("snaps", prev))
        \o Put("live", "tree", [height |-> h, leaves |-> leaves])

RebuildWrites_SeedTwice(d, h) ==
    IF h = 0 /\ d.blocks[0] = None
    THEN Erase("meta", "merkle_tree") \o Erase("meta", "merkle_height")
             \o RemoveSnapsFrom(d, 0) \o Put("live", "tree", NoTree)
    ELSE LET found  == SnapsUpTo(d, h) # {}
             seed   == IF found THEN GreatestIn(SnapsUpTo(d, h)) ELSE None
             from   == IF found THEN seed ELSE 0
             leaves == IF found THEN d.snaps[seed] ELSE EmptyTree
         IN  RemoveSnapsFrom(d, h + 1)
                 \o StoreTreeWrites(seed, h, Replay(d, leaves, from, h))

\* rebuild_tip_merkle_tree.
RebuildWrites(d, h) ==
    IF h = 0 /\ d.blocks[0] = None
    THEN Erase("meta", "merkle_tree") \o Erase("meta", "merkle_height")
             \o RemoveSnapsFrom(d, 0) \o Put("live", "tree", NoTree)
    ELSE LET found  == SnapsUpTo(d, h) # {}
             seed   == IF found THEN GreatestIn(SnapsUpTo(d, h)) ELSE None
             from   == IF found THEN seed + 1 ELSE 0
             leaves == IF found THEN d.snaps[seed] ELSE EmptyTree
             bounds == Ascending({k \in from .. h : k % Interval = 0})
         IN  RemoveSnapsFrom(d, h + 1)
                 \o [i \in DOMAIN bounds |->
                        [tree |-> "snaps", key |-> bounds[i],
                         val |-> Replay(d, leaves, from, bounds[i])]]
                 \o StoreTreeWrites(seed, h, Replay(d, leaves, from, h))

\* append_coins_to_tip_tree, on the tree in memory.
AppendWrites(d, h, b) ==
    LET prev    == d.live.tree.height
        stale   == prev # None /\ h # prev + 1
        rebuild == When(stale, RebuildWrites(d, IF h = 0 THEN 0 ELSE h - 1))
        base    == Play(d, rebuild).live.tree
    IN  rebuild \o
        When(~ (stale /\ h = 0),
             StoreTreeWrites(base.height, h,
                 [a \in Hash |-> base.leaves[a] + IF a = b /\ b \in CoinBlocks THEN 1 ELSE 0]))

-----------------------------------------------------------------------------
(* The operations.                                                          *)

\* insert_compact_block.
InsertWrites(d, b) ==
    LET h    == HeightOf[b]
        rows == Put("blocks", h, b) \o Put("hashes", h, b)
                    \o When(b \in CoinBlocks, Put("coins", h, b))
        tip  == Put("meta", "tip_height", h) \o Put("meta", "tip_hash", b)
        cut  == RemoveSnapsFrom(d, h)
    IN  rows \o
        IF Tip(d) # NoTip /\ h < Tip(d).height
        THEN cut \o RebuildWrites(Play(d, rows \o cut), Tip(d).height)
        ELSE tip \o AppendWrites(Play(d, rows \o tip), h, b)

\* The rows of doomed blocks, in the order rewind and prune delete them.
RemoveBlocks(S) == EraseRows(<<"blocks", "hashes", "coins">>, S)

RewindWrites_TipFirst(d, h) ==
    LET tip  == IF d.blocks[h] # None
                THEN Put("meta", "tip_height", h) \o Put("meta", "tip_hash", d.blocks[h])
                ELSE <<>>
        rows == tip \o RemoveBlocks(RowsIn(d.blocks, {k \in Heights : k > h}))
        cut  == RemoveSnapsFrom(d, h + 1)
    IN  rows \o cut \o RebuildWrites(Play(d, rows \o cut), h)

\* rewind_to_height.
RewindWrites(d, h) ==
    LET gone == RemoveBlocks(RowsIn(d.blocks, {k \in Heights : k > h}))
        tip  == IF d.blocks[h] # None
                THEN Put("meta", "tip_height", h) \o Put("meta", "tip_hash", d.blocks[h])
                ELSE When(h = 0, Erase("meta", "tip_height") \o Erase("meta", "tip_hash"))
        rows == gone \o tip
        cut  == RemoveSnapsFrom(d, h + 1)
    IN  rows \o cut \o RebuildWrites(Play(d, rows \o cut), h)

\* prune_with_retention and prune_below_height.
PruneWrites(d) ==
    When(Tip(d) # NoTip /\ Tip(d).height > Retention,
         RemoveBlocks(RowsIn(d.blocks, {k \in Heights : k < Tip(d).height - Retention})))

-----------------------------------------------------------------------------
(* Opening the database.                                                    *)

MoveSecret_RemovesFirst(d, old, new) ==
    When(d.meta[old] # None, Erase("meta", old))
        \o When(d.meta[new] = None /\ d.meta[old] # None, Put("meta", new, d.meta[old]))

\* A secret stored under an old name is copied forward, then removed.
MoveSecret(d, old, new) ==
    When(d.meta[new] = None /\ d.meta[old] # None, Put("meta", new, d.meta[old]))
        \o When(d.meta[old] # None, Erase("meta", old))

\* retire_obsolete_names.
RetireWrites(d) ==
    MoveSecret(d, "attest_v2", "attest") \o MoveSecret(d, "pepper_v1", "pepper")
        \o When(d.pubkeys.current = None /\ d.pubkeys.old # None,
                Put("pubkeys", "current", d.pubkeys.old))
        \o When(d.pubkeys.old # None, Erase("pubkeys", "old"))

\* clear_derived_block_cache, each tree cleared row by row.
ClearWrites(d) ==
    EraseRows(<<"blocks">>, RowsIn(d.blocks, Heights))
        \o EraseRows(<<"hashes">>, RowsIn(d.hashes, Heights))
        \o EraseRows(<<"coins">>, RowsIn(d.coins, Heights))
        \o RemoveSnapsFrom(d, 0)
        \o Erase("meta", "tip_height") \o Erase("meta", "tip_hash")
        \o Erase("meta", "merkle_tree") \o Erase("meta", "merkle_height")

FormatWrites_StampFirst(d) ==
    IF d.meta.format \in {None, Format}
    THEN When(d.meta.format = None, Put("meta", "format", Format))
    ELSE Put("meta", "format", Format) \o ClearWrites(d)

\* ensure_cache_format: a missing version is stamped, another one clears the
\* rows first.
FormatWrites(d) ==
    IF d.meta.format \in {None, Format}
    THEN When(d.meta.format = None, Put("meta", "format", Format))
    ELSE ClearWrites(d) \o Put("meta", "format", Format)

\* Cache::new.  verify_tip_readable writes nothing.
StartWrites(d) ==
    LET early == RetireWrites(d) \o FormatWrites(d)
        tree  == TreeOnDisk(Play(d, early))
        index == When(tree # NoTree /\ Play(d, early).snaps[tree.height] = None,
                      Put("snaps", tree.height, tree.leaves))
    IN  early \o index \o Put("live", "tree", tree)

-----------------------------------------------------------------------------
(* Steps.                                                                   *)

Idle == mode = "serving" /\ todo = <<>>

\* The rows the poller may insert now: one above the tip and linked to the
\* hash below it, or the genesis block when it is missing.
NextBlocks(d) ==
    {b \in {a \in Hash : ~Refused(a)} :
        IF d.blocks[0] = None \/ Tip(d) = NoTip THEN b = Genesis
        ELSE /\ HeightOf[b] = Tip(d).height + 1
             /\ d.hashes[HeightOf[b] - 1] \in {None, Prev[b]}}

StartInsert ==
    /\ Idle
    /\ \E b \in NextBlocks(db) : todo' = InsertWrites(db, b)
    /\ owed' = TRUE
    /\ UNCHANGED <<db, mode, pruned, crashes>>

StartRewind ==
    /\ Idle /\ Tip(db) # NoTip
    /\ \E h \in 0 .. Tip(db).height : todo' = RewindWrites(db, h)
    /\ owed' = TRUE
    /\ UNCHANGED <<db, mode, pruned, crashes>>

StartPrune ==
    /\ Idle /\ Retention # 0
    /\ PruneWrites(db) # <<>>
    /\ todo' = PruneWrites(db)
    /\ pruned' = TRUE
    /\ UNCHANGED <<db, mode, owed, crashes>>

\* The next row is written.
Write ==
    /\ todo # <<>>
    /\ db' = Apply(db, Head(todo))
    /\ todo' = Tail(todo)
    /\ UNCHANGED <<mode, owed, pruned, crashes>>

Serve ==
    /\ mode = "starting" /\ todo = <<>>
    /\ mode' = "serving"
    /\ UNCHANGED <<db, todo, owed, pruned, crashes>>

\* The process dies and is started again: memory is lost, the rows stay.
Crash ==
    /\ crashes < MaxCrashes
    /\ crashes' = crashes + 1
    /\ db' = [db EXCEPT !.live.tree = NoTree]
    /\ todo' = StartWrites(db')
    /\ mode' = "starting" /\ owed' = FALSE
    /\ UNCHANGED pruned

CacheInit ==
    /\ db \in {EmptyDisk, OldDisk}
    /\ todo = StartWrites(db)
    /\ mode = "starting" /\ owed = FALSE /\ pruned = FALSE /\ crashes = 0

CacheNext == StartInsert \/ StartRewind \/ StartPrune \/ Write \/ Serve \/ Crash

-----------------------------------------------------------------------------
(* Properties.                                                              *)

\* The rows of adjacent heights are linked even in the middle of an operation
\* and after a crash in one: rewind deletes rows before it lowers the tip.
LinkedOnDisk ==
    \A h \in Heights \ {0} :
        LET b == db.blocks[h]  below == db.blocks[h - 1]
        IN  (b \in Hash /\ below \in Hash) => Prev[b] = below

\* No crash and no pruning has taken rows away under a tree that counts them.
Undamaged == crashes = 0 /\ ~pruned

\* The store Cache's operations see.
AsStore(d) == [ blocks |-> d.blocks, coins |-> d.coins, tip |-> Tip(d),
                tree |-> d.live.tree, snaps |-> d.snaps ]

\* Run to its end, the list of writes of an operation leaves what the whole
\* operation of module Cache leaves, from every store a crash can produce.
WritesMakeOperation ==
    Idle => /\ \A b \in NextBlocks(db) :
                  AsStore(Play(db, InsertWrites(db, b))) = InsertBlock(AsStore(db), b)
            /\ Tip(db) # NoTip => \A h \in 0 .. Tip(db).height :
                  AsStore(Play(db, RewindWrites(db, h))) = Rewind(AsStore(db), h)
            /\ AsStore(Play(db, PruneWrites(db))) = Prune(AsStore(db), Retention)

\* No row of an older layout is served, however often an upgrade crashed.
NoOldRows == mode = "serving" => \A h \in Heights : db.blocks[h] # OldRow

\* A key that is stored stays stored, under its old name or its new one, and
\* is found under the new one once the server serves.
Kept(k, old) == db.meta[k] # None \/ db.meta[old] # None
SecretsSurvive ==
    [][/\ Kept("attest", "attest_v2") => Kept("attest", "attest_v2")'
       /\ Kept("pepper", "pepper_v1") => Kept("pepper", "pepper_v1")'
       /\ mode' = "serving" => db'.meta.attest_v2 = None /\ db'.pubkeys.old = None]_cacheVars
=============================================================================
