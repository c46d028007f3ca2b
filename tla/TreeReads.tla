------------------------------ MODULE TreeReads ------------------------------
(***************************************************************************)
(* GetTreeState and GetCheckpointSnapshot (src/src/server.rs) against the  *)
(* poller's writes.  An answer is put together from several rows of the    *)
(* cache, each read on its own and without a lock: the tip, then the tree  *)
(* or its snapshot, then the block hash.  One request is followed.         *)
(***************************************************************************)
EXTENDS CacheWrites

VARIABLE answer   \* the request, the step it is at, and what it has read

NoAnswer == [step |-> "none", from |-> "none", height |-> None, leaves |-> None, hash |-> None]

\* GetTreeState reads the tip's height, 0 without a tip, and takes the tip
\* tree for it or looks for a snapshot row.
AskTree ==
    /\ mode = "serving" /\ answer = NoAnswer
    /\ \E h \in Heights :
          LET tip == IF Tip(db) = NoTip THEN 0 ELSE Tip(db).height
          IN  answer' = [NoAnswer EXCEPT !.height = h,
                             !.step = IF h = tip THEN "treeHeight" ELSE "row",
                             !.from = IF h = tip THEN "tip" ELSE "row"]
    /\ UNCHANGED cacheVars

\* GetCheckpointSnapshot: a preferred height of 0 is any height.
AskCheckpoint ==
    /\ mode = "serving" /\ answer = NoAnswer
    /\ \E preferred \in Heights :
          LET upto == IF preferred = 0 THEN MaxHeight ELSE preferred
          IN  answer' = IF SnapsUpTo(db, upto) = {} THEN NoAnswer
                        ELSE [step   |-> "hash", from |-> "row",
                              height |-> GreatestIn(SnapsUpTo(db, upto)),
                              leaves |-> db.snaps[GreatestIn(SnapsUpTo(db, upto))],
                              hash   |-> None]
    /\ UNCHANGED cacheVars

\* get_tip_tree_state reads merkle_height, then merkle_tree.  Without a tree a
\* tip of 0 gets the empty one, and a height that is not the tip's an error.
ReadTreeHeight ==
    /\ answer.step = "treeHeight"
    /\ answer' = CASE db.meta.merkle_height = answer.height -> [answer EXCEPT !.step = "tree"]
                   [] db.meta.merkle_height = None /\ answer.height = 0
                        -> [answer EXCEPT !.step = "done", !.from = "nothing", !.leaves = EmptyTree]
                   [] OTHER -> NoAnswer
    /\ UNCHANGED cacheVars

ReadTree ==
    /\ answer.step = "tree"
    /\ answer' = CASE db.meta.merkle_tree # None
                        -> [answer EXCEPT !.step = "hash", !.leaves = db.meta.merkle_tree]
                   [] db.meta.merkle_tree = None /\ answer.height = 0
                        -> [answer EXCEPT !.step = "done", !.from = "nothing", !.leaves = EmptyTree]
                   [] OTHER -> NoAnswer
    /\ UNCHANGED cacheVars

\* merkle_snapshot; no row is an error that names the greatest lower one.
ReadSnapshot ==
    /\ answer.step = "row"
    /\ answer' = IF db.snaps[answer.height] = None THEN NoAnswer
                 ELSE [answer EXCEPT !.step = "hash", !.leaves = db.snaps[answer.height]]
    /\ UNCHANGED cacheVars

\* block_hash_vec: a missing hash is sent empty.
ReadHash ==
    /\ answer.step = "hash"
    /\ answer' = [answer EXCEPT !.step = "done", !.hash = db.hashes[answer.height]]
    /\ UNCHANGED cacheVars

Answer ==
    /\ answer.step = "done"
    /\ answer' = NoAnswer
    /\ UNCHANGED cacheVars

TreeNext == AskTree \/ AskCheckpoint \/ ReadTreeHeight \/ ReadTree \/ ReadSnapshot
                \/ ReadHash \/ Answer

-----------------------------------------------------------------------------
(* Properties.                                                              *)

\* A snapshot handed to a wallet is the tree of a chain up to the height it is
\* given for, every coin below once, even in the middle of a rewind, a rebuild
\* or the backfill of the genesis block.
CheckpointTrees ==
    (answer.step = "done" /\ answer.from = "row" /\ Undamaged) =>
        \E b \in Hash : HeightOf[b] = answer.height /\ answer.leaves = TrueTree(b)

\* The tree sent for the tip is the tree of the height it is sent with.
TipTreeOfHeight ==
    (answer.step = "done" /\ answer.from = "tip" /\ Undamaged) =>
        \E b \in Hash : HeightOf[b] = answer.height /\ answer.leaves = TrueTree(b)
=============================================================================
