-------------------------- MODULE ChainPollerProofs --------------------------
(***************************************************************************)
(* The poller keeps the cached chain linked, for every fork tree, every    *)
(* batch size, every MAX_WALK and every pruning window.  Linked is not     *)
(* inductive: that a block fetched into its row meets no block above it    *)
(* rests on where the rows can be and on what the poller remembers between *)
(* two RPCs.                                                               *)
(***************************************************************************)
EXTENDS MCChainPoller, CacheProofs

\* A row holds a block of its height.
Located == \A h \in Heights : db.blocks[h] # None => HeightOf[db.blocks[h]] = h

\* No row is above the tip.
TipBound ==
    \A h \in Heights : db.blocks[h] # None =>
        db.tip # NoTip /\ h <= db.tip.height

\* What the poller remembers between two RPCs.
Control ==
    /\ pc = "probe" => target \in Hash /\ db.tip # NoTip /\ at = db.tip.height
    /\ pc = "walk"  => db.tip # NoTip /\ at \in Heights /\ at <= db.tip.height
    /\ pc = "fetch" =>
          /\ at \in Heights /\ end \in Heights /\ at <= end
          /\ IF at = 0 THEN db.blocks[0] = None /\ (db.tip # NoTip => end = 0)
             ELSE db.tip # NoTip /\ at = db.tip.height + 1

Inv == TypeOK /\ Located /\ TipBound /\ Linked /\ Control

-----------------------------------------------------------------------------

LEMMA InitInv == Init => Inv
<1> USE ForkTreeAssumption
<1> SUFFICES ASSUME Init PROVE Inv
    OBVIOUS
<1>1. db \in Stores
    BY DEF Init, EmptyStore, Stores, Rows
<1>2. TypeOK
    BY <1>1 DEF Init, TypeOK, Heights
<1>3. \A h \in Heights : db.blocks[h] = None
    BY DEF Init, EmptyStore
<1>4. Located /\ TipBound /\ Linked
    BY <1>3 DEF Located, TipBound, Linked, Heights
<1>5. Control
    BY DEF Init, Control
<1> QED
    BY <1>2, <1>4, <1>5 DEF Inv

\* Where poll_once goes once it knows both tips.
LEMMA DecideControl ==
    ASSUME Inv, NEW rem \in Hash, NEW block,
           Decide(rem, block),
           UNCHANGED <<remote, link, db, announced, unpruned>>
    PROVE  Inv'
<1> USE ForkTreeAssumption, PollerAssumption
<1> DEFINE rh     == HeightOf[rem]
           action == Classify(db.tip, rem, db.blocks[rh], block)
<1>1. rh \in Heights /\ db \in Stores /\ (db.tip # NoTip => db.tip.height \in Heights)
    BY DEF Inv, TypeOK, Stores, Tips
<1>2. \/ /\ action.act = "fetch"
         /\ IF db.tip = NoTip THEN action.from = 0
            ELSE action.from = db.tip.height + 1 /\ rh > db.tip.height
      \/ /\ action.act = "reorg"
         /\ db.tip # NoTip
         /\ action.from \in Heights /\ action.from <= db.tip.height
      \/ action.act \in {"idle", "hold"}
    <2>1. CASE db.tip = NoTip
        BY <2>1 DEF Classify
    <2>2. CASE db.tip # NoTip /\ rh < db.tip.height
        BY <1>1, <2>2 DEF Classify, Heights
    <2>3. CASE db.tip # NoTip /\ rh = db.tip.height
        BY <1>1, <2>3 DEF Classify, Heights
    <2>4. CASE db.tip # NoTip /\ rh > db.tip.height
        BY <1>1, <2>4 DEF Classify, Heights
    <2> QED
        BY <1>1, <2>1, <2>2, <2>3, <2>4 DEF Heights
<1>3. CASE action.act = "fetch"
    <2>1. FetchRange(action.from, rh)
        BY <1>3 DEF Decide
    <2> QED
        BY <1>1, <1>2, <1>3, <2>1
        DEF FetchRange, Goto, Inv, TypeOK, Located, TipBound, Linked, Control, Heights
<1>4. CASE action.act = "reorg"
    <2>1. StartWalk(action.from)
        BY <1>4 DEF Decide
    <2> QED
        BY <1>1, <1>2, <1>4, <2>1
        DEF StartWalk, Goto, Inv, TypeOK, Located, TipBound, Linked, Control, Heights
<1>5. CASE action.act \in {"idle", "hold"}
    <2>1. Return(0)
        BY <1>5 DEF Decide
    <2> QED
        BY <2>1 DEF Return, Goto, Inv, TypeOK, Located, TipBound, Linked, Control
<1> QED
    BY <1>2, <1>3, <1>4, <1>5

\* A step that leaves the cache alone keeps what is said about the cache.
LEMMA SameCache ==
    ASSUME Inv, UNCHANGED db
    PROVE  Located' /\ TipBound' /\ Linked'
BY DEF Inv, Located, TipBound, Linked

LEMMA EnvironmentInv == Inv /\ Environment => Inv'
<1> SUFFICES ASSUME Inv, Environment PROVE Inv'
    OBVIOUS
<1>1. remote' \in Hash /\ link' \in {"up", "down"}
    BY ForkTreeAssumption
    DEF Inv, TypeOK, Environment, Extend, Reorg, Resync, Connect, Disconnect
<1>2. UNCHANGED <<db, announced, pc, target, at, end, count, unpruned>>
    BY DEF Environment, Extend, Reorg, Resync, Connect, Disconnect, locals
<1> QED
    BY <1>1, <1>2, SameCache DEF Inv, TypeOK, Control

LEMMA TipHeightType ==
    ASSUME NEW d \in Stores
    PROVE  TipHeight(d) \in Heights
BY ForkTreeAssumption DEF TipHeight, Stores, Tips, Heights

\* A block fetched at `at` has no row above it that it could fail to link to.
LEMMA FetchBlockInv == Inv /\ FetchBlock => Inv'
<1> USE ForkTreeAssumption
<1> SUFFICES ASSUME Inv, FetchBlock PROVE Inv'
    OBVIOUS
<1>1. PICK b \in Hash : /\ RemoteHas(b, at)
                        /\ ~ Unlinked(b)
                        /\ db' = InsertBlock(db, b)
    BY DEF FetchBlock
<1>2. /\ HeightOf[b] = at /\ at \in Heights /\ end \in Heights /\ at <= end
      /\ pc = "fetch" /\ db \in Stores /\ count \in Nat
      /\ db.tip # NoTip => db.tip.height \in Heights
      /\ IF at = 0 THEN db.tip # NoTip => end = 0
         ELSE db.tip # NoTip /\ at = db.tip.height + 1
    BY <1>1 DEF RemoteHas, FetchBlock, Inv, Control, TypeOK, Stores, Tips
<1>3. /\ db' \in Stores
      /\ db'.blocks = [db.blocks EXCEPT ![at] = b]
      /\ db'.tip = IF db.tip # NoTip /\ at < db.tip.height THEN db.tip
                   ELSE [height |-> at, hash |-> b]
    <2> HIDE ForkTreeAssumption
    <2>1. db \in Stores
        BY <1>2
    <2>2. /\ InsertBlock(db, b) \in Stores
          /\ InsertBlock(db, b).blocks = [db.blocks EXCEPT ![HeightOf[b]] = b]
          /\ InsertBlock(db, b).tip =
                IF db.tip # NoTip /\ HeightOf[b] < db.tip.height THEN db.tip
                ELSE [height |-> HeightOf[b], hash |-> b]
        BY <2>1, InsertShape
    <2>3. HeightOf[b] = at
        BY <1>2
    <2>4. db' = InsertBlock(db, b)
        BY <1>1
    <2> QED
        BY <2>2, <2>3, <2>4
<1>4. \A h \in Heights : db'.blocks[h] = IF h = at THEN b ELSE db.blocks[h]
    BY <1>2, <1>3 DEF Stores, Rows
<1>5. db'.tip # NoTip
    BY <1>2, <1>3 DEF NoTip, Heights
<1>6. Located'
    BY <1>2, <1>4 DEF Inv, Located
<1>7. TipBound'
    BY <1>2, <1>3, <1>4, <1>5 DEF Inv, TipBound, Heights
<1>8. Linked'
    <2> SUFFICES ASSUME NEW h \in Heights \ {0},
                        db'.blocks[h] # None, db'.blocks[h - 1] # None
                 PROVE  Prev[db'.blocks[h]] = db'.blocks[h - 1]
        BY DEF Linked
    <2>0. h - 1 \in Heights
        BY DEF Heights
    <2>1. CASE h = at
        <3>1. db.blocks[h - 1] \in {None, Prev[b]}
            BY <1>1, <1>2, <2>1 DEF Unlinked, Heights
        <3> QED
            BY <1>4, <2>0, <2>1, <3>1 DEF Heights
    <2>2. CASE h - 1 = at
        <3>1. db.blocks[h] # None
            BY <1>4, <2>2 DEF Heights
        <3>2. at = 0 /\ b = Genesis
            BY <1>2, <2>2, <3>1, LinkAssumption DEF Inv, TipBound, Heights
        <3>3. db.blocks[h] \in Hash /\ HeightOf[db.blocks[h]] = h /\ h = 1
            <4>1. db.blocks[h] \in Hash
                BY <1>2, <3>1 DEF Stores, Rows
            <4>2. HeightOf[db.blocks[h]] = h
                BY <3>1 DEF Inv, Located
            <4> QED
                BY <2>2, <3>2, <4>1, <4>2 DEF Heights
        <3>4. Prev[db.blocks[h]] \in Hash /\ HeightOf[Prev[db.blocks[h]]] = 0
            BY <3>3, LinkAssumption DEF Heights
        <3>5. Prev[db.blocks[h]] = Genesis
            BY <3>4, LinkAssumption
        <3> QED
            BY <1>4, <2>0, <2>2, <3>2, <3>5 DEF Heights
    <2>3. CASE h # at /\ h - 1 # at
        BY <1>4, <2>0, <2>3 DEF Inv, Linked
    <2> QED
        BY <2>1, <2>2, <2>3
<1>9. Control' /\ TypeOK'
    <2>1. CASE at < end
        <3>1. pc' = "fetch" /\ target' = None /\ at' = at + 1 /\ end' = end
                /\ count' = count + 1 /\ announced' = announced
            BY <2>1 DEF FetchBlock, Goto
        <3>2. at + 1 \in Heights /\ at + 1 <= end /\ at + 1 # 0
            BY <1>2, <2>1 DEF Heights
        <3>3. db'.tip = [height |-> at, hash |-> b]
            BY <1>2, <1>3, <2>1 DEF Heights
        <3> QED
            BY <1>2, <1>3, <1>5, <3>1, <3>2, <3>3 DEF Inv, Control, TypeOK, FetchBlock
    <2>2. CASE ~ (at < end)
        <3>1. pc' = "done" /\ target' = None /\ at' = None /\ end' = None
                /\ count' = count + 1 /\ announced' = TipHeight(db')
            BY <2>2 DEF FetchBlock, Return, Goto
        <3>2. announced' \in Heights
            BY <1>3, <3>1, TipHeightType
        <3> QED
            BY <1>2, <1>3, <3>1, <3>2 DEF Inv, Control, TypeOK, FetchBlock
    <2> QED
        BY <2>1, <2>2
<1> QED
    BY <1>6, <1>7, <1>8, <1>9 DEF Inv

LEMMA RewindCacheInv == Inv /\ RewindCache => Inv'
<1> USE ForkTreeAssumption
<1> SUFFICES ASSUME Inv, RewindCache PROVE Inv'
    OBVIOUS
<1>1. /\ at \in Heights /\ db \in Stores
      /\ db.tip # NoTip /\ db.tip.height \in Heights /\ at <= db.tip.height
      /\ db' = Rewind(db, at)
    BY DEF RewindCache, Inv, Control, TypeOK, Stores, Tips
<1>2. /\ db' \in Stores
      /\ db'.blocks = [k \in Heights |-> IF k > at THEN None ELSE db.blocks[k]]
      /\ db'.tip = IF db.blocks[at] # None
                   THEN [height |-> at, hash |-> db.blocks[at]]
                   ELSE IF at = 0 THEN NoTip
                   ELSE db.tip
    BY <1>1, RewindShape
<1>3. Located'
    BY <1>2 DEF Inv, Located
<1>4. TipBound'
    BY <1>1, <1>2 DEF Inv, TipBound, NoTip, Heights
<1>5. Linked'
    BY <1>2 DEF Inv, Linked, Heights
<1>6. TypeOK' /\ Control'
    BY <1>2, TipHeightType DEF RewindCache, Return, Goto, Inv, TypeOK, Control
<1> QED
    BY <1>3, <1>4, <1>5, <1>6 DEF Inv

LEMMA SettleInv == Inv /\ Settle => Inv'
<1> USE ForkTreeAssumption, PollerAssumption
<1> SUFFICES ASSUME Inv, Settle PROVE Inv'
    OBVIOUS
<1>1. db \in Stores /\ count \in Nat /\ unpruned \in Nat
    BY DEF Inv, TypeOK
<1>2. db' \in {db, Prune(db, Retention)}
    BY DEF Settle
<1>3. /\ db' \in Stores
      /\ db'.tip = db.tip
      /\ \A k \in Heights : db'.blocks[k] \in {db.blocks[k], None}
    <2>1. CASE db' = db
        BY <1>1, <2>1
    <2>2. CASE db' = Prune(db, Retention)
        BY <1>1, <2>2, PruneShape
    <2> QED
        BY <1>2, <2>1, <2>2
<1>4. Located' /\ TipBound'
    BY <1>3 DEF Inv, Located, TipBound
<1>5. Linked'
    BY <1>3 DEF Inv, Linked, Heights
<1>6. unpruned' \in Nat
    BY <1>1 DEF Settle
<1>7. TypeOK' /\ Control'
    BY <1>3, <1>6 DEF Settle, Goto, Inv, TypeOK, Control
<1> QED
    BY <1>4, <1>5, <1>7 DEF Inv

\* The steps that only read.
LEMMA ReadersInv ==
    Inv /\ (RpcFails \/ ReadRemoteTip \/ ProbeCachedTip \/ WalkBack
             \/ FetchMissing \/ FetchUnlinked \/ FetchRefused) => Inv'
<1> USE ForkTreeAssumption, PollerAssumption
<1>1. ASSUME Inv, RpcFails \/ FetchMissing \/ FetchRefused PROVE Inv'
    BY <1>1, SameCache DEF RpcFails, FetchMissing, FetchRefused, Fail, Goto, Inv, TypeOK, Control
<1>2. ASSUME Inv, ReadRemoteTip PROVE Inv'
    <2> USE <1>2
    <2>1. CASE db.blocks[0] = None
        <3>1. FetchRange(0, 0)
            BY <2>1 DEF ReadRemoteTip
        <3>2. pc' = "fetch" /\ target' = None /\ at' = 0 /\ end' = 0 /\ count' = 0
            BY <3>1 DEF FetchRange, Goto
        <3>3. UNCHANGED <<remote, link, db, announced, unpruned>>
            BY DEF ReadRemoteTip
        <3> QED
            BY <2>1, <3>2, <3>3, SameCache DEF Inv, TypeOK, Control, Heights
    <2>2. CASE db.blocks[0] # None /\ db.tip # NoTip
                 /\ db.tip.height # HeightOf[remote]
        <3>1. Goto("probe", remote, db.tip.height, None, 0)
            BY <2>2 DEF ReadRemoteTip
        <3> QED
            BY <2>2, <3>1, SameCache
            DEF ReadRemoteTip, Goto, Inv, TypeOK, Control, Stores, Tips
    <2>3. CASE ~ (db.blocks[0] = None)
                 /\ ~ (db.blocks[0] # None /\ db.tip # NoTip
                          /\ db.tip.height # HeightOf[remote])
        BY <2>3, DecideControl DEF ReadRemoteTip, Inv, TypeOK
    <2> QED
        BY <2>1, <2>2, <2>3
<1>3. ASSUME Inv, ProbeCachedTip PROVE Inv'
    <2> USE <1>3
    <2>1. target \in Hash
        BY DEF ProbeCachedTip, Inv, Control
    <2>2. PICK block : Decide(target, block)
        BY DEF ProbeCachedTip
    <2> QED
        BY <2>1, <2>2, DecideControl DEF ProbeCachedTip
<1>4. ASSUME Inv, WalkBack PROVE Inv'
    <2>1. /\ at \in Heights /\ db.tip # NoTip /\ db.tip.height \in Heights
          /\ at <= db.tip.height /\ at # 0 /\ count \in Nat
        BY <1>4 DEF WalkBack, WalkEnds, Inv, TypeOK, Control, Stores, Tips
    <2>2. at - 1 \in Heights /\ at - 1 <= db.tip.height
        BY <2>1 DEF Heights
    <2> QED
        BY <1>4, <2>1, <2>2, SameCache DEF WalkBack, Goto, Inv, TypeOK, Control
<1>5. ASSUME Inv, FetchUnlinked PROVE Inv'
    <2>1. PICK b \in Hash : RemoteHas(b, at) /\ Unlinked(b)
        BY <1>5 DEF FetchUnlinked
    <2>2. at > 0 /\ at \in Heights /\ db.tip # NoTip /\ at = db.tip.height + 1
            /\ db.tip.height \in Heights
        BY <1>5, <2>1
        DEF FetchUnlinked, Unlinked, RemoteHas, Inv, TypeOK, Control, Stores, Tips, Heights
    <2> QED
        BY <1>5, <2>2, SameCache
        DEF FetchUnlinked, StartWalk, Goto, Inv, TypeOK, Control, Heights
<1> QED
    BY <1>1, <1>2, <1>3, <1>4, <1>5

LEMMA NextInv == Inv /\ [Next]_vars => Inv'
<1>1. ASSUME Inv, UNCHANGED vars PROVE Inv'
    BY <1>1, SameCache DEF vars, locals, Inv, TypeOK, Control
<1> QED
    BY <1>1, EnvironmentInv, FetchBlockInv, RewindCacheInv, SettleInv, ReadersInv
    DEF Next, Poller

-----------------------------------------------------------------------------

THEOREM Invariance == Spec => []Inv
BY InitInv, NextInv, PTL DEF Spec

\* Type correctness, for every fork tree and every configuration.
THEOREM TypeCorrect == Spec => []TypeOK
<1>1. Inv => TypeOK
    BY DEF Inv
<1> QED
    BY <1>1, Invariance, PTL

\* The cached chain is linked: insert_compact_block and rewind_to_height never
\* leave blocks of two forks at adjacent heights, whatever darkfid does between
\* the RPCs of a batch.
THEOREM CachedChainLinked == Spec => []Linked
<1>1. Inv => Linked
    BY DEF Inv
<1> QED
    BY <1>1, Invariance, PTL

-----------------------------------------------------------------------------
(* A server that does not prune, or has not reached the height where it     *)
(* starts to: retention_window is 0, or no shorter than the chain.          *)

NeverPrunes == Retention = 0 \/ MaxHeight <= Retention

ExactInv == Inv /\ Exact(db)

LEMMA InitExact == Init => ExactInv
<1>1. Init => Exact(EmptyStore) /\ db = EmptyStore
    BY ForkTreeAssumption DEF Init, Exact, EmptyStore, Stores, Rows
<1> QED
    BY <1>1, InitInv DEF ExactInv

\* Only three actions touch the cache.
LEMMA CacheUntouched ==
    ASSUME [Next]_vars, ~ FetchBlock, ~ RewindCache, ~ Settle
    PROVE  UNCHANGED db
BY DEF Next, Poller, Environment, Extend, Reorg, Resync, Connect, Disconnect, RpcFails,
       ReadRemoteTip, ProbeCachedTip, WalkBack, FetchMissing, FetchUnlinked, FetchRefused, vars

\* A fetched block is the one after the tip, or genesis into an empty cache.
LEMMA FetchedBlock ==
    ASSUME ExactInv, FetchBlock
    PROVE  \E b \in Hash :
              /\ IF db.tip = NoTip THEN b = Genesis
                 ELSE b # Genesis /\ Prev[b] = db.tip.hash
              /\ at = HeightOf[b] /\ (db.tip # NoTip => at = db.tip.height + 1)
              /\ db' = InsertBlock(db, b)
<1> USE ForkTreeAssumption
<1>1. PICK b \in Hash : /\ RemoteHas(b, at)
                        /\ ~ Unlinked(b)
                        /\ db' = InsertBlock(db, b)
    BY DEF FetchBlock
<1>2. /\ HeightOf[b] = at /\ at \in Heights /\ pc = "fetch"
      /\ IF at = 0 THEN db.blocks[0] = None
         ELSE db.tip # NoTip /\ at = db.tip.height + 1
    BY <1>1 DEF RemoteHas, FetchBlock, ExactInv, Inv, Control
<1>3. CASE db.tip = NoTip
    BY <1>1, <1>2, <1>3, LinkAssumption
<1>4. CASE db.tip # NoTip
    <2>1. /\ db.tip.height \in Heights /\ db.tip.height \in Nat
          /\ db.blocks[0] # None
          /\ db.blocks[db.tip.height] = db.tip.hash /\ db.tip.hash \in Hash
        BY <1>4 DEF ExactInv, Exact, Line, Stores, Tips, Heights
    <2>2. at # 0 /\ at = db.tip.height + 1 /\ at - 1 = db.tip.height /\ at > 0
        BY <1>2, <2>1
    <2>3. Prev[b] = db.tip.hash
        BY <1>1, <1>2, <2>1, <2>2 DEF Unlinked
    <2> QED
        BY <1>1, <1>2, <1>4, <2>2, <2>3, LinkAssumption
<1> QED
    BY <1>3, <1>4

\* A rewind cuts the chain back to the block at `at`.
LEMMA CutBackTo ==
    ASSUME ExactInv, RewindCache
    PROVE  /\ at \in Heights /\ db.tip # NoTip /\ at <= db.tip.height
           /\ Exact(db')
           /\ db'.tip = [height |-> at, hash |-> db.blocks[at]]
           /\ db'.blocks = [k \in Heights |-> IF k > at THEN None ELSE db.blocks[k]]
<1>1. /\ at \in Heights /\ db.tip # NoTip /\ at <= db.tip.height
      /\ db' = Rewind(db, at) /\ db \in Stores
    BY DEF RewindCache, ExactInv, Inv, Control, Exact
<1> QED
    BY <1>1, RewindExact, RewindShape DEF ExactInv

LEMMA SettleExact ==
    ASSUME NeverPrunes, ExactInv, Settle
    PROVE  UNCHANGED db
<1>1. CASE Retention = 0
    BY <1>1 DEF Settle
<1>2. CASE MaxHeight <= Retention
    <2>1. db \in Stores
        BY DEF ExactInv, Exact
    <2>2. Prune(db, Retention) = db
        BY <1>2, <2>1, PruneShape, PollerAssumption
    <2> QED
        BY <2>2 DEF Settle
<1> QED
    BY <1>1, <1>2 DEF NeverPrunes

LEMMA NextExact ==
    ASSUME NeverPrunes, ExactInv, [Next]_vars
    PROVE  ExactInv'
<1>1. CASE FetchBlock
    <2>1. PICK b \in Hash : /\ IF db.tip = NoTip THEN b = Genesis
                               ELSE b # Genesis /\ Prev[b] = db.tip.hash
                            /\ db' = InsertBlock(db, b)
        BY <1>1, FetchedBlock
    <2>2. Exact(InsertBlock(db, b))
        BY <2>1, InsertExact DEF ExactInv
    <2> QED
        BY <2>1, <2>2, NextInv DEF ExactInv
<1>2. CASE RewindCache
    BY <1>2, CutBackTo, NextInv DEF ExactInv
<1>3. CASE ~ FetchBlock /\ ~ RewindCache
    <2>1. UNCHANGED db
        BY <1>3, CacheUntouched, SettleExact
    <2> QED
        BY <2>1, NextInv DEF ExactInv
<1> QED
    BY <1>1, <1>2, <1>3

THEOREM ExactInvariance ==
    ASSUME NeverPrunes
    PROVE  Spec => []ExactInv
<1>1. ExactInv /\ [Next]_vars => ExactInv'
    BY NextExact
<1> QED
    BY <1>1, InitExact, PTL DEF Spec

\* The tip metadata name the highest cached block.
THEOREM TipIsTopUnpruned ==
    ASSUME NeverPrunes
    PROVE  Spec => []TipIsTop
<1>1. ExactInv => TipIsTop
    BY ForkTreeAssumption DEF ExactInv, Exact, EmptyStore, TipIsTop
<1> QED
    BY <1>1, ExactInvariance, PTL

\* Every height up to the tip is cached: a range stream finds no gap.
THEOREM NoHolesUnpruned ==
    ASSUME NeverPrunes
    PROVE  Spec => []NoHoles
<1>1. ExactInv => NoHoles
    BY ForkTreeAssumption DEF ExactInv, Exact, Line, NoHoles
<1> QED
    BY <1>1, ExactInvariance, PTL

\* The incremental tip tree, its rebuilds after rewinds included, is the tree
\* of the tip's chain.
THEOREM TipTreeUnpruned ==
    ASSUME NeverPrunes
    PROVE  Spec => []TipTreeMatchesTip
<1>1. ExactInv => TipTreeMatchesTip
    BY DEF ExactInv, Exact, TipTreeMatchesTip
<1> QED
    BY <1>1, ExactInvariance, PTL

LEMMA ExactSnapshots == ExactInv => SnapshotsMatchChain /\ SnapshotsKept
<1> USE ForkTreeAssumption
<1>1. ASSUME ExactInv, db.tip = NoTip
      PROVE  SnapshotsMatchChain /\ SnapshotsKept
    BY <1>1 DEF ExactInv, Exact, EmptyStore, SnapshotsMatchChain, SnapshotsKept
<1>2. ASSUME ExactInv, db.tip # NoTip
      PROVE  SnapshotsMatchChain /\ SnapshotsKept
    <2>1. /\ db.tip.height \in Heights /\ db.tip.height \in Nat
          /\ Line(db.blocks, db.tip.height) /\ db.tip.hash = db.blocks[db.tip.height]
          /\ SnapsOf(db.blocks, db.snaps, db.tip.height)
        BY <1>2 DEF ExactInv, Exact, Stores, Tips, Heights
    <2>2. SnapshotsKept
        BY <1>2, <2>1, TrueTreeType DEF SnapsOf, KeptBelow, SnapshotsKept
    <2>3. ASSUME NEW h \in Heights, db.snaps[h] # None
          PROVE  /\ db.blocks[h] \in Ancestors[db.tip.hash]
                 /\ HeightOf[db.blocks[h]] = h
                 /\ db.snaps[h] = TrueTree(db.blocks[h])
        <3>1. KeptBelow(h, db.tip.height) /\ db.snaps[h] = TrueTree(db.blocks[h])
            BY <2>1, <2>3 DEF SnapsOf
        <3>2. h \in 0 .. db.tip.height /\ h \in 0 .. h
            BY <2>1, <3>1 DEF KeptBelow, Heights
        <3>3. HeightOf[db.blocks[h]] = h
            BY <2>1, <3>2 DEF Line
        <3>4. db.tip.height \in 0 .. db.tip.height
            BY <2>1
        <3>5. db.blocks[h] \in Ancestors[db.blocks[db.tip.height]]
            BY <2>1, <3>2, <3>4, LineAncestors
        <3> QED
            BY <2>1, <3>1, <3>3, <3>5
    <2> QED
        BY <1>2, <2>2, <2>3 DEF SnapshotsMatchChain
<1> QED
    BY <1>1, <1>2

\* Snapshots are of the tip's own chain.
THEOREM SnapshotsUnpruned ==
    ASSUME NeverPrunes
    PROVE  Spec => []SnapshotsMatchChain
BY ExactSnapshots, ExactInvariance, PTL

\* There is a snapshot at each interval boundary and at the tip, and no other:
\* what record_tree_snapshot drops and the rebuild puts back always agree.
THEOREM SnapshotsKeptUnpruned ==
    ASSUME NeverPrunes
    PROVE  Spec => []SnapshotsKept
BY ExactSnapshots, ExactInvariance, PTL

-----------------------------------------------------------------------------
(* The cache implements CachedChain.                                        *)

LEMMA InitRefines == Init => View!Init
BY DEF Init, EmptyStore, NoTip, View!Init, CachedRows

LEMMA GrowRefines ==
    ASSUME ExactInv, FetchBlock
    PROVE  View!Grow
<1> USE ForkTreeAssumption
<1>1. PICK b \in Hash : /\ IF db.tip = NoTip THEN b = Genesis
                           ELSE b # Genesis /\ Prev[b] = db.tip.hash
                        /\ at = HeightOf[b] /\ (db.tip # NoTip => at = db.tip.height + 1)
                        /\ db' = InsertBlock(db, b)
    BY FetchedBlock
<1>2. /\ db \in Stores /\ at \in Heights
      /\ db.tip # NoTip => db.tip.height \in Nat /\ db.tip.hash \in Hash
    BY <1>1 DEF ExactInv, Exact, Stores, Tips, Heights
<1>3. /\ db'.blocks = [db.blocks EXCEPT ![at] = b]
      /\ db'.tip = [height |-> at, hash |-> b]
    <2>1. ~ (db.tip # NoTip /\ HeightOf[b] < db.tip.height)
        BY <1>1, <1>2
    <2>2. /\ InsertBlock(db, b).blocks = [db.blocks EXCEPT ![HeightOf[b]] = b]
          /\ InsertBlock(db, b).tip = [height |-> HeightOf[b], hash |-> b]
        <3>1. db \in Stores
            BY <1>2
        <3> QED
            BY <2>1, <3>1, InsertShape
    <2>3. HeightOf[b] = at /\ db' = InsertBlock(db, b)
        BY <1>1
    <2> QED
        BY <2>2, <2>3
<1>4. db.tip.hash = None <=> db.tip = NoTip
    BY <1>2 DEF NoTip
<1>5. db.blocks[at] = None
    BY <1>1, <1>2 DEF ExactInv, Exact, EmptyStore, Heights
<1>6. \A k \in Heights : db'.blocks[k] = IF k = at THEN b ELSE db.blocks[k]
    BY <1>2, <1>3 DEF Stores, Rows
<1>7. CachedRows' = CachedRows \cup {b}
    BY <1>2, <1>5, <1>6 DEF CachedRows
<1> QED
    BY <1>1, <1>3, <1>4, <1>7 DEF View!Grow

LEMMA CutBackRefines ==
    ASSUME ExactInv, RewindCache
    PROVE  View!CutBack
<1> USE ForkTreeAssumption
<1>1. /\ at \in Heights /\ db.tip # NoTip /\ at <= db.tip.height
      /\ db'.tip = [height |-> at, hash |-> db.blocks[at]]
      /\ db'.blocks = [k \in Heights |-> IF k > at THEN None ELSE db.blocks[k]]
    BY CutBackTo
<1>2. /\ db.tip.height \in Heights /\ db.tip.height \in Nat
      /\ Line(db.blocks, db.tip.height)
      /\ \A k \in Heights : k > db.tip.height => db.blocks[k] = None
    BY <1>1 DEF ExactInv, Exact, Stores, Tips, Heights
<1>3. at \in 0 .. db.tip.height /\ db.blocks[at] \in CachedRows
    BY <1>1, <1>2 DEF Line, CachedRows, Heights
<1>4. ASSUME NEW k \in Heights, db.blocks[k] # None
      PROVE  db.blocks[k] \in Ancestors[db.blocks[at]] <=> k <= at
    <2>1. \A a : a \in Ancestors[db.blocks[at]] <=> \E j \in 0 .. at : db.blocks[j] = a
        BY <1>2, <1>3, LineAncestors
    <2>2. k \in 0 .. db.tip.height
        BY <1>2, <1>4 DEF Heights
    <2>3. \A j \in 0 .. at : j \in 0 .. db.tip.height /\ HeightOf[db.blocks[j]] = j
        BY <1>1, <1>2 DEF Line, Heights
    <2>4. HeightOf[db.blocks[k]] = k
        BY <1>2, <2>2 DEF Line
    <2>5. k <= at => db.blocks[k] \in Ancestors[db.blocks[at]]
        BY <2>1, <2>2, <1>1 DEF Heights
    <2>6. ASSUME db.blocks[k] \in Ancestors[db.blocks[at]] PROVE k <= at
        <3>1. PICK j \in 0 .. at : db.blocks[j] = db.blocks[k]
            BY <2>1, <2>6
        <3>2. j = k
            BY <2>3, <2>4, <3>1
        <3> QED
            BY <1>1, <3>2 DEF Heights
    <2> QED
        BY <2>5, <2>6
<1>5. ASSUME NEW k \in Heights
      PROVE  db'.blocks[k] = IF k <= at THEN db.blocks[k] ELSE None
    BY <1>1 DEF Heights
<1>6. CachedRows' = CachedRows \cap Ancestors[db.blocks[at]]
    BY <1>4, <1>5 DEF CachedRows
<1> QED
    BY <1>1, <1>3, <1>6 DEF View!CutBack

\* Inserting is the chain's growth, rewinding cuts it back to a block it has,
\* and no other step of the poller or of darkfid is visible to a reader.
THEOREM ImplementsCachedChain ==
    ASSUME NeverPrunes
    PROVE  Spec => HoldsOneChain
<1>1. ASSUME ExactInv, [Next]_vars
      PROVE  [View!Next]_<<db.tip.hash, CachedRows>>
    <2>1. CASE FetchBlock
        BY <1>1, <2>1, GrowRefines DEF View!Next
    <2>2. CASE RewindCache
        BY <1>1, <2>2, CutBackRefines DEF View!Next
    <2>3. CASE ~ FetchBlock /\ ~ RewindCache
        <3>1. UNCHANGED db
            BY <1>1, <2>3, CacheUntouched, SettleExact
        <3> QED
            BY <3>1 DEF CachedRows
    <2> QED
        BY <2>1, <2>2, <2>3
<1> QED
    BY <1>1, InitRefines, ExactInvariance, PTL DEF Spec, HoldsOneChain, View!Spec

-----------------------------------------------------------------------------
(* As long as darkfid stays on one fork (peak), every block it ever had is  *)
(* on that fork, whatever it lost and synced again, and so is what the      *)
(* poller was told and what the cache holds: the poller never walks back.   *)

OneFork ==
    peak # None =>
        /\ peak \in Hash
        /\ remote \in Ancestors[peak]
        /\ db.tip # NoTip => db.tip.hash \in Ancestors[peak]
        /\ pc # "walk"
        /\ pc = "probe" => target \in Ancestors[peak]

ForkInv == ExactInv /\ peak \in Hash \cup {None} /\ OneFork

\* The tip of an exact cache has its height, and what it holds are the blocks
\* of the tip's chain.
LEMMA ExactTip ==
    ASSUME ExactInv, db.tip # NoTip
    PROVE  /\ db.tip.hash \in Hash /\ HeightOf[db.tip.hash] = db.tip.height
           /\ db.tip.height \in Nat /\ db.tip.height \in Heights
           /\ \A k \in 0 .. db.tip.height : /\ db.blocks[k] \in Ancestors[db.tip.hash]
                                            /\ HeightOf[db.blocks[k]] = k
<1> USE ForkTreeAssumption DEF Heights
<1>1. /\ db.tip.height \in Nat /\ db.tip.height \in Heights
      /\ Line(db.blocks, db.tip.height) /\ db.tip.hash = db.blocks[db.tip.height]
    BY DEF ExactInv, Exact, Stores, Tips
<1>2. db.tip.height \in 0 .. db.tip.height
    BY <1>1
<1>3. \A k \in 0 .. db.tip.height : db.blocks[k] \in Hash /\ HeightOf[db.blocks[k]] = k
    BY <1>1 DEF Line
<1>4. \A k \in 0 .. db.tip.height : db.blocks[k] \in Ancestors[db.tip.hash]
    BY <1>1, <1>2, LineAncestors
<1> QED
    BY <1>1, <1>2, <1>3, <1>4

\* The step of the history variable: if the fork is not left, the blocks of the
\* fork so far are blocks of the fork.
LEMMA PeakGrows ==
    ASSUME ForkInv, PeakStep, remote' \in Hash, peak' # None
    PROVE  /\ peak # None /\ peak \in Hash /\ peak' \in Hash
           /\ remote' \in Ancestors[peak']
           /\ Ancestors[peak] \subseteq Ancestors[peak']
<1> USE ForkTreeAssumption
<1>1. peak # None /\ peak \in Hash
    BY DEF ForkInv, PeakStep
<1>2. CASE remote' \in Ancestors[peak]
    <2>1. peak' = peak
        BY <1>1, <1>2 DEF PeakStep
    <2> QED
        BY <1>1, <1>2, <2>1
<1>3. CASE remote' \notin Ancestors[peak]
    <2>1. peak' = remote' /\ peak \in Ancestors[remote']
        BY <1>1, <1>3 DEF PeakStep
    <2> QED
        BY <1>1, <2>1, AncestorHeights, AncestorsBelow
<1> QED
    BY <1>2, <1>3

\* With what darkfid tells it on one fork, poll_once does not see a reorg.
LEMMA NoReorgSeen ==
    ASSUME ForkInv, peak # None, NEW rem \in Ancestors[peak], NEW block,
           \/ block = None
           \/ /\ block \in Ancestors[peak]
              /\ db.tip # NoTip => HeightOf[block] = db.tip.height,
           Decide(rem, block)
    PROVE  pc' \notin {"walk", "probe"}
<1> USE ForkTreeAssumption DEF Heights
<1> DEFINE rh     == HeightOf[rem]
           action == Classify(db.tip, rem, db.blocks[rh], block)
<1>1. /\ peak \in Hash /\ rem \in Hash /\ rh \in Nat
      /\ db.tip # NoTip => db.tip.hash \in Ancestors[peak]
      /\ ExactInv
    BY DEF ForkInv, OneFork
<1>2. ASSUME db.tip # NoTip
      PROVE  /\ db.tip.height \in Nat
             /\ block # None => block = db.tip.hash
             /\ rh = db.tip.height => rem = db.tip.hash
             /\ rh < db.tip.height => db.blocks[rh] = rem
    <2>1. /\ db.tip.hash \in Hash /\ HeightOf[db.tip.hash] = db.tip.height
          /\ db.tip.height \in Nat
          /\ \A k \in 0 .. db.tip.height : /\ db.blocks[k] \in Ancestors[db.tip.hash]
                                           /\ HeightOf[db.blocks[k]] = k
        BY <1>1, <1>2, ExactTip
    <2>2. block # None => block = db.tip.hash
        BY <1>1, <1>2, <2>1, OneBlockPerHeight
    <2>3. rh = db.tip.height => rem = db.tip.hash
        BY <1>1, <1>2, <2>1, OneBlockPerHeight
    <2>4. ASSUME rh < db.tip.height PROVE db.blocks[rh] = rem
        <3>1. rh \in 0 .. db.tip.height
            BY <1>1, <2>1, <2>4
        <3>2. db.blocks[rh] \in Ancestors[db.tip.hash] /\ HeightOf[db.blocks[rh]] = rh
            BY <2>1, <3>1
        <3>3. db.blocks[rh] \in Ancestors[peak]
            BY <1>1, <1>2, <3>2, AncestorsBelow
        <3> QED
            BY <1>1, <3>2, <3>3, OneBlockPerHeight
    <2> QED
        BY <2>1, <2>2, <2>3, <2>4
<1>3. action.act # "reorg"
    <2>1. CASE db.tip = NoTip
        BY <2>1 DEF Classify
    <2>2. CASE db.tip # NoTip /\ rh < db.tip.height
        BY <1>1, <1>2, <2>2 DEF Classify
    <2>3. CASE db.tip # NoTip /\ rh = db.tip.height
        BY <1>1, <1>2, <2>3 DEF Classify
    <2>4. CASE db.tip # NoTip /\ rh > db.tip.height
        BY <1>1, <1>2, <2>4 DEF Classify
    <2> QED
        BY <1>1, <1>2, <2>1, <2>2, <2>3, <2>4
<1>4. CASE action.act = "fetch"
    BY <1>4 DEF Decide, FetchRange, Goto
<1>5. CASE action.act # "fetch"
    BY <1>3, <1>5 DEF Decide, Return, Goto
<1> QED
    BY <1>4, <1>5

\* Nor does fetch_range meet a block that does not continue the cache.
LEMMA NeverUnlinked ==
    ASSUME ForkInv, peak # None
    PROVE  ~ FetchUnlinked
<1> USE ForkTreeAssumption DEF Heights
<1> SUFFICES ASSUME FetchUnlinked PROVE FALSE
    OBVIOUS
<1>1. PICK b \in Hash : RemoteHas(b, at) /\ Unlinked(b)
    BY DEF FetchUnlinked
<1>2. /\ peak \in Hash /\ remote \in Hash /\ remote \in Ancestors[peak]
      /\ db.tip # NoTip => db.tip.hash \in Ancestors[peak]
      /\ ExactInv
    BY DEF ForkInv, OneFork
<1>3. /\ HeightOf[b] = at /\ at > 0 /\ at \in Nat
      /\ db.blocks[at - 1] \notin {None, Prev[b]}
    BY <1>1 DEF RemoteHas, Unlinked
<1>4. db.tip # NoTip /\ at = db.tip.height + 1
    BY <1>3 DEF FetchUnlinked, ForkInv, ExactInv, Inv, Control
<1>5. /\ db.tip.hash \in Hash /\ HeightOf[db.tip.hash] = db.tip.height
      /\ db.tip.height \in Nat
    BY <1>2, <1>4, ExactTip
<1>6. db.blocks[at - 1] = db.tip.hash
    <2>1. db.blocks[db.tip.height] = db.tip.hash
        BY <1>4 DEF ForkInv, ExactInv, Exact
    <2> QED
        BY <1>4, <1>5, <2>1
<1>7. b \in Ancestors[peak]
    BY <1>1, <1>2, AncestorsBelow DEF RemoteHas
<1>8. b # Genesis
    BY <1>3, LinkAssumption
<1>9. Prev[b] \in Ancestors[peak] /\ HeightOf[Prev[b]] = db.tip.height
    <2>1. /\ Prev[b] \in Hash /\ HeightOf[b] = HeightOf[Prev[b]] + 1
          /\ Ancestors[b] = {b} \cup Ancestors[Prev[b]]
        BY <1>8, LinkAssumption
    <2>2. Prev[b] \in Ancestors[b]
        BY <2>1, AncestorHeights
    <2>3. Ancestors[b] \subseteq Ancestors[peak]
        BY <1>2, <1>7, AncestorsBelow
    <2> QED
        BY <1>3, <1>4, <1>5, <2>1, <2>2, <2>3
<1>10. Prev[b] = db.tip.hash
    BY <1>2, <1>4, <1>5, <1>9, OneBlockPerHeight
<1> QED
    BY <1>3, <1>6, <1>10

\* What each step leaves of the poller's memory, and of the tip, on one fork.
LEMMA OneForkStep ==
    ASSUME NeverPrunes, ForkInv, [Next]_vars, peak # None
    PROVE  /\ pc' # "walk"
           /\ pc' = "probe" => target' \in Ancestors[peak]
           /\ \/ db'.tip = db.tip
              \/ /\ db'.tip # NoTip /\ db'.tip.hash \in Ancestors[peak]
                 /\ db.tip # NoTip => db'.tip.height >= db.tip.height
<1> USE ForkTreeAssumption DEF Heights
<1>1. /\ peak \in Hash /\ remote \in Hash /\ remote \in Ancestors[peak]
      /\ db.tip # NoTip => db.tip.hash \in Ancestors[peak]
      /\ pc # "walk" /\ (pc = "probe" => target \in Ancestors[peak])
      /\ ExactInv
    BY DEF ForkInv, OneFork
<1>2. CASE UNCHANGED vars
    BY <1>1, <1>2 DEF vars
<1>3. CASE Environment
    BY <1>1, <1>3
    DEF Environment, Extend, Reorg, Resync, Connect, Disconnect, locals
<1>4. CASE RpcFails \/ FetchMissing \/ FetchRefused
    BY <1>4 DEF RpcFails, FetchMissing, FetchRefused, Fail, Goto
<1>5. CASE ReadRemoteTip
    <2>1. CASE db.blocks[0] = None
        BY <1>5, <2>1 DEF ReadRemoteTip, FetchRange, Goto
    <2>2. CASE /\ db.blocks[0] # None /\ db.tip # NoTip
               /\ db.tip.height # HeightOf[remote]
        BY <1>1, <1>5, <2>2 DEF ReadRemoteTip, Goto
    <2>3. CASE /\ ~ (db.blocks[0] = None)
               /\ ~ (db.blocks[0] # None /\ db.tip # NoTip
                        /\ db.tip.height # HeightOf[remote])
        <3>1. Decide(remote, remote)
            BY <1>5, <2>3 DEF ReadRemoteTip
        <3>2. db.tip # NoTip => HeightOf[remote] = db.tip.height
            BY <2>3
        <3>3. pc' \notin {"walk", "probe"}
            BY <1>1, <3>1, <3>2, NoReorgSeen
        <3> QED
            BY <1>5, <3>3 DEF ReadRemoteTip
    <2> QED
        BY <2>1, <2>2, <2>3
<1>6. CASE ProbeCachedTip
    <2>1. /\ target \in Ancestors[peak] /\ UNCHANGED db
          /\ db.tip # NoTip /\ at = db.tip.height
        BY <1>1, <1>6 DEF ProbeCachedTip, ExactInv, Inv, Control
    <2>2. CASE at <= HeightOf[remote]
        <3>1. PICK b \in Hash : RemoteHas(b, at) /\ Decide(target, b)
            BY <1>6, <2>2 DEF ProbeCachedTip
        <3>2. b \in Ancestors[peak] /\ HeightOf[b] = db.tip.height
            BY <1>1, <2>1, <3>1, AncestorsBelow DEF RemoteHas
        <3>3. pc' \notin {"walk", "probe"}
            BY <1>1, <2>1, <3>1, <3>2, NoReorgSeen
        <3> QED
            BY <2>1, <3>3
    <2>3. CASE ~ (at <= HeightOf[remote])
        <3>1. Decide(target, None)
            BY <1>6, <2>3 DEF ProbeCachedTip
        <3>2. pc' \notin {"walk", "probe"}
            BY <1>1, <2>1, <3>1, NoReorgSeen
        <3> QED
            BY <2>1, <3>2
    <2> QED
        BY <2>2, <2>3
<1>7. CASE WalkBack \/ RewindCache
    BY <1>1, <1>7 DEF WalkBack, RewindCache
<1>8. CASE FetchUnlinked
    BY <1>1, <1>8, NeverUnlinked
<1>9. CASE FetchBlock
    <2>1. PICK b \in Hash : RemoteHas(b, at) /\ db' = InsertBlock(db, b)
        BY <1>9 DEF FetchBlock
    <2>2. PICK c \in Hash : /\ at = HeightOf[c]
                            /\ db.tip # NoTip => at = db.tip.height + 1
                            /\ db' = InsertBlock(db, c)
        BY <1>1, <1>9, FetchedBlock
    <2>3. db \in Stores /\ (db.tip # NoTip => db.tip.height \in Nat)
        BY <1>1 DEF ExactInv, Exact, Stores, Tips
    <2>4. ~ (db.tip # NoTip /\ HeightOf[b] < db.tip.height)
        BY <2>1, <2>2, <2>3 DEF RemoteHas
    <2>5. InsertBlock(db, b).tip = [height |-> HeightOf[b], hash |-> b]
        BY <2>3, <2>4, InsertShape
    <2>6. db'.tip = [height |-> at, hash |-> b]
        BY <2>1, <2>5 DEF RemoteHas
    <2>7. db'.tip # NoTip /\ db'.tip.hash = b /\ db'.tip.height = at
        BY <2>6 DEF NoTip
    <2>8. b \in Ancestors[peak]
        BY <1>1, <2>1, AncestorsBelow DEF RemoteHas
    <2>9. pc' \in {"fetch", "done"}
        BY <1>9 DEF FetchBlock, Goto, Return
    <2> QED
        BY <2>2, <2>3, <2>7, <2>8, <2>9
<1>10. CASE Settle
    <2>1. UNCHANGED db
        BY <1>1, <1>10, SettleExact
    <2> QED
        BY <1>10, <2>1 DEF Settle, Goto
<1> QED
    BY <1>2, <1>3, <1>4, <1>5, <1>6, <1>7, <1>8, <1>9, <1>10 DEF Next, Poller

LEMMA NextFork ==
    ASSUME NeverPrunes, ForkInv, [Next /\ PeakStep]_<<vars, peak>>
    PROVE  /\ ForkInv'
           /\ (peak' # None /\ db.tip # NoTip)
                 => (db'.tip # NoTip /\ db'.tip.height >= db.tip.height)
<1> USE ForkTreeAssumption DEF Heights
<1>1. [Next]_vars /\ ExactInv
    BY DEF ForkInv
<1>2. ExactInv'
    BY <1>1, NextExact
<1>3. remote' \in Hash
    BY <1>2 DEF ExactInv, Inv, TypeOK
<1>4. peak' \in Hash \cup {None}
    BY <1>3 DEF ForkInv, PeakStep
<1>5. ASSUME peak' # None
      PROVE  /\ peak # None /\ peak \in Hash /\ peak' \in Hash
             /\ remote' \in Ancestors[peak']
             /\ Ancestors[peak] \subseteq Ancestors[peak']
    <2>1. CASE PeakStep
        BY <1>3, <1>5, <2>1, PeakGrows
    <2>2. CASE UNCHANGED <<vars, peak>>
        BY <1>5, <2>2 DEF vars, ForkInv, OneFork
    <2> QED
        BY <2>1, <2>2
<1>6. ASSUME peak' # None
      PROVE  /\ pc' # "walk"
             /\ pc' = "probe" => target' \in Ancestors[peak]
             /\ \/ db'.tip = db.tip
                \/ /\ db'.tip # NoTip /\ db'.tip.hash \in Ancestors[peak]
                   /\ db.tip # NoTip => db'.tip.height >= db.tip.height
    BY <1>1, <1>5, <1>6, OneForkStep
<1>7. OneFork'
    BY <1>5, <1>6 DEF ForkInv, OneFork
<1>8. db.tip # NoTip => db.tip.height \in Nat
    BY <1>1, ExactTip
<1>9. (peak' # None /\ db.tip # NoTip)
         => (db'.tip # NoTip /\ db'.tip.height >= db.tip.height)
    BY <1>6, <1>8
<1> QED
    BY <1>2, <1>4, <1>7, <1>9 DEF ForkInv

\* While darkfid stays on one fork, however many of its blocks it loses and
\* syncs again, the tip of a cache that does not prune never falls: classify_tips
\* never takes a darkfid that is behind for one that has reorganised.
THEOREM TipNeverFallsUnpruned ==
    ASSUME NeverPrunes
    PROVE  MCSpec => TipNeverFalls
<1> USE ForkTreeAssumption
<1>1. MCInit => ForkInv
    <2>1. SUFFICES ASSUME MCInit PROVE ForkInv
        OBVIOUS
    <2>2. ExactInv
        BY <2>1, InitExact DEF MCInit
    <2>3. /\ remote \in Hash /\ peak = remote /\ db.tip = NoTip /\ pc = "poll"
        BY <2>1 DEF MCInit, Init, EmptyStore
    <2>4. remote \in Ancestors[peak]
        BY <2>3, AncestorHeights
    <2> QED
        BY <2>2, <2>3, <2>4 DEF ForkInv, OneFork
<1>2. ForkInv /\ [Next /\ PeakStep]_<<vars, peak>>
        => /\ ForkInv'
           /\ (peak' # None /\ db.tip # NoTip)
                 => (db'.tip # NoTip /\ db'.tip.height >= db.tip.height)
    BY NextFork
<1> QED
    BY <1>1, <1>2, PTL DEF MCSpec, TipNeverFalls
=============================================================================
