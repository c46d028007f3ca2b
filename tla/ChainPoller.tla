----------------------------- MODULE ChainPoller -----------------------------
(***************************************************************************)
(* The chain poller (src/src/chain_poller.rs): the one task that writes    *)
(* blocks to the cache, following the confirmed chain of darkfid over RPC. *)
(*                                                                         *)
(* The poller is a thread that stops at every RPC: a step is one answer    *)
(* (or failure) of darkfid together with all the cache operations up to    *)
(* the next RPC.  Between two steps darkfid may extend its chain, reorg,   *)
(* or lose its database and sync again, and the connection may go up and   *)
(* down.  Sleeping between polls only delays a step and is not a state.    *)
(***************************************************************************)
EXTENDS Cache, FiniteSets

CONSTANTS
    BatchSize,       \* ChainPollerConfig.batch_size
    MaxWalk,         \* MAX_WALK of rewind_to_common_ancestor
    Retention,       \* ChainPollerConfig.retention_window; 0: never prune
    PruneInterval,   \* ChainPollerConfig.prune_interval_blocks
    ReorgDepth,      \* most blocks one reorg of darkfid replaces; 0: no reorg
    MayResync,       \* darkfid may lose blocks and sync again (IBD)
    RefusedBlocks    \* blocks process_block returns an error for

ASSUME PollerAssumption ==
    /\ BatchSize \in Nat \ {0}
    /\ MaxWalk \in Nat
    /\ Retention \in Nat
    /\ PruneInterval \in Nat \ {0}
    /\ ReorgDepth \in Nat
    /\ MayResync \in BOOLEAN
    /\ RefusedBlocks \subseteq Hash

VARIABLES
    remote,      \* darkfid: the last block of its confirmed chain
    link,        \* "up" or "down": do RPCs get through
    db,          \* the cache
    announced,   \* tip_notify, the watch channel SubscribeBlocks reads
    pc,          \* where the poller is
    target,      \* poll_once: the remote tip it was told, or None
    at,          \* the height the next RPC asks for
    end,         \* fetch_range: last height of the batch
    count,       \* fetch_range: blocks_processed; rewind: walked
    unpruned     \* run: blocks_since_last_prune

env    == <<remote, link>>
locals == <<pc, target, at, end, count>>
vars   == <<remote, link, db, announced, pc, target, at, end, count, unpruned>>

-----------------------------------------------------------------------------
(* darkfid and the connection.                                              *)

\* A block is confirmed on top of the chain.
Extend == /\ \E b \in Hash : Prev[b] = remote /\ remote' = b
          /\ UNCHANGED <<link, db, announced, locals, unpruned>>

\* The chain moves to a fork that is at least as long.
Reorg == /\ \E b \in Hash :
               /\ HeightOf[b] >= HeightOf[remote]
               /\ Cardinality(Ancestors[remote] \ Ancestors[b]) \in 1 .. ReorgDepth
               /\ remote' = b
         /\ UNCHANGED <<link, db, announced, locals, unpruned>>

\* darkfid restarts from an older point of the same chain and syncs again.
Resync == /\ MayResync
          /\ \E b \in Ancestors[remote] \ {remote} : remote' = b
          /\ UNCHANGED <<link, db, announced, locals, unpruned>>

Connect    == /\ link = "down" /\ link' = "up"
              /\ UNCHANGED <<remote, db, announced, locals, unpruned>>
Disconnect == /\ link = "up" /\ link' = "down"
              /\ UNCHANGED <<remote, db, announced, locals, unpruned>>

Environment == Extend \/ Reorg \/ Resync \/ Connect \/ Disconnect

-----------------------------------------------------------------------------
(* The poller's control: where poll_once goes next.                         *)

Goto(p, t, a, e, c) ==
    /\ pc' = p /\ target' = t /\ at' = a /\ end' = e /\ count' = c

\* poll_once returns Err: run counts the failure, sleeps and polls again.
Fail == Goto("poll", None, None, None, 0)

\* poll_once returns Ok(n) to run.
Return(n) == Goto("done", None, None, None, n)

FetchRange_MaxEnd(start, remoteEnd) ==
    LET last == start + BatchSize - 1
    IN  Goto("fetch", None, start, IF last > remoteEnd THEN last ELSE remoteEnd, 0)

\* fetch_range(start, remote_end), up to its first RPC.
FetchRange(start, remoteEnd) ==
    LET last == start + BatchSize - 1
    IN  Goto("fetch", None, start, IF last < remoteEnd THEN last ELSE remoteEnd, 0)

\* rewind_to_common_ancestor(from), up to its first RPC.
StartWalk(from) == Goto("walk", None, from, None, 0)

Classify_NoHold(tip, rem, cachedAtRemote, remoteAtTip) ==
    LET rh == HeightOf[rem]
    IN  CASE tip = NoTip -> [act |-> "fetch", from |-> 0]
          [] tip # NoTip /\ rh <= tip.height ->
               IF tip.hash \in {rem, remoteAtTip} THEN [act |-> "idle", from |-> rh]
               ELSE [act |-> "reorg", from |-> rh]
          [] OTHER ->
               IF remoteAtTip \notin {None, tip.hash}
               THEN [act |-> "reorg", from |-> tip.height]
               ELSE [act |-> "fetch", from |-> tip.height + 1]

\* classify_tips: cached tip, remote tip, cached hash at the remote height,
\* remote hash at the cached height (None where there is none).
Classify(tip, rem, cachedAtRemote, remoteAtTip) ==
    LET rh    == HeightOf[rem]
        reorg == [act |-> "reorg", from |-> tip.height]
        idle  == [act |-> "idle", from |-> tip.height]
        fetch == [act |-> "fetch", from |-> tip.height + 1]
    IN  CASE tip = NoTip -> [act |-> "fetch", from |-> 0]
          [] tip # NoTip /\ rh < tip.height ->
               IF remoteAtTip # None
               THEN IF remoteAtTip = tip.hash THEN idle ELSE reorg
               ELSE IF cachedAtRemote = rem THEN [idle EXCEPT !.act = "hold"]
               ELSE [reorg EXCEPT !.from = rh]
          [] tip # NoTip /\ rh = tip.height ->
               IF tip.hash = rem THEN idle ELSE reorg
          [] OTHER ->
               IF remoteAtTip \notin {None, tip.hash} THEN reorg ELSE fetch

\* The match on classify_tips at the end of poll_once.
Decide(rem, remoteAtTip) ==
    LET action == Classify(db.tip, rem, db.blocks[HeightOf[rem]], remoteAtTip)
    IN  CASE action.act = "fetch" -> FetchRange(action.from, HeightOf[rem])
          [] action.act = "reorg" -> StartWalk(action.from)
          [] OTHER -> Return(0)

-----------------------------------------------------------------------------
(* The poller's steps, one per RPC.                                         *)

RemoteHas(b, h) == b \in Ancestors[remote] /\ HeightOf[b] = h

\* The loop of rewind_to_common_ancestor asks darkfid only about heights the
\* cache has a hash for; every other step of the poller is an RPC.
AtRpc == pc # "done" /\ (pc = "walk" => db.blocks[at] # None)

\* An RPC fails with a connection error: every call site returns Err.
RpcFails ==
    /\ AtRpc /\ link = "down"
    /\ Fail
    /\ UNCHANGED <<remote, link, db, announced, unpruned>>

\* get_last_confirmed_block, and poll_once up to its second RPC.
ReadRemoteTip ==
    /\ pc = "poll" /\ link = "up"
    /\ CASE db.blocks[0] = None -> FetchRange(0, 0)
         [] db.blocks[0] # None /\ db.tip # NoTip
                /\ db.tip.height # HeightOf[remote] ->
              Goto("probe", remote, db.tip.height, None, 0)
         [] OTHER -> Decide(remote, remote)
    /\ UNCHANGED <<remote, link, db, announced, unpruned>>

\* get_block(cached tip height): darkfid's block there, or an RPC error.
ProbeCachedTip ==
    /\ pc = "probe" /\ link = "up"
    /\ IF at <= HeightOf[remote]
       THEN \E b \in Hash : RemoteHas(b, at) /\ Decide(target, b)
       ELSE Decide(target, None)
    /\ UNCHANGED <<remote, link, db, announced, unpruned>>

TipHeight(d) == IF d.tip = NoTip THEN 0 ELSE d.tip.height

\* The loop of rewind_to_common_ancestor ends at a block darkfid has too, at
\* genesis, or when it has walked far enough.
CommonAncestor == db.blocks[at] # None /\ RemoteHas(db.blocks[at], at)
WalkEnds == CommonAncestor \/ at = 0 \/ count >= MaxWalk

WalkBack ==
    /\ pc = "walk" /\ (AtRpc => link = "up") /\ ~ WalkEnds
    /\ Goto("walk", None, at - 1, None, count + 1)
    /\ UNCHANGED <<remote, link, db, announced, unpruned>>

RewindCache_OnlyToAncestor ==
    /\ pc = "walk" /\ (AtRpc => link = "up") /\ WalkEnds
    /\ IF CommonAncestor
       THEN db' = Rewind(db, at) /\ announced' = TipHeight(db')
       ELSE UNCHANGED <<db, announced>>
    /\ Return(0)
    /\ UNCHANGED <<remote, link, unpruned>>

RewindCache ==
    /\ pc = "walk" /\ (AtRpc => link = "up") /\ WalkEnds
    /\ db' = Rewind(db, at)
    /\ announced' = TipHeight(db')
    /\ Return(0)
    /\ UNCHANGED <<remote, link, unpruned>>

\* A height of fetch_range that darkfid no longer has is an RPC error: the
\* blocks fetched so far stay, uncounted, unflushed and unannounced.
FetchMissing ==
    /\ pc = "fetch" /\ link = "up" /\ at > HeightOf[remote]
    /\ Fail
    /\ UNCHANGED <<remote, link, db, announced, unpruned>>

Unlinked_Unchecked(b) == FALSE

\* The block does not continue the cached block below it.
Unlinked(b) == LET h == HeightOf[b]
               IN  h > 0 /\ db.blocks[h - 1] \notin {None, Prev[b]}

FetchUnlinked ==
    /\ pc = "fetch" /\ link = "up"
    /\ \E b \in Hash : RemoteHas(b, at) /\ Unlinked(b)
    /\ StartWalk(at - 1)
    /\ UNCHANGED <<remote, link, db, announced, unpruned>>

FetchBlock_NotifiesFirst ==
    /\ pc = "fetch" /\ link = "up"
    /\ \E b \in Hash : /\ RemoteHas(b, at)
                       /\ ~ Unlinked(b) /\ b \notin RefusedBlocks
                       /\ db' = InsertBlock(db, b)
    /\ IF at < end
       THEN Goto("fetch", None, at + 1, end, count + 1) /\ UNCHANGED announced
       ELSE Return(count + 1) /\ announced' = TipHeight(db)
    /\ UNCHANGED <<remote, link, unpruned>>

\* A block that process_block refuses ends the batch like a failed RPC, poll
\* after poll, until darkfid has another one there.
FetchRefused ==
    /\ pc = "fetch" /\ link = "up"
    /\ \E b \in RefusedBlocks : RemoteHas(b, at) /\ ~ Unlinked(b)
    /\ Fail
    /\ UNCHANGED <<remote, link, db, announced, unpruned>>

FetchBlock ==
    /\ pc = "fetch" /\ link = "up"
    /\ \E b \in Hash : /\ RemoteHas(b, at)
                       /\ ~ Unlinked(b) /\ b \notin RefusedBlocks
                       /\ db' = InsertBlock(db, b)
    /\ IF at < end
       THEN Goto("fetch", None, at + 1, end, count + 1) /\ UNCHANGED announced
       ELSE Return(count + 1) /\ announced' = TipHeight(db')
    /\ UNCHANGED <<remote, link, unpruned>>

\* run, after a poll that returned Ok: add up the blocks, prune when due.  A
\* server that never prunes adds up a number nothing reads: it stays 0 here.
Settle ==
    /\ pc = "done"
    /\ LET total == unpruned + count
           due   == Retention > 0 /\ total >= PruneInterval
       IN  /\ db' = IF due THEN Prune(db, Retention) ELSE db
           /\ unpruned' = IF due \/ Retention = 0 THEN 0 ELSE total
    /\ Goto("poll", None, None, None, 0)
    /\ UNCHANGED <<remote, link, announced>>

Poller == \/ RpcFails \/ ReadRemoteTip \/ ProbeCachedTip
          \/ WalkBack \/ RewindCache
          \/ FetchMissing \/ FetchUnlinked \/ FetchRefused \/ FetchBlock
          \/ Settle

Init ==
    /\ remote \in Hash /\ link \in {"up", "down"}
    /\ db = EmptyStore
    /\ announced = 0
    /\ pc = "poll" /\ target = None /\ at = None /\ end = None /\ count = 0
    /\ unpruned = 0

Next == Poller \/ Environment

Spec == Init /\ [][Next]_vars

\* run never returns: as long as an RPC can be answered or can fail, the
\* poller eventually takes its next step.  Nothing is asked of darkfid.
FairSpec == Spec /\ WF_vars(Poller)

-----------------------------------------------------------------------------
(* Properties.                                                              *)

\* Every variable keeps to the values the code's types and the poller's
\* control give it.
TypeOK ==
    /\ remote \in Hash
    /\ link \in {"up", "down"}
    /\ db \in Stores
    /\ announced \in Heights
    /\ pc \in {"poll", "probe", "walk", "fetch", "done"}
    /\ target \in Hash \cup {None}
    /\ at \in Heights \cup {None}
    /\ end \in Heights \cup {None}
    /\ count \in Nat
    /\ unpruned \in Nat

\* Cached blocks at adjacent heights are linked by header.previous, whatever
\* darkfid's chain did between the RPCs of a batch, and however far the poller
\* walked back: no range a client streams mixes two forks.
Linked ==
    \A h \in Heights \ {0} :
        (db.blocks[h] # None /\ db.blocks[h - 1] # None)
            => Prev[db.blocks[h]] = db.blocks[h - 1]

\* The tip metadata name the highest cached block.
TipIsTop ==
    IF db.tip = NoTip
    THEN \A h \in Heights : db.blocks[h] = None
    ELSE /\ db.blocks[db.tip.height] = db.tip.hash
         /\ \A h \in Heights : h > db.tip.height => db.blocks[h] = None

\* Without pruning every height up to the tip is cached.
NoHoles ==
    db.tip # NoTip => \A h \in 0 .. db.tip.height : db.blocks[h] # None

\* The stored tip tree is the Money tree of the chain that ends at the tip,
\* each coin appended once: a wallet that installs it can build its witnesses.
TipTreeMatchesTip ==
    db.tip # NoTip =>
        db.tree = [height |-> db.tip.height, leaves |-> TrueTree(db.tip.hash)]

\* Every retained snapshot is the tree of the tip's own chain at its height:
\* no snapshot of an abandoned fork, none above the tip.
SnapshotsMatchChain ==
    \A h \in Heights : db.snaps[h] # None =>
        /\ db.tip # NoTip
        /\ \E a \in Ancestors[db.tip.hash] :
              HeightOf[a] = h /\ db.snaps[h] = TrueTree(a)

\* One snapshot per interval boundary up to the tip, one at the tip, no other.
SnapshotsKept ==
    \A h \in Heights :
        db.snaps[h] # None <=>
            /\ db.tip # NoTip
            /\ \/ h = db.tip.height
               \/ h < db.tip.height /\ h % Interval = 0

\* The cache implements CachedChain.
CachedRows == {db.blocks[h] : h \in Heights} \ {None}
View == INSTANCE CachedChain WITH top <- db.tip.hash, rows <- CachedRows
HoldsOneChain == View!Spec

\* The cache agrees with a darkfid chain that ends with b: it ends there too,
\* or (while darkfid is syncing again) it holds b and the blocks above it.
Synced(b) == db.tip # NoTip /\ db.blocks[HeightOf[b]] = b
                 /\ db.tip.height >= HeightOf[b]

\* A chain every block of which can be processed.
Processable(b) == Ancestors[b] \cap RefusedBlocks = {}

\* Once darkfid settles on a chain and stays reachable, the cache gets there,
\* from any fork, however deep the reorg.
Converges ==
    \A b \in {c \in Hash : Processable(c)} : <>[](remote = b /\ link = "up") => <>[]Synced(b)

\* ... and the watch channel gets there with it, so subscribers are told, as
\* long as darkfid's chain never gets shorter.
AnnouncesTip ==
    \A b \in {c \in Hash : Processable(c)} :
        <>[](remote = b /\ link = "up") => <>[](announced = TipHeight(db))
=============================================================================
