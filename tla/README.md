# darkfi-lightwalletd in TLA+

darkfi-lightwalletd sits between light wallets and a darkfid full node. It
polls darkfid, keeps compact blocks and Merkle trees in a sled database, and
serves them over gRPC. This directory models the parts of it whose correctness
depends on the order in which things happen, checks the models with TLC, and
proves the central properties with TLAPS.

All source paths below are relative to the repository root (`src/` here is the
repository, so the Rust crate is `src/src/`).

## 1. The system

| component | source | state it keeps | operations |
|---|---|---|---|
| block cache | `cache.rs` | sled trees by height (blocks, hashes, nullifiers, coins, Merkle snapshots), tip metadata, tip tree on disk and in memory | insert, rewind, prune, rebuild of the tip tree, open |
| chain poller | `chain_poller.rs` | locals of `poll_once` and its callees across RPC awaits, blocks since the last prune, the tip watch channel | poll, classify, fetch a range, walk back and rewind, notify, prune |
| darkfid and its client | `rpc_client.rs` | (external) the confirmed chain, the connection | get tip, get block, broadcast |
| range streams | `server.rs` 337-572, `continuity.rs` | position in the range, last hash sent | stream blocks, outputs, nullifiers, commitments |
| tree state, checkpoints, chain tip | `server.rs` 1726, 2121, 2190 | none; several cache reads per call | read tip, read tip tree or snapshot, read block hash |
| tip subscription | `server.rs` 1759 | watch version, one-slot client buffer | wake, read the tip, try to send |
| tip facts | `server.rs` 791-934 | darkfid's target and difficulty, for one tip | look up, fetch, store |
| clue hints and send path | `cache.rs` 448-557, 722-838, `server.rs` 1870, 2356 | hints and their timestamps by transaction, metadata by transaction, recent senders | send, register, expire, merge into a block |
| clue directory | `cache.rs` 567-720, `clue_ownership.rs` | key, version, proof by payment key; two create-once secrets | register, look up |
| detection pool | `detection_pool.rs` | keys by handle, bytes, expiry | insert, get, sweep |
| window caches | `server.rs` 617-745, 1350 | notes and encoded windows by (range, end hash) | get, insert, evict |
| rate limiter | `rate_limit.rs` | count and window start by IP | check, collect |
| connection limiter | `limited_incoming.rs` | permits, connections | accept, drop |
| upload slots, FHE permits | `server.rs` 820, 1202-1290 | slots by IP, byte and worker semaphores | reserve, release |
| padded ranges | `server.rs` 169-301 | none (pure) | resolve, pad, reject |
| block processor, envelope | `block_processor.rs`, `omr_envelope.rs` | none (pure) | darkfid block to compact block |
| UnifOMR, PIR | `unifomr.rs`, `omr_detector.rs`, `pir_server.rs` | ciphertexts | homomorphic evaluation |
| configuration, startup | `config.rs`, `main.rs` | none | parse, wire |

How they interact. One poller task writes the block part of the cache; every
gRPC handler reads it, without a lock, one sled read at a time. Handlers write
the clue parts of the cache, which the poller reads when it inserts a block.
After a fetch or a rewind the poller publishes the tip height in a watch
channel; subscriptions wake on it and read the tip back from the cache.

What is hard. darkfid's chain moves between any two of the poller's RPCs
(extension, reorg, resync after data loss), and every RPC can fail. The tip tree
is incremental and is rebuilt from snapshots after a rewind, so a wrong seed or
a stale snapshot corrupts every later root. Pruning removes what the poller
later looks for. A rewind or an insert is a sequence of sled writes: a crash or
a reader can come between any two. Hints are read, changed and written back by
concurrent handlers. `PROJECT.json` lists these hazards line by line, with the
properties that cover them.

What makes each component correct.

- Cache: block rows are one linked chain with the tip at its top; the tip tree
  and the snapshots are those of that chain; each coin is counted once.
- Poller: it reaches darkfid's chain from any fork once darkfid settles; it
  does not give up what it holds because darkfid is catching up; every tip it
  moves to is announced.
- Readers: what one response combines belongs to one state of one chain; a
  stream is linked or says that it is not.
- Hints: a clue accepted for an output reaches that output's block unless it
  expired; a rejected transaction takes away only its own clues.
- Bounded stores (pool, limiters, slots): counters equal contents, limits hold,
  nothing leaks when one of several steps fails.

## 2. Modules

    ForkTree          the blocks darkfid may ever serve, as constant data
      Cache           the block part of the cache, one operator per operation
        ChainPoller   the poller, darkfid and the connection: the state machine
          MCChainPoller   instances for TLC
        CacheWrites   the same operations as lists of row writes, with crashes
          RangeStreams (with PaddedRanges), TreeReads, TipSubscription,
          WindowCaches (with PirBatch)      the readers, one row at a time
            MCReaders     the readers beside the writer, for TLC
      CachedChain     what the cache promises its readers (abstract)
    BlockProcessor    raw block to compact block (pure; used by CacheWrites)
    PaddedRanges, PirBatch                  pure
    ClueHints         the handlers that park clues, and the merge into blocks
      MCClueHints     instances for TLC, with history variables
    RateLimiter, DetectionPool -> Admission  what FHE handlers take and give back
    ClueDirectory, TipFacts, Connections, RangeClient (with PaddedRanges)
      MCService       these and Admission, for TLC
    CacheProofs, ChainPollerProofs    theorems and proofs: the cache and the poller
    CacheWritesProofs                                its row writes, the subscription
    ReaderProofs                                     snapshots and streams
    WindowProofs                                     digests and PIR windows
    ClueHintsProofs                                  the handlers that park clues
    AdmissionProofs, ServiceProofs                   the parts of the service

**ForkTree.** A block is its hash. Hashes commit to the previous block, so
blocks form a tree; heights, parents and ancestor sets are constants tied
together by `LinkAssumption`. A Money Merkle tree is abstracted to how often
each block's coins were appended to it; the tree of a chain has each block with
coins exactly once (`TrueTree`). Two appends in a different order give a
different root in the code: here the order is always that of the heights, which
is how both the append and the replay loop read the coins.

**Cache.** A store is a record: block rows, coins rows, tip, tip tree,
snapshots. `InsertBlock`, `Rewind` and `Prune` are functions from store to
store and follow `insert_compact_block`, `rewind_to_height` and
`prune_with_retention` through every call they make, with their early returns:
a block below the tip takes the historical path, a block without coins leaves a
coins row that is already there, a rewind to a height without a block leaves the
tip where it was. The in-memory tree is rewritten with every write of the
stored one and is not a separate variable. Deserialisation failures of stored
trees are not modelled.

**ChainPoller.** `poll_once` runs on one task and awaits only RPCs, so one
action is one RPC answer together with everything up to the next RPC. `pc` says
which RPC is pending:

| action | code |
|---|---|
| `ReadRemoteTip` | `get_last_confirmed_block`, the genesis check, the second RPC if the heights differ |
| `ProbeCachedTip` | `get_block(cached tip)`, then `classify_tips` |
| `FetchBlock`, `FetchUnlinked`, `FetchMissing` | one turn of `fetch_range` |
| `FetchRefused` | the turn in which `process_block` refuses the block (`RefusedBlocks`): the poll ends, unannounced |
| `WalkBack`, `RewindCache` | one turn of `rewind_to_common_ancestor` |
| `RpcFails` | a connection error at any RPC |
| `Settle` | `run` after `Ok`: count, prune when due |
| `Extend`, `Reorg`, `Resync`, `Connect`, `Disconnect` | darkfid and the network |

**CachedChain.** The abstract promise: readers see the last block of a chain and
blocks of that chain; the chain grows by its next block, is cut back to a block
that is held, loses its oldest blocks, or gets its genesis block back.
`ChainPoller!HoldsOneChain` is the refinement (`top` is the tip's hash, `rows`
the block rows).

**ClueHints.** `SendTransaction` and `RegisterOmrClue` park clues in sled trees
that the poller reads when it inserts a block. Handlers run on many threads, the
trees have no lock over them, and a sled call is atomic by itself only, so every
access to a tree is a step (`calls[c].pc` is the next one):

| action | code |
|---|---|
| `StartSend` | `send_transaction` up to its first access: envelope, hash, which clues go before the broadcast and which after |
| `StartRegister` | `register_omr_clue` up to and including `send_peer_matches` |
| `SweepCollect`, `SweepHints`, `SweepStamp` | the full scan of expired hints: collect, then two removals a key |
| `Stale`, `RemoveHints`, `RemoveStamp` | `drop_omr_clue_hint_if_expired`; the removals also those of `remove_omr_clue_hint` |
| `LookToCheck`, `LookToStore` | the reads of `omr_clue_index_taken` and of `store_omr_clue_hint` |
| `InsertHints`, `InsertStamp` | the writes of `store_omr_clue_hint` |
| `Take`, `Accepted`, `Refused`, `TimedOut` | darkfid takes the transaction; the three outcomes of the broadcast, in any combination with it |
| `Remember`, `HasMeta`, `PutMeta`, `Answer` | the rest of the accepted branch; the response |
| `StartMerge` to `WriteBlock` | `apply_omr_clue_hints` and the block's write, for one transaction |
| `Unindex`, `Tick` | a reorg removes the block from the cache; the clock |

A clue is a value; one that is empty or invalid is a clue the request does not
have. The list of a row has at most one clue for an index, so a row is a function
from indexes to clues; its order matters only when two indexes have the same
clue, and `Attached` allows either. Throttling the scan is a choice: it runs or it
does not (one at a time). The scan's iteration over the stamps is one step. A block
is one transaction. Failures of sled are not modelled.

**CacheWrites.** sled makes a single row write atomic and replays its log in
order, so an operation of the cache is a list of row writes (`todo`), a reader sees
any prefix of it, and a crash keeps a prefix of it. The lists are translated from
the same functions as `Cache`'s operators, and `WritesMakeOperation` compares the
two from every store that a crash can leave. `StartWrites` is what `Cache::new`
does: secrets and trees under their old names are moved (`RetireWrites`), the rows
of an older layout are cleared and the format is stamped (`FormatWrites`), a tip
snapshot without its row is indexed. Of the poller only its choices are kept
(`NextBlocks`, a rewind to any height at or below the tip, a prune): the module's
head says what `ChainPoller` guarantees about them.

**BlockProcessor.** `process_block` over raw blocks whose calls are a contract, a
function and a flag that says whether the rest decodes. A block that is refused
(too many transactions or calls, a Money call that does not decode) is never
inserted. A FeeV1 call of fewer than 9 bytes is not refused: the slice `data[9..]`
(`block_processor.rs` 169) panics, the poller's task ends and `main.rs` 383 lets the
process end with it, which to the cache is a crash between two operations.

**RangeStreams.** A stream resolves its range against the tip (`OpenRange`), reads
a row a step, and ends with an error when a row is missing or is not the successor
of the one before (`check_successor`); the sparse list reads everything first and
compares neighbours. `Sent` is what each kind of stream makes of a row.

**TreeReads.** `GetTreeState` reads the tip, then either the tip tree's height and
the tree, or a snapshot row, then the block hash; `GetCheckpointSnapshot` takes the
greatest snapshot at or below its height. Four reads, four steps.

**TipSubscription.** `Announce` is `notify_tip`, `Wake` is `changed()` with
`borrow_and_update`, then three reads and `try_send` on a buffer of one.

**WindowCaches.** A call of `GetUnifOmrDigest` or `FetchPirBatch`: the end of the
range that can be evaluated (`AskDigest`, `ProbeHash`), the end hash, the lookup in
the cache of windows, the scan row by row, the insert with its eviction. What a row
holds is not a function of its block's hash: the clues and the metadata that are
parked when a block is inserted are merged into it (`cache.rs` 353-355, 783-838), and
a block that is rewound and inserted again may get others. `content` is what each row
holds; `Disturb`, the poller's step beside a call, draws it from `Contents` for every
row it writes. A window keeps what it read, and is found by its range and end hash
alone. `Digest` is `flatten_messages` with `cap_messages_to_whole_heights`,
`ScannedTo` where the wallet goes on. **PirBatch** is `pir_server.rs` with a ciphertext as the vector it
encrypts: stripes, selection vectors, limb columns, length prefix, reassembly.

**Admission.** Handlers of the FHE calls as they take and give back: credits
(`RateLimiter`), an upload slot and its reserved bytes, a `FetchPirBatch` slot, a
place in the queue for `FheWorkers` permits, a worker. A handler can be dropped at
any await (`Cancel`, `TimesOut`): its guards are released at once, a running
worker keeps its permit until `WorkerEnds`. A slot and its bytes are taken one after
the other, and the slot is given back when there are no bytes: a neighbour that asks
in between is refused although nothing is left held (`Crowded`). Credits are spent before the slot is
asked for and are not given back. `PeerOf` is the forwarded address behind a
trusted proxy.

**ClueDirectory.** `CheckRow` and `InsertRow` are the read and the write of
`store_clue_public_key`; a lookup reads the attest secret, the row, and for an
unregistered payee the pepper, with the read, the second read and the swap of
`get_or_create_clue_dir_pepper` as steps.

**TipFacts.** `load_tip_fact`: a hit, or an RPC that darkfid answers at some moment
of the wait (`FactTold`), or that fails. **PaddedRanges**, **RangeClient**:
`pad_block_range` at the tip a wallet knows, `padded_range_rejection` at the
server's, later, one. **Connections**: the states of `poll_next`; a permit moves
into the connection and comes back when it closes.

## 3. What is checked

The fork tree of the runs (`MCChainPoller`) has heights 0 to 5: a main chain, a
fork of four blocks above height 1, and two shorter forks above it and above the
main chain. Three blocks have no coins, at heights where the forks differ in
that respect, and one block above the fork is refused by the block processor. Batches are
of two blocks and `MAX_WALK` is 1 or 2 (the code has
100 and 10 000), so that a batch is cut by a reorg, a batch ends below the tip,
and a walk stops before it finds the common ancestor. Snapshots are kept every
two blocks (1024 in the code), so rewinds land on, above and below a boundary.

| run | configuration | shows |
|---|---|---|
| `poller_forks` | no pruning, reorgs of up to four blocks, resyncs, connection failures | all the properties of the cache and the poller hold, and the cache implements `CachedChain` |
| `poller_pruned` | a window of two blocks, reorgs of one block, no resync | block rows remain one chain, the cache converges and announces its tip |
| `poller_pruned_tree` (violation) | as `poller_pruned` | after a prune the tip tree loses the pruned coins |
| `poller_pruned_resync` (violation) | pruning and resyncs | the cache is rewound although darkfid is only catching up |
| `clue_hints` | two transactions, one whose hash only darkfid can tell; two handlers; two peers; one binding at most | clients that wait for an answer about a transaction and send it once get every clue they were told of into every block, through expiry and reorgs |
| `clue_hints_resend` (violation) | one transaction sent again with a clue for another output | a refused second call drops the accepted clue of the first |
| `clue_hints_race` (violation) | two handlers about one transaction | the second writer replaces the first one's clue |
| `readers` | a chain and a fork of four heights, one crash, pruning, a database of an older layout; one kind of reader in a behaviour | the writes make the operations; each reader gets one chain, one tree, the clues and the payloads that were read |
| `digest_stale_window` (violation) | digests only | a kept window lacks the clue its block came back with |
| `service` | one part in a behaviour, at the bounds below | slots, bytes, permits, credits, handles, connections, versions, facts and ranges |
| `padded_short_chain` (violation) | padded ranges at the tip they were made at | a range of a chain too short for a bucket is refused |
| `tip_tree` (violation) | the reader of the tip's tree | a tree is sent with the height below its own |

The properties:

- `Linked`, `TipIsTop`, `NoHoles`: the rows are one chain.
- `TipTreeMatchesTip`, `SnapshotsMatchChain`, `SnapshotsKept`: the trees are
  that chain's, and exactly the due ones are kept.
- `HoldsOneChain`: the refinement of `CachedChain`.
- `TipNeverFalls`: an action property with a history variable (`peak`): while
  darkfid stays on one fork, even one it is syncing again, the cache's tip does
  not go down.
- `Converges`, `AnnouncesTip`: from any state, once darkfid rests on a chain and
  answers, the cache ends with it (or, while it is held through a resync, above
  it) and the watch channel agrees. This is claimed of chains whose blocks
  `process_block` takes (`Processable`): below a block it refuses the poller stays
  for ever, retrying the batch at every poll. The safety properties hold with such
  blocks as well.

- `AcceptedClueKept`: a clue that a client was told is accepted stays parked
  until it is a day old. `SentCluesIndexed`: it, and the extra clues of its
  request, are in whatever block of the cache has the transaction; this needs
  the clues parked before the broadcast and kept after a merge.
- `FirstWriterWins`: a parked clue is not replaced or lost to another.
  `RejectedParksNothing`: a refusal leaves nothing of the call parked.
- `RegisterFromSender`, `BindsBounded`: who may register, and the limit of what
  is remembered for it.

- `LinkedOnDisk`, `NoOldRows`, `SecretsSurvive`: what no crash and no interrupted
  upgrade breaks. `WritesMakeOperation`: the link from row writes to `Cache`.
- `StreamDeliversChain`: a stream that ends without an error has sent one chain,
  each block once, with exactly the items the raw transactions owe (`Owed`, stated
  without `BlockProcessor`). `CheckpointTrees`: a snapshot is the tree of a chain
  at its height. `SubscriberCaughtUp`: no tip is lost between a notice and the
  reads it causes, but for the two exceptions the code makes.
- `DigestLosesNoClue`: a wallet that goes on where a digest says leaves behind no row
  the digest did not cover and no clue that was read of one; and none at all if no
  row of the window was written since (`intact`). `PirReassembles`: payloads come
  back byte for byte as they were read, each of the block that the chain of the end
  hash has there. Both are claimed of calls beside which the poller wrote nothing
  (`calm`) and of windows filed by such a call (`sound`), though the windows they
  find may have been kept from before a reorg.
- `KeptDigestLosesNoClue` is what the source says (`unifomr.rs` 1067-1068): no clue
  that a row left behind has now is missing, whatever was written since the window
  was filed. It is violated.
- `Conserved`: what is free and what is held add up, with cancellation at every
  step; `AllGivenBack`: in the end everything is free. `PoolExact`: the pool's
  bytes are those of its entries, and a handle lives until it expires.
- `AtMostTwoLimits`: the documentation says "sliding window" (`rate_limit.rs` 27),
  the code has fixed windows that begin with a request; two limits in any stretch
  of a window's length is what it does guarantee.
- `LookupsNeverGoBack`, `FactsNotOlder`: what a wallet is told of a payee does not go
  back, and what it is told of the tip is not older than the tip beside it. The first
  is claimed of registrations that come one after another.
- `PaddedRangeServed`: exactly which padded ranges are taken although the tip has
  moved: all of them, but for those of a chain with no room for the smallest bucket
  that end further below the tip than the lag. `PaddedRangeAccepted`, what the
  comments say (`server.rs` 216, 262), is that all are taken at the tip they were
  padded at; it is violated by those short chains.
- `PermitsConserved`, `WaitingClientAccepted`: failures of accept never use up
  the permits.

Bounds of the poller's runs. Heights stop at 5 and the fork tree is fixed; nothing
else is bounded: darkfid may move and the connection may drop any number of times. The proofs
below remove the bounds for the safety properties.

Bounds of the runs of clue hints. Two calls (`MaxCalls`) are enough for a send
beside another transaction's send, or a send and a registration after it; the clock
has three values and a life of one (`Ttl`), so a clue is fresh, at its limit, or
expired, and it may advance in the middle of a call. A request has one clue for the
recipient and one extra. In `clue_hints` a client waits for its answer before it
calls again about a transaction (`OneCallPerTx`) and sends it once (`Resends` is
FALSE). That is a limit of what the run shows: the two findings are what happens
without it. `RejectedParksNothing` too needs it: when a first send timed out, a
second one finds its clue parked, so `clue_accepted` is false and a refusal leaves
the clue. Nor does the run have a transaction that is sent again after its hints
expired, where a scan that has collected the key removes the fresh row.

Bounds of `readers`. The chain a0 to a3 and the fork b1 to b3 above a0, with a
block without coins on each and a block that is refused; without a reader the cache
runs to height 3, beside one to 2 (1 for a subscription), which is enough for a
rewind to, above and below a snapshot (`Interval` is 2) while a reader is in the
middle. Crashes end a request; one crash (`MaxCrashes`) is enough to reach
every prefix of every operation, and a second one only restarts the same
startup list. The old database has rows of layout 1, both secrets and the directory
under their old names. A digest is of two heights with a cap of two messages, a PIR
window of three heights in stripes of two slots, the caches hold one window, so
the next one evicts it. Block a1 has two contents, with one clue and with three and
with payloads of different lengths, so it can come back with more or with less than
a kept window has of it. Beside a PIR call, a stream or a subscription nothing is
pruned, and a1 has its second content only in a digest's or a PIR call's behaviour in
which nothing was pruned; the proofs have no such limits. Payloads have one byte, an odd and an even
number, exactly the most that fits, and one more.

Bounds of `service`. Two calls, two addresses, one of which is also behind a proxy;
one upload slot an address, a budget for two keys, one worker: each limit is
reached by the second call. A limit of two credits in a window of two ticks with
five moments lets a stretch begin anywhere in a window. Versions 1 and 2, one
payee, two lookups; one registration at a time (`Registers` has one slot), which
`LookupsNeverGoBack` needs: two beside each other may leave the lower version. A
pool of two handles and three bytes is filled by either limit at the first moment, by
the credits of two addresses, and its handles expire at the second; the sweep that a
lookup starts after `SWEEP_INTERVAL` is in the proof only. Beside the pool no worker
outlives its handler. The tip lag is 1, below the smallest bucket of 4 as 64 is below
1024, so a chain may be short of a bucket and yet past the lag. Ranges on chains up to
height 14 with buckets of 4 and 8 reach every case of `pad_block_range`.
`AllGivenBack` holds of instances whose
clock stops, where credits run out and no new call gets in; it says that nothing
is held for ever, not that a busy server rests.

Fairness of `service`. A handler that waits has a timer (`TimesOut`), a worker's
computation ends (`WorkerEnds`), the semaphore serves its queue (`Take`), the
runtime resumes a handler whose worker is done (`Respond`), and tonic polls the
stream of connections (`TakePermit`, `Accept`). Nothing is assumed of clients.
`readers` has safety properties only.

Fairness. `WF_vars(Poller)`: `run` never returns (`chain_poller.rs` 165-240) and
its task is scheduled by the runtime, so as long as the poller has a step, an
RPC answer or an RPC failure, it takes one. Each RPC has a timeout
(`rpc_client.rs` 264-317), so a pending RPC always has one of the two. Nothing
is assumed of darkfid or of the network: the liveness properties are
conditional on darkfid resting.

### Findings

1. *Pruning corrupts the tip tree* (`poller_pruned_tree`). Pruning deletes block
   0; the next poll fetches it again; the historical path deletes every
   snapshot and rebuilds the tree from the coins that are left. With the default
   retention this needs a chain of more than 100 000 blocks.
2. *A pruned cache does not recognise a resyncing darkfid*
   (`poller_pruned_resync`). The hold rule compares the hash at the remote
   height, which pruning removed, and the cache is rewound.
3. *A refused retry drops accepted clues* (`clue_hints_resend`). The refused branch
   removes the transaction's whole row, not what its own call parked.
4. *Two writers of one row* (`clue_hints_race`). The read, the check and the write
   of a row are not atomic; both clients are told that their clue is accepted.
5. *A tree under the wrong height* (`tip_tree`). The reader takes the height, then
   the tree; the writer writes the tree, then the height.
6. *A kept window lacks a clue* (`digest_stale_window`). Windows are found by their
   range and the hash of their last block, which is the same when a block is rewound
   and inserted again with a clue that was parked meanwhile.
7. *A padded range is refused* (`padded_short_chain`). Below 1024 blocks
   `pad_block_range` returns the chain up to `end`, and the server takes that only
   if `end` is within 64 blocks of the tip: (0, 100) at tip 500 is refused.

What reading and modelling also showed, without a property that states it:

- When an RPC fails inside a batch, the blocks before it are cached but neither
  flushed nor announced until a later fetch or rewind succeeds (`chain_poller.rs`
  315, 332, 337-340). `AnnouncesTip` says that it is announced once darkfid answers.
- The pepper of the decoys is swapped in against a second read instead of the first
  (`cache.rs` 663-675), so a concurrent first lookup is overwritten and the decoys
  differ before and after, against the comment at 678.
- Two registrations of one payee beside each other may leave the lower version,
  against `cache.rs` 563: the version is compared with a row that the other one
  replaces before the write (590-612).
- The limiter's window is fixed and not sliding (`rate_limit.rs` 27, 80-84).
- A window that is scanned while a rewind removes rows is filed under the end hash
  with empty lists for them, and found again if that fork returns: a wallet goes on
  above heights that were never read, against `server.rs` 189-190.
- A crash in the middle of a rewind keeps the old tip over deleted rows, and a
  coins row written just before a crash stays for another fork's block without
  coins. Trees are therefore only claimed of behaviours without a crash
  (`Undamaged`).
- `cached_encrypted_notes` files a window without an end block under the zero hash.
- A block that `process_block` refuses stops the poller below it for as long as it
  is on darkfid's chain.
- Limbs fetched on both sides of a reorg do not fit together; nothing in a reply
  says which window it is of. A genesis backfill does not drop PIR windows.
- `get_tip` can return the height of one tip and the hash of the next; a subscriber
  is corrected by the next notice, other callers ask again.
- A checkpoint's block hash may be that of another fork than its tree.
- When a subscriber's buffer is full the last tip may be the one that is dropped,
  and a tip whose row is gone is not sent.
- A sparse list compares neighbouring heights only.
- The attest secret is drawn without a compare-and-swap.
- `server.rs` 1545 says that a reservation is held until the buffered keys are
  done: a cancelled handler gives it back while its worker still has them. In the
  same way a cancelled `FetchPirBatch` gives back its address's slot while its
  worker has the permit.
- An upload that declares more keys than the byte budget has room for (more than
  three, with the default sizes) is always refused.
- A slow handler may replace facts of a newer tip by those of its own; they are
  not used for the newer tip.

## 4. What is proved

`ChainPollerProofs` holds the theorems about the specification, `CacheProofs`
the lemmas about the tree of blocks and the cache's operations. They hold for every fork tree that satisfies `ForkTreeAssumption` and
`LinkAssumption`, every snapshot interval, batch size, `MAX_WALK`, reorg depth,
and with or without resyncs.

- `TypeCorrect` (`TypeOK`) and `CachedChainLinked` (`Linked`), with any pruning
  window. `Linked` is not inductive: inserting at a height could meet a row
  above it. `Inv` adds where rows can be (`Located`: a row holds a block of its
  height; `TipBound`: none above the tip) and what the poller remembers between
  two RPCs (`Control`: a fetch is at genesis, or exactly one above the tip; a
  walk never starts above the tip). Two genesis blocks cannot exist, which is
  why the genesis backfill below existing rows is safe.
- With `NeverPrunes` (the retention window is 0, or not shorter than the chain;
  with the default configuration: up to height 100 000): `TipIsTopUnpruned`,
  `NoHolesUnpruned`, `TipTreeUnpruned`, `SnapshotsUnpruned`,
  `SnapshotsKeptUnpruned` and `ImplementsCachedChain` (the refinement). The invariant is `Exact(db)`: the
  store is empty, or the rows, coins, tip tree and snapshots of one chain. Its
  core is `RebuildLine`: replaying coins onto the greatest snapshot counts each
  coin once, because a block's height is its row and the seed's tree ends where
  the replay starts (`ReplayLine`, `LineAncestors`).

The findings show that these do not hold of a server that prunes: the
assumption is needed, not a convenience.

`TipNeverFallsUnpruned` (`TipNeverFalls`) is about the specification with the
history variable `peak`. `Exact` says nothing of what the poller was told before;
`ForkInv` adds that while darkfid has stayed on one fork, what it shows now, the
tip the poller probes with and the cache's tip are all ancestors of the highest
block it showed (`OneFork`), so that a probe never takes a resync for a reorg and
no walk begins.

`CacheWritesProofs` takes the cache apart into row writes. Its theorems are about
`CacheSpec` and `TipSpec`, which are the behaviours of the runs without their bounds:
any number of crashes, any retention, every order of inserts, rewinds and prunes,
and a disk that an older version left.

- `EveryPrefixFine`: every disk that a crash or a reader may meet is in order.
  An invariant of the store between operations is of no use here; `CacheInv` says
  of the list that is being written that each of its prefixes, played on the disk,
  leaves a disk in order (`AllFine`), so a write only shortens the list and a crash
  only drops it. `DiskOK` is what the next operation needs: rows of one layout,
  linked, each at its height, none above the tip. `BoundedByTip` is why a crash in
  the middle of a rewind is harmless: rows go from the top, the tip row last.
  `RowsStayLinked` (`LinkedOnDisk`) and `OldRowsNeverServed` (`NoOldRows`) follow.
- `SecretsKept` (`SecretsSurvive`), an action property. `SecretsInv` again speaks of
  all the prefixes of the list: a secret is under one of its two names in each.
- `RowsMakeOperation` (`WritesMakeOperation`): the lists of row writes and the
  operators of `Cache`, two translations of the same functions, agree, so what is
  proved of the one holds of the other. A store is compared row by row: what `Play`
  leaves in a row is the last write that hits it, or what was there (`LastWrite`).
- `SubscriberKnowsTip` (`SubscriberCaughtUp`). `TipInv` says what the task may have
  read at each of its steps, and that once a notice is out only writes of a prune
  are left to come: the announcement is the last thing an insert does.

`ReaderProofs` is about the readers beside the poller's writes. Its specifications,
`TreeReadsSpec` and `StreamReadsSpec`, are the cache with one request, without the
bounds of the run and with a restart at any moment.

- `SnapshotsAreTrees` (`CheckpointTrees`). `SnapInv` says of the running list of
  writes that it leads to the store of one chain (`Exact`, by `RowsMakeOperation` and
  the lemmas of `CacheProofs`) and that every snapshot that is there, or that the
  list still writes, is the tree of some chain (`TrueSnaps`, `TrueList`): a rewind
  writes trees of the rows that stay, a rebuild replays onto rows already cut. A new
  disk, and an upgraded one, begin as the empty store (`StartEmpty`). `AnswerInv`
  carries this from the read of the row to the answer. The assumption is the
  property's own, `Undamaged`.
- `StreamsDeliver` (`StreamDeliversChain`), with crashes and pruning. First
  `StreamsReadOneChain` (`OneChain`, its part about blocks): `StreamInv` says that row i
  has the height it was read for and continues row i - 1; that a row of the disk is
  a block of its height comes from `CacheInv`. What was read is then a piece of the
  chain of its last block (`ChainPiece`), and neighbours of a sparse list are compared
  at the end. The part about items (`EachItemOnce`) speaks of any such piece
  (`DeliveredItems`), with no more induction: a flattened list has exactly the items
  of its lists (`ConcatItems`), and has them once when each has its own place below
  its list (`Placed`, `PlacedOnce`), so an item sent is followed through function,
  transaction and block back to one call of one raw transaction, and from such a call
  to the item. That two calls of a chain cannot owe one item is what the contracts
  enforce (`ChainAssumption`: no coin, no nullifier and no transaction twice on a chain; every
  transaction pays a fee with a nullifier, or is its block's reward with its own
  coin). It is not claimed of records that do not name their call: two DAO calls of
  one function in one transaction are one record sent twice (`TellsApart`). The rows of
  a sparse list may be of two forks, so there it is claimed of each block.

`WindowProofs` is about the digests, the PIR calls and the windows kept for them
(`WindowReadsSpec`: the cache with one call, any retention, any number of crashes,
any ranges, cap, contents and payloads). Two invariants serve both theorems.
`ContentInv` is about what rows hold: a row of the cache holds one of the contents of
its block, what a window read is a content of the block it read there, and a window
that is `intact` has what the cache has now: the write that would change a row ends
that. `WindowInv` is about blocks: a window that was filed in calm is true of the
hash it is filed under, for ever (`FiledInv`, `RowsTrue`: its rows are of the chain
below the hash, and none is missing but what pruning took), and what a call has read
while the poller wrote nothing is what the cache has (`CalmInv`). It rests on `EndInv`: the list of writes
that runs leads to a cache whose rows, with holes where pruning was, are of one
chain that ends at the tip, and whose hash rows are those of its block rows
(`WholeCache`). `Exact` would be too much, as these theorems allow pruning. That
a window found under a hash may be used is then `FoundRows`: the block the hash
names is in the cache, and one chain has one block at a height.

- `WindowsReassemble` (`PirReassembles`). The part about round 2 is pure
  (`Round2Whole`): whatever the degree, the number of limbs and the payloads, the
  slot of an index is in the stripe that is asked (`SlotOfIndex`), rounding up never
  leaves too few limbs (`PadEnough`), and enough limbs are the payload (`Decoded`).
- `DigestsLoseNothing` (`DigestLosesNoClue`). It says what is true of a kept window,
  whose clues may be fewer than those its rows have come back with (finding 6): all
  that were read, and all there are now if no row was written since. As many slots
  name a height as clues were read of its row (`SlotCounts`). `CapCounts` is the step that matters: for any list of
  slots, sorted or not, every height not above one that the cap leaves keeps all its
  slots, so a wallet that goes on above the highest one leaves nothing behind.

`ClueHintsProofs` is about the clue hints, for any number of transactions, peers,
handlers, clues and outputs, any life of a hint, and any number of calls:

- `TypeCorrectHints` (`TypeOK`), from `Inv`: a handler that parks a clue has one to
  park, and the scan belongs to a handler that waits for it.
- `BindsStayBounded` (`BindsBounded`): the eviction always makes room.
- `RegisteredBySender` (`RegisterFromSender`), with re-sent transactions and
  overlapping calls. `SenderInv` adds that a binding is of a peer whose transaction
  darkfid accepted at the binding's time (`BindsKnown`).
- `FirstWriterWinsAlone` (`FirstWriterWins`) when `OneCallPerTx`: with re-sent
  transactions, scans by other handlers, refusals and merges at any point. The
  invariant `Good` says that no two handlers are about one transaction, and that
  a row a handler has read and will write back is still there or is gone: the
  others only remove rows. The race of finding 4 shows the assumption is needed.
- `RefusalLeavesNothing` (`RejectedParksNothing`) when a transaction is also sent
  once. `OnceInv` says that until a call has parked its clue, the row has no clue
  of another call and nobody removes it later (`ParkedInv`). Finding 3 shows that
  sending once is needed.
- `AcceptedClueStays` (`AcceptedClueKept`) under the same two conditions. `KeptInv`
  follows a clue from the request: what a call was asked is what it has left to
  park (`AskedInv`), and from the write of its stamp until it is a day old it is in
  its row, stamped, and nobody is about to remove it (`Safe`); for a clue whose client
  was told, this goes on when the call has ended (`ToldInv`).
- `SentCluesReachBlocks` (`SentCluesIndexed`) if besides each clue is for one real output
  (`OneClueEach`: two clues for one output cannot both be on it; the run's clients
  satisfy it). `CarryInv` adds to `KeptInv` what a call has parked of its request:
  before the broadcast, its first clues and no other (`InHand`), as only clues that
  were sent or registered are ever parked (`KnownInv`) and nothing is merged that
  darkfid has not taken (`MergeKnown`); after it, all of them, and from the poller's
  read on they are in what it will write or in the block (`Carried`). The step that
  matters is the poller's read of the row, which has to find them all.

`AdmissionProofs` and `ServiceProofs` are about the parts of the service, for any
number of handlers and addresses; `AdmissionProofs` begins with the lemmas about
sums and counts it needs.

- `TwoLimitsAtMost` (`AtMostTwoLimits`), for any limit and window. `LimiterInv` says
  of an address's entry that the credits since it began are those it counts, and
  that in no stretch before it there were more than one limit (`Behaves`); a stretch
  of a window's length meets at most one beginning.
- `PermitsAccountedFor` (`PermitsConserved`): it is inductive once the states of the
  acceptor are known (`ConnectionsInv`).
- `NothingLost` (`Conserved`) and `HandlesKept` (`PoolExact`). `HandlersInv` gives what
  each call holds by its step, each running worker one permit, and ties the pool's
  bytes to the sum over its entries; each step changes the holdings of one call,
  so the sums change by what it takes or gives back.
- `FactsNeverOlder` (`FactsNotOlder`). `FactsInv` adds that a handler's tip is one
  darkfid has had, that an RPC started at or after it, and that the facts kept for
  a tip are not older than it.
- `DirectoryNeverGoesBack` (`LookupsNeverGoBack`) when registrations come one after
  another (`OneRegistration`). `DirectoryInv` adds that a registration about to be
  written is still not superseded, and that whatever was told of a payee is a
  decoy, its row, or one with a lower version. Without the assumption the check is
  stale when the row is written.
- `PaddedAndServed` (`PaddedRangeServed`), for every tip, wish and lag, short chains
  included: which ranges are refused is part of the statement. The state is small
  (`WishInv`: the wallet knows a tip the server had); the argument is about powers of
  two: a span that was made for a wish is the bucket the server's rule finds again
  for the range (`SpanOfBucket`).

The assumptions are those of the modules, which every run evaluates on its own
constants: sizes and limits are naturals (`PollerAssumption`, `LimiterAssumption`,
`ConnectionsAssumption`, `PoolAssumption`, `AdmissionAssumption`,
`RetentionAssumption`, `MaxTipAssumption`, `IntervalAssumption`, `PirAssumption`), ranges
are of heights and every block has contents, of clues and of bytes
(`WindowAssumption`), markers such as
`None` and `OldRow` are not values (`OldDiskAssumption`, `TipAssumption`,
`NotKnownAssumption`, `NothingAssumption`, `ClueHintsAssumption`), blocks form a tree
(`ForkTreeAssumption`, `LinkAssumption`), which blocks have coins is a property of the
block (`CoinBlocksAssumption`), raw blocks are lists of transactions whose calls have
the parameters of their function (`RawTxsAssumption`) and what the contracts hold a chain to
(`ChainAssumption`), a request has a clue (`RequestAssumption`), and the
constants of the padding are powers of two in order (`BucketAssumption`).
`PowerAssumption` states arithmetic, that powers of two up to 2^30 are positive and
bounded, because the provers do not know exponentiation; TLC computes it.

Inductions over heights and over finite sets are by a least counterexample
(`LeastNat`, from the well-foundedness of the naturals), since the library's
induction theorems take operators.

Only model-checked:

- Liveness (`Converges`, `AnnouncesTip`, `AllGivenBack`, `WaitingClientAccepted`): it
  needs fairness and ENABLED.
- What recursive definitions of the library compute for every input is proved only
  as far as the theorems above need it: `FlattenSeq` by induction over its runs.

## 5. Not modelled

- Homomorphic encryption (`unifomr.rs`, `omr_detector.rs`, `pir_server.rs`): noise,
  keys and evaluation are arithmetic on ciphertexts. `PirBatch` takes a ciphertext
  for the vector it encrypts.
- Signatures, ownership proofs and the byte layouts (`clue_ownership.rs`,
  `omr_envelope.rs`, the values of rows): requests are those whose proof holds and
  whose bytes decode; one flag stands for a call that does not decode.
- Parsing of options and wiring (`config.rs`, most of `main.rs`), TLS, protocol
  buffers, and the tools under `bin/`: no state of their own.
- Failures of sled calls other than a crash. The code returns them as errors with `?`
  and leaves the rows written so far, which is a prefix, as after a crash; but the
  process goes on, and its in-memory tree may be ahead. This is the part that is
  most worth adding.
- Metadata that is stored after its block was indexed (`cache.rs` 834) is modelled
  without a property, and a scan that has collected a key of a transaction that
  is sent again (`cache.rs` 755) is outside the bounds of `clue_hints`; see the
  notes in `PROJECT.json`.
- Readers beside pruning are checked one kind at a time; several handlers share
  nothing but the window caches, whose two concurrent scans of one window are not
  modelled.
