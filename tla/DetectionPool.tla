---------------------------- MODULE DetectionPool ----------------------------
(***************************************************************************)
(* The pool of registered detection keys (src/src/detection_pool.rs), as   *)
(* operators over a pool: its entries by handle, the bytes it counts and   *)
(* the time of its last full sweep.  A key list is the sequence of the     *)
(* lengths of its keys.  Handles are drawn at random from 2 ^ 256; here    *)
(* each insert has a number of its own.                                    *)
(***************************************************************************)
EXTENDS Integers, SequencesExt, FiniteSetsExt

CONSTANTS
    MaxHandles,      \* MAX_DETECTION_KEY_HANDLES
    MaxPoolBytes,    \* MAX_DETECTION_POOL_BYTES
    Ttl,             \* DETECTION_KEY_TTL_SECS
    SweepInterval    \* SWEEP_INTERVAL

ASSUME PoolAssumption == MaxHandles \in Nat /\ MaxPoolBytes \in Nat /\ Ttl \in Nat

EmptyPool == [entries |-> <<>>, total |-> 0, swept |-> 0]

SumLengths(keys) == SumFunction(keys)       \* retained_bytes
RetainedIn(entries) == SumFunction([h \in DOMAIN entries |-> SumLengths(entries[h].keys)])

Without(pool, dead) ==
    [pool EXCEPT !.entries = [h \in DOMAIN @ \ dead |-> @[h]],
                 !.total   = @ - RetainedIn([h \in dead |-> pool.entries[h]])]

LiveAt(entry, t) == entry.expires > t

Sweep_AtOnce(pool, t) ==
    [Without(pool, {h \in DOMAIN pool.entries : ~LiveAt(pool.entries[h], t + 1)})
        EXCEPT !.swept = t]

\* sweep_expired.
Sweep(pool, t) ==
    [Without(pool, {h \in DOMAIN pool.entries : ~LiveAt(pool.entries[h], t)})
        EXCEPT !.swept = t]

\* insert: whether the swept pool takes the keys, and what it is then.
Takes(pool, keys, maxKey, t) ==
    LET p == Sweep(pool, t)
    IN  /\ keys # <<>> /\ \A i \in DOMAIN keys : keys[i] # 0
        /\ SumLengths(keys) <= maxKey
        /\ Cardinality(DOMAIN p.entries) < MaxHandles
        /\ p.total + SumLengths(keys) <= MaxPoolBytes

InsertKeys(pool, handle, keys, maxKey, t) ==
    LET p == Sweep(pool, t)
    IN  IF Takes(pool, keys, maxKey, t)
        THEN [p EXCEPT !.entries = [h \in DOMAIN @ \cup {handle} |->
                            IF h = handle THEN [keys |-> keys, expires |-> t + Ttl] ELSE @[h]],
                       !.total = @ + SumLengths(keys)]
        ELSE p

\* lookup: the pool after it, and whether the handle is served.
AfterLookup(pool, handle, t) ==
    LET p == IF t - pool.swept >= SweepInterval THEN Sweep(pool, t) ELSE pool
    IN  IF handle \in DOMAIN p.entries /\ ~LiveAt(p.entries[handle], t)
        THEN Without(p, {handle}) ELSE p

Served(pool, handle, t) == handle \in DOMAIN AfterLookup(pool, handle, t).entries
=============================================================================
