------------------------------- MODULE MCReaders -------------------------------
(***************************************************************************)
(* The readers of the cache beside the poller's writes, for TLC.  One kind *)
(* of reader runs in a behaviour, chosen at its start, beside blocks up to *)
(* TopOf; without a reader the cache alone is checked with all of them.    *)
(* The fork tree has a chain a0 to a3 and a fork b1 to b3 above a0; b1 and *)
(* a3 have no coins, b2 repeats a transaction of a1, and c3, above b2, is  *)
(* refused by the block processor.  Beside a digest or a PIR call a1 may   *)
(* be inserted with what was parked by then or with more (MCContents).     *)
(* Pruning is left to the tree requests, the digests and the cache alone.  *)
(***************************************************************************)
EXTENDS RangeStreams, TreeReads, TipSubscription, WindowCaches

CONSTANT Readers   \* the kinds of readers of this instance

MCParent == [a1 |-> "a0", a2 |-> "a1", a3 |-> "a2",
             b1 |-> "a0", b2 |-> "b1", b3 |-> "b2", c3 |-> "b2"]

MCGenesis == "a0"
MCHash == DOMAIN MCParent \cup {MCGenesis}
MCPrev == [b \in MCHash |-> IF b = MCGenesis THEN None ELSE MCParent[b]]

MCAncestors[b \in MCHash] ==
    {b} \cup (IF b = MCGenesis THEN {} ELSE MCAncestors[MCPrev[b]])

MCHeightOf == [b \in MCHash |-> Cardinality(MCAncestors[b]) - 1]
MCMaxHeight == 3

\* Transactions: a transfer that pays a fee, with an output that is spent in the
\* same transaction; a transaction of auth-token and DAO calls only; a reward.
Call(contract, func, ok, nullifiers, outputs) ==
    [contract |-> contract, func |-> func, ok |-> ok,
     nullifiers |-> nullifiers, outputs |-> outputs]

Transfer(b) ==
    [hash |-> <<b, "transfer">>,
     calls |-> << Call("money", "FeeV1", TRUE, << <<b, "n0">> >>,
                       << [coin |-> <<b, 0>>, local |-> FALSE] >>),
                  Call("dao", "Vote", FALSE, <<>>, <<>>),
                  Call("money", "TransferV1", TRUE, << <<b, "n1">>, <<b, "n2">> >>,
                       << [coin |-> <<b, 1>>, local |-> FALSE],
                          [coin |-> <<b, 2>>, local |-> TRUE] >>) >>]
Governance(b) ==
    [hash |-> <<b, "governance">>,
     calls |-> << Call("money", "AuthTokenMintV1", TRUE, <<>>, <<>>),
                  Call("dao", "Propose", TRUE, <<>>, <<>>),
                  Call("dao", "Unknown", FALSE, <<>>, <<>>),
                  Call("other", "TransferV1", TRUE, << <<b, "x">> >>, <<>>),
                  Call("money", "Unknown", FALSE, <<>>, <<>>) >>]
Mint(b, ok) ==
    [hash |-> <<b, "mint">>,
     calls |-> << Call("money", "TokenMintV1", ok, <<>>, << [coin |-> <<b, 3>>, local |-> FALSE] >>),
                  Call("money", "BurnV1", TRUE, << <<b, "n3">> >>, <<>>) >>]

MCRawTxs == [ a0 |-> << Mint("a0", TRUE) >>,
              a1 |-> << Governance("a1"), Transfer("a1") >>,
              a2 |-> << Transfer("a2"), Mint("a2", TRUE) >>,
              a3 |-> << Governance("a3") >>,
              b1 |-> << Governance("b1") >>,
              b2 |-> << Transfer("a1"), Mint("b2", TRUE) >>,
              b3 |-> << Transfer("b3") >>,
              c3 |-> << Mint("c3", FALSE) >> ]

MCCoinBlocks == {"a0", "a1", "a2", "b2", "b3", "c3"}

MCOldDisk ==
    [EmptyDisk EXCEPT
        !.blocks = [h \in Heights |-> IF h = 0 THEN OldRow ELSE None],
        !.hashes = [h \in Heights |-> IF h = 0 THEN "a0" ELSE None],
        !.coins  = [h \in Heights |-> IF h = 0 THEN "a0" ELSE None],
        !.snaps  = [h \in Heights |-> IF h = 0 THEN TrueTree("a0") ELSE None],
        !.meta   = [EmptyDisk.meta EXCEPT
                       !.format = 1, !.tip_height = 0, !.tip_hash = "a0",
                       !.merkle_tree = TrueTree("a0"), !.merkle_height = 0,
                       !.attest_v2 = "key", !.pepper_v1 = "pepper"],
        !.pubkeys = [current |-> None, old |-> "pubkeys"]]

MCDigestRanges == {<<0, 1>>}
MCPirRanges    == {<<0, 2>>}

\* The first form of a1 lacks two clues that are parked later.
Row(clues, payload) == [clues |-> clues, payload |-> payload]
LateRow    == Row(3, <<1, 2, 3, 4>>)
MCContents == [ a0 |-> {Row(1, <<7>>)},           a1 |-> {Row(1, <<1, 2, 3>>), LateRow},
                a2 |-> {Row(1, <<0, 1, 255, 0>>)}, a3 |-> {Row(0, <<1>>)},
                b1 |-> {Row(0, <<1, 2, 3, 4, 5, 6, 7>>)}, b2 |-> {Row(2, <<9, 8, 7, 6, 5, 4>>)},
                b3 |-> {Row(0, <<1>>)},           c3 |-> {Row(0, <<1>>)} ]

\* The highest block that is inserted beside a reader.
TopOf(r) == CASE r = "none" -> 3 [] r = "tip" -> 1 [] OTHER -> 2

VARIABLE reader

mcVars == <<cacheVars, stream, answer, subVars, windowVars, reader>>

MCInit ==
    /\ CacheInit /\ SubInit
    /\ stream = NoStream /\ answer = NoAnswer /\ WindowInit
    /\ reader \in Readers
    /\ db = EmptyDisk \/ reader = "none"

Readers4 == <<stream, answer, subVars, windowVars>>

Writer ==
    /\ CacheNext
    /\ crashes' = crashes
    /\ \A i \in DOMAIN todo' :
          (todo'[i].tree = "blocks" /\ todo'[i].val # None) => todo'[i].key <= TopOf(reader)
    /\ reader \in {"stream", "tip", "pir"} => ~pruned'
    /\ Disturb
    /\ (reader \notin {"digest", "pir"} \/ pruned') => LateRow \notin Range(content')
    /\ UNCHANGED <<stream, answer, subVars, reader>>

\* A crash ends every request: the streams and the cache alone are followed
\* beyond it.
Restart ==
    /\ reader \in {"none", "stream"}
    /\ Crash
    /\ stream' = NoStream /\ answer' = NoAnswer /\ SubReset /\ WindowReset
    /\ UNCHANGED reader

MCNext ==
    \/ Writer
    \/ Restart
    \/ reader = "stream"  /\ StreamNext /\ UNCHANGED <<answer, subVars, windowVars, reader>>
    \/ reader = "tree"    /\ TreeNext   /\ UNCHANGED <<stream, subVars, windowVars, reader>>
    \/ reader = "tip"     /\ SubNext    /\ UNCHANGED <<stream, answer, windowVars, reader>>
    \/ reader \in {"digest", "pir"} /\ WindowNext /\ (call'.kind \in {"none", reader})
          /\ UNCHANGED <<stream, answer, subVars, reader>>

MCSpec == MCInit /\ [][MCNext]_mcVars
=============================================================================
