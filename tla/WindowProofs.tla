----------------------------- MODULE WindowProofs -----------------------------
(***************************************************************************)
(* The digests and the PIR windows beside the poller's writes, on a cache  *)
(* that prunes or not: what a wallet makes of an answer is right, whether  *)
(* the window was scanned for it or kept from an earlier fork.             *)
(***************************************************************************)
EXTENDS ReaderProofs, WindowCaches

-----------------------------------------------------------------------------
(* The rows of one chain, with holes where rows were pruned.               *)

\* Genesis is below every block.
LEMMA GenesisBelow == \A b \in Hash : Genesis \in Ancestors[b]
<1> DEFINE Bad == {HeightOf[c] : c \in {c \in Hash : Genesis \notin Ancestors[c]}}
<1> USE ForkTreeAssumption, LinkAssumption DEF Heights
<1>1. SUFFICES ASSUME NEW b \in Hash, Genesis \notin Ancestors[b] PROVE FALSE
    OBVIOUS
<1>2. Bad \subseteq Nat /\ Bad # {}
    <2>1. HeightOf[b] \in Bad
        BY <1>1
    <2>2. Bad \subseteq Nat
        OBVIOUS
    <2> QED BY <2>1, <2>2
<1>3. PICK m \in Bad : \A n \in Bad : m <= n
    <2> HIDE DEF Bad
    <2> QED BY <1>1, <1>2, LeastNat
<1>4. PICK c \in Hash : HeightOf[c] = m /\ Genesis \notin Ancestors[c]
    BY <1>3
<1>5. c # Genesis
    BY <1>4
<1>6. Prev[c] \in Hash /\ HeightOf[c] = HeightOf[Prev[c]] + 1 /\ Ancestors[Prev[c]] \subseteq Ancestors[c]
    BY <1>5
<1>7. HeightOf[Prev[c]] \in Bad
    BY <1>4, <1>6
<1>8. HeightOf[Prev[c]] \in Nat /\ m \in Nat
    BY <1>2, <1>3, <1>7
<1> HIDE DEF Bad
<1> QED
    BY <1>3, <1>4, <1>6, <1>7, <1>8

\* Of two blocks of a chain the lower is below the higher.
LEMMA OneLine ==
    ASSUME NEW b \in Hash, NEW x \in Ancestors[b], NEW y \in Ancestors[b], HeightOf[x] <= HeightOf[y]
    PROVE  x \in Ancestors[y]
<1> DEFINE P(c) == \A d, e \in Ancestors[c] : HeightOf[d] <= HeightOf[e] => d \in Ancestors[e]
           Bad == {HeightOf[c] : c \in {c \in Hash : ~ P(c)}}
<1> USE ForkTreeAssumption, LinkAssumption DEF Heights
<1>1. SUFFICES ASSUME ~ P(b) PROVE FALSE
    OBVIOUS
<1>2. Bad \subseteq Nat /\ Bad # {}
    BY <1>1
<1>3. PICK m \in Bad : \A n \in Bad : m <= n
    <2> HIDE DEF Bad
    <2> QED BY <1>2, LeastNat
<1>4. PICK c \in Hash : HeightOf[c] = m /\ ~ P(c)
    BY <1>3
<1>5. PICK d \in Ancestors[c], e \in Ancestors[c] : HeightOf[d] <= HeightOf[e] /\ d \notin Ancestors[e]
    BY <1>4
<1>6. /\ d \in Hash /\ e \in Hash /\ HeightOf[d] \in Nat /\ HeightOf[e] \in Nat /\ HeightOf[c] \in Nat
      /\ d = c \/ HeightOf[d] < HeightOf[c]
      /\ e = c \/ HeightOf[e] < HeightOf[c]
    <2>1. d \in Hash /\ e \in Hash
        BY <1>5
    <2>2. \A a \in Ancestors[c] : a = c \/ HeightOf[a] < HeightOf[c]
        BY AncestorHeights
    <2> QED BY <1>5, <2>1, <2>2
<1>7. e # c /\ d # c
    <2>1. e # c
        BY <1>5
    <2>2. d # c
        <3> SUFFICES ASSUME d = c PROVE FALSE
            OBVIOUS
        <3> QED BY <1>5, <1>6, <2>1
    <2> QED BY <2>1, <2>2
<1>8. c # Genesis
    BY <1>5, <1>7
<1>9. Prev[c] \in Hash /\ HeightOf[c] = HeightOf[Prev[c]] + 1 /\ Ancestors[c] = {c} \cup Ancestors[Prev[c]]
    BY <1>8
<1>10. d \in Ancestors[Prev[c]] /\ e \in Ancestors[Prev[c]]
    BY <1>5, <1>7, <1>9
<1>11. HeightOf[Prev[c]] \in Bad
    BY <1>5, <1>9, <1>10
<1>12. HeightOf[Prev[c]] \in Nat /\ m \in Nat
    BY <1>2, <1>3, <1>11
<1> HIDE DEF Bad
<1> QED
    BY <1>3, <1>4, <1>9, <1>11, <1>12

\* The rows are blocks of the tip's chain at their heights, and above genesis
\* nothing is missing but at the bottom, where a prune took it, or everything,
\* where a rewind went back to a pruned height.
ChainRows(st) ==
    IF st.tip = NoTip THEN \A k \in Heights : st.blocks[k] = None
    ELSE /\ HeightOf[st.tip.hash] = st.tip.height
         /\ \A k \in Heights : st.blocks[k] # None =>
               k <= st.tip.height /\ st.blocks[k] \in Ancestors[st.tip.hash] /\ HeightOf[st.blocks[k]] = k
         /\ \A j, k \in Heights :
               (0 < j /\ j < k /\ k <= st.tip.height /\ st.blocks[j] # None) => st.blocks[k] # None

\* The block that is inserted is genesis, or continues the tip, or comes where
\* nothing is left but genesis.
Continuing(st, b) ==
    IF st.tip = NoTip \/ st.blocks[0] = None THEN b = Genesis
    ELSE /\ HeightOf[b] = st.tip.height + 1
         /\ Prev[b] = st.tip.hash \/ \A k \in Heights \ {0} : st.blocks[k] = None

\* An insertion leaves the rows of one chain.
LEMMA InsertChain ==
    ASSUME NEW st \in Stores, ChainRows(st), NEW b \in Hash, Continuing(st, b)
    PROVE  InsertBlock(st, b) \in Stores /\ ChainRows(InsertBlock(st, b))
<1> USE ForkTreeAssumption, LinkAssumption
<1>1. PICK r : r = InsertBlock(st, b)
    OBVIOUS
<1>2. PICK h : h = HeightOf[b]
    OBVIOUS
<1>3. /\ r \in Stores /\ r.blocks = [st.blocks EXCEPT ![h] = b]
      /\ r.tip = IF st.tip # NoTip /\ h < st.tip.height THEN st.tip ELSE [height |-> h, hash |-> b]
    BY <1>1, <1>2, InsertShape
<1>4. /\ h \in Heights /\ 0 \in Heights /\ Heights \subseteq Nat
      /\ st.blocks \in [Heights -> Hash \cup {None}]
      /\ st.tip = NoTip \/ (st.tip.height \in Heights /\ st.tip.hash \in Hash)
      /\ b \in Ancestors[b] /\ Genesis \in Ancestors[b] /\ b # None
    BY <1>2, AncestorHeights, GenesisBelow DEF Stores, Rows, Tips, Heights
<1>5. \A k \in Heights : r.blocks[k] = IF k = h THEN b ELSE st.blocks[k]
    BY <1>3, <1>4
<1>6. [height |-> h, hash |-> b] # NoTip
    BY <1>4 DEF NoTip
<1>7. CASE st.tip = NoTip
    <2>1. h = 0 /\ \A k \in Heights : st.blocks[k] = None
        BY <1>2, <1>7 DEF Continuing, ChainRows
    <2>2. r.tip = [height |-> h, hash |-> b]
        BY <1>3, <1>7
    <2>3. \A k \in Heights : r.blocks[k] # None => k = h /\ r.blocks[k] = b
        BY <1>5, <2>1
    <2>4. \A j, k \in Heights :
               (0 < j /\ j < k /\ k <= h /\ r.blocks[j] # None) => r.blocks[k] # None
        BY <1>4, <2>1, <2>3
    <2> QED BY <1>1, <1>2, <1>3, <1>4, <1>6, <2>2, <2>3, <2>4 DEF ChainRows
<1>8. CASE st.tip # NoTip /\ st.blocks[0] = None
    <2>1. b = Genesis /\ h = 0
        BY <1>2, <1>8 DEF Continuing
    <2>2. /\ HeightOf[st.tip.hash] = st.tip.height
          /\ \A k \in Heights : st.blocks[k] # None =>
               k <= st.tip.height /\ st.blocks[k] \in Ancestors[st.tip.hash] /\ HeightOf[st.blocks[k]] = k
          /\ \A j, k \in Heights :
               (0 < j /\ j < k /\ k <= st.tip.height /\ st.blocks[j] # None) => st.blocks[k] # None
        BY <1>8 DEF ChainRows
    <2>3. Genesis \in Ancestors[st.tip.hash]
        BY <1>4, <1>8, GenesisBelow
    <2>4. CASE 0 < st.tip.height
        <3>1. r.tip = st.tip
            BY <1>3, <1>8, <2>1, <2>4
        <3>2. ASSUME NEW k \in Heights, r.blocks[k] # None
              PROVE  /\ k <= st.tip.height /\ r.blocks[k] \in Ancestors[st.tip.hash]
                     /\ HeightOf[r.blocks[k]] = k
            <4>1. CASE k = h
                <5>1. r.blocks[k] = Genesis /\ k = 0
                    BY <1>5, <2>1, <4>1
                <5> QED BY <1>4, <1>8, <2>3, <2>4, <5>1
            <4>2. CASE k # h
                <5>1. r.blocks[k] = st.blocks[k] /\ st.blocks[k] # None
                    BY <1>5, <3>2, <4>2
                <5> QED BY <2>2, <5>1
            <4> QED BY <4>1, <4>2
        <3>3. ASSUME NEW j \in Heights, NEW k \in Heights,
                     0 < j, j < k, k <= st.tip.height, r.blocks[j] # None
              PROVE  r.blocks[k] # None
            <4>1. j # h /\ k # h
                BY <1>4, <2>1, <3>3
            <4> QED BY <1>5, <2>2, <3>3, <4>1
        <3> QED BY <1>1, <1>3, <1>8, <2>2, <3>1, <3>2, <3>3 DEF ChainRows
    <2>5. CASE ~ (0 < st.tip.height)
        <3>1. r.tip = [height |-> h, hash |-> b]
            BY <1>3, <2>1, <2>5
        <3>2. \A k \in Heights : k # 0 => st.blocks[k] = None
            BY <1>4, <1>8, <2>2, <2>5
        <3> QED BY <1>1, <1>2, <1>3, <1>4, <1>5, <1>6, <2>1, <3>1, <3>2 DEF ChainRows
    <2> QED BY <2>4, <2>5
<1>9. CASE st.tip # NoTip /\ st.blocks[0] # None
    <2>1. /\ HeightOf[st.tip.hash] = st.tip.height
          /\ \A k \in Heights : st.blocks[k] # None =>
               k <= st.tip.height /\ st.blocks[k] \in Ancestors[st.tip.hash] /\ HeightOf[st.blocks[k]] = k
          /\ \A j, k \in Heights :
               (0 < j /\ j < k /\ k <= st.tip.height /\ st.blocks[j] # None) => st.blocks[k] # None
        BY <1>9 DEF ChainRows
    <2>2. h = st.tip.height + 1 /\ (Prev[b] = st.tip.hash \/ \A k \in Heights \ {0} : st.blocks[k] = None)
        BY <1>2, <1>9 DEF Continuing
    <2>3. r.tip = [height |-> h, hash |-> b] /\ st.tip.height \in Nat
        BY <1>3, <1>4, <1>9, <2>2
    <2>4. st.blocks[h] = None /\ h # 0 /\ b # Genesis
        <3>1. h \in Nat /\ ~ (h <= st.tip.height) /\ h # 0
            BY <2>2, <2>3
        <3>2. st.blocks[h] = None
            BY <1>4, <2>1, <3>1
        <3>3. b # Genesis
            BY <1>2, <3>1
        <3> QED BY <3>1, <3>2, <3>3
    <2>5. ASSUME NEW k \in Heights, r.blocks[k] # None
          PROVE  k <= h /\ r.blocks[k] \in Ancestors[b] /\ HeightOf[r.blocks[k]] = k
        <3>1. CASE k = h
            BY <1>2, <1>4, <1>5, <3>1
        <3>2. CASE k # h
            <4>1. /\ r.blocks[k] = st.blocks[k] /\ k <= st.tip.height
                  /\ st.blocks[k] \in Ancestors[st.tip.hash] /\ HeightOf[st.blocks[k]] = k
                BY <1>5, <2>1, <2>5, <3>2
            <4>2. CASE Prev[b] = st.tip.hash
                <5>1. Ancestors[st.tip.hash] \subseteq Ancestors[b]
                    BY <2>4, <4>2
                <5> QED BY <1>4, <2>2, <2>3, <4>1, <5>1
            <4>3. CASE \A i \in Heights \ {0} : st.blocks[i] = None
                <5>1. k = 0
                    BY <1>5, <2>5, <3>2, <4>3
                <5>2. st.blocks[k] = Genesis
                    BY <1>4, <2>5, <4>1, <5>1
                <5> QED BY <1>4, <4>1, <5>1, <5>2
            <4> QED BY <2>2, <4>2, <4>3
        <3> QED BY <3>1, <3>2
    <2>6. ASSUME NEW j \in Heights, NEW k \in Heights, 0 < j, j < k, k <= h, r.blocks[j] # None
          PROVE  r.blocks[k] # None
        <3>1. CASE k = h
            BY <1>4, <1>5, <3>1
        <3>2. CASE k # h
            <4>1. k <= st.tip.height /\ j # h
                BY <1>4, <2>2, <2>3, <2>6, <3>2, SMTT(30)
            <4> QED BY <1>5, <2>1, <2>6, <3>2, <4>1
        <3> QED BY <3>1, <3>2
    <2> QED BY <1>1, <1>2, <1>3, <1>6, <2>3, <2>5, <2>6 DEF ChainRows
<1> QED
    BY <1>7, <1>8, <1>9

\* A rewind leaves the rows of one chain.
LEMMA RewindChain ==
    ASSUME NEW st \in Stores, ChainRows(st), st.tip # NoTip, NEW h \in Heights, h <= st.tip.height
    PROVE  Rewind(st, h) \in Stores /\ ChainRows(Rewind(st, h))
<1> USE ForkTreeAssumption, LinkAssumption
<1>1. PICK r : r = Rewind(st, h)
    OBVIOUS
<1>2. /\ r \in Stores /\ r.blocks = [k \in Heights |-> IF k > h THEN None ELSE st.blocks[k]]
      /\ r.tip = IF st.blocks[h] # None THEN [height |-> h, hash |-> st.blocks[h]]
                 ELSE IF h = 0 THEN NoTip ELSE st.tip
    BY <1>1, RewindShape
<1>3. /\ 0 \in Heights /\ Heights \subseteq Nat
      /\ st.blocks \in [Heights -> Hash \cup {None}]
      /\ st.tip.height \in Heights /\ st.tip.hash \in Hash /\ None \notin Hash /\ h # None
    BY DEF Stores, Rows, Tips, Heights
<1>4. /\ HeightOf[st.tip.hash] = st.tip.height
      /\ \A k \in Heights : st.blocks[k] # None =>
           k <= st.tip.height /\ st.blocks[k] \in Ancestors[st.tip.hash] /\ HeightOf[st.blocks[k]] = k
      /\ \A j, k \in Heights :
           (0 < j /\ j < k /\ k <= st.tip.height /\ st.blocks[j] # None) => st.blocks[k] # None
    BY DEF ChainRows
<1>5. \A k \in Heights : r.blocks[k] = IF k > h THEN None ELSE st.blocks[k]
    BY <1>2
<1>6. CASE st.blocks[h] # None
    <2>1. PICK b : b = st.blocks[h]
        OBVIOUS
    <2>2. r.tip = [height |-> h, hash |-> b] /\ r.tip # NoTip
        BY <1>2, <1>3, <1>6, <2>1 DEF NoTip
    <2>3. b \in Ancestors[st.tip.hash] /\ HeightOf[b] = h
        BY <1>4, <1>6, <2>1
    <2>4. ASSUME NEW k \in Heights, r.blocks[k] # None
          PROVE  k <= h /\ r.blocks[k] \in Ancestors[b] /\ HeightOf[r.blocks[k]] = k
        <3>1. /\ ~ (k > h) /\ r.blocks[k] = st.blocks[k] /\ st.blocks[k] \in Ancestors[st.tip.hash]
              /\ HeightOf[st.blocks[k]] = k
            BY <1>4, <1>5, <2>4
        <3>2. k <= h
            BY <1>3, <3>1
        <3>3. st.blocks[k] \in Ancestors[b]
            BY <1>3, <2>3, <3>1, <3>2, OneLine
        <3> QED BY <3>1, <3>2, <3>3
    <2>5. ASSUME NEW j \in Heights, NEW k \in Heights, 0 < j, j < k, k <= h, r.blocks[j] # None
          PROVE  r.blocks[k] # None
        <3>1. r.blocks[k] = st.blocks[k] /\ r.blocks[j] = st.blocks[j] /\ k <= st.tip.height
            BY <1>3, <1>5, <2>5
        <3> QED BY <1>4, <2>5, <3>1
    <2> QED BY <1>1, <1>2, <2>2, <2>3, <2>4, <2>5 DEF ChainRows
<1>7. CASE st.blocks[h] = None /\ h = 0
    <2>1. r.tip = NoTip /\ \A k \in Heights : r.blocks[k] = None
        BY <1>2, <1>3, <1>5, <1>7
    <2> QED BY <1>1, <1>2, <2>1 DEF ChainRows
<1>8. CASE st.blocks[h] = None /\ h # 0
    <2>1. r.tip = st.tip
        BY <1>2, <1>8
    <2>2. ASSUME NEW j \in Heights, 0 < j PROVE r.blocks[j] = None
        <3>1. CASE j > h
            BY <1>5, <3>1
        <3>2. CASE j = h
            BY <1>3, <1>5, <1>8, <3>2
        <3>3. CASE j < h
            BY <1>3, <1>4, <1>5, <1>8, <2>2, <3>3
        <3> QED BY <1>3, <3>1, <3>2, <3>3
    <2> QED BY <1>1, <1>2, <1>3, <1>4, <1>5, <2>1, <2>2 DEF ChainRows
<1> QED
    BY <1>6, <1>7, <1>8

\* Pruning takes rows away and no more.
LEMMA PruneChain ==
    ASSUME NEW st \in Stores, ChainRows(st), NEW window \in Nat
    PROVE  Prune(st, window) \in Stores /\ ChainRows(Prune(st, window))
<1> USE ForkTreeAssumption
<1>1. PICK r : r = Prune(st, window)
    OBVIOUS
<1>2. r \in Stores /\ r.tip = st.tip
    BY <1>1, PruneShape
<1>3. CASE st.tip = NoTip \/ st.tip.height <= window
    BY <1>1, <1>3 DEF Prune
<1>4. CASE ~ (st.tip = NoTip \/ st.tip.height <= window)
    <2>1. PICK low : low = st.tip.height - window
        OBVIOUS
    <2>2. /\ st.tip.height \in Nat /\ low \in Nat /\ Heights \subseteq Nat /\ st.tip # NoTip
        BY <1>4, <2>1 DEF Stores, Tips, Heights
    <2>3. r = [st EXCEPT !.blocks = DeleteWithBlock(st, st.blocks, {k \in Heights : k < low}),
                         !.coins  = DeleteWithBlock(st, st.coins, {k \in Heights : k < low})]
        BY <1>1, <1>4, <2>1 DEF Prune
    <2>4. r.blocks = DeleteWithBlock(st, st.blocks, {k \in Heights : k < low})
        BY <2>3 DEF Stores
    <2>5. \A k \in Heights : r.blocks[k] = IF k < low THEN None ELSE st.blocks[k]
        BY <2>4 DEF DeleteWithBlock
    <2> HIDE <2>3, <2>4
    <2> QED BY <1>1, <1>2, <2>2, <2>5 DEF ChainRows
<1> QED
    BY <1>3, <1>4
-----------------------------------------------------------------------------
(* A hash row is that of the block beside it, once an operation is whole.  *)

HashesTrue(d) == \A k \in Heights : d.hashes[k] # None => d.hashes[k] = d.blocks[k]

\* Writes that leave the rows of blocks and hashes as they are.
Beside(W) == Within(W, {"coins", "snaps", "live", "meta"}, MetaKeys)

\* Writes that leave the rows, the hashes and the tip alone.
LEMMA BesideTree == ASSUME NEW W, TreeList(W) PROVE Beside(W)
BY DEF TreeList, Within, Beside, MetaKeys

LEMMA BesidePut ==
    ASSUME NEW t \in {"coins", "meta"}, NEW k, NEW v, t = "meta" => k \in TipKeys
    PROVE  Beside(Put(t, k, v)) /\ Beside(Erase(t, k))
BY WithinPut DEF Beside, TipKeys, MetaKeys

LEMMA BesideConcat == ASSUME NEW A, NEW B, Beside(A), Beside(B) PROVE Beside(A \o B)
BY WithinConcat DEF Beside

LEMMA BesideWhen ==
    ASSUME NEW c, NEW W, c => Beside(W)
    PROVE  Beside(When(c, W)) /\ Beside(<<>>)
BY WithinWhen DEF Beside

LEMMA BesideRows ==
    ASSUME NEW d, IsDisk(d), NEW A, IsList(A), NEW B, Beside(B)
    PROVE  \A k \in Heights : /\ Play(d, A \o B).blocks[k] = Play(d, A).blocks[k]
                              /\ Play(d, A \o B).hashes[k] = Play(d, A).hashes[k]
<1> DEFINE e == Play(d, A)
<1>1. IsDisk(e) /\ IsList(B)
    BY PlayDisk DEF Beside, Within
<1>2. Play(d, A \o B) = Play(e, B)
    BY <1>1, PlayConcat
<1> HIDE DEF e
<1>3. ASSUME NEW t \in {"blocks", "hashes"}, NEW k \in Heights
      PROVE  Play(e, B)[t][k] = e[t][k]
    <2>1. t \in Trees7 /\ k \in Keys7(t)
        BY TreesAre
    <2>2. \A j \in 1 .. Len(B) : ~ Hits(B[j], t, k)
        BY DEF Beside, Within, Hits
    <2> QED BY <1>1, <2>1, <2>2, PlayNone
<1>4. \A k \in Heights : /\ Play(e, B)["blocks"][k] = e["blocks"][k]
                         /\ Play(e, B)["hashes"][k] = e["hashes"][k]
    BY <1>3
<1> QED
    BY <1>2, <1>4 DEF e

LEMMA HashesKept ==
    ASSUME NEW d, IsDisk(d), NEW A, IsList(A), HashesTrue(Play(d, A)), NEW B, Beside(B)
    PROVE  HashesTrue(Play(d, A \o B))
BY BesideRows DEF HashesTrue

LEMMA RemovedHashes ==
    ASSUME NEW d, Fine(d, "serving"), HashesTrue(d), NEW S, S \subseteq Heights
    PROVE  IsList(RemoveBlocks(S)) /\ HashesTrue(Play(d, RemoveBlocks(S)))
<1>1. PICK e : e = Play(d, RemoveBlocks(S))
    OBVIOUS
<1>2. AllFine(d, RemoveBlocks(S), "serving")
      /\ \A k \in Heights : /\ e.blocks[k] = IF k \in S THEN None ELSE d.blocks[k]
                            /\ e.hashes[k] = IF k \in S THEN None ELSE d.hashes[k]
    BY <1>1, RemovedRows
<1> QED
    BY <1>1, <1>2 DEF HashesTrue, AllFine

\* An insertion keeps the hash rows those of the block rows.
LEMMA InsertHashes ==
    ASSUME NEW d, Fine(d, "serving"), HashesTrue(d), NEW b \in NextBlocks(d)
    PROVE  HashesTrue(Play(d, InsertWrites(d, b)))
<1> DEFINE h    == HeightOf[b]
           A    == Put("blocks", h, b) \o Put("hashes", h, b)
           C    == When(b \in CoinBlocks, Put("coins", h, b))
           rows == A \o C
           tip  == Put("meta", "tip_height", h) \o Put("meta", "tip_hash", b)
           cut  == RemoveSnapsFrom(d, h)
           tree == RebuildWrites(Play(d, rows \o cut), Tip(d).height)
           app  == AppendWrites(Play(d, rows \o tip), h, b)
           e    == Play(d, A)
           low  == Tip(d) # NoTip /\ h < Tip(d).height
<1>1. InsertWrites(d, b) = rows \o (IF low THEN cut \o tree ELSE tip \o app)
    BY DEF InsertWrites
<1>2. /\ AllFine(d, A, "serving")
      /\ \A k \in Heights : /\ e.blocks[k] = IF k = h THEN b ELSE d.blocks[k]
                            /\ e.hashes[k] = IF k = h THEN b ELSE d.hashes[k]
    BY BlockWritten
<1>3. IsDisk(d) /\ IsList(A) /\ h \in Heights
    BY <1>2, NextBlock DEF Fine, DiskOK, AllFine
<1>4. HashesTrue(e)
    BY <1>2 DEF HashesTrue
<1>5. Beside(C)
    <2>1. Beside(Put("coins", h, b))
        BY BesidePut
    <2> QED BY <2>1, BesideWhen
<1>6. ASSUME low PROVE Beside(cut \o tree)
    <2>1. Tip(d).height \in Heights
        BY <1>6 DEF Tip, NoTip, Fine, DiskOK
    <2>2. Beside(cut) /\ Beside(tree)
        BY <2>1, TreeSnaps, TreeRebuild, BesideTree
    <2> HIDE DEF cut, tree
    <2> QED BY <2>2, BesideConcat
<1>7. Beside(tip \o app)
    <2>1. Beside(Put("meta", "tip_height", h)) /\ Beside(Put("meta", "tip_hash", b))
        BY BesidePut DEF TipKeys
    <2>2. Beside(tip)
        BY <2>1, BesideConcat
    <2>3. Beside(app)
        BY <1>3, TreeAppend, BesideTree
    <2> HIDE DEF tip, app
    <2> QED BY <2>2, <2>3, BesideConcat
<1> DEFINE B == IF low THEN cut \o tree ELSE tip \o app
<1>8. Beside(B)
    <2> HIDE DEF cut, tree, tip, app, low
    <2> QED BY <1>6, <1>7
<1>9. InsertWrites(d, b) = A \o C \o B
    BY <1>1
<1> HIDE DEF A, B, C, e
<1>10. IsList(A \o C) /\ HashesTrue(Play(d, A \o C))
    BY <1>3, <1>4, <1>5, HashesKept, ConcatList DEF e, Beside, Within
<1> QED
    BY <1>3, <1>8, <1>9, <1>10, HashesKept

\* A rewind keeps them so.
LEMMA RewindHashes ==
    ASSUME NEW d, Fine(d, "serving"), HashesTrue(d), NEW h \in Heights
    PROVE  HashesTrue(Play(d, RewindWrites(d, h)))
<1> DEFINE S     == RowsIn(d.blocks, {k \in Heights : k > h})
           gone  == RemoveBlocks(S)
           reset == Erase("meta", "tip_height") \o Erase("meta", "tip_hash")
           set   == Put("meta", "tip_height", h) \o Put("meta", "tip_hash", d.blocks[h])
           tip   == IF d.blocks[h] # None THEN set ELSE When(h = 0, reset)
           rows  == gone \o tip
           cut   == RemoveSnapsFrom(d, h + 1)
           tree  == RebuildWrites(Play(d, rows \o cut), h)
<1>1. RewindWrites(d, h) = gone \o tip \o cut \o tree
    BY DEF RewindWrites
<1>2. S \subseteq Heights
    BY DEF RowsIn
<1>3. IsDisk(d)
    BY DEF Fine, DiskOK
<1>4. IsList(gone) /\ HashesTrue(Play(d, gone))
    <2> HIDE DEF S
    <2> QED BY <1>2, RemovedHashes
<1>5. Beside(cut) /\ Beside(tree)
    BY TreeSnaps, TreeRebuild, BesideTree
<1>6. Beside(tip)
    <2>1. Beside(Put("meta", "tip_height", h)) /\ Beside(Put("meta", "tip_hash", d.blocks[h]))
              /\ Beside(Erase("meta", "tip_height")) /\ Beside(Erase("meta", "tip_hash"))
        BY BesidePut DEF TipKeys
    <2>2. Beside(set) /\ Beside(reset)
        BY <2>1, BesideConcat
    <2> HIDE DEF set, reset
    <2>3. Beside(When(h = 0, reset))
        BY <2>2, BesideWhen
    <2> QED BY <2>2, <2>3
<1> HIDE DEF gone, tip, cut, tree
<1>7. IsList(gone \o tip) /\ HashesTrue(Play(d, gone \o tip))
    BY <1>3, <1>4, <1>6, HashesKept, ConcatList DEF Beside, Within
<1>8. IsList(gone \o tip \o cut) /\ HashesTrue(Play(d, gone \o tip \o cut))
    BY <1>3, <1>5, <1>7, HashesKept, ConcatList DEF Beside, Within
<1>9. HashesTrue(Play(d, gone \o tip \o cut \o tree))
    BY <1>3, <1>5, <1>8, HashesKept
<1> QED
    BY <1>1, <1>9

\* Pruning keeps them so.
LEMMA PruneHashes ==
    ASSUME NEW d, Fine(d, "serving"), HashesTrue(d)
    PROVE  HashesTrue(Play(d, PruneWrites(d)))
<1> DEFINE S == RowsIn(d.blocks, {k \in Heights : k < Tip(d).height - Retention})
<1>1. S \subseteq Heights
    BY DEF RowsIn
<1>2. PruneWrites(d) = When(Tip(d) # NoTip /\ Tip(d).height > Retention, RemoveBlocks(S))
    BY DEF PruneWrites
<1> HIDE DEF S
<1>3. HashesTrue(Play(d, RemoveBlocks(S)))
    BY <1>1, RemovedHashes
<1>4. HashesTrue(Play(d, <<>>))
    BY PlayEmpty DEF Fine, DiskOK
<1> QED
    BY <1>2, <1>3, <1>4 DEF When
-----------------------------------------------------------------------------
(* The cache between two operations.                                        *)

WholeCache(d) ==
    /\ AsStore(d) \in Stores
    /\ ChainRows(AsStore(d))
    /\ HashesTrue(d)

\* The running operation leads to such a cache, before any crash.
EndInv == crashes = 0 => WholeCache(Play(db, todo))

\* The blocks the poller inserts continue the rows.
LEMMA NextContinues ==
    ASSUME NEW d, Fine(d, "serving"), WholeCache(d), NEW b \in NextBlocks(d)
    PROVE  b \in Hash /\ Continuing(AsStore(d), b)
<1> USE ForkTreeAssumption, LinkAssumption
<1>1. PICK st : st = AsStore(d)
    OBVIOUS
<1>2. /\ st.tip = Tip(d) /\ st.blocks = d.blocks /\ st \in Stores /\ ChainRows(st)
      /\ b \in Hash
    BY <1>1, StoreForm DEF NextBlocks, WholeCache
<1>3. CASE st.tip = NoTip \/ st.blocks[0] = None
    BY <1>1, <1>2, <1>3 DEF NextBlocks, Continuing
<1>4. CASE ~ (st.tip = NoTip \/ st.blocks[0] = None)
    <2>1. PICK n : n = st.tip.height
        OBVIOUS
    <2>2. PICK t : t = st.tip.hash
        OBVIOUS
    <2>3. /\ n \in Heights /\ n \in Nat /\ t \in Hash /\ HeightOf[t] = n /\ Heights \subseteq Nat /\ 0 \in Heights
          /\ \A k \in Heights : st.blocks[k] # None =>
               k <= n /\ st.blocks[k] \in Ancestors[t] /\ HeightOf[st.blocks[k]] = k
          /\ \A j, k \in Heights :
               (0 < j /\ j < k /\ k <= n /\ st.blocks[j] # None) => st.blocks[k] # None
        BY <1>2, <1>4, <2>1, <2>2 DEF ChainRows, Stores, Tips, Heights
    <2>4. HeightOf[b] = n + 1 /\ d.hashes[HeightOf[b] - 1] \in {None, Prev[b]}
        BY <1>2, <1>4, <2>1 DEF NextBlocks
    <2>5. b # Genesis /\ d.hashes[n] \in {None, Prev[b]} /\ Prev[b] \in Hash /\ HeightOf[Prev[b]] = n
        <3>1. HeightOf[b] # 0 /\ HeightOf[b] - 1 = n
            BY <2>3, <2>4
        <3>2. b # Genesis
            BY <1>2, <3>1
        <3>3. Prev[b] \in Hash /\ HeightOf[b] = HeightOf[Prev[b]] + 1 /\ HeightOf[Prev[b]] \in Nat
            BY <1>2, <3>2 DEF Heights
        <3> QED BY <2>3, <2>4, <3>1, <3>2, <3>3
    <2>6. Prev[b] = t \/ \A k \in Heights \ {0} : st.blocks[k] = None
        <3>1. CASE n = 0
            <4>1. t = Genesis /\ Prev[b] = Genesis
                BY <2>3, <2>5, <3>1
            <4> QED BY <4>1
        <3>2. CASE n # 0 /\ st.blocks[n] # None
            <4>1. st.blocks[n] = t
                <5>1. st.blocks[n] \in Ancestors[t] /\ HeightOf[st.blocks[n]] = HeightOf[t] /\ t \in Ancestors[t]
                    BY <2>3, <3>2, AncestorHeights
                <5> QED BY <2>3, <5>1, OneBlockPerHeight
            <4>2. ~ Old(d) /\ DiskOK(d)
                BY DEF Fine
            <4>3. n \in Heights \ {0} /\ n <= d.meta.tip_height /\ Tip(d) # NoTip
                BY <1>2, <1>4, <2>1, <2>3, <3>2 DEF Tip, NoTip
            <4>4. d.hashes[n] = d.blocks[n]
                BY <1>2, <2>3, <4>1, <4>2, <4>3 DEF DiskOK, BoundedByTip
            <4> QED BY <1>2, <2>3, <2>5, <4>1, <4>4
        <3>3. CASE n # 0 /\ st.blocks[n] = None
            <4>1. ASSUME NEW k \in Heights \ {0}, st.blocks[k] # None PROVE FALSE
                <5>1. k <= n /\ k # n /\ 0 < k /\ k < n /\ n <= n
                    BY <2>3, <3>3, <4>1
                <5> QED BY <2>3, <3>3, <4>1, <5>1
            <4> QED BY <4>1
        <3> QED BY <3>1, <3>2, <3>3
    <2> QED BY <1>1, <1>2, <1>4, <2>1, <2>2, <2>4, <2>6 DEF Continuing
<1> QED
    BY <1>3, <1>4

\* An empty cache is whole.
LEMMA EmptyWhole ==
    ASSUME NEW d, AsStore(d) = EmptyStore, \A k \in Heights : d.hashes[k] = None
    PROVE  WholeCache(d)
<1>1. EmptyStore \in Stores
    BY EmptyExact DEF Exact
<1>2. EmptyStore.tip = NoTip /\ EmptyStore.blocks = [h \in Heights |-> None]
    BY DEF EmptyStore
<1> HIDE DEF EmptyStore
<1>3. ChainRows(EmptyStore)
    BY <1>2 DEF ChainRows
<1> QED
    BY <1>1, <1>3 DEF WholeCache, HashesTrue

\* So is what the first start leaves.
LEMMA EndStarts ==
    ASSUME CacheInit
    PROVE  EndInv
<1>1. db \in {EmptyDisk, OldDisk} /\ todo = StartWrites(db)
    BY DEF CacheInit
<1>2. IsDisk(db) /\ Fresh(db)
    BY <1>1, FirstFresh, FirstDisks DEF DiskOK
<1>3. WholeCache(Play(db, StartWrites(db)))
    BY <1>2, StartEmpty, EmptyWhole
<1> QED
    BY <1>1, <1>3 DEF EndInv

\* What an operation leads to is whole again, as it is when nothing is left to write.
LEMMA WholeInsert ==
    ASSUME NEW d, Fine(d, "serving"), TreeOK(d), WholeCache(d), NEW b \in NextBlocks(d)
    PROVE  WholeCache(Play(d, InsertWrites(d, b)))
<1>1. b \in Hash /\ Continuing(AsStore(d), b)
    BY NextContinues
<1>2. IsDisk(d) /\ (Tip(d) # NoTip => Tip(d).height \in Heights)
    BY DEF Fine, DiskOK, Tip, NoTip
<1>3. AsStore(Play(d, InsertWrites(d, b))) = InsertBlock(AsStore(d), b)
    BY <1>1, <1>2, InsertPlay
<1>4. PICK st : st = AsStore(d)
    OBVIOUS
<1>5. InsertBlock(st, b) \in Stores /\ ChainRows(InsertBlock(st, b))
    BY <1>1, <1>4, InsertChain DEF WholeCache
<1>6. HashesTrue(Play(d, InsertWrites(d, b)))
    BY InsertHashes DEF WholeCache
<1> QED
    BY <1>3, <1>4, <1>5, <1>6 DEF WholeCache

LEMMA WholeRewind ==
    ASSUME NEW d, Fine(d, "serving"), WholeCache(d), Tip(d) # NoTip, NEW h \in Heights, h <= Tip(d).height
    PROVE  WholeCache(Play(d, RewindWrites(d, h)))
<1>1. IsDisk(d)
    BY DEF Fine, DiskOK
<1>2. AsStore(Play(d, RewindWrites(d, h))) = Rewind(AsStore(d), h)
    BY <1>1, RewindPlay
<1>3. PICK st : st = AsStore(d)
    OBVIOUS
<1>4. st \in Stores /\ ChainRows(st) /\ st.tip = Tip(d)
    BY <1>3, StoreForm DEF WholeCache
<1>5. Rewind(st, h) \in Stores /\ ChainRows(Rewind(st, h))
    BY <1>4, RewindChain
<1>6. HashesTrue(Play(d, RewindWrites(d, h)))
    BY RewindHashes DEF WholeCache
<1> QED
    BY <1>2, <1>3, <1>5, <1>6 DEF WholeCache

LEMMA WholePrune ==
    ASSUME NEW d, Fine(d, "serving"), WholeCache(d)
    PROVE  WholeCache(Play(d, PruneWrites(d)))
<1>1. IsDisk(d) /\ (Tip(d) # NoTip => Tip(d).height \in Heights)
    BY DEF Fine, DiskOK, Tip, NoTip
<1>2. AsStore(Play(d, PruneWrites(d))) = Prune(AsStore(d), Retention)
    BY <1>1, PrunePlay
<1>3. PICK st : st = AsStore(d)
    OBVIOUS
<1>4. Prune(st, Retention) \in Stores /\ ChainRows(Prune(st, Retention))
    BY <1>3, PruneChain, RetentionAssumption DEF WholeCache
<1>5. HashesTrue(Play(d, PruneWrites(d)))
    BY PruneHashes DEF WholeCache
<1> QED
    BY <1>2, <1>3, <1>4, <1>5 DEF WholeCache

\* An idle cache is whole, and fine to read.
LEMMA IdleCache ==
    ASSUME CacheInv, TreeInv, EndInv
    PROVE  /\ Fine(db, mode) /\ TreeOK(db) /\ IsDisk(db) /\ IsList(todo)
           /\ Tip(db) # NoTip => Tip(db).height \in Heights
           /\ (crashes = 0 /\ todo = <<>>) => WholeCache(db)
<1>1. IsDisk(db) /\ IsList(todo) /\ (Tip(db) # NoTip => Tip(db).height \in Heights)
    BY DEF CacheInv, DiskOK, AllFine, Tip, NoTip
<1>2. 0 \in 0 .. Len(todo) /\ Prefix(todo, 0) = <<>>
    BY PrefixNone DEF CacheInv, AllFine
<1>3. Fine(Play(db, Prefix(todo, 0)), mode)
    BY <1>2 DEF CacheInv, AllFine
<1>4. Play(db, <<>>) = db
    BY <1>1, PlayEmpty
<1>5. ASSUME crashes = 0, todo = <<>> PROVE WholeCache(db)
    BY <1>4, <1>5 DEF EndInv
<1> QED
    BY <1>1, <1>2, <1>3, <1>4, <1>5 DEF TreeInv, TypedTree

\* The end the running list leads to stays whole.
LEMMA EndStep ==
    ASSUME CacheInv, TreeInv, SnapInv, EndInv, [CacheNext]_cacheVars
    PROVE  EndInv'
<1>0. /\ Fine(db, mode) /\ TreeOK(db) /\ IsDisk(db) /\ IsList(todo)
      /\ Tip(db) # NoTip => Tip(db).height \in Heights
      /\ (crashes = 0 /\ todo = <<>>) => WholeCache(db)
    BY IdleCache
<1>1. CASE StartInsert
    <2>1. PICK b \in NextBlocks(db) : todo' = InsertWrites(db, b)
        BY <1>1 DEF StartInsert
    <2>2. mode = "serving" /\ todo = <<>> /\ db' = db /\ crashes' = crashes
        BY <1>1 DEF StartInsert, Idle
    <2>3. crashes = 0 => WholeCache(Play(db, InsertWrites(db, b)))
        BY <1>0, <2>2, WholeInsert
    <2> QED BY <2>1, <2>2, <2>3 DEF EndInv
<1>2. CASE StartRewind
    <2>1. PICK h \in 0 .. Tip(db).height : todo' = RewindWrites(db, h)
        BY <1>2 DEF StartRewind
    <2>2. mode = "serving" /\ todo = <<>> /\ db' = db /\ crashes' = crashes /\ Tip(db) # NoTip
        BY <1>2 DEF StartRewind, Idle
    <2>3. h \in Heights /\ h <= Tip(db).height
        BY <1>0, <2>2, ForkTreeAssumption DEF Heights
    <2>4. crashes = 0 => WholeCache(Play(db, RewindWrites(db, h)))
        BY <1>0, <2>2, <2>3, WholeRewind
    <2> QED BY <2>1, <2>2, <2>4 DEF EndInv
<1>3. CASE StartPrune
    <2>1. mode = "serving" /\ todo = <<>> /\ db' = db /\ crashes' = crashes /\ todo' = PruneWrites(db)
        BY <1>3 DEF StartPrune, Idle
    <2>2. crashes = 0 => WholeCache(Play(db, PruneWrites(db)))
        BY <1>0, <2>1, WholePrune
    <2> QED BY <2>1, <2>2 DEF EndInv
<1>4. CASE Write
    <2>1. todo # <<>> /\ db' = Apply(db, Head(todo)) /\ todo' = Tail(todo) /\ crashes' = crashes
        BY <1>4 DEF Write
    <2>2. Play(db', todo') = Play(db, todo)
        BY <1>0, <2>1, PlayTail
    <2> QED BY <2>1, <2>2 DEF EndInv
<1>5. CASE Serve
    BY <1>5 DEF Serve, EndInv
<1>6. CASE Crash
    <2>1. crashes' = crashes + 1 /\ crashes \in Nat
        BY <1>6 DEF Crash, SnapInv
    <2> QED BY <2>1 DEF EndInv
<1>7. CASE UNCHANGED cacheVars
    BY <1>7 DEF cacheVars, EndInv
<1> QED
    BY <1>1, <1>2, <1>3, <1>4, <1>5, <1>6, <1>7 DEF CacheNext
-----------------------------------------------------------------------------
(* What a window holds.                                                     *)

\* The least of a set of numbers, by its definition.
LEMMA MinIn ==
    ASSUME NEW S, S \subseteq Int, NEW low \in S, \A k \in S : low <= k
    PROVE  Min(S) = low
<1>1. PICK m : m = Min(S)
    OBVIOUS
<1>2. m \in S /\ \A y \in S : m <= y
    BY <1>1 DEF Min
<1>3. m <= low /\ low <= m /\ m \in Int /\ low \in Int
    BY <1>2
<1> QED
    BY <1>1, <1>3

\* A list stays one of its elements when one of them is removed.
LEMMA RemoveFirstType ==
    ASSUME NEW S, NEW s \in Seq(S), NEW e
    PROVE  RemoveFirst(s, e) \in Seq(S)
<1> DEFINE I == {i \in 1 .. Len(s) : s[i] = e}
<1>1. CASE I = {}
    <2>1. ~ \E i \in 1 .. Len(s) : s[i] = e
        BY <1>1
    <2> QED BY <2>1 DEF RemoveFirst
<1>2. CASE I # {}
    <2>1. \E i \in 1 .. Len(s) : s[i] = e
        BY <1>2
    <2>2. PICK low \in I : \A k \in I : low <= k
        <3>1. I \subseteq Nat
            OBVIOUS
        <3> HIDE DEF I
        <3> QED BY <1>2, <3>1, LeastNat
    <2>3. I \subseteq Int /\ low \in 1 .. Len(s)
        OBVIOUS
    <2>4. SelectInSeq(s, LAMBDA v : v = e) = IF I # {} THEN Min(I) ELSE 0
        BY DEF SelectInSeq
    <2>5. RemoveFirst(s, e) = RemoveAt(s, SelectInSeq(s, LAMBDA v : v = e))
        BY <2>1 DEF RemoveFirst
    <2> HIDE DEF I
    <2>6. Min(I) = low
        BY <2>2, <2>3, MinIn
    <2>7. RemoveFirst(s, e) = SubSeq(s, 1, low - 1) \o SubSeq(s, low + 1, Len(s))
        BY <1>2, <2>4, <2>5, <2>6 DEF RemoveAt
    <2>8. SubSeq(s, 1, low - 1) \in Seq(S) /\ SubSeq(s, low + 1, Len(s)) \in Seq(S)
        BY <2>3
    <2> HIDE <2>4, <2>5
    <2> QED BY <2>7, <2>8
<1> QED
    BY <1>1, <1>2

\* Filing a window adds nothing but that window.
LEMMA FileKeeps ==
    ASSUME NEW S, windows \in Seq(S), NEW entry \in S
    PROVE  File(entry) \in Seq(S)
<1> DEFINE same(w) == w.kind = entry.kind /\ w.start = entry.start /\ w.last = entry.last
           mine(w) == w.kind = entry.kind
           oldest  == Filter(windows, mine)[1]
           rest    == IF Len(Filter(windows, mine)) < WindowCap THEN windows
                      ELSE RemoveFirst(windows, oldest)
           placed  == [i \in DOMAIN windows |-> IF same(windows[i]) THEN entry ELSE windows[i]]
<1>1. File(entry) = IF \E w \in Range(windows) : same(w) THEN placed ELSE Append(rest, entry)
    BY DEF File
<1>2. placed \in Seq(S)
    <2>1. DOMAIN windows = 1 .. Len(windows) /\ Len(windows) \in Nat /\ \A i \in DOMAIN windows : windows[i] \in S
        OBVIOUS
    <2>2. placed \in [1 .. Len(windows) -> S]
        BY <2>1
    <2> HIDE DEF placed
    <2> QED BY <2>1, <2>2
<1>3. rest \in Seq(S)
    <2> HIDE DEF oldest
    <2>1. RemoveFirst(windows, oldest) \in Seq(S)
        BY RemoveFirstType
    <2> QED BY <2>1
<1> HIDE DEF placed, rest, same
<1>4. Append(rest, entry) \in Seq(S)
    BY <1>3
<1> QED
    BY <1>1, <1>2, <1>4

\* A whole cache, row by row.
LEMMA WholeRows ==
    ASSUME NEW d, WholeCache(d)
    PROVE  /\ Tip(d) # NoTip => /\ Tip(d).height \in Heights /\ Tip(d).hash \in Hash
                                /\ HeightOf[Tip(d).hash] = Tip(d).height
           /\ \A k \in Heights : d.blocks[k] # None =>
                 /\ Tip(d) # NoTip /\ k <= Tip(d).height
                 /\ d.blocks[k] \in Hash /\ HeightOf[d.blocks[k]] = k
                 /\ d.blocks[k] \in Ancestors[Tip(d).hash]
           /\ \A k \in Heights : d.hashes[k] # None => d.hashes[k] = d.blocks[k]
<1>1. PICK st : st = AsStore(d)
    OBVIOUS
<1>2. st.tip = Tip(d) /\ st.blocks = d.blocks /\ st \in Stores /\ ChainRows(st)
    BY <1>1, StoreForm DEF WholeCache
<1> QED
    BY <1>2 DEF ChainRows, Stores, Rows, Tips, WholeCache, HashesTrue

\* The rows are of the chain below the hash, and none is missing from a digest's
\* window or where nothing was pruned.
RowsTrue(kind, start, hash, rows) ==
    /\ kind = "digest" => hash # None
    /\ hash # None =>
          /\ hash \in Hash
          /\ \A i \in 1 .. Len(rows) : rows[i] # None =>
                rows[i] \in Ancestors[hash] /\ HeightOf[rows[i]] = start + i - 1
          /\ (kind = "digest" \/ ~ pruned) => \A i \in 1 .. Len(rows) : rows[i] # None

Spans(w) == w.start \in Heights /\ w.last \in Heights /\ w.start <= w.last

\* Every height from start to last has a hash.
Probed(start, last) == \A k \in Heights : (start <= k /\ k <= last) => db.hashes[k] # None

\* The rows are those the cache has now.
HeldRows(start, rows) == \A i \in 1 .. Len(rows) : rows[i] = db.blocks[start + i - 1]

\* Rows read while the poller wrote nothing are true of their end hash.
LEMMA ScannedRows ==
    ASSUME WholeCache(db), ~ pruned => Exact(AsStore(db)),
           NEW kind \in {"digest", "pir"}, NEW start \in Heights, NEW last \in Heights, start <= last,
           NEW rows, IsList(rows), Len(rows) = last - start + 1, HeldRows(start, rows),
           NEW hash, hash = EndHash(kind, db, last),
           kind = "digest" => Probed(start, last),
           kind = "pir" => Tip(db) # NoTip /\ last <= Tip(db).height
    PROVE  RowsTrue(kind, start, hash, rows)
<1> USE ForkTreeAssumption
<1>1. /\ Heights \subseteq Nat /\ start \in Nat /\ last \in Nat
      /\ \A i \in 1 .. Len(rows) : /\ start + i - 1 \in Heights /\ start <= start + i - 1
                                   /\ start + i - 1 <= last
                                   /\ rows[i] = db.blocks[start + i - 1]
    BY DEF Heights, HeldRows
<1>2. /\ Tip(db) # NoTip => /\ Tip(db).height \in Heights /\ Tip(db).hash \in Hash
                            /\ HeightOf[Tip(db).hash] = Tip(db).height
      /\ \A k \in Heights : db.blocks[k] # None =>
            /\ Tip(db) # NoTip /\ k <= Tip(db).height
            /\ db.blocks[k] \in Hash /\ HeightOf[db.blocks[k]] = k
            /\ db.blocks[k] \in Ancestors[Tip(db).hash]
      /\ \A k \in Heights : db.hashes[k] # None => db.hashes[k] = db.blocks[k]
    BY WholeRows
<1>3. kind = "digest" => hash # None
    BY <1>1 DEF Probed, EndHash
<1>4. ASSUME hash # None
      PROVE  /\ hash \in Hash
             /\ \A i \in 1 .. Len(rows) : rows[i] # None =>
                   rows[i] \in Ancestors[hash] /\ HeightOf[rows[i]] = start + i - 1
    <2>1. CASE db.hashes[last] = None
        <3>1. hash = Tip(db).hash /\ Tip(db) # NoTip
            BY <1>4, <2>1 DEF EndHash, Probed
        <3> QED BY <1>1, <1>2, <3>1
    <2>2. CASE db.hashes[last] # None
        <3>1. hash = db.hashes[last] /\ hash = db.blocks[last]
            BY <1>2, <2>2 DEF EndHash
        <3>2. hash \in Hash /\ HeightOf[hash] = last /\ hash \in Ancestors[Tip(db).hash] /\ Tip(db).hash \in Hash
            BY <1>2, <2>2, <3>1
        <3>3. ASSUME NEW i \in 1 .. Len(rows), rows[i] # None
              PROVE  rows[i] \in Ancestors[hash] /\ HeightOf[rows[i]] = start + i - 1
            <4>1. rows[i] \in Ancestors[Tip(db).hash] /\ HeightOf[rows[i]] = start + i - 1
                BY <1>1, <1>2, <3>3
            <4>2. HeightOf[rows[i]] <= HeightOf[hash]
                BY <1>1, <3>2, <3>3, <4>1
            <4> QED BY <3>2, <4>1, <4>2, OneLine
        <3> QED BY <3>2, <3>3
    <2> QED BY <2>1, <2>2
<1>5. ASSUME kind = "digest" \/ ~ pruned, NEW i \in 1 .. Len(rows)
      PROVE  rows[i] # None
    <2>1. CASE kind = "digest"
        <3>1. db.hashes[start + i - 1] # None
            BY <1>1, <2>1 DEF Probed
        <3> QED BY <1>1, <1>2, <3>1
    <2>2. CASE kind = "pir" /\ ~ pruned
        <3>1. PICK st : st = AsStore(db)
            OBVIOUS
        <3>2. st.tip = Tip(db) /\ st.blocks = db.blocks /\ Exact(st)
            BY <2>2, <3>1, StoreForm
        <3>3. Line(db.blocks, Tip(db).height)
            BY <2>2, <3>2 DEF Exact
        <3>4. start + i - 1 \in 0 .. Tip(db).height
            BY <1>1, <1>2, <2>2
        <3>5. db.blocks[start + i - 1] \in Hash
            BY <3>3, <3>4 DEF Line
        <3> QED BY <1>1, <3>5
    <2> QED BY <1>5, <2>1, <2>2
<1> QED
    BY <1>3, <1>4, <1>5 DEF RowsTrue

\* A digest's window that is found holds what the cache has.
LEMMA FoundRows ==
    ASSUME WholeCache(db), NEW start \in Heights, NEW last \in Heights, start <= last,
           NEW rows, IsList(rows), Len(rows) = last - start + 1,
           Probed(start, last), RowsTrue("digest", start, db.hashes[last], rows)
    PROVE  \A i \in 1 .. Len(rows) : rows[i] = db.blocks[start + i - 1] /\ rows[i] \in Hash
<1> USE ForkTreeAssumption
<1>1. PICK hash : hash = db.hashes[last]
    OBVIOUS
<1>2. /\ Heights \subseteq Nat /\ start \in Nat /\ last \in Nat
      /\ \A i \in 1 .. Len(rows) : /\ start + i - 1 \in Heights /\ start <= start + i - 1
                                   /\ start + i - 1 <= last
    BY DEF Heights
<1>3. \A k \in Heights : db.hashes[k] # None =>
            /\ db.hashes[k] = db.blocks[k] /\ Tip(db).hash \in Hash
            /\ db.blocks[k] \in Hash /\ HeightOf[db.blocks[k]] = k
            /\ db.blocks[k] \in Ancestors[Tip(db).hash]
    BY WholeRows
<1>4. /\ hash # None /\ hash \in Hash /\ HeightOf[hash] = last /\ hash = db.blocks[last]
      /\ hash \in Ancestors[Tip(db).hash] /\ Tip(db).hash \in Hash
    BY <1>1, <1>2, <1>3 DEF Probed
<1>5. \A i \in 1 .. Len(rows) :
          rows[i] # None /\ rows[i] \in Ancestors[hash] /\ HeightOf[rows[i]] = start + i - 1
    BY <1>1, <1>4 DEF RowsTrue
<1>6. ASSUME NEW i \in 1 .. Len(rows)
      PROVE  rows[i] = db.blocks[start + i - 1] /\ rows[i] \in Hash
    <2>1. PICK k \in Heights : k = start + i - 1 /\ start <= k /\ k <= last
        BY <1>2
    <2>2. db.hashes[k] # None
        BY <2>1 DEF Probed
    <2>3. PICK x : x = db.blocks[k]
        OBVIOUS
    <2>4. x \in Hash /\ HeightOf[x] = k /\ x \in Ancestors[Tip(db).hash]
        BY <1>3, <2>2, <2>3
    <2>5. HeightOf[x] <= HeightOf[hash]
        BY <1>4, <2>1, <2>4
    <2>6. x \in Ancestors[hash]
        BY <1>4, <2>4, <2>5, OneLine
    <2>7. rows[i] \in Ancestors[hash] /\ HeightOf[rows[i]] = HeightOf[x]
        BY <1>5, <2>1, <2>4
    <2>8. rows[i] = x
        BY <1>4, <2>6, <2>7, OneBlockPerHeight
    <2> QED BY <2>1, <2>3, <2>4, <2>8
<1> QED
    BY <1>6
-----------------------------------------------------------------------------
(* The calls and the windows, beside the poller's writes.                   *)

\* A crash ends the call and loses the windows.
WindowReadsNext ==
    \/ (StartInsert \/ StartRewind \/ StartPrune \/ Write \/ Serve) /\ Disturb
    \/ Crash /\ WindowReset
    \/ WindowNext

windowReadsVars == <<cacheVars, windowVars>>

WindowReadsSpec ==
    CacheInit /\ WindowInit /\ [][WindowReadsNext]_windowReadsVars

\* The windows that are kept.
IsWindow(w) ==
    w = [kind |-> w.kind, start |-> w.start, last |-> w.last, hash |-> w.hash, rows |-> w.rows,
         contents |-> w.contents, calm |-> w.calm, intact |-> w.intact]

WindowOK(w) ==
    /\ IsWindow(w) /\ Spans(w) /\ IsList(w.rows) /\ Len(w.rows) = w.last - w.start + 1
    /\ (w.calm /\ crashes = 0) => RowsTrue(w.kind, w.start, w.hash, w.rows)

FiledInv == IsList(windows) /\ \A i \in 1 .. Len(windows) : WindowOK(windows[i])

\* How far a call is, and what it must then have.
IsCall(c) ==
    c = [kind |-> c.kind, step |-> c.step, start |-> c.start, end |-> c.end, last |-> c.last,
         at |-> c.at, complete |-> c.complete, hash |-> c.hash, rows |-> c.rows,
         contents |-> c.contents, calm |-> c.calm, sound |-> c.sound, intact |-> c.intact]

Underway(c) ==
    /\ c.kind \in {"digest", "pir"} /\ c.step \in {"probe", "hash", "scan", "done"}
    /\ c.start \in Heights /\ c.end \in Heights /\ c.start <= c.end
    /\ c.complete \in BOOLEAN
    /\ c.step # "done" => Spans(c)
    /\ c.step = "probe" => c.kind = "digest" /\ c.at \in c.start .. c.last
    /\ c.step \in {"probe", "hash"} => c.rows = <<>>
    /\ c.step = "scan" => IsList(c.rows) /\ Len(c.rows) <= c.last - c.start + 1
    /\ c.complete => c.last = c.end
    /\ c.step = "done" => \/ c.rows = <<>> /\ ~ c.complete /\ c.kind = "digest"
                          \/ Spans(c) /\ IsList(c.rows) /\ Len(c.rows) = c.last - c.start + 1

CallInv == IsCall(call) /\ (call # NoCall => Underway(call))

\* What a call has read while the poller wrote nothing is what the cache has.
CalmInv ==
    (call # NoCall /\ call.calm /\ crashes = 0) =>
        /\ todo = <<>>
        /\ call.kind = "pir" => Tip(db) # NoTip /\ call.last <= Tip(db).height
        /\ call.step = "probe" => Probed(call.start, call.at - 1)
        /\ (call.kind = "digest" /\ (call.step \in {"hash", "scan"} \/ call.rows # <<>>)) =>
               Probed(call.start, call.last)
        /\ call.step = "scan" =>
              call.hash = EndHash(call.kind, db, call.last) /\ HeldRows(call.start, call.rows)
        /\ (call.step = "done" /\ call.rows # <<>>) =>
              /\ call.hash = EndHash(call.kind, db, call.last)
              /\ call.sound => RowsTrue(call.kind, call.start, call.hash, call.rows)

WindowInv == FiledInv /\ CallInv /\ CalmInv

\* No window and no call.
LEMMA WindowsStart == ASSUME WindowInit PROVE WindowInv
<1>0. windows = <<>> /\ call = NoCall
    BY DEF WindowInit
<1>1. IsList(<<>>) /\ Len(<<>>) = 0
    BY NoWrite
<1>2. FiledInv
    BY <1>0, <1>1 DEF FiledInv
<1>3. IsCall(NoCall)
    BY DEF IsCall, NoCall
<1> QED
    BY <1>0, <1>2, <1>3 DEF WindowInv, CallInv, CalmInv

\* Windows are right whatever becomes of the cache.
LEMMA FiledStays ==
    ASSUME FiledInv, windows' = windows, crashes' = crashes, pruned => pruned'
    PROVE  FiledInv'
<1>1. ASSUME NEW w, WindowOK(w) PROVE WindowOK(w)'
    BY <1>1 DEF WindowOK, IsWindow, RowsTrue, Spans
<1>2. IsList(windows) /\ \A i \in 1 .. Len(windows) : WindowOK(windows[i])
    BY DEF FiledInv
<1>3. IsList(windows)' /\ Len(windows') = Len(windows)
    BY <1>2
<1>4. ASSUME NEW i \in 1 .. Len(windows') PROVE WindowOK(windows[i])'
    <2>1. WindowOK(windows[i])
        BY <1>2, <1>3
    <2> QED BY <1>1, <2>1
<1> QED
    BY <1>3, <1>4 DEF FiledInv

\* And whatever a write of the poller makes of their history.
LEMMA FiledDisturbed ==
    ASSUME FiledInv, Disturb, crashes' = crashes, pruned => pruned'
    PROVE  FiledInv'
<1>1. CASE windows' = windows
    BY <1>1, FiledStays
<1>2. CASE todo # <<>> /\ Head(todo).tree = "blocks"
    <2>1. PICK h : h = Head(todo).key
        OBVIOUS
    <2>2. windows' = [i \in DOMAIN windows |->
                [windows[i] EXCEPT !.intact = windows[i].intact
                                              /\ h \notin windows[i].start .. windows[i].last]]
        BY <1>2, <2>1 DEF Disturb
    <2>3. PICK n \in Nat : /\ n = Len(windows) /\ DOMAIN windows = 1 .. n
                           /\ \A i \in 1 .. n : WindowOK(windows[i])
        BY ListDomain DEF FiledInv
    <2>4. windows' = [i \in 1 .. n |-> windows'[i]]
        BY <2>2, <2>3
    <2>5. IsList(windows') /\ Len(windows') = n
        BY <2>4, ListOf
    <2>6. ASSUME NEW i \in 1 .. n PROVE WindowOK(windows[i])'
        <3>1. PICK w : w = windows[i]
            OBVIOUS
        <3>2. WindowOK(w)
            BY <2>3, <3>1
        <3>3. PICK q : q = (w.intact /\ h \notin w.start .. w.last)
            OBVIOUS
        <3>4. windows'[i] = [w EXCEPT !.intact = q]
            BY <2>2, <2>3, <3>1, <3>3
        <3>5. PICK x : x = windows'[i]
            OBVIOUS
        <3>6. x = [kind |-> w.kind, start |-> w.start, last |-> w.last, hash |-> w.hash,
                   rows |-> w.rows, contents |-> w.contents, calm |-> w.calm, intact |-> q]
            BY <3>2, <3>4, <3>5 DEF WindowOK, IsWindow
        <3>7. WindowOK(x)'
            BY <3>2, <3>6 DEF WindowOK, IsWindow, RowsTrue, Spans
        <3> QED BY <3>5, <3>7
    <2> QED BY <2>5, <2>6 DEF FiledInv
<1> QED
    BY <1>1, <1>2 DEF Disturb

\* A write of the poller ends the calm of a call.
LEMMA DisturbStep ==
    ASSUME WindowInv, StartInsert \/ StartRewind \/ StartPrune \/ Write \/ Serve, Disturb
    PROVE  WindowInv'
<1>1. crashes' = crashes /\ (pruned => pruned')
    BY DEF StartInsert, StartRewind, StartPrune, Write, Serve
<1>2. call' = [call EXCEPT !.calm = call.calm /\ todo' = <<>>]
    BY DEF Disturb
<1>3. FiledInv'
    BY <1>1, FiledDisturbed DEF WindowInv
<1>4. IsCall(call) /\ (call # NoCall => Underway(call))
    BY DEF WindowInv, CallInv
<1>5. PICK q : q = (call.calm /\ todo' = <<>>)
    OBVIOUS
<1>6. call' = [kind |-> call.kind, step |-> call.step, start |-> call.start, end |-> call.end,
               last |-> call.last, at |-> call.at, complete |-> call.complete, hash |-> call.hash,
               rows |-> call.rows,
               contents |-> call.contents, calm |-> q, sound |-> call.sound, intact |-> call.intact]
    BY <1>2, <1>4, <1>5 DEF IsCall
<1>7. call = NoCall => call' = NoCall
    <2> SUFFICES ASSUME call = NoCall PROVE call' = NoCall
        OBVIOUS
    <2>1. call.calm = FALSE
        BY DEF NoCall
    <2>2. q = FALSE
        BY <1>5, <2>1
    <2> QED BY <1>6, <2>2 DEF NoCall
<1>8. call # NoCall => Underway(call')
    BY <1>4, <1>6 DEF Underway, Spans
<1>9. IsCall(call')
    BY <1>6 DEF IsCall
<1>10. CallInv'
    BY <1>7, <1>8, <1>9 DEF CallInv
<1>11. CalmInv'
    <2> SUFFICES ASSUME call' # NoCall, call'.calm, crashes' = 0 PROVE CalmInv'
        BY DEF CalmInv
    <2>1. call # NoCall /\ call.calm /\ todo' = <<>> /\ crashes = 0
        BY <1>1, <1>5, <1>6, <1>7
    <2>2. todo = <<>>
        BY <2>1 DEF WindowInv, CalmInv
    <2>3. db' = db
        BY <2>2 DEF StartInsert, StartRewind, StartPrune, Write, Serve
    <2>4. /\ call'.kind = call.kind /\ call'.step = call.step /\ call'.start = call.start
          /\ call'.last = call.last /\ call'.at = call.at /\ call'.hash = call.hash
          /\ call'.rows = call.rows /\ call'.sound = call.sound
        BY <1>6
    <2>5. RowsTrue(call.kind, call.start, call.hash, call.rows) =>
              RowsTrue(call.kind, call.start, call.hash, call.rows)'
        BY <1>1, <2>4 DEF RowsTrue
    <2> QED BY <2>1, <2>3, <2>4, <2>5 DEF WindowInv, CalmInv, Probed, HeldRows, EndHash, Tip
<1> QED
    BY <1>3, <1>10, <1>11 DEF WindowInv

\* A digest begins below the tip.
LEMMA AskDigestStep ==
    ASSUME CacheInv, WindowInv, AskDigest
    PROVE  CallInv' /\ CalmInv'
<1> USE ForkTreeAssumption
<1>0. UNCHANGED cacheVars
    BY DEF AskDigest
<1>1. PICK range \in DigestRanges :
          LET last == Min({range[2], TipHeight(db)})
          IN  call' = IF range[1] > last
                      THEN [New("digest", range, None) EXCEPT !.step = "done"]
                      ELSE [New("digest", range, last)
                               EXCEPT !.complete = TipHeight(db) >= range[2]]
    BY DEF AskDigest
<1>2. PICK s : s = range[1]
    OBVIOUS
<1>3. PICK e : e = range[2]
    OBVIOUS
<1>4. s \in Heights /\ e \in Heights /\ s <= e /\ Heights \subseteq Nat
    BY <1>2, <1>3, WindowAssumption DEF Heights
<1>5. PICK t : t = TipHeight(db)
    OBVIOUS
<1>6. t \in Heights
    BY <1>5 DEF TipHeight, Tip, NoTip, CacheInv, DiskOK, Heights
<1>7. PICK last : last = Min({e, t})
    OBVIOUS
<1>8. last \in Heights /\ last <= e /\ (t >= e => last = e)
    <2>1. CASE e <= t
        <3>1. e \in {e, t} /\ {e, t} \subseteq Int /\ \A k \in {e, t} : e <= k
            BY <1>4, <1>6, <2>1
        <3>2. Min({e, t}) = e
            BY <3>1, MinIn
        <3> QED BY <1>4, <1>7, <3>2
    <2>2. CASE ~ (e <= t)
        <3>1. t \in {e, t} /\ {e, t} \subseteq Int /\ \A k \in {e, t} : t <= k
            BY <1>4, <1>6, <2>2
        <3>2. Min({e, t}) = t
            BY <3>1, MinIn
        <3> QED BY <1>4, <1>6, <1>7, <2>2, <3>2
    <2> QED BY <2>1, <2>2
<1>9. PICK q \in BOOLEAN : q = (todo = <<>>)
    OBVIOUS
<1>10. CASE s > last
    <2>1. call' = [kind |-> "digest", step |-> "done", start |-> s, end |-> e, last |-> None,
                   at |-> s, complete |-> FALSE, hash |-> None, rows |-> <<>>,
                   contents |-> <<>>, calm |-> q, sound |-> FALSE, intact |-> FALSE]
        BY <1>1, <1>2, <1>3, <1>5, <1>7, <1>9, <1>10 DEF New, NoCall
    <2>2. CallInv'
        BY <1>4, <2>1 DEF CallInv, IsCall, Underway
    <2>3. todo' = todo
        BY <1>0 DEF cacheVars
    <2>4. CalmInv'
        BY <1>9, <2>1, <2>3 DEF CalmInv
    <2> QED BY <2>2, <2>4
<1>11. CASE ~ (s > last)
    <2>0. PICK all : all = (t >= e)
        OBVIOUS
    <2>a. all \in BOOLEAN /\ (all => last = e)
        <3>1. all \in BOOLEAN
            BY <1>4, <1>6, <2>0
        <3>2. all => last = e
            BY <1>8, <2>0
        <3> QED BY <3>1, <3>2
    <2>1. call' = [kind |-> "digest", step |-> "probe", start |-> s, end |-> e, last |-> last,
                   at |-> s, complete |-> all, hash |-> None, rows |-> <<>>,
                   contents |-> <<>>, calm |-> q, sound |-> FALSE, intact |-> FALSE]
        BY <1>1, <1>2, <1>3, <1>5, <1>7, <1>9, <1>11, <2>0 DEF New, NoCall
    <2>2. s <= last /\ s \in s .. last
        BY <1>4, <1>8, <1>11
    <2>3. CallInv'
        BY <1>4, <1>8, <2>a, <2>1, <2>2 DEF CallInv, IsCall, Underway, Spans
    <2>4. todo' = todo
        BY <1>0 DEF cacheVars
    <2>5. ~ \E k \in Heights : s <= k /\ k <= s - 1
        BY <1>4
    <2>6. Probed(s, s - 1)'
        BY <2>5 DEF Probed
    <2>7. /\ call'.kind = "digest" /\ call'.step = "probe" /\ call'.rows = <<>> /\ call'.start = s
          /\ call'.at = s /\ call'.calm = q
        BY <2>1
    <2>8. CalmInv'
        BY <1>9, <2>4, <2>6, <2>7 DEF CalmInv
    <2> QED BY <2>3, <2>8
<1> QED
    BY <1>10, <1>11

\* A PIR call begins below the tip.
LEMMA AskPirStep ==
    ASSUME CacheInv, WindowInv, AskPir
    PROVE  CallInv' /\ CalmInv'
<1> USE ForkTreeAssumption
<1>0. UNCHANGED cacheVars /\ Tip(db) # NoTip
    BY DEF AskPir
<1>1. PICK range \in PirRanges :
          /\ range[2] <= Tip(db).height
          /\ call' = [New("pir", range, range[2]) EXCEPT !.step = "hash"]
    BY DEF AskPir
<1>2. PICK s : s = range[1]
    OBVIOUS
<1>3. PICK e : e = range[2]
    OBVIOUS
<1>4. s \in Heights /\ e \in Heights /\ s <= e /\ Heights \subseteq Nat
    BY <1>2, <1>3, WindowAssumption DEF Heights
<1>5. PICK q \in BOOLEAN : q = (todo = <<>>)
    OBVIOUS
<1>6. call' = [kind |-> "pir", step |-> "hash", start |-> s, end |-> e, last |-> e,
               at |-> s, complete |-> FALSE, hash |-> None, rows |-> <<>>,
               contents |-> <<>>, calm |-> q, sound |-> FALSE, intact |-> FALSE]
    BY <1>1, <1>2, <1>3, <1>5 DEF New, NoCall
<1>7. CallInv'
    BY <1>4, <1>6 DEF CallInv, IsCall, Underway, Spans
<1>8. todo' = todo /\ db' = db
    BY <1>0 DEF cacheVars
<1>9. CalmInv'
    <2>1. Tip(db)' = Tip(db)
        BY <1>8 DEF Tip
    <2>2. /\ call'.kind = "pir" /\ call'.step = "hash" /\ call'.last = e /\ call'.calm = q
        BY <1>6
    <2>3. e <= Tip(db).height
        BY <1>1, <1>3
    <2> QED BY <1>0, <1>5, <1>8, <2>1, <2>2, <2>3 DEF CalmInv
<1> QED
    BY <1>7, <1>9

\* The probe leaves behind only heights with a hash.
LEMMA ProbeHashStep ==
    ASSUME WindowInv, ProbeHash
    PROVE  CallInv' /\ CalmInv'
<1> USE ForkTreeAssumption
<1>0. /\ UNCHANGED cacheVars /\ call.step = "probe" /\ call # NoCall
      /\ call' = IF db.hashes[call.at] = None
               THEN [call EXCEPT !.complete = FALSE, !.last = call.at - 1,
                                 !.step = IF call.at > call.start THEN "hash" ELSE "done"]
               ELSE IF call.at < call.last THEN [call EXCEPT !.at = call.at + 1]
               ELSE [call EXCEPT !.step = "hash"]
    BY DEF ProbeHash, NoCall
<1>1. PICK c : c = call
    OBVIOUS
<1>2. IsCall(c) /\ Underway(c) /\ c.step = "probe"
    BY <1>0, <1>1 DEF WindowInv, CallInv
<1>3. /\ c.kind = "digest" /\ c.at \in c.start .. c.last /\ c.rows = <<>>
      /\ c.start \in Heights /\ c.last \in Heights /\ c.end \in Heights /\ c.start <= c.end
      /\ c.start <= c.last /\ Heights \subseteq Nat /\ c.at \in Heights /\ c.complete \in BOOLEAN
      /\ c.complete => c.last = c.end
    BY <1>2 DEF Underway, Spans, Heights
<1>4. /\ db' = db /\ todo' = todo /\ crashes' = crashes
      /\ (c.calm /\ crashes = 0) => todo = <<>> /\ Probed(c.start, c.at - 1)
    BY <1>0, <1>1 DEF cacheVars, WindowInv, CalmInv
<1>5. CASE db.hashes[c.at] = None /\ c.at > c.start
    <2>1. call' = [kind |-> c.kind, step |-> "hash", start |-> c.start, end |-> c.end, last |-> c.at - 1,
                   at |-> c.at, complete |-> FALSE, hash |-> c.hash, rows |-> c.rows,
                   contents |-> c.contents, calm |-> c.calm,
                   sound |-> c.sound, intact |-> c.intact]
        BY <1>0, <1>1, <1>2, <1>5 DEF IsCall
    <2>2. c.at - 1 \in Heights /\ c.start <= c.at - 1
        BY <1>3, <1>5 DEF Heights
    <2>3. CallInv'
        BY <1>3, <2>1, <2>2 DEF CallInv, IsCall, Underway, Spans
    <2>4. CalmInv'
        BY <1>3, <1>4, <2>1 DEF CalmInv, Probed
    <2> QED BY <2>3, <2>4
<1>6. CASE db.hashes[c.at] = None /\ ~ (c.at > c.start)
    <2>1. call' = [kind |-> c.kind, step |-> "done", start |-> c.start, end |-> c.end, last |-> c.at - 1,
                   at |-> c.at, complete |-> FALSE, hash |-> c.hash, rows |-> c.rows,
                   contents |-> c.contents, calm |-> c.calm,
                   sound |-> c.sound, intact |-> c.intact]
        BY <1>0, <1>1, <1>2, <1>6 DEF IsCall
    <2>2. CallInv'
        BY <1>3, <2>1 DEF CallInv, IsCall, Underway, Spans
    <2>3. CalmInv'
        BY <1>3, <1>4, <2>1 DEF CalmInv
    <2> QED BY <2>2, <2>3
<1>7. CASE db.hashes[c.at] # None /\ c.at < c.last
    <2>1. call' = [kind |-> c.kind, step |-> c.step, start |-> c.start, end |-> c.end, last |-> c.last,
                   at |-> c.at + 1, complete |-> c.complete, hash |-> c.hash, rows |-> c.rows,
                   contents |-> c.contents,
                   calm |-> c.calm, sound |-> c.sound, intact |-> c.intact]
        BY <1>0, <1>1, <1>2, <1>7 DEF IsCall
    <2>2. c.at + 1 \in c.start .. c.last /\ (c.at + 1) - 1 = c.at
        BY <1>3, <1>7
    <2>3. CallInv'
        BY <1>2, <1>3, <2>1, <2>2 DEF CallInv, IsCall, Underway, Spans
    <2>4. (c.calm /\ crashes = 0) => Probed(c.start, c.at)
        <3> SUFFICES ASSUME c.calm, crashes = 0, NEW k \in Heights, c.start <= k, k <= c.at
                     PROVE  db.hashes[k] # None
            BY DEF Probed
        <3>1. k = c.at \/ k <= c.at - 1
            BY <1>3
        <3> QED BY <1>4, <1>7, <3>1 DEF Probed
    <2>5. CalmInv'
        BY <1>2, <1>3, <1>4, <2>1, <2>2, <2>4 DEF CalmInv, Probed
    <2> QED BY <2>3, <2>5
<1>8. CASE db.hashes[c.at] # None /\ ~ (c.at < c.last)
    <2>1. call' = [kind |-> c.kind, step |-> "hash", start |-> c.start, end |-> c.end, last |-> c.last,
                   at |-> c.at, complete |-> c.complete, hash |-> c.hash, rows |-> c.rows,
                   contents |-> c.contents,
                   calm |-> c.calm, sound |-> c.sound, intact |-> c.intact]
        BY <1>0, <1>1, <1>2, <1>8 DEF IsCall
    <2>2. CallInv'
        BY <1>2, <1>3, <2>1 DEF CallInv, IsCall, Underway, Spans
    <2>3. (c.calm /\ crashes = 0) => Probed(c.start, c.last)
        <3> SUFFICES ASSUME c.calm, crashes = 0, NEW k \in Heights, c.start <= k, k <= c.last
                     PROVE  db.hashes[k] # None
            BY DEF Probed
        <3>1. k = c.at \/ k <= c.at - 1
            BY <1>3, <1>8
        <3> QED BY <1>4, <1>8, <3>1 DEF Probed
    <2>4. CalmInv'
        BY <1>3, <1>4, <2>1, <2>3 DEF CalmInv, Probed
    <2> QED BY <2>2, <2>4
<1> QED
    BY <1>5, <1>6, <1>7, <1>8

\* What is found was true of the same end hash when it was filed.
LEMMA LookUpStep ==
    ASSUME WindowInv, LookUp
    PROVE  CallInv' /\ CalmInv'
<1> USE ForkTreeAssumption
<1>0. UNCHANGED cacheVars /\ call.step = "hash" /\ call # NoCall
    <2>1. UNCHANGED cacheVars /\ call.step = "hash"
        BY DEF LookUp
    <2>2. NoCall.step = "none"
        BY DEF NoCall
    <2> QED BY <2>1, <2>2
<1>1. PICK c : c = call
    OBVIOUS
<1>2. IsCall(c) /\ Underway(c) /\ c.step = "hash"
    BY <1>0, <1>1 DEF WindowInv, CallInv
<1>3. /\ c.kind \in {"digest", "pir"} /\ c.rows = <<>> /\ c.complete \in BOOLEAN
      /\ c.start \in Heights /\ c.last \in Heights /\ c.end \in Heights /\ c.start <= c.end
      /\ c.start <= c.last /\ Heights \subseteq Nat /\ Spans(c)
      /\ c.complete => c.last = c.end
    BY <1>2 DEF Underway, Spans, Heights
<1>4. /\ db' = db /\ todo' = todo /\ crashes' = crashes /\ pruned' = pruned
      /\ (c.calm /\ crashes = 0) => /\ todo = <<>>
                                    /\ c.kind = "pir" => Tip(db) # NoTip /\ c.last <= Tip(db).height
                                    /\ c.kind = "digest" => Probed(c.start, c.last)
    BY <1>0, <1>1 DEF cacheVars, WindowInv, CalmInv
<1>5. PICK hash : hash = EndHash(c.kind, db, c.last)
    OBVIOUS
<1>6. EndHash(c.kind, db, c.last)' = EndHash(c.kind, db, c.last) /\ Tip(db)' = Tip(db)
    BY <1>4 DEF EndHash, Tip
<1>7. \/ \E w \in Range(windows) :
            /\ w.kind = c.kind /\ w.start = c.start /\ w.last = c.last /\ w.hash = hash
            /\ call' = [c EXCEPT !.step = "done", !.hash = hash, !.rows = w.rows,
                                 !.contents = w.contents, !.sound = w.calm, !.intact = w.intact]
      \/ call' = [c EXCEPT !.step = "scan", !.hash = hash]
    BY <1>1, <1>5 DEF LookUp, Lookup
<1>8. ASSUME NEW w \in Range(windows),
             w.kind = c.kind, w.start = c.start, w.last = c.last, w.hash = hash,
             call' = [c EXCEPT !.step = "done", !.hash = hash, !.rows = w.rows,
                               !.contents = w.contents, !.sound = w.calm, !.intact = w.intact]
      PROVE  CallInv' /\ CalmInv'
    <2>1. call' = [kind |-> c.kind, step |-> "done", start |-> c.start, end |-> c.end, last |-> c.last,
                   at |-> c.at, complete |-> c.complete, hash |-> hash, rows |-> w.rows,
                   contents |-> w.contents,
                   calm |-> c.calm, sound |-> w.calm, intact |-> w.intact]
        BY <1>2, <1>8 DEF IsCall
    <2>2. WindowOK(w)
        BY <1>8, InRange DEF WindowInv, FiledInv
    <2>3. CallInv'
        <3> PICK d : d = call'
            OBVIOUS
        <3>1. /\ d.kind = c.kind /\ d.step = "done" /\ d.start = c.start /\ d.end = c.end
              /\ d.last = c.last /\ d.complete = c.complete /\ d.rows = w.rows /\ IsCall(d)
            BY <2>1 DEF IsCall
        <3>2. Spans(c) /\ Underway(c)
            BY <1>2, <1>3
        <3>3. Spans(d) /\ IsList(d.rows) /\ Len(d.rows) = d.last - d.start + 1
            BY <1>8, <2>2, <3>1, <3>2 DEF WindowOK, Spans
        <3>4. Underway(d)
            BY <3>1, <3>2, <3>3 DEF Underway
        <3> QED BY <3>1, <3>4 DEF CallInv
    <2>4. (w.calm /\ crashes = 0) => RowsTrue(c.kind, c.start, hash, w.rows)'
        BY <1>4, <1>8, <2>2 DEF WindowOK, RowsTrue
    <2>5. CalmInv'
        BY <1>3, <1>4, <1>5, <1>6, <2>1, <2>4 DEF CalmInv, Probed
    <2> QED BY <2>3, <2>5
<1>9. ASSUME call' = [c EXCEPT !.step = "scan", !.hash = hash]
      PROVE  CallInv' /\ CalmInv'
    <2>1. call' = [kind |-> c.kind, step |-> "scan", start |-> c.start, end |-> c.end, last |-> c.last,
                   at |-> c.at, complete |-> c.complete, hash |-> hash, rows |-> c.rows,
                   contents |-> c.contents,
                   calm |-> c.calm, sound |-> c.sound, intact |-> c.intact]
        BY <1>2, <1>9 DEF IsCall
    <2>2. IsList(c.rows) /\ Len(c.rows) = 0
        BY <1>3, NoWrite
    <2>3. CallInv'
        BY <1>3, <2>1, <2>2 DEF CallInv, IsCall, Underway, Spans
    <2>4. HeldRows(c.start, c.rows)'
        BY <2>2 DEF HeldRows
    <2>5. CalmInv'
        BY <1>3, <1>4, <1>5, <1>6, <2>1, <2>4 DEF CalmInv, Probed
    <2> QED BY <2>3, <2>5
<1> QED
    BY <1>7, <1>8, <1>9

\* A list and one more.
LEMMA AppendList ==
    ASSUME NEW s, IsList(s), NEW x
    PROVE  /\ IsList(Append(s, x)) /\ Len(Append(s, x)) = Len(s) + 1 /\ Len(s) \in Nat
           /\ Append(s, x)[Len(s) + 1] = x
           /\ \A i \in 1 .. Len(s) : Append(s, x)[i] = s[i]
<1> DEFINE S == {s[i] : i \in DOMAIN s} \cup {x}
<1>1. s = [i \in 1 .. Len(s) |-> s[i]] /\ Len(s) \in Nat /\ DOMAIN s = 1 .. Len(s)
    BY ListDomain
<1>2. \A i \in 1 .. Len(s) : s[i] \in S
    BY <1>1
<1>3. x \in S
    OBVIOUS
<1> HIDE DEF S
<1>4. s \in Seq(S)
    BY <1>1, <1>2
<1>5. /\ Append(s, x) \in Seq(S) /\ Len(Append(s, x)) = Len(s) + 1
      /\ Append(s, x)[Len(s) + 1] = x
      /\ \A i \in 1 .. Len(s) : Append(s, x)[i] = s[i]
    BY <1>3, <1>4, AppendProperties
<1>6. IsList(Append(s, x))
    BY <1>5, SeqIsList
<1> QED
    BY <1>1, <1>5, <1>6

\* A scan has the rows the cache has.
LEMMA ScanRowStep ==
    ASSUME WindowInv, ScanRow
    PROVE  CallInv' /\ CalmInv'
<1> USE ForkTreeAssumption
<1>0. /\ UNCHANGED cacheVars /\ call.step = "scan" /\ call # NoCall
      /\ Len(call.rows) <= call.last - call.start
      /\ call' = [call EXCEPT !.rows = Append(call.rows, db.blocks[call.start + Len(call.rows)]),
                              !.contents = Append(call.contents, content[call.start + Len(call.rows)])]
    BY DEF ScanRow, NoCall
<1>1. PICK c : c = call
    OBVIOUS
<1>2. IsCall(c) /\ Underway(c) /\ c.step = "scan"
    BY <1>0, <1>1 DEF WindowInv, CallInv
<1>3. /\ c.kind \in {"digest", "pir"} /\ c.complete \in BOOLEAN /\ IsList(c.rows)
      /\ c.start \in Heights /\ c.last \in Heights /\ c.end \in Heights /\ c.start <= c.end
      /\ c.start <= c.last /\ Heights \subseteq Nat /\ Spans(c)
      /\ c.complete => c.last = c.end
    BY <1>2 DEF Underway, Spans, Heights
<1>4. /\ db' = db /\ todo' = todo /\ crashes' = crashes /\ pruned' = pruned
      /\ (c.calm /\ crashes = 0) => /\ todo = <<>>
                                    /\ c.kind = "pir" => Tip(db) # NoTip /\ c.last <= Tip(db).height
                                    /\ c.kind = "digest" => Probed(c.start, c.last)
                                    /\ c.hash = EndHash(c.kind, db, c.last)
                                    /\ HeldRows(c.start, c.rows)
    BY <1>0, <1>1 DEF cacheVars, WindowInv, CalmInv
<1>5. PICK x : x = db.blocks[c.start + Len(c.rows)]
    OBVIOUS
<1>6. PICK more : more = Append(c.rows, x)
    OBVIOUS
<1>a. PICK moreContents : moreContents = Append(c.contents, content[c.start + Len(c.rows)])
    OBVIOUS
<1>7. /\ IsList(more) /\ Len(more) = Len(c.rows) + 1 /\ Len(c.rows) \in Nat
      /\ more[Len(c.rows) + 1] = x
      /\ \A i \in 1 .. Len(c.rows) : more[i] = c.rows[i]
    BY <1>3, <1>6, AppendList
<1>8. call' = [kind |-> c.kind, step |-> "scan", start |-> c.start, end |-> c.end, last |-> c.last,
               at |-> c.at, complete |-> c.complete, hash |-> c.hash, rows |-> more,
               contents |-> moreContents,
               calm |-> c.calm, sound |-> c.sound, intact |-> c.intact]
    BY <1>0, <1>1, <1>2, <1>5, <1>6, <1>a DEF IsCall
<1>9. Len(more) <= c.last - c.start + 1
    BY <1>0, <1>1, <1>3, <1>7
<1>10. CallInv'
    BY <1>3, <1>7, <1>8, <1>9 DEF CallInv, IsCall, Underway, Spans
<1>11. HeldRows(c.start, c.rows) => HeldRows(c.start, more)'
    <2> SUFFICES ASSUME HeldRows(c.start, c.rows), NEW i \in 1 .. Len(more)
                 PROVE  more[i] = db.blocks[c.start + i - 1]
        BY <1>4 DEF HeldRows
    <2>1. CASE i \in 1 .. Len(c.rows)
        BY <1>7, <2>1 DEF HeldRows
    <2>2. CASE i \notin 1 .. Len(c.rows)
        <3>1. i = Len(c.rows) + 1 /\ c.start + i - 1 = c.start + Len(c.rows)
            BY <1>3, <1>7, <2>2
        <3> QED BY <1>5, <1>7, <3>1
    <2> QED BY <2>1, <2>2
<1>12. CalmInv'
    <2>1. EndHash(c.kind, db, c.last)' = EndHash(c.kind, db, c.last) /\ Tip(db)' = Tip(db)
        BY <1>4 DEF EndHash, Tip
    <2> QED BY <1>3, <1>4, <1>8, <1>11, <2>1 DEF CalmInv, Probed
<1> QED
    BY <1>10, <1>12

\* What is filed is true of its end hash.
LEMMA FileWindowStep ==
    ASSUME CacheInv, TreeInv, SnapInv, EndInv, WindowInv, FileWindow
    PROVE  WindowInv'
<1> USE ForkTreeAssumption
<1>0. /\ UNCHANGED cacheVars /\ call.step = "scan" /\ call # NoCall
      /\ Len(call.rows) > call.last - call.start
      /\ call' = [call EXCEPT !.step = "done", !.sound = call.calm, !.intact = call.calm]
    BY DEF FileWindow, NoCall
<1>1. PICK c : c = call
    OBVIOUS
<1>2. IsCall(c) /\ Underway(c) /\ c.step = "scan"
    BY <1>0, <1>1 DEF WindowInv, CallInv
<1>3. /\ c.kind \in {"digest", "pir"} /\ c.complete \in BOOLEAN /\ IsList(c.rows)
      /\ c.start \in Heights /\ c.last \in Heights /\ c.end \in Heights /\ c.start <= c.end
      /\ c.start <= c.last /\ Heights \subseteq Nat /\ Spans(c)
      /\ c.complete => c.last = c.end /\ Len(c.rows) \in Nat
    BY <1>2, ListDomain DEF Underway, Spans, Heights
<1>4. /\ db' = db /\ todo' = todo /\ crashes' = crashes /\ pruned' = pruned
      /\ (c.calm /\ crashes = 0) => /\ todo = <<>>
                                    /\ c.kind = "pir" => Tip(db) # NoTip /\ c.last <= Tip(db).height
                                    /\ c.kind = "digest" => Probed(c.start, c.last)
                                    /\ c.hash = EndHash(c.kind, db, c.last)
                                    /\ HeldRows(c.start, c.rows)
    BY <1>0, <1>1 DEF cacheVars, WindowInv, CalmInv
<1>5. Len(c.rows) = c.last - c.start + 1
    <2>1. Len(c.rows) <= c.last - c.start + 1
        BY <1>2 DEF Underway
    <2> QED BY <1>0, <1>1, <1>3, <2>1
<1>6. ASSUME c.calm, crashes = 0
      PROVE  RowsTrue(c.kind, c.start, c.hash, c.rows)
    <2>1. WholeCache(db) /\ IsDisk(db)
        BY <1>4, <1>6, IdleCache
    <2>2. ~ pruned => Exact(AsStore(db))
        <3> SUFFICES ASSUME ~ pruned PROVE Exact(AsStore(db))
            OBVIOUS
        <3>1. Exact(AsStore(Play(db, todo)))
            BY <1>6 DEF SnapInv, Undamaged
        <3>2. Play(db, <<>>) = db
            BY <2>1, PlayEmpty
        <3> QED BY <1>4, <1>6, <3>1, <3>2
    <2> QED BY <1>3, <1>4, <1>5, <1>6, <2>1, <2>2, ScannedRows
<1>7. call' = [kind |-> c.kind, step |-> "done", start |-> c.start, end |-> c.end, last |-> c.last,
               at |-> c.at, complete |-> c.complete, hash |-> c.hash, rows |-> c.rows,
               contents |-> c.contents,
               calm |-> c.calm, sound |-> c.calm, intact |-> c.calm]
    BY <1>0, <1>1, <1>2 DEF IsCall
<1>8. CallInv'
    BY <1>3, <1>5, <1>7 DEF CallInv, IsCall, Underway, Spans
<1>9. CalmInv'
    <2>1. EndHash(c.kind, db, c.last)' = EndHash(c.kind, db, c.last) /\ Tip(db)' = Tip(db)
        BY <1>4 DEF EndHash, Tip
    <2>2. (c.calm /\ crashes = 0) => RowsTrue(c.kind, c.start, c.hash, c.rows)'
        BY <1>4, <1>6 DEF RowsTrue
    <2> QED BY <1>3, <1>4, <1>7, <2>1, <2>2 DEF CalmInv, Probed
<1>10. FiledInv'
    <2> DEFINE entry == [kind |-> c.kind, start |-> c.start, last |-> c.last,
                         hash |-> c.hash, rows |-> c.rows,
                         contents |-> c.contents, calm |-> c.calm, intact |-> c.calm]
    <2>1. WindowOK(entry)
        BY <1>3, <1>5, <1>6 DEF WindowOK, IsWindow, Spans
    <2>2. windows' = windows \/ windows' = File(entry)
        BY <1>1 DEF FileWindow
    <2> HIDE DEF entry
    <2>3. CASE windows' = windows
        BY <1>4, <2>3, FiledStays DEF WindowInv
    <2>4. CASE windows' = File(entry)
        <3> DEFINE S == {windows[i] : i \in 1 .. Len(windows)} \cup {entry}
        <3>1. windows = [i \in 1 .. Len(windows) |-> windows[i]] /\ Len(windows) \in Nat
                  /\ \A i \in 1 .. Len(windows) : WindowOK(windows[i])
            BY ListDomain DEF WindowInv, FiledInv
        <3>2. windows \in Seq(S) /\ entry \in S
            <4>1. \A i \in 1 .. Len(windows) : windows[i] \in S
                OBVIOUS
            <4>2. entry \in S
                OBVIOUS
            <4> HIDE DEF S
            <4> QED BY <3>1, <4>1, <4>2
        <3>3. \A w \in S : WindowOK(w)
            BY <2>1, <3>1
        <3> HIDE DEF S
        <3>4. windows' \in Seq(S)
            BY <2>4, <3>2, FileKeeps
        <3>5. IsList(windows')
            BY <3>4, SeqIsList
        <3>6. \A i \in 1 .. Len(windows') : windows'[i] \in S
            BY <3>4
        <3>7. ASSUME NEW i \in 1 .. Len(windows') PROVE WindowOK(windows[i])'
            <4>1. PICK w : w = windows'[i]
                OBVIOUS
            <4>2. WindowOK(w)
                BY <3>3, <3>6, <4>1
            <4>3. WindowOK(w)'
                BY <1>4, <4>2 DEF WindowOK, IsWindow, RowsTrue, Spans
            <4> QED BY <4>1, <4>3
        <3> QED BY <3>5, <3>7 DEF FiledInv
    <2> QED BY <2>2, <2>3, <2>4
<1> QED
    BY <1>8, <1>9, <1>10 DEF WindowInv

\* Every step of the poller, of a call and of a crash.
LEMMA WindowStep ==
    ASSUME CacheInv, TreeInv, SnapInv, EndInv, WindowInv, [WindowReadsNext]_windowReadsVars
    PROVE  WindowInv'
<1>1. CASE (StartInsert \/ StartRewind \/ StartPrune \/ Write \/ Serve) /\ Disturb
    BY <1>1, DisturbStep
<1>2. CASE Crash /\ WindowReset
    <2>1. windows' = <<>> /\ call' = NoCall
        BY <1>2 DEF WindowReset
    <2>2. IsList(<<>>) /\ Len(<<>>) = 0
        BY NoWrite
    <2>3. IsCall(NoCall)
        BY DEF IsCall, NoCall
    <2> QED BY <2>1, <2>2, <2>3 DEF WindowInv, FiledInv, CallInv, CalmInv
<1>3. CASE WindowNext
    <2>1. ASSUME windows' = windows, UNCHANGED cacheVars PROVE FiledInv'
        BY <2>1, FiledStays DEF WindowInv, cacheVars
    <2>2. CASE AskDigest
        BY <2>1, <2>2, AskDigestStep DEF AskDigest, WindowInv
    <2>3. CASE ProbeHash
        BY <2>1, <2>3, ProbeHashStep DEF ProbeHash, WindowInv
    <2>4. CASE AskPir
        BY <2>1, <2>4, AskPirStep DEF AskPir, WindowInv
    <2>5. CASE LookUp
        BY <2>1, <2>5, LookUpStep DEF LookUp, WindowInv
    <2>6. CASE ScanRow
        BY <2>1, <2>6, ScanRowStep DEF ScanRow, WindowInv
    <2>7. CASE FileWindow
        BY <2>7, FileWindowStep
    <2>8. CASE Reply
        <3>1. call' = NoCall /\ FiledInv'
            BY <2>1, <2>8 DEF Reply
        <3>2. IsCall(NoCall)
            BY DEF IsCall, NoCall
        <3> QED BY <3>1, <3>2 DEF WindowInv, CallInv, CalmInv
    <2> QED BY <1>3, <2>2, <2>3, <2>4, <2>5, <2>6, <2>7, <2>8 DEF WindowNext
<1>4. CASE UNCHANGED windowReadsVars
    <2>1. windows' = windows /\ call' = call /\ UNCHANGED cacheVars
        BY <1>4 DEF windowReadsVars, windowVars
    <2> QED BY <2>1 DEF cacheVars, WindowInv, FiledInv, WindowOK, IsWindow, RowsTrue, Spans, CallInv, CalmInv,
                        Underway, IsCall, Probed, HeldRows, EndHash, Tip
<1> QED
    BY <1>1, <1>2, <1>3, <1>4 DEF WindowReadsNext

-----------------------------------------------------------------------------
(* What the rows hold, and what was read of them.                           *)

\* Every row holds what a row of its block may hold.
RowsHold == \A h \in Heights : content[h] \in MayHold(db.blocks[h])

\* What was read is what rows of these blocks may hold, and is there still.
OfRows(rows, contents) ==
    /\ IsList(contents) /\ Len(contents) = Len(rows)
    /\ \A i \in 1 .. Len(rows) : contents[i] \in MayHold(rows[i])
AsNow(start, contents) == \A i \in 1 .. Len(contents) : contents[i] = content[start + i - 1]

WindowHolds(w) == OfRows(w.rows, w.contents) /\ (w.intact => AsNow(w.start, w.contents))

CallHolds(c) ==
    /\ OfRows(c.rows, c.contents)
    /\ c.calm => todo = <<>>
    /\ (c.calm /\ (c.step = "scan" \/ (c.step = "done" /\ c.intact))) => AsNow(c.start, c.contents)

ContentInv ==
    /\ content = [h \in Heights |-> content[h]]
    /\ RowsHold
    /\ \A i \in 1 .. Len(windows) : WindowHolds(windows[i])
    /\ call # NoCall => CallHolds(call)

\* What a row holds is nothing, or clues and a payload.
LEMMA HoldsForm ==
    ASSUME NEW row, NEW c \in MayHold(row)
    PROVE  CluesIn(c) \in Nat /\ PayloadIn(c) \in Seq(0 .. 255) /\ (row \in Hash => c # None)
<1>1. CASE row \in Hash
    <2>1. c \in [clues : Nat, payload : Seq(0 .. 255)]
        BY <1>1, WindowAssumption DEF MayHold
    <2>2. c # None /\ c.clues \in Nat /\ c.payload \in Seq(0 .. 255)
        BY <2>1, WindowAssumption
    <2> QED BY <2>2 DEF CluesIn, PayloadIn
<1>2. CASE row \notin Hash
    <2>1. c = None
        BY <1>2 DEF MayHold
    <2>2. <<>> \in Seq(0 .. 255)
        OBVIOUS
    <2> QED BY <1>2, <2>1, <2>2 DEF CluesIn, PayloadIn
<1> QED
    BY <1>1, <1>2

LEMMA ContentsStart == ASSUME CacheInit, WindowInit PROVE ContentInv
<1>1. content = [h \in Heights |-> None] /\ windows = <<>> /\ call = NoCall
    BY DEF WindowInit, NoRows
<1>2. ASSUME NEW h \in Heights PROVE content[h] \in MayHold(db.blocks[h])
    <2>1. db.blocks[h] \in {OldRow, None}
        BY OldDiskAssumption DEF CacheInit, EmptyDisk, NoRows
    <2>2. db.blocks[h] \notin Hash
        BY <2>1, OldDiskAssumption, ForkTreeAssumption
    <2> QED BY <1>1, <2>2 DEF MayHold
<1>3. Len(windows) = 0
    BY <1>1
<1> QED
    BY <1>1, <1>2, <1>3 DEF ContentInv, RowsHold

\* A write of the poller leaves a row with what it may hold, and the other rows alone.
LEMMA RowWritten ==
    ASSUME CacheInv, ContentInv, Write, Disturb, todo # <<>>, Head(todo).tree = "blocks"
    PROVE  /\ content' = [h \in Heights |-> content'[h]]
           /\ RowsHold'
           /\ \A h \in Heights : h # Head(todo).key => content'[h] = content[h]
<1>1. PICK w : w = Head(todo)
    OBVIOUS
<1>2. PICK c \in MayHold(w.val) : content' = [content EXCEPT ![w.key] = c]
    BY <1>1 DEF Disturb
<1>3. content = [h \in Heights |-> content[h]]
    BY DEF ContentInv
<1>4. content' = [h \in Heights |-> IF h = w.key THEN c ELSE content[h]]
    BY <1>2, <1>3
<1>5. IsDisk(db) /\ db' = Apply(db, w)
    BY <1>1 DEF CacheInv, DiskOK, Write
<1>6. \A k \in Heights : db'.blocks[k] = IF k = w.key THEN w.val ELSE db.blocks[k]
    <2>1. "blocks" \in Trees7 /\ Keys7("blocks") = Heights /\ w.tree = "blocks"
        BY <1>1, TreesAre
    <2>2. \A k \in Heights :
              Apply(db, w)["blocks"][k] = IF Hits(w, "blocks", k) THEN w.val ELSE db["blocks"][k]
        <3>1. \A t \in Trees7 : \A k \in Keys7(t) :
                  Apply(db, w)[t][k] = IF Hits(w, t, k) THEN w.val ELSE db[t][k]
            BY <1>5, ApplyDisk, Zenon
        <3> QED BY <2>1, <3>1
    <2> QED BY <1>5, <2>1, <2>2 DEF Hits
<1>7. ASSUME NEW h \in Heights PROVE content'[h] \in MayHold(db'.blocks[h])
    <2>1. content[h] \in MayHold(db.blocks[h])
        BY DEF ContentInv, RowsHold
    <2> QED BY <1>4, <1>6, <2>1
<1> QED
    BY <1>1, <1>4, <1>7 DEF RowsHold

\* The steps of the poller.
LEMMA DisturbContent ==
    ASSUME CacheInv, WindowInv, ContentInv,
           StartInsert \/ StartRewind \/ StartPrune \/ Write \/ Serve, Disturb
    PROVE  ContentInv'
<1> USE ForkTreeAssumption
<1>1. /\ content = [h \in Heights |-> content[h]] /\ RowsHold
      /\ \A i \in 1 .. Len(windows) : WindowHolds(windows[i])
      /\ call # NoCall => CallHolds(call)
    BY DEF ContentInv
<1>2. ASSUME call' # NoCall PROVE CallHolds(call)'
    <2>1. IsCall(call)
        BY DEF WindowInv, CallInv
    <2>2. PICK q : q = (call.calm /\ todo' = <<>>)
        OBVIOUS
    <2>3. call' = [call EXCEPT !.calm = q]
        BY <2>2 DEF Disturb
    <2>4. call' = [kind |-> call.kind, step |-> call.step, start |-> call.start, end |-> call.end,
                   last |-> call.last, at |-> call.at, complete |-> call.complete,
                   hash |-> call.hash, rows |-> call.rows, contents |-> call.contents,
                   calm |-> q, sound |-> call.sound, intact |-> call.intact]
        BY <2>1, <2>3 DEF IsCall
    <2>5. call # NoCall
        <3> SUFFICES ASSUME call = NoCall PROVE call' = NoCall
            BY <1>2
        <3>1. call.calm = FALSE
            BY DEF NoCall
        <3>2. q = FALSE
            BY <2>2, <3>1
        <3> QED BY <2>4, <3>2 DEF NoCall
    <2>6. OfRows(call.rows, call.contents) /\ (call.calm => todo = <<>>)
        BY <1>1, <2>5 DEF CallHolds
    <2>7. call'.calm => call.calm /\ todo' = <<>> /\ todo = <<>>
        BY <2>2, <2>4, <2>6
    <2>8. todo = <<>> => content' = content
        BY DEF Disturb
    <2>9. OfRows(call.rows, call.contents)'
        BY <2>4, <2>6 DEF OfRows
    <2>10. (call.calm /\ (call.step = "scan" \/ (call.step = "done" /\ call.intact)))' =>
              AsNow(call.start, call.contents)'
        <3> SUFFICES ASSUME call'.calm, call'.step = "scan" \/ (call'.step = "done" /\ call'.intact)
                     PROVE  AsNow(call.start, call.contents)'
            OBVIOUS
        <3>1. call.calm /\ content' = content
            BY <2>7, <2>8
        <3>2. /\ call.step = "scan" \/ (call.step = "done" /\ call.intact)
              /\ call'.start = call.start /\ call'.contents = call.contents
            BY <2>4
        <3>3. AsNow(call.start, call.contents)
            BY <1>1, <2>5, <3>1, <3>2 DEF CallHolds
        <3> QED BY <3>1, <3>2, <3>3 DEF AsNow
    <2> QED BY <2>7, <2>9, <2>10 DEF CallHolds
<1>3. CASE ~ (todo # <<>> /\ Head(todo).tree = "blocks")
    <2>1. content' = content /\ windows' = windows
        BY <1>3 DEF Disturb
    <2>2. \A k \in Heights : db'.blocks[k] = db.blocks[k]
        <3>1. CASE todo = <<>>
            BY <3>1 DEF StartInsert, StartRewind, StartPrune, Write, Serve
        <3>2. CASE todo # <<>>
            <4>1. PICK w : w = Head(todo)
                OBVIOUS
            <4>2. IsDisk(db) /\ (db' = db \/ db' = Apply(db, w))
                BY <4>1 DEF CacheInv, DiskOK, StartInsert, StartRewind, StartPrune, Write, Serve
            <4>3. "blocks" \in Trees7 /\ Keys7("blocks") = Heights /\ w.tree # "blocks"
                BY <1>3, <3>2, <4>1, TreesAre
            <4>4. \A k \in Heights :
                      Apply(db, w)["blocks"][k] = IF Hits(w, "blocks", k) THEN w.val ELSE db["blocks"][k]
                BY <4>2, <4>3, ApplyDisk
            <4> QED BY <4>2, <4>3, <4>4 DEF Hits
        <3> QED BY <3>1, <3>2
    <2>3. RowsHold'
        BY <1>1, <2>1, <2>2 DEF RowsHold
    <2>4. ASSUME NEW i \in 1 .. Len(windows') PROVE WindowHolds(windows[i])'
        <3>1. WindowHolds(windows[i])
            BY <1>1, <2>1
        <3> QED BY <2>1, <3>1 DEF WindowHolds, OfRows, AsNow
    <2> QED BY <1>1, <1>2, <2>1, <2>3, <2>4 DEF ContentInv
<1>4. CASE todo # <<>> /\ Head(todo).tree = "blocks"
    <2>1. Write
        BY <1>4 DEF StartInsert, StartRewind, StartPrune, Serve, Idle
    <2>2. /\ content' = [h \in Heights |-> content'[h]] /\ RowsHold'
          /\ \A h \in Heights : h # Head(todo).key => content'[h] = content[h]
        BY <1>4, <2>1, RowWritten
    <2>3. PICK h : h = Head(todo).key
        OBVIOUS
    <2>4. windows' = [i \in DOMAIN windows |->
                [windows[i] EXCEPT !.intact = windows[i].intact
                                              /\ h \notin windows[i].start .. windows[i].last]]
        BY <1>4, <2>3 DEF Disturb
    <2>5. PICK n \in Nat : /\ n = Len(windows) /\ DOMAIN windows = 1 .. n
                           /\ \A i \in 1 .. n : WindowOK(windows[i])
        BY ListDomain DEF WindowInv, FiledInv
    <2>6. windows' = [i \in 1 .. n |-> windows'[i]]
        BY <2>4, <2>5
    <2>7. Len(windows') = n
        BY <2>6, ListOf
    <2>8. ASSUME NEW i \in 1 .. n PROVE WindowHolds(windows[i])'
        <3>1. PICK w : w = windows[i]
            OBVIOUS
        <3>2. WindowOK(w) /\ WindowHolds(w)
            BY <1>1, <2>5, <3>1
        <3>3. PICK q : q = (w.intact /\ h \notin w.start .. w.last)
            OBVIOUS
        <3>4. windows'[i] = [w EXCEPT !.intact = q]
            BY <2>4, <2>5, <3>1, <3>3
        <3>5. PICK x : x = windows'[i]
            OBVIOUS
        <3>6. x.start = w.start /\ x.rows = w.rows /\ x.contents = w.contents /\ x.intact = q
            BY <3>2, <3>4, <3>5 DEF WindowOK, IsWindow
        <3>7. OfRows(x.rows, x.contents)'
            BY <3>2, <3>6 DEF WindowHolds, OfRows
        <3>8. ASSUME x.intact PROVE AsNow(x.start, x.contents)'
            <4>1. w.intact /\ h \notin w.start .. w.last
                BY <3>3, <3>6, <3>8
            <4>2. AsNow(w.start, w.contents)
                BY <3>2, <4>1 DEF WindowHolds
            <4>3. /\ w.start \in Heights /\ w.last \in Heights /\ Heights \subseteq Nat
                  /\ Len(w.contents) = w.last - w.start + 1
                BY <3>2 DEF WindowOK, Spans, WindowHolds, OfRows, Heights
            <4>4. ASSUME NEW k \in 1 .. Len(w.contents)
                  PROVE  w.contents[k] = content'[w.start + k - 1]
                <5>1. PICK g : g = w.start + k - 1
                    OBVIOUS
                <5>2. g \in Heights /\ g \in w.start .. w.last
                    BY <4>3, <5>1 DEF Heights
                <5>3. content'[g] = content[g]
                    BY <2>2, <2>3, <4>1, <5>2
                <5> QED BY <4>2, <5>1, <5>3 DEF AsNow
            <4> QED BY <3>6, <4>4 DEF AsNow
        <3> QED BY <3>5, <3>7, <3>8 DEF WindowHolds
    <2> QED BY <1>2, <2>2, <2>7, <2>8 DEF ContentInv
<1> QED
    BY <1>3, <1>4

\* The steps of a call.
LEMMA CallContent ==
    ASSUME CacheInv, WindowInv, ContentInv, WindowNext
    PROVE  ContentInv'
<1> USE ForkTreeAssumption
<1>1. /\ content = [h \in Heights |-> content[h]] /\ RowsHold
      /\ \A i \in 1 .. Len(windows) : WindowHolds(windows[i])
      /\ call # NoCall => CallHolds(call)
    BY DEF ContentInv
<1>2. content' = content /\ db' = db /\ todo' = todo
    BY DEF WindowNext, AskDigest, ProbeHash, AskPir, LookUp, ScanRow, FileWindow, Reply, cacheVars
<1>3. RowsHold'
    BY <1>1, <1>2 DEF RowsHold
<1>4. ASSUME NEW w, WindowHolds(w) PROVE WindowHolds(w)'
    BY <1>2, <1>4 DEF WindowHolds, OfRows, AsNow
<1>5. ASSUME windows' = windows, call' # NoCall => CallHolds(call)'
      PROVE  ContentInv'
    <2>1. ASSUME NEW i \in 1 .. Len(windows') PROVE WindowHolds(windows[i])'
        <3>1. WindowHolds(windows[i])
            BY <1>1, <1>5
        <3> QED BY <1>4, <1>5, <3>1
    <2> QED BY <1>1, <1>2, <1>3, <1>5, <2>1 DEF ContentInv
<1>6. PICK c : c = call
    OBVIOUS
<1>7. IsCall(c) /\ (c # NoCall => Underway(c) /\ CallHolds(c))
    BY <1>1, <1>6 DEF WindowInv, CallInv
<1>8. c.step \in {"probe", "hash", "scan"} => c # NoCall
    BY DEF NoCall
<1>9. IsList(<<>>) /\ Len(<<>>) = 0
    BY NoWrite
<1>10. ASSUME call'.rows = <<>>, call'.contents = <<>>, call'.calm => todo = <<>>
       PROVE  CallHolds(call)'
    BY <1>2, <1>9, <1>10 DEF CallHolds, OfRows, AsNow
<1>11. c.step \in {"probe", "hash"} => c.rows = <<>> /\ c.contents = <<>> /\ (c.calm => todo = <<>>)
    <2> SUFFICES ASSUME c.step \in {"probe", "hash"}
                 PROVE  c.rows = <<>> /\ c.contents = <<>> /\ (c.calm => todo = <<>>)
        OBVIOUS
    <2>1. c.rows = <<>> /\ OfRows(c.rows, c.contents) /\ (c.calm => todo = <<>>)
        BY <1>7, <1>8 DEF Underway, CallHolds
    <2>2. IsList(c.contents) /\ Len(c.contents) = 0
        BY <1>9, <2>1 DEF OfRows
    <2>3. c.contents = <<>>
        BY <2>2 DEF IsList
    <2> QED BY <2>1, <2>3
<1>12. CASE AskDigest
    <2>1. windows' = windows
        BY <1>12 DEF AskDigest
    <2>2. call'.rows = <<>> /\ call'.contents = <<>> /\ (call'.calm => todo = <<>>)
        <3>0. PICK range \in DigestRanges : \E last :
                  \/ call' = [New("digest", range, None) EXCEPT !.step = "done"]
                  \/ \E all : call' = [New("digest", range, last) EXCEPT !.complete = all]
            BY <1>12, Zenon DEF AskDigest
        <3>1. PICK last :
                  \/ call' = [New("digest", range, None) EXCEPT !.step = "done"]
                  \/ \E all : call' = [New("digest", range, last) EXCEPT !.complete = all]
            BY <3>0
        <3>2. ASSUME NEW x
              PROVE  /\ New("digest", range, x).rows = <<>> /\ New("digest", range, x).contents = <<>>
                     /\ New("digest", range, x).calm => todo = <<>>
            BY DEF New, NoCall
        <3>3. CASE call' = [New("digest", range, None) EXCEPT !.step = "done"]
            BY <3>2, <3>3 DEF New, NoCall
        <3>4. ASSUME NEW all, call' = [New("digest", range, last) EXCEPT !.complete = all]
              PROVE  call'.rows = <<>> /\ call'.contents = <<>> /\ (call'.calm => todo = <<>>)
            BY <3>2, <3>4 DEF New, NoCall
        <3> QED BY <3>1, <3>3, <3>4
    <2> QED BY <1>5, <1>10, <2>1, <2>2
<1>13. CASE AskPir
    <2>1. windows' = windows
        BY <1>13 DEF AskPir
    <2>2. call'.rows = <<>> /\ call'.contents = <<>> /\ (call'.calm => todo = <<>>)
        BY <1>13 DEF AskPir, New, NoCall
    <2> QED BY <1>5, <1>10, <2>1, <2>2
<1>14. CASE ProbeHash
    <2>1. windows' = windows /\ c.step = "probe"
        BY <1>6, <1>14 DEF ProbeHash
    <2>2. call'.rows = c.rows /\ call'.contents = c.contents /\ call'.calm = c.calm
        BY <1>6, <1>7, <1>14 DEF ProbeHash, IsCall
    <2> QED BY <1>5, <1>10, <1>11, <2>1, <2>2
<1>15. CASE LookUp
    <2>1. windows' = windows /\ c.step = "hash"
        BY <1>6, <1>15 DEF LookUp
    <2>2. \/ \E w \in Range(windows) :
                /\ w.start = c.start
                /\ call' = [c EXCEPT !.step = "done", !.hash = EndHash(c.kind, db, c.last),
                                     !.rows = w.rows, !.contents = w.contents,
                                     !.sound = w.calm, !.intact = w.intact]
          \/ call' = [c EXCEPT !.step = "scan", !.hash = EndHash(c.kind, db, c.last)]
        BY <1>6, <1>15 DEF LookUp, Lookup
    <2>3. ASSUME NEW w \in Range(windows), w.start = c.start,
                 call' = [c EXCEPT !.step = "done", !.hash = EndHash(c.kind, db, c.last),
                                   !.rows = w.rows, !.contents = w.contents,
                                   !.sound = w.calm, !.intact = w.intact]
          PROVE  CallHolds(call)'
        <3>1. WindowHolds(w)
            BY <1>1, <2>3, InRange DEF WindowInv, FiledInv
        <3>2. PICK x : x = call'
            OBVIOUS
        <3>3. /\ x.start = w.start /\ x.rows = w.rows /\ x.contents = w.contents
              /\ x.calm = c.calm /\ x.intact = w.intact /\ x.step = "done"
            BY <1>7, <2>3, <3>2 DEF IsCall
        <3>4. WindowHolds(w)'
            BY <1>4, <3>1
        <3>5. x.calm => todo' = <<>>
            BY <1>2, <1>11, <2>1, <3>3
        <3>6. CallHolds(x)'
            BY <3>3, <3>4, <3>5 DEF CallHolds, WindowHolds
        <3> QED BY <3>2, <3>6
    <2>4. ASSUME call' = [c EXCEPT !.step = "scan", !.hash = EndHash(c.kind, db, c.last)]
          PROVE  CallHolds(call)'
        <3>1. call'.rows = c.rows /\ call'.contents = c.contents /\ call'.calm = c.calm
            BY <1>7, <2>4 DEF IsCall
        <3> QED BY <1>10, <1>11, <2>1, <3>1
    <2> QED BY <1>5, <2>1, <2>2, <2>3, <2>4
<1>16. CASE ScanRow
    <2>1. windows' = windows /\ c.step = "scan" /\ c # NoCall /\ Len(c.rows) <= c.last - c.start
        BY <1>6, <1>8, <1>16 DEF ScanRow
    <2>2. PICK h : h = c.start + Len(c.rows)
        OBVIOUS
    <2>3. PICK rows : rows = Append(c.rows, db.blocks[h])
        OBVIOUS
    <2>4. PICK contents : contents = Append(c.contents, content[h])
        OBVIOUS
    <2>5. call' = [c EXCEPT !.rows = rows, !.contents = contents]
        BY <1>6, <1>16, <2>2, <2>3, <2>4 DEF ScanRow
    <2>6. PICK x : x = call'
        OBVIOUS
    <2>7. /\ x.rows = rows /\ x.contents = contents /\ x.start = c.start
          /\ x.calm = c.calm /\ x.step = "scan"
        BY <1>7, <2>1, <2>5, <2>6 DEF IsCall
    <2>8. /\ OfRows(c.rows, c.contents) /\ (c.calm => todo = <<>> /\ AsNow(c.start, c.contents))
        BY <1>7, <2>1 DEF CallHolds
    <2>9. /\ IsList(c.rows) /\ IsList(c.contents) /\ Len(c.contents) = Len(c.rows)
          /\ \A i \in 1 .. Len(c.rows) : c.contents[i] \in MayHold(c.rows[i])
          /\ c.start \in Heights /\ c.last \in Heights /\ Heights \subseteq Nat
        BY <1>7, <2>1, <2>8 DEF Underway, Spans, OfRows, Heights
    <2>10. PICK m \in Nat : m = Len(c.rows)
        BY <2>9, AppendList
    <2>11. /\ Len(rows) = m + 1 /\ rows[m + 1] = db.blocks[h]
           /\ \A i \in 1 .. m : rows[i] = c.rows[i]
        BY <2>3, <2>9, <2>10, AppendList
    <2>12. /\ IsList(contents) /\ Len(contents) = m + 1 /\ contents[m + 1] = content[h]
           /\ \A i \in 1 .. m : contents[i] = c.contents[i]
        BY <2>4, <2>9, <2>10, AppendList
    <2>13. h \in Heights /\ h = c.start + (m + 1) - 1
        BY <2>1, <2>2, <2>9, <2>10 DEF Heights
    <2>14. ASSUME NEW i \in 1 .. m + 1
           PROVE  /\ contents[i] \in MayHold(rows[i])
                  /\ c.calm => contents[i] = content[c.start + i - 1]
        <3>1. CASE i \in 1 .. m
            BY <2>8, <2>9, <2>10, <2>11, <2>12, <3>1 DEF AsNow
        <3>2. CASE i \notin 1 .. m
            <4>1. i = m + 1
                BY <3>2
            <4>2. content[h] \in MayHold(db.blocks[h])
                BY <1>1, <2>13 DEF RowsHold
            <4> QED BY <2>11, <2>12, <2>13, <4>1, <4>2
        <3> QED BY <3>1, <3>2
    <2>15. OfRows(x.rows, x.contents)'
        BY <2>7, <2>11, <2>12, <2>14 DEF OfRows
    <2>16. x.calm => todo' = <<>> /\ AsNow(x.start, x.contents)'
        BY <1>2, <2>7, <2>8, <2>12, <2>14 DEF AsNow
    <2>17. CallHolds(x)'
        BY <2>15, <2>16 DEF CallHolds
    <2> QED BY <1>5, <2>1, <2>6, <2>17
<1>17. CASE FileWindow
    <2>1. c.step = "scan" /\ c # NoCall
        BY <1>6, <1>8, <1>17 DEF FileWindow
    <2>2. call' = [c EXCEPT !.step = "done", !.sound = c.calm, !.intact = c.calm]
        BY <1>6, <1>17 DEF FileWindow
    <2>3. PICK x : x = call'
        OBVIOUS
    <2>4. /\ x.rows = c.rows /\ x.contents = c.contents /\ x.start = c.start
          /\ x.calm = c.calm /\ x.intact = c.calm /\ x.step = "done"
        BY <1>7, <2>2, <2>3 DEF IsCall
    <2>5. OfRows(c.rows, c.contents) /\ (c.calm => todo = <<>> /\ AsNow(c.start, c.contents))
        BY <1>7, <2>1 DEF CallHolds
    <2>6. CallHolds(x)'
        BY <1>2, <2>4, <2>5 DEF CallHolds, OfRows, AsNow
    <2> DEFINE entry == [kind |-> c.kind, start |-> c.start, last |-> c.last,
                         hash |-> c.hash, rows |-> c.rows,
                         contents |-> c.contents, calm |-> c.calm, intact |-> c.calm]
    <2>7. WindowHolds(entry)
        BY <2>5 DEF WindowHolds
    <2>8. windows' = windows \/ windows' = File(entry)
        BY <1>6, <1>17 DEF FileWindow
    <2> HIDE DEF entry
    <2>9. CASE windows' = windows
        BY <1>5, <2>3, <2>6, <2>9
    <2>10. CASE windows' = File(entry)
        <3> DEFINE S == {windows[i] : i \in 1 .. Len(windows)} \cup {entry}
        <3>1. windows = [i \in 1 .. Len(windows) |-> windows[i]] /\ Len(windows) \in Nat
            BY ListDomain DEF WindowInv, FiledInv
        <3>2. windows \in Seq(S) /\ entry \in S
            <4>1. \A i \in 1 .. Len(windows) : windows[i] \in S
                OBVIOUS
            <4>2. entry \in S
                OBVIOUS
            <4> HIDE DEF S
            <4> QED BY <3>1, <4>1, <4>2
        <3>3. \A w \in S : WindowHolds(w)
            BY <1>1, <2>7
        <3> HIDE DEF S
        <3>4. windows' \in Seq(S)
            BY <2>10, <3>2, FileKeeps
        <3>5. ASSUME NEW i \in 1 .. Len(windows') PROVE WindowHolds(windows[i])'
            <4>1. PICK w : w = windows'[i]
                OBVIOUS
            <4>2. w \in S
                BY <3>4, <4>1
            <4>3. WindowHolds(w)'
                BY <1>4, <3>3, <4>2
            <4> QED BY <4>1, <4>3
        <3> QED BY <1>1, <1>2, <1>3, <2>3, <2>6, <3>5 DEF ContentInv
    <2> QED BY <2>8, <2>9, <2>10
<1>18. CASE Reply
    <2>1. windows' = windows /\ call' = NoCall
        BY <1>18 DEF Reply
    <2> QED BY <1>5, <2>1
<1> QED
    BY <1>12, <1>13, <1>14, <1>15, <1>16, <1>17, <1>18 DEF WindowNext

LEMMA ContentStep ==
    ASSUME CacheInv, WindowInv, ContentInv, [WindowReadsNext]_windowReadsVars
    PROVE  ContentInv'
<1>1. CASE (StartInsert \/ StartRewind \/ StartPrune \/ Write \/ Serve) /\ Disturb
    BY <1>1, DisturbContent
<1>2. CASE Crash /\ WindowReset
    <2>1. windows' = <<>> /\ call' = NoCall /\ content' = content
        BY <1>2 DEF WindowReset
    <2>2. \A k \in Heights : db'.blocks[k] = db.blocks[k]
        <3>1. IsDisk(db) /\ db' = [db EXCEPT !.live.tree = NoTree]
            BY <1>2 DEF Crash, CacheInv, DiskOK
        <3>2. "blocks" \in DOMAIN db
            BY <3>1, TreesAre DEF IsDisk, Trees7
        <3> QED BY <3>1, <3>2
    <2>3. Len(<<>>) = 0
        BY NoWrite
    <2> QED BY <2>1, <2>2, <2>3 DEF ContentInv, RowsHold
<1>3. CASE WindowNext
    BY <1>3, CallContent
<1>4. CASE UNCHANGED windowReadsVars
    <2>1. windows' = windows /\ call' = call /\ content' = content /\ db' = db /\ todo' = todo
        BY <1>4 DEF windowReadsVars, windowVars, cacheVars
    <2> QED BY <2>1 DEF ContentInv, RowsHold, WindowHolds, CallHolds, OfRows, AsNow
<1> QED
    BY <1>1, <1>2, <1>3, <1>4 DEF WindowReadsNext

\* The cache's own invariants hold beside the windows.
LEMMA CacheSteps ==
    ASSUME [WindowReadsNext]_windowReadsVars
    PROVE  [CacheNext]_cacheVars
BY DEF WindowReadsNext, windowReadsVars, CacheNext, WindowNext, AskDigest, ProbeHash, AskPir, LookUp,
       ScanRow, FileWindow, Reply

\* The invariant of the windows, with those of the cache it rests on.
LEMMA WindowsHold ==
    WindowReadsSpec => [](CacheInv /\ TreeInv /\ SnapInv /\ EndInv /\ WindowInv /\ ContentInv)
<1> DEFINE Inv == CacheInv /\ TreeInv /\ SnapInv /\ EndInv /\ WindowInv /\ ContentInv
<1>1. CacheInit /\ WindowInit => Inv
    BY CacheStarts, TreeStarts, SnapStarts, EndStarts, WindowsStart, ContentsStart
<1>2. Inv /\ [WindowReadsNext]_windowReadsVars => Inv'
    <2> SUFFICES ASSUME Inv, [WindowReadsNext]_windowReadsVars PROVE Inv'
        OBVIOUS
    <2>1. [CacheNext]_cacheVars
        BY CacheSteps
    <2>2. CacheInv' /\ TreeInv' /\ SnapInv' /\ EndInv'
        BY <2>1, CacheStep, TreeStep, SnapStep, EndStep
    <2>3. WindowInv'
        BY WindowStep
    <2>4. ContentInv'
        BY ContentStep
    <2> QED BY <2>2, <2>3, <2>4
<1> QED
    BY <1>1, <1>2, PTL DEF WindowReadsSpec-----------------------------------------------------------------------------
(* Round 2 of detection, for any window and any indices of it.              *)

\* Greatest and least elements.
LEMMA MaxIn ==
    ASSUME NEW S, S \subseteq Int, NEW top \in S, \A k \in S : k <= top
    PROVE  Max(S) = top
<1>1. PICK m : m = Max(S)
    OBVIOUS
<1>2. m \in S /\ \A y \in S : y <= m
    BY <1>1 DEF Max
<1>3. m <= top /\ top <= m /\ m \in Int /\ top \in Int
    BY <1>2
<1> QED
    BY <1>1, <1>3

LEMMA MinOfTwo ==
    ASSUME NEW x \in Int, NEW y \in Int
    PROVE  Min({x, y}) = IF x <= y THEN x ELSE y
<1>1. CASE x <= y
    <2>1. {x, y} \subseteq Int /\ x \in {x, y} /\ \A k \in {x, y} : x <= k
        BY <1>1
    <2>2. Min({x, y}) = x
        BY <2>1, MinIn
    <2> QED BY <1>1, <2>2
<1>2. CASE ~ (x <= y)
    <2>1. {x, y} \subseteq Int /\ y \in {x, y} /\ \A k \in {x, y} : y <= k
        BY <1>2
    <2>2. Min({x, y}) = y
        BY <2>1, MinIn
    <2> QED BY <1>2, <2>2
<1> QED
    BY <1>1, <1>2

LEMMA MaxOfTwo ==
    ASSUME NEW x \in Int, NEW y \in Int
    PROVE  Max({x, y}) = IF x <= y THEN y ELSE x
<1>1. CASE x <= y
    <2>1. {x, y} \subseteq Int /\ y \in {x, y} /\ \A k \in {x, y} : k <= y
        BY <1>1
    <2>2. Max({x, y}) = y
        BY <2>1, MaxIn
    <2> QED BY <1>1, <2>2
<1>2. CASE ~ (x <= y)
    <2>1. {x, y} \subseteq Int /\ x \in {x, y} /\ \A k \in {x, y} : k <= x
        BY <1>2
    <2>2. Max({x, y}) = x
        BY <2>1, MaxIn
    <2> QED BY <1>2, <2>2
<1> QED
    BY <1>1, <1>2

\* No payload needs more limbs than there are.
LEMMA LimbsFit ==
    ASSUME NEW len \in Nat
    PROVE  LimbCount(len) \in 0 .. MaxLimbs
<1>1. MaxLimbs \in Nat \ {0}
    BY PirAssumption
<1>2. CASE len = 0 \/ len > MaxPayload
    BY <1>1, <1>2 DEF LimbCount
<1>3. CASE ~ (len = 0 \/ len > MaxPayload)
    <2>1. len >= 1 /\ len <= (MaxLimbs - 1) * 2
        BY <1>1, <1>3 DEF MaxPayload, LimbBytes
    <2>2. LimbCount(len) = 1 + (len + 2 - 1) \div 2
        BY <1>3 DEF LimbCount, DivCeil, LimbBytes
    <2> QED BY <1>1, <2>1, <2>2
<1> QED
    BY <1>2, <1>3

\* Rounding up leaves enough of them.
LEMMA PadEnough ==
    ASSUME NEW needed \in 0 .. MaxLimbs
    PROVE  PaddedLimbCount(needed) \in 1 .. MaxLimbs /\ needed <= PaddedLimbCount(needed)
<1>1. MaxLimbs \in Nat \ {0} /\ MinLimbs \in Nat \ {0}
    BY PirAssumption
<1>2. PICK n : n = Min({Max({needed, MinLimbs}), MaxLimbs})
    OBVIOUS
<1>3. PICK m : m = Max({needed, MinLimbs})
    OBVIOUS
<1>4. m \in Nat /\ m >= 1 /\ m >= needed
    BY <1>1, <1>3, MaxOfTwo
<1>5. n = IF m <= MaxLimbs THEN m ELSE MaxLimbs
    BY <1>1, <1>2, <1>3, <1>4, MinOfTwo
<1>6. n \in 1 .. MaxLimbs /\ needed <= n
    BY <1>1, <1>4, <1>5
<1> DEFINE S == {MaxLimbs} \cup {k \in n .. MaxLimbs : PowerOf2(k)}
<1>7. S \subseteq n .. MaxLimbs /\ S # {}
    BY <1>1, <1>6
<1>8. PaddedLimbCount(needed) = Min(S)
    BY <1>2 DEF PaddedLimbCount
<1> HIDE DEF S
<1>9. S \subseteq Nat /\ S \subseteq Int
    BY <1>1, <1>6, <1>7
<1>10. PICK low \in S : \A k \in S : low <= k
    BY <1>7, <1>9, LeastNat
<1>11. Min(S) = low
    BY <1>9, <1>10, MinIn
<1> QED
    BY <1>1, <1>6, <1>7, <1>8, <1>10, <1>11

\* The stripe and the slot of an index.
StripeOf(g) == (g - 1) \div Degree + 1
SlotOf(g) == ((g - 1) % Degree) + 1

LEMMA SlotOfIndex ==
    ASSUME NEW n \in Nat, NEW g \in 1 .. n,
           NEW s, s = StripeOf(g), NEW k, k = SlotOf(g)
    PROVE  s \in 1 .. StripeCount(n) /\ k \in 1 .. Degree /\ (s - 1) * Degree + k = g
<1>1. Degree \in Nat \ {0}
    BY PirAssumption
<1>2. PICK q : q = (g - 1) \div Degree
    OBVIOUS
<1>3. PICK r : r = (g - 1) % Degree
    OBVIOUS
<1>4. q \in Nat /\ r \in 0 .. Degree - 1 /\ g - 1 = Degree * q + r
    BY <1>1, <1>2, <1>3
<1>5. PICK c : c = (n + Degree - 1) \div Degree
    OBVIOUS
<1>6. PICK t : t = (n + Degree - 1) % Degree
    OBVIOUS
<1>7. c \in Nat /\ t \in 0 .. Degree - 1 /\ n + Degree - 1 = Degree * c + t
    BY <1>1, <1>5, <1>6
<1>8. q + 1 <= c
    <2>1. SUFFICES ASSUME c <= q PROVE FALSE
        BY <1>4, <1>7
    <2>2. Degree * c <= Degree * q
        BY <1>1, <1>4, <1>7, <2>1
    <2>3. n + Degree - 1 <= Degree * q + Degree - 1
        BY <1>1, <1>4, <1>7, <2>2
    <2>4. n <= Degree * q
        BY <1>1, <1>4, <2>3
    <2> QED BY <1>1, <1>4, <2>4
<1>9. StripeCount(n) = c
    <2>1. StripeCount(n) = Max({c, 1})
        BY <1>5 DEF StripeCount, DivCeil
    <2>2. c >= 1
        BY <1>4, <1>7, <1>8
    <2> QED BY <1>7, <2>1, <2>2, MaxOfTwo
<1>10. (q + 1 - 1) * Degree + (r + 1) = g
    BY <1>1, <1>4
<1> QED
    BY <1>1, <1>2, <1>3, <1>4, <1>7, <1>8, <1>9, <1>10 DEF StripeOf, SlotOf

\* What a wallet decrypts of a column.
Answered(indices, column, n) ==
    DecryptStripes(EvaluateStripes(Queries(indices, n), column, n), n)

\* An index a wallet asks comes back as the column has it.
LEMMA Fetched ==
    ASSUME NEW n \in Nat, NEW column \in Seq(Int), Len(column) = n,
           NEW indices, NEW i \in indices, i \in 0 .. n - 1
    PROVE  Answered(indices, column, n)[i + 1] = column[i + 1]
<1>1. PICK g : g = i + 1
    OBVIOUS
<1>2. g \in 1 .. n /\ g - 1 = i
    BY <1>1
<1>3. PICK s : s = StripeOf(g)
    OBVIOUS
<1>4. PICK k : k = SlotOf(g)
    OBVIOUS
<1>5. s \in 1 .. StripeCount(n) /\ k \in 1 .. Degree /\ (s - 1) * Degree + k = g
    BY <1>2, <1>3, <1>4, SlotOfIndex
<1>6. PICK Q : Q = Queries(indices, n)
    OBVIOUS
<1>7. Q[s][k] = 1
    <2>1. Q[s][k] = IF (s - 1) * Degree + k - 1 \in indices THEN 1 ELSE 0
        BY <1>5, <1>6 DEF Queries
    <2> PICK m : m = (s - 1) * Degree
        OBVIOUS
    <2>2. m \in Int /\ k \in Int /\ i \in Int /\ m + k = i + 1
        BY <1>1, <1>5, PirAssumption
    <2>3. (s - 1) * Degree + k - 1 = i
        BY <2>2
    <2> QED BY <2>1, <2>3
<1>8. PICK R : R = EvaluateStripes(Q, column, n)
    OBVIOUS
<1>9. R[s][k] = column[g]
    <2>1. Min({n, Len(column)}) = n
        BY MinOfTwo
    <2>2. R[s][k] = Q[s][k] * (IF (s - 1) * Degree + k <= Min({n, Len(column)})
                               THEN column[(s - 1) * Degree + k] ELSE 0)
        BY <1>5, <1>8 DEF EvaluateStripes
    <2>3. R[s][k] = 1 * column[g]
        BY <1>2, <1>5, <1>7, <2>1, <2>2
    <2>4. column[g] \in Int
        BY <1>2
    <2> QED BY <2>3, <2>4
<1>10. DecryptStripes(R, n)[g] = R[s][k]
    BY <1>2, <1>3, <1>4 DEF DecryptStripes, StripeOf, SlotOf
<1> QED
    BY <1>1, <1>6, <1>8, <1>9, <1>10 DEF Answered

\* An element of a list.
LEMMA Element == ASSUME NEW S, NEW s \in Seq(S), NEW k \in 1 .. Len(s) PROVE s[k] \in S
    OBVIOUS

\* A limb is a number.
LEMMA LimbsType ==
    ASSUME NEW data \in Seq(0 .. 255), NEW l \in Nat
    PROVE  PayloadLimb(data, l) \in Nat
<1> DEFINE ByteAt(k) == IF k <= Len(data) THEN data[k] ELSE 0
<1>1. MaxPayload \in Nat /\ Len(data) \in Nat
    BY PirAssumption DEF MaxPayload, LimbBytes
<1>2. CASE l = 0
    <2>1. PayloadLimb(data, l) = Min({Len(data), MaxPayload + 1})
        BY <1>2 DEF PayloadLimb
    <2> QED BY <1>1, <2>1, MinOfTwo
<1>3. CASE l # 0
    <2>1. ASSUME NEW k \in Nat \ {0} PROVE ByteAt(k) \in Nat
        <3>1. CASE k <= Len(data)
            <4>1. k \in 1 .. Len(data)
                BY <1>1, <3>1
            <4>2. data[k] \in 0 .. 255
                BY <4>1, Element
            <4>3. \A x \in 0 .. 255 : x \in Nat
                OBVIOUS
            <4> QED BY <3>1, <4>2, <4>3
        <3> QED BY <3>1
    <2>2. PayloadLimb(data, l) = ByteAt((l - 1) * 2 + 1) + 256 * ByteAt((l - 1) * 2 + 2)
        BY <1>3 DEF PayloadLimb, LimbBytes
    <2>3. (l - 1) * 2 + 1 \in Nat \ {0} /\ (l - 1) * 2 + 2 \in Nat \ {0}
        BY <1>3
    <2> HIDE DEF ByteAt
    <2> QED BY <2>1, <2>2, <2>3
<1> QED
    BY <1>2, <1>3

\* The bytes of a limb.
LEMMA TwoBytes ==
    ASSUME NEW low \in 0 .. 255, NEW high \in 0 .. 255
    PROVE  (low + 256 * high) % 256 = low /\ ((low + 256 * high) \div 256) % 256 = high
<1>1. (low + 256 * high) \div 256 = high
    OBVIOUS
<1>2. (low + 256 * high) % 256 = low
    OBVIOUS
<1>3. high % 256 = high
    OBVIOUS
<1> QED
    BY <1>1, <1>2, <1>3

\* Enough limbs of a payload are the payload again.
LEMMA Decoded ==
    ASSUME NEW data \in Seq(0 .. 255), NEW p \in Nat \ {0},
           LimbCount(PayloadLimb(data, 0)) <= p,
           NEW limbs, limbs = [l \in 1 .. p |-> PayloadLimb(data, l - 1)]
    PROVE  DecodeLimbs(limbs) = IF Len(data) <= MaxPayload THEN data ELSE <<>>
<1> DEFINE ByteAt(k) == IF k <= Len(data) THEN data[k] ELSE 0
<1>1. MaxPayload \in Nat /\ Len(data) \in Nat
    BY PirAssumption DEF MaxPayload, LimbBytes
<1>2. PICK first : first = PayloadLimb(data, 0)
    OBVIOUS
<1>3. first = IF Len(data) <= MaxPayload + 1 THEN Len(data) ELSE MaxPayload + 1
    <2>1. first = Min({Len(data), MaxPayload + 1})
        BY <1>2 DEF PayloadLimb
    <2> QED BY <1>1, <2>1, MinOfTwo
<1>4. limbs[1] = first
    BY <1>2
<1>5. limbs \in Seq(Nat) /\ Len(limbs) = p
    <2>1. \A l \in 1 .. p : l - 1 \in Nat
        OBVIOUS
    <2>2. \A l \in 1 .. p : PayloadLimb(data, l - 1) \in Nat
        BY <2>1, LimbsType
    <2> QED BY <2>2
<1>6. CASE Len(data) > MaxPayload
    <2>1. first = MaxPayload + 1
        BY <1>1, <1>3, <1>6
    <2>2. LimbCount(limbs[1]) = 0
        BY <1>1, <1>4, <2>1 DEF LimbCount
    <2>3. DecodeLimbs(limbs) = <<>>
        BY <2>2 DEF DecodeLimbs
    <2> QED BY <1>1, <1>6, <2>3
<1>7. CASE Len(data) = 0
    <2>1. LimbCount(limbs[1]) = 0
        BY <1>1, <1>3, <1>4, <1>7 DEF LimbCount
    <2>2. DecodeLimbs(limbs) = <<>>
        BY <2>1 DEF DecodeLimbs
    <2>3. data = <<>>
        BY <1>7
    <2> QED BY <2>2, <2>3
<1>8. CASE Len(data) \in 1 .. MaxPayload
    <2>1. first = Len(data) /\ ~ (first = 0 \/ first > MaxPayload)
        BY <1>1, <1>3, <1>8
    <2>2. LimbCount(first) = 1 + (first + 2 - 1) \div 2
        BY <2>1 DEF LimbCount, DivCeil, LimbBytes
    <2>3. LimbCount(first) # 0 /\ LimbCount(first) <= p
        BY <1>1, <1>2, <2>1, <2>2
    <2>4. ~ (LimbCount(limbs[1]) = 0 \/ Len(limbs) < LimbCount(limbs[1]))
        BY <1>1, <1>4, <1>5, <2>1, <2>2, <2>3
    <2> DEFINE Byte(k) == IF k % 2 = 1 THEN limbs[1 + (k + 2 - 1) \div 2] % 256
                          ELSE (limbs[1 + (k + 2 - 1) \div 2] \div 256) % 256
    <2>5. DecodeLimbs(limbs) = [k \in 1 .. limbs[1] |-> Byte(k)]
        BY <2>4 DEF DecodeLimbs, DivCeil, LimbBytes
    <2>6. ASSUME NEW k \in 1 .. Len(data)
          PROVE  Byte(k) = data[k]
        <3>1. PICK h : h = (k + 2 - 1) \div 2
            OBVIOUS
        <3>2. h \in Nat /\ h >= 1 /\ (k = 2 * h - 1 \/ k = 2 * h)
            BY <1>1, <3>1
        <3>3. 1 + h <= p
            <4>1. (k + 2 - 1) \div 2 <= (first + 2 - 1) \div 2
                BY <1>1, <2>1
            <4>2. (first + 2 - 1) \div 2 \in Nat
                BY <1>1, <2>1
            <4> QED BY <2>2, <2>3, <3>1, <3>2, <4>1, <4>2
        <3>4. PICK low : low = ByteAt(2 * h - 1)
            OBVIOUS
        <3>5. PICK high : high = ByteAt(2 * h)
            OBVIOUS
        <3>6. low \in 0 .. 255 /\ high \in 0 .. 255
            <4>1. ASSUME NEW x \in Nat \ {0} PROVE ByteAt(x) \in 0 .. 255
                <5>1. CASE x <= Len(data)
                    <6>1. x \in 1 .. Len(data)
                        BY <1>1, <5>1
                    <6>2. data[x] \in 0 .. 255
                        BY <6>1, Element
                    <6> QED BY <5>1, <6>2
                <5> QED BY <5>1
            <4>2. 2 * h - 1 \in Nat \ {0} /\ 2 * h \in Nat \ {0}
                BY <3>2
            <4> HIDE DEF ByteAt
            <4> QED BY <3>4, <3>5, <4>1, <4>2
        <3>7. limbs[1 + h] = low + 256 * high
            <4>1. limbs[1 + h] = PayloadLimb(data, h)
                <5>1. 1 + h \in 1 .. p /\ (1 + h) - 1 = h
                    BY <3>2, <3>3
                <5> QED BY <5>1
            <4>2. PayloadLimb(data, h) = ByteAt((h - 1) * 2 + 1) + 256 * ByteAt((h - 1) * 2 + 2)
                BY <3>2 DEF PayloadLimb, LimbBytes
            <4>3. (h - 1) * 2 + 1 = 2 * h - 1 /\ (h - 1) * 2 + 2 = 2 * h
                BY <3>2
            <4> HIDE DEF ByteAt
            <4> QED BY <3>4, <3>5, <4>1, <4>2, <4>3
        <3>8. CASE k = 2 * h - 1
            <4>1. k % 2 = 1
                BY <3>2, <3>8
            <4>2. (low + 256 * high) % 256 = low
                BY <3>6, TwoBytes, ZenonT(60)
            <4>3. low = data[k]
                BY <1>1, <3>4, <3>8
            <4> QED BY <3>1, <3>7, <4>1, <4>2, <4>3
        <3>9. CASE k = 2 * h
            <4>1. k % 2 # 1
                BY <3>2, <3>9
            <4>2. ((low + 256 * high) \div 256) % 256 = high
                BY <3>6, TwoBytes, ZenonT(60)
            <4>3. high = data[k]
                BY <1>1, <3>5, <3>9
            <4> QED BY <3>1, <3>7, <4>1, <4>2, <4>3
        <3> QED BY <3>2, <3>8, <3>9
    <2>7. data = [k \in 1 .. Len(data) |-> data[k]]
        OBVIOUS
    <2>8. limbs[1] = Len(data)
        BY <1>4, <2>1
    <2>9. DecodeLimbs(limbs) = [k \in 1 .. Len(data) |-> data[k]]
        <3> HIDE DEF Byte
        <3> QED BY <2>5, <2>6, <2>8
    <2>10. Len(data) <= MaxPayload
        BY <1>1, <1>8
    <2> QED BY <2>7, <2>9, <2>10
<1> QED
    BY <1>1, <1>6, <1>7, <1>8

\* Two indices, fetched limb by limb, come back as their payloads.
LEMMA Round2Whole ==
    ASSUME NEW P \in Seq(Seq(0 .. 255)),
           NEW i \in 0 .. Len(P) - 1, NEW j \in 0 .. Len(P) - 1
    PROVE  Round2(P, {i, j})[i] = IF Len(P[i + 1]) <= MaxPayload THEN P[i + 1] ELSE <<>>
<1> DEFINE n == Len(P)
           Col(l) == Answered({i, j}, LimbColumn(P, l), n)
           needed == Max({LimbCount(Col(0)[k + 1]) : k \in {i, j}})
<1>1. n \in Nat /\ MaxLimbs \in Nat /\ \A k \in 0 .. n - 1 : k + 1 \in 1 .. n /\ P[k + 1] \in Seq(0 .. 255)
    BY PirAssumption
<1>2. ASSUME NEW k \in {i, j}, NEW l \in Nat
      PROVE  Col(l)[k + 1] = PayloadLimb(P[k + 1], l)
    <2>1. PICK column : column = LimbColumn(P, l)
        OBVIOUS
    <2>2. column = [g \in 1 .. n |-> PayloadLimb(P[g], l)]
        BY <2>1 DEF LimbColumn
    <2>3. ASSUME NEW g \in 1 .. n PROVE PayloadLimb(P[g], l) \in Int
        <3>1. PICK row : row = P[g]
            OBVIOUS
        <3>2. row \in Seq(0 .. 255)
            BY <3>1, Element
        <3>3. PayloadLimb(row, l) \in Nat
            BY <3>2, LimbsType
        <3> QED BY <3>1, <3>3
    <2>4. column \in Seq(Int) /\ Len(column) = n
        BY <1>1, <2>2, <2>3
    <2> PICK I : I = {i, j}
        OBVIOUS
    <2>5. Answered(I, column, n)[k + 1] = column[k + 1]
        <3>1. k \in 0 .. n - 1 /\ k \in I
            OBVIOUS
        <3>2. n \in Nat /\ Len(column) = n /\ column \in Seq(Int)
            BY <1>1, <2>4
        <3> HIDE DEF n
        <3> QED BY <3>1, <3>2, Fetched, ZenonT(60)
    <2> QED BY <1>1, <2>1, <2>2, <2>5
<1>3. PICK a : a = LimbCount(PayloadLimb(P[i + 1], 0))
    OBVIOUS
<1>4. PICK b : b = LimbCount(PayloadLimb(P[j + 1], 0))
    OBVIOUS
<1>5. a \in 0 .. MaxLimbs /\ b \in 0 .. MaxLimbs
    BY <1>1, <1>3, <1>4, LimbsType, LimbsFit
<1>6. {LimbCount(Col(0)[k + 1]) : k \in {i, j}} = {a, b}
    <2>1. Col(0)[i + 1] = PayloadLimb(P[i + 1], 0) /\ Col(0)[j + 1] = PayloadLimb(P[j + 1], 0)
        BY <1>2
    <2> HIDE DEF Col
    <2> QED BY <1>3, <1>4, <2>1
<1>7. needed \in 0 .. MaxLimbs /\ a <= needed
    <2>1. needed = Max({a, b})
        BY <1>6
    <2>2. a \in Int /\ b \in Int
        BY <1>1, <1>5
    <2>3. Max({a, b}) = IF a <= b THEN b ELSE a
        BY <2>2, MaxOfTwo
    <2> HIDE DEF needed
    <2> QED BY <1>1, <1>5, <2>1, <2>3
<1>8. PICK p : p = PaddedLimbCount(needed)
    OBVIOUS
<1>9. p \in Nat \ {0} /\ a <= p
    <2> HIDE DEF needed
    <2> QED BY <1>1, <1>5, <1>7, <1>8, PadEnough, SMTT(30)
<1> DEFINE cols == [l \in 0 .. p - 1 |-> Col(l)]
<1>10. Round2(P, {i, j}) = [k \in {i, j} |-> DecodeLimbs([l \in 1 .. p |-> cols[l - 1][k + 1]])]
    BY <1>8 DEF Round2, Answered
<1>11. [l \in 1 .. p |-> cols[l - 1][i + 1]] = [l \in 1 .. p |-> PayloadLimb(P[i + 1], l - 1)]
    <2>1. ASSUME NEW l \in 1 .. p PROVE cols[l - 1][i + 1] = PayloadLimb(P[i + 1], l - 1)
        <3>1. l - 1 \in 0 .. p - 1 /\ l - 1 \in Nat
            BY <1>9
        <3>2. cols[l - 1] = Col(l - 1)
            BY <3>1
        <3>3. Col(l - 1)[i + 1] = PayloadLimb(P[i + 1], l - 1)
            BY <1>2, <3>1
        <3> HIDE DEF cols, Col
        <3> QED BY <3>2, <3>3
    <2> HIDE DEF cols
    <2> QED BY <2>1
<1>12. PICK limbs : limbs = [l \in 1 .. p |-> PayloadLimb(P[i + 1], l - 1)]
    OBVIOUS
<1>13. Round2(P, {i, j})[i] = DecodeLimbs(limbs)
    <2> HIDE DEF cols
    <2> QED BY <1>10, <1>11, <1>12
<1>14. DecodeLimbs(limbs) = IF Len(P[i + 1]) <= MaxPayload THEN P[i + 1] ELSE <<>>
    BY <1>1, <1>3, <1>9, <1>12, Decoded
<1> QED
    BY <1>13, <1>14

\* Two indices of a PIR window come back as what the rows held when it was read,
\* rows of the blocks below its end hash, or as nothing where a row is missing or
\* does not fit: with the poller's writes beside the calls, whatever clues and
\* metadata each of them merges (server.rs, fetch_pir_batch).
THEOREM WindowsReassemble == WindowReadsSpec => []PirReassembles
<1>1. ASSUME CallInv, CalmInv, ContentInv PROVE PirReassembles
    <2> USE ForkTreeAssumption
    <2>1. SUFFICES ASSUME call.kind = "pir", call.step = "done", call.calm, call.sound,
                          call.hash # None, crashes = 0,
                          NEW i \in 0 .. Len(call.rows) - 1, NEW j \in 0 .. Len(call.rows) - 1
                   PROVE  LET P    == [k \in 1 .. Len(call.rows) |-> PayloadIn(call.contents[k])]
                              got  == Round2(P, {i, j})[i]
                              read == call.contents[i + 1]
                              may  == Contents[ChainBlock(call.hash, call.start + i)]
                          IN  /\ got \in {<<>>} \cup {x.payload : x \in may}
                              /\ Undamaged => read \in may
                              /\ (read # None /\ Len(read.payload) <= MaxPayload)
                                    => got = read.payload
                              /\ call.intact => read = content[call.start + i]
        BY DEF PirReassembles, CalmAnswer
    <2>2. PICK c : c = call
        OBVIOUS
    <2>3. c # NoCall /\ Underway(c)
        BY <1>1, <2>1, <2>2 DEF CallInv, NoCall
    <2>4. /\ IsList(c.rows) /\ c.start \in Nat /\ Len(c.rows) \in Nat /\ Len(c.rows) >= 1
        BY <2>1, <2>2, <2>3, ListDomain DEF Underway, Spans, Heights
    <2>5. c.rows # <<>>
        BY <2>4, NoWrite
    <2>6. RowsTrue("pir", c.start, c.hash, c.rows)
        BY <1>1, <2>1, <2>2, <2>3, <2>5 DEF CalmInv
    <2>7. PICK rows : rows = c.rows
        OBVIOUS
    <2>8. PICK hash : hash = c.hash
        OBVIOUS
    <2>9. PICK n : n = Len(rows)
        OBVIOUS
    <2>10. /\ hash \in Hash /\ n \in Nat /\ i \in 0 .. n - 1 /\ j \in 0 .. n - 1
           /\ \A k \in 1 .. n : rows[k] # None =>
                 rows[k] \in Ancestors[hash] /\ HeightOf[rows[k]] = c.start + k - 1
           /\ ~ pruned => \A k \in 1 .. n : rows[k] # None
        BY <2>1, <2>2, <2>4, <2>6, <2>7, <2>8, <2>9 DEF RowsTrue
    <2>11. PICK contents : contents = c.contents
        OBVIOUS
    <2>a. CallHolds(c)
        BY <1>1, <2>2, <2>3 DEF ContentInv
    <2>b. Len(contents) = n /\ \A k \in 1 .. n : contents[k] \in MayHold(rows[k])
        BY <2>7, <2>9, <2>11, <2>a DEF CallHolds, OfRows
    <2>12. <<>> \in Seq(0 .. 255) /\ Len(<<>>) = 0 /\ MaxPayload \in Nat
        BY PirAssumption DEF MaxPayload, LimbBytes
    <2>13. PICK P : P = [k \in 1 .. n |-> PayloadIn(contents[k])]
        OBVIOUS
    <2>14. P \in Seq(Seq(0 .. 255)) /\ Len(P) = n
        <3>1. ASSUME NEW k \in 1 .. n PROVE PayloadIn(contents[k]) \in Seq(0 .. 255)
            BY <2>b, <2>12, HoldsForm
        <3> PICK T : T = Seq(0 .. 255)
            OBVIOUS
        <3>2. \A k \in 1 .. n : PayloadIn(contents[k]) \in T
            BY <3>1
        <3>3. P \in [1 .. n -> T]
            BY <2>13, <3>2, Zenon
        <3>4. n \in Nat
            BY <2>10
        <3> QED BY <3>3, <3>4
    <2>15. PICK got : got = Round2(P, {i, j})[i]
        OBVIOUS
    <2>16. got = IF Len(P[i + 1]) <= MaxPayload THEN P[i + 1] ELSE <<>>
        BY <2>10, <2>14, <2>15, Round2Whole
    <2>17. i + 1 \in 1 .. n /\ c.start + (i + 1) - 1 = c.start + i
        BY <2>4, <2>10
    <2>18. PICK b : b = rows[i + 1]
        OBVIOUS
    <2>19. PICK read : read = contents[i + 1]
        OBVIOUS
    <2>20. P[i + 1] = PayloadIn(read) /\ read \in MayHold(b)
        BY <2>b, <2>13, <2>17, <2>18, <2>19
    <2>21. PICK may : may = Contents[ChainBlock(hash, c.start + i)]
        OBVIOUS
    <2>22. c.intact => read = content[c.start + i]
        <3>1. c.calm /\ c.step = "done"
            BY <2>1, <2>2
        <3>2. c.intact => AsNow(c.start, contents)
            BY <2>11, <2>a, <3>1 DEF CallHolds
        <3> QED BY <2>b, <2>17, <2>19, <3>2 DEF AsNow
    <2>23. /\ got \in {<<>>} \cup {x.payload : x \in may}
           /\ Undamaged => read \in may
           /\ (read # None /\ Len(read.payload) <= MaxPayload) => got = read.payload
        <3>1. CASE b = None
            <4>1. read = None
                BY <2>20, <3>1 DEF MayHold
            <4>2. got = <<>>
                BY <2>12, <2>16, <2>20, <4>1 DEF PayloadIn
            <4>3. pruned
                BY <2>10, <2>17, <2>18, <3>1
            <4> QED BY <4>1, <4>2, <4>3 DEF Undamaged
        <3>2. CASE b # None
            <4>1. b \in Ancestors[hash] /\ HeightOf[b] = c.start + i /\ b \in Hash
                BY <2>10, <2>17, <2>18, <3>2
            <4>2. PICK x : x = ChainBlock(hash, c.start + i)
                OBVIOUS
            <4>3. x \in Ancestors[hash] /\ HeightOf[x] = c.start + i
                BY <4>1, <4>2 DEF ChainBlock
            <4>4. x = b
                BY <2>10, <4>1, <4>3, OneBlockPerHeight
            <4>5. read \in may
                BY <2>20, <2>21, <4>1, <4>2, <4>4 DEF MayHold
            <4>6. read # None => P[i + 1] = read.payload
                BY <2>20 DEF PayloadIn
            <4>7. read # None
                BY <2>20, <4>1, HoldsForm
            <4> QED BY <2>16, <4>5, <4>6, <4>7
        <3> QED BY <3>1, <3>2
    <2> QED BY <2>2, <2>7, <2>8, <2>9, <2>11, <2>13, <2>15, <2>19, <2>21, <2>22, <2>23
<1>2. WindowInv /\ ContentInv => PirReassembles
    BY <1>1 DEF WindowInv
<1> QED
    BY <1>2, WindowsHold, PTL-----------------------------------------------------------------------------
(* The slots of a digest, and what the message cap leaves of them.          *)

\* The slots of the heights in A, in their order, and how many a height has.
Slots(s, A) == FlattenSeq([i \in DOMAIN s |-> IF s[i] \in A THEN <<s[i]>> ELSE <<>>])
Count(s, h) == Len(Slots(s, {h}))

\* The slots as far as the m-th.
Upto(s, m) == SubSeq(s, 1, m)

\* It grows slot by slot.
LEMMA UptoGrows ==
    ASSUME NEW S, NEW s \in Seq(S)
    PROVE  /\ Upto(s, 0) = <<>> /\ Upto(s, Len(s)) = s
           /\ \A m \in 0 .. Len(s) : Upto(s, m) \in Seq(S) /\ Len(Upto(s, m)) = m
           /\ \A m \in 1 .. Len(s) : Upto(s, m) = Append(Upto(s, m - 1), s[m])
<1>1. Len(s) \in Nat
    OBVIOUS
<1>2. ASSUME NEW m \in 0 .. Len(s)
      PROVE  /\ Upto(s, m) \in Seq(S) /\ Len(Upto(s, m)) = m
             /\ \A i \in 1 .. m : Upto(s, m)[i] = s[i]
    BY <1>1 DEF Upto
<1>3. Upto(s, 0) = <<>>
    <2>1. Upto(s, 0) \in Seq(S) /\ Len(Upto(s, 0)) = 0
        BY <1>1, <1>2
    <2> QED BY <2>1
<1>4. Upto(s, Len(s)) = s
    <2>1. /\ Upto(s, Len(s)) \in Seq(S) /\ Len(Upto(s, Len(s))) = Len(s)
          /\ \A i \in 1 .. Len(s) : Upto(s, Len(s))[i] = s[i]
        BY <1>1, <1>2
    <2> QED BY <2>1, SeqEqual
<1>5. ASSUME NEW m \in 1 .. Len(s) PROVE Upto(s, m) = Append(Upto(s, m - 1), s[m])
    <2>1. PICK a : a = Upto(s, m - 1)
        OBVIOUS
    <2>2. PICK b : b = Upto(s, m)
        OBVIOUS
    <2>3. m - 1 \in 0 .. Len(s) /\ m \in 0 .. Len(s) /\ s[m] \in S
        BY <1>1
    <2>4. /\ a \in Seq(S) /\ Len(a) = m - 1 /\ \A i \in 1 .. m - 1 : a[i] = s[i]
          /\ b \in Seq(S) /\ Len(b) = m /\ \A i \in 1 .. m : b[i] = s[i]
        BY <1>2, <2>1, <2>2, <2>3
    <2>5. /\ Append(a, s[m]) \in Seq(S) /\ Len(Append(a, s[m])) = m
          /\ \A i \in 1 .. m - 1 : Append(a, s[m])[i] = a[i]
          /\ Append(a, s[m])[m] = s[m]
        BY <2>3, <2>4, AppendProperties
    <2>6. \A i \in 1 .. m : b[i] = Append(a, s[m])[i]
        BY <2>4, <2>5
    <2> QED BY <2>1, <2>2, <2>4, <2>5, <2>6, SeqEqual
<1> QED
    BY <1>2, <1>3, <1>4, <1>5

\* What is kept, and of which list.
LEMMA KeptItems ==
    ASSUME NEW S, NEW s \in Seq(S), NEW A
    PROVE  /\ Slots(s, A) \in Seq(S)
           /\ \A x : Has(Slots(s, A), x) <=> x \in A /\ Has(s, x)
<1>1. PICK n \in Nat : n = Len(s) /\ DOMAIN s = 1 .. n /\ \A i \in 1 .. n : s[i] \in S
    OBVIOUS
<1>2. PICK I : I = {i \in 1 .. n : s[i] \in A}
    OBVIOUS
<1> DEFINE g == [i \in 1 .. n |-> IF s[i] \in A THEN <<s[i]>> ELSE <<>>]
<1>3. Slots(s, A) = FlattenSeq(g)
    BY <1>1 DEF Slots
<1>4. g \in Seq(Seq(S)) /\ Len(g) = n
    <2>1. \A i \in 1 .. n : (IF s[i] \in A THEN <<s[i]>> ELSE <<>>) \in Seq(S)
        BY <1>1
    <2> QED BY <2>1
<1>5. Slots(s, A) \in Seq(S)
    <2> HIDE DEF g
    <2> QED BY <1>3, <1>4, FlattenType
<1>6. Slots(s, A) = Picked(n, I, s)
    <2>1. \A i \in 1 .. n : s[i] \in A <=> i \in I
        BY <1>2
    <2>2. g = [i \in 1 .. n |-> IF i \in I THEN <<s[i]>> ELSE <<>>]
        BY <2>1
    <2> QED BY <1>3, <2>2 DEF Picked
<1>7. \A x : Has(Picked(n, I, s), x) <=> \E i \in 1 .. n : i \in I /\ x = s[i]
    BY PickedItems
<1>8. ASSUME NEW x PROVE (\E i \in 1 .. n : i \in I /\ x = s[i]) <=> x \in A /\ Has(s, x)
    <2>1. Has(s, x) <=> \E i \in 1 .. n : s[i] = x
        BY <1>1 DEF Has
    <2>2. \A i \in 1 .. n : i \in I <=> s[i] \in A
        BY <1>2
    <2> QED BY <2>1, <2>2
<1>9. \A x : Has(Slots(s, A), x) <=> x \in A /\ Has(s, x)
    BY <1>6, <1>7, <1>8
<1> QED
    BY <1>5, <1>9

\* A slot more.
LEMMA KeptAppend ==
    ASSUME NEW S, NEW s \in Seq(S), NEW x \in S, NEW A
    PROVE  Slots(Append(s, x), A) = IF x \in A THEN Append(Slots(s, A), x) ELSE Slots(s, A)
<1>1. PICK n \in Nat : n = Len(s) /\ DOMAIN s = 1 .. n /\ \A i \in 1 .. n : s[i] \in S
    OBVIOUS
<1>2. PICK t : t = Append(s, x)
    OBVIOUS
<1>3. /\ t \in Seq(S) /\ Len(t) = n + 1 /\ t[n + 1] = x /\ \A i \in 1 .. n : t[i] = s[i]
      /\ DOMAIN t = 1 .. n + 1
    <2>1. t \in Seq(S) /\ Len(t) = n + 1 /\ t[n + 1] = x /\ \A i \in 1 .. n : t[i] = s[i]
        BY <1>1, <1>2, AppendProperties
    <2> QED BY <2>1
<1> DEFINE g == [i \in 1 .. n |-> IF s[i] \in A THEN <<s[i]>> ELSE <<>>]
           f == [i \in 1 .. n + 1 |-> IF t[i] \in A THEN <<t[i]>> ELSE <<>>]
<1>4. PICK e : e = IF x \in A THEN <<x>> ELSE <<>>
    OBVIOUS
<1>5. e \in Seq(S)
    BY <1>4
<1>6. g \in Seq(Seq(S)) /\ Len(g) = n
    <2>1. \A i \in 1 .. n : (IF s[i] \in A THEN <<s[i]>> ELSE <<>>) \in Seq(S)
        BY <1>1
    <2> QED BY <2>1
<1>7. f \in Seq(Seq(S)) /\ Len(f) = n + 1
    <2>1. \A i \in 1 .. n + 1 : t[i] \in S
        BY <1>3
    <2>2. \A i \in 1 .. n + 1 : (IF t[i] \in A THEN <<t[i]>> ELSE <<>>) \in Seq(S)
        BY <2>1
    <2> QED BY <2>2
<1>8. \A i \in 1 .. n : f[i] = g[i]
    BY <1>3
<1>9. f[n + 1] = e
    BY <1>3, <1>4
<1>10. Slots(s, A) = FlattenSeq(g) /\ Slots(t, A) = FlattenSeq(f)
    BY <1>1, <1>3 DEF Slots
<1> HIDE DEF f, g
<1>11. f = Append(g, e)
    <2> PICK T : T = Seq(S)
        OBVIOUS
    <2>1. g \in Seq(T) /\ e \in T /\ f \in Seq(T)
        BY <1>5, <1>6, <1>7
    <2>2. /\ Append(g, e) \in Seq(T) /\ Len(Append(g, e)) = n + 1 /\ Append(g, e)[n + 1] = e
          /\ \A i \in 1 .. n : Append(g, e)[i] = g[i]
        BY <1>6, <2>1, AppendProperties
    <2>3. \A i \in 1 .. n + 1 : f[i] = Append(g, e)[i]
        BY <1>8, <1>9, <2>2
    <2> QED BY <1>7, <2>1, <2>2, <2>3, SeqEqual
<1>12. Slots(t, A) = Slots(s, A) \o e
    BY <1>5, <1>6, <1>10, <1>11, FlattenAppend
<1>13. PICK k : k = Slots(s, A)
    OBVIOUS
<1>14. k \in Seq(S)
    BY <1>13, KeptItems
<1>15. CASE x \in A
    <2>1. Append(k, x) = k \o <<x>>
        BY <1>14, AppendIsConcat
    <2> QED BY <1>2, <1>4, <1>12, <1>13, <1>15, <2>1
<1>16. CASE x \notin A
    <2>1. k \o <<>> = k
        BY <1>14
    <2> QED BY <1>2, <1>4, <1>12, <1>13, <1>16, <2>1
<1> QED
    BY <1>15, <1>16

\* No slots.
LEMMA KeptNothing == ASSUME NEW A PROVE Slots(<<>>, A) = <<>> /\ Count(<<>>, A) = 0
<1>1. PICK s : s = <<>>
    OBVIOUS
<1>2. s \in Seq({}) /\ Len(s) = 0
    BY <1>1
<1>3. ASSUME NEW B PROVE Slots(s, B) = <<>>
    <2>1. Slots(s, B) \in Seq({})
        BY <1>2, KeptItems
    <2>2. PICK k : k = Slots(s, B)
        OBVIOUS
    <2>3. k \in Seq({})
        BY <2>1, <2>2
    <2>4. Len(k) = 0
        <3>1. SUFFICES ASSUME Len(k) # 0 PROVE FALSE
            OBVIOUS
        <3>2. 1 \in 1 .. Len(k)
            BY <2>3, <3>1
        <3>3. k[1] \in {}
            BY <2>3, <3>2, Element
        <3> QED BY <3>3
    <2> QED BY <2>2, <2>3, <2>4
<1>4. Len(<<>>) = 0
    OBVIOUS
<1> QED
    BY <1>1, <1>3, <1>4 DEF Count

\* A slot more counts for its height.
LEMMA CountAppend ==
    ASSUME NEW S, NEW s \in Seq(S), NEW x \in S, NEW h
    PROVE  /\ Count(s, h) \in Nat
           /\ Count(Append(s, x), h) = IF x = h THEN Count(s, h) + 1 ELSE Count(s, h)
<1>1. PICK k : k = Slots(s, {h})
    OBVIOUS
<1>2. k \in Seq(S)
    BY <1>1, KeptItems
<1>3. Slots(Append(s, x), {h}) = IF x = h THEN Append(k, x) ELSE k
    BY <1>1, KeptAppend
<1>4. Len(Append(k, x)) = Len(k) + 1 /\ Len(k) \in Nat
    BY <1>2, AppendProperties
<1> QED
    BY <1>1, <1>3, <1>4 DEF Count

\* A height whose slots are kept keeps them all.
LEMMA CountKept ==
    ASSUME NEW S, NEW s \in Seq(S), NEW A, NEW h \in A
    PROVE  Count(Slots(s, A), h) = Count(s, h)
<1> DEFINE P(m) == Count(Slots(Upto(s, m), A), h) = Count(Upto(s, m), h)
           Good == {m \in 0 .. Len(s) : P(m)}
<1>1. Len(s) \in Nat
    OBVIOUS
<1>2. 0 \in Good
    <2>1. Upto(s, 0) = <<>>
        BY UptoGrows
    <2>2. P(0)
        BY <2>1, KeptNothing
    <2> QED BY <1>1, <2>2
<1>3. ASSUME NEW m \in 1 .. Len(s), m - 1 \in Good PROVE m \in Good
    <2>1. PICK a : a = Upto(s, m - 1)
        OBVIOUS
    <2>2. m - 1 \in 0 .. Len(s) /\ m \in 0 .. Len(s) /\ s[m] \in S
        BY <1>1
    <2>3. a \in Seq(S) /\ Upto(s, m) = Append(a, s[m])
        BY <2>1, <2>2, UptoGrows
    <2>4. PICK x : x = s[m]
        OBVIOUS
    <2>5. PICK k : k = Slots(a, A)
        OBVIOUS
    <2>6. k \in Seq(S)
        BY <2>3, <2>5, KeptItems
    <2>7. Count(k, h) = Count(a, h)
        BY <1>3, <2>1, <2>5
    <2>8. Slots(Append(a, x), A) = IF x \in A THEN Append(k, x) ELSE k
        BY <2>2, <2>3, <2>4, <2>5, KeptAppend, ZenonT(60)
    <2>9. /\ Count(Append(a, x), h) = IF x = h THEN Count(a, h) + 1 ELSE Count(a, h)
          /\ Count(Append(k, x), h) = IF x = h THEN Count(k, h) + 1 ELSE Count(k, h)
        BY <2>2, <2>3, <2>4, <2>6, CountAppend
    <2>10. Count(Slots(Append(a, x), A), h) = Count(Append(a, x), h)
        BY <2>7, <2>8, <2>9
    <2>11. P(m)
        BY <2>3, <2>4, <2>10
    <2> QED BY <2>2, <2>11
<1>4. Len(s) \in Good
    <2> HIDE DEF Good
    <2>1. \A m \in 0 .. Len(s) : m \in Good
        BY <1>1, <1>2, <1>3, Upwards
    <2> QED BY <1>1, <2>1
<1>5. P(Len(s))
    BY <1>4
<1>6. Upto(s, Len(s)) = s
    BY UptoGrows
<1> QED
    BY <1>5, <1>6

\* A height without a slot.
LEMMA CountNone ==
    ASSUME NEW S, NEW s \in Seq(S), NEW h, ~ Has(s, h)
    PROVE  Count(s, h) = 0
<1>1. PICK k : k = Slots(s, {h})
    OBVIOUS
<1>2. k \in Seq(S) /\ \A x : Has(k, x) <=> x \in {h} /\ Has(s, x)
    BY <1>1, KeptItems
<1>3. \A x : ~ Has(k, x)
    BY <1>2
<1>4. Len(k) = 0
    <2>1. SUFFICES ASSUME Len(k) # 0 PROVE FALSE
        OBVIOUS
    <2>2. 1 \in 1 .. Len(k)
        BY <1>2, <2>1
    <2> QED BY <1>3, <2>2 DEF Has
<1> QED
    BY <1>1, <1>4 DEF Count

\* The cap leaves all the slots of a height not above one it leaves.
LEMMA CapCounts ==
    ASSUME NEW slots \in Seq(Nat), NEW cap, cap = CapToWholeHeights(slots),
           NEW h \in Nat, NEW k \in Nat, Has(cap, k), h <= k
    PROVE  Count(cap, h) = Count(slots, h)
<1>1. MaxMessages \in Nat \ {0} /\ Len(slots) \in Nat
    BY WindowAssumption
<1>2. CASE Len(slots) <= MaxMessages
    BY <1>2 DEF CapToWholeHeights
<1>3. CASE ~ (Len(slots) <= MaxMessages)
    <2>1. PICK t : t = slots[MaxMessages]
        OBVIOUS
    <2>2. MaxMessages \in 1 .. Len(slots) /\ t \in Nat
        BY <1>1, <1>3, <2>1
    <2>3. PICK B : B = {x \in Nat : x < t}
        OBVIOUS
    <2>4. \A i \in 1 .. Len(slots) : slots[i] \in Nat
        OBVIOUS
    <2>5. DOMAIN slots = 1 .. Len(slots)
        OBVIOUS
    <2>6. Filter(slots, LAMBDA x : x < slots[MaxMessages]) = Slots(slots, B)
        <3>1. \A i \in 1 .. Len(slots) : slots[i] < t <=> slots[i] \in B
            BY <2>3, <2>4
        <3>2. [i \in DOMAIN slots |-> IF slots[i] < slots[MaxMessages] THEN <<slots[i]>> ELSE <<>>]
                  = [i \in DOMAIN slots |-> IF slots[i] \in B THEN <<slots[i]>> ELSE <<>>]
            BY <2>1, <2>5, <3>1
        <3> QED BY <3>2 DEF Filter, Concat, Slots
    <2>7. Filter(slots, LAMBDA x : x = slots[MaxMessages]) = Slots(slots, {t})
        <3>1. \A i \in 1 .. Len(slots) : slots[i] = t <=> slots[i] \in {t}
            OBVIOUS
        <3>2. [i \in DOMAIN slots |-> IF slots[i] = slots[MaxMessages] THEN <<slots[i]>> ELSE <<>>]
                  = [i \in DOMAIN slots |-> IF slots[i] \in {t} THEN <<slots[i]>> ELSE <<>>]
            BY <2>1, <2>5, <3>1
        <3> QED BY <3>2 DEF Filter, Concat, Slots
    <2>8. cap = IF Slots(slots, B) # <<>> THEN Slots(slots, B) ELSE Slots(slots, {t})
        BY <1>3, <2>6, <2>7 DEF CapToWholeHeights
    <2>9. CASE Slots(slots, B) # <<>>
        <3>1. k \in B
            BY <2>8, <2>9, KeptItems
        <3>2. h \in B
            BY <2>2, <2>3, <3>1
        <3> QED BY <2>8, <2>9, <3>2, CountKept
    <2>10. CASE Slots(slots, B) = <<>>
        <3>1. k = t
            BY <2>8, <2>10, KeptItems
        <3>2. CASE h = t
            BY <2>8, <2>10, <3>2, CountKept
        <3>3. CASE h # t
            <4>1. h \in B
                BY <2>2, <2>3, <3>1, <3>3
            <4>2. Count(slots, h) = 0
                <5>1. Count(Slots(slots, B), h) = Count(slots, h)
                    BY <4>1, CountKept
                <5> QED BY <2>10, <5>1, KeptNothing
            <4>3. ~ Has(cap, h) /\ cap \in Seq(Nat)
                BY <2>8, <2>10, <3>3, KeptItems
            <4> QED BY <4>2, <4>3, CountNone
        <3> QED BY <3>2, <3>3
    <2> QED BY <2>9, <2>10
<1> QED
    BY <1>2, <1>3

\* It leaves slots of the list.
LEMMA CapItems ==
    ASSUME NEW slots \in Seq(Nat), NEW cap, cap = CapToWholeHeights(slots)
    PROVE  cap \in Seq(Nat) /\ \A x : Has(cap, x) => Has(slots, x)
<1>1. MaxMessages \in Nat \ {0} /\ Len(slots) \in Nat
    BY WindowAssumption
<1>2. CASE Len(slots) <= MaxMessages
    BY <1>2 DEF CapToWholeHeights
<1>3. CASE ~ (Len(slots) <= MaxMessages)
    <2>1. PICK B : B = {x \in Nat : x < slots[MaxMessages]}
        OBVIOUS
    <2>2. PICK C : C = {slots[MaxMessages]}
        OBVIOUS
    <2>3. \A i \in DOMAIN slots : slots[i] \in Nat
        OBVIOUS
    <2>4. Filter(slots, LAMBDA x : x < slots[MaxMessages]) = Slots(slots, B)
        <3>1. [i \in DOMAIN slots |-> IF slots[i] < slots[MaxMessages] THEN <<slots[i]>> ELSE <<>>]
                  = [i \in DOMAIN slots |-> IF slots[i] \in B THEN <<slots[i]>> ELSE <<>>]
            BY <2>1, <2>3
        <3> QED BY <3>1 DEF Filter, Concat, Slots
    <2>5. Filter(slots, LAMBDA x : x = slots[MaxMessages]) = Slots(slots, C)
        <3>1. [i \in DOMAIN slots |-> IF slots[i] = slots[MaxMessages] THEN <<slots[i]>> ELSE <<>>]
                  = [i \in DOMAIN slots |-> IF slots[i] \in C THEN <<slots[i]>> ELSE <<>>]
            BY <2>2, <2>3
        <3> QED BY <3>1 DEF Filter, Concat, Slots
    <2>6. cap = Slots(slots, B) \/ cap = Slots(slots, C)
        BY <1>3, <2>4, <2>5 DEF CapToWholeHeights
    <2> QED BY <2>6, KeptItems
<1> QED
    BY <1>2, <1>3

\* The slots of a height that a run of equal slots adds.
RunOf(v, m) == [k \in 1 .. m |-> v]
WithRun(s, v, m) == s \o RunOf(v, m)
Added(v, m, h) == IF v = h THEN m ELSE 0

\* A run counts for its height.
LEMMA CountRun ==
    ASSUME NEW s \in Seq(Nat), NEW v \in Nat, NEW m \in Nat, NEW h
    PROVE  Count(WithRun(s, v, m), h) = Count(s, h) + Added(v, m, h)
<1> DEFINE P(j) == Count(s \o RunOf(v, j), h) = Count(s, h) + (IF v = h THEN j ELSE 0)
           Good == {j \in 0 .. m : P(j)}
<1>1. ASSUME NEW j \in 0 .. m
      PROVE  /\ RunOf(v, j) \in Seq(Nat) /\ Len(RunOf(v, j)) = j
             /\ \A i \in 1 .. j : RunOf(v, j)[i] = v
    BY DEF RunOf
<1>2. Count(s, h) \in Nat
    BY CountAppend
<1>3. 0 \in Good
    <2>1. RunOf(v, 0) \in Seq(Nat) /\ Len(RunOf(v, 0)) = 0
        BY <1>1
    <2>2. RunOf(v, 0) = <<>>
        BY <2>1
    <2>3. s \o <<>> = s
        OBVIOUS
    <2>4. Count(s \o RunOf(v, 0), h) = Count(s, h)
        BY <2>2, <2>3
    <2>5. P(0)
        BY <1>2, <2>4
    <2> QED BY <2>5
<1>4. ASSUME NEW j \in 1 .. m, j - 1 \in Good PROVE j \in Good
    <2>1. j - 1 \in 0 .. m /\ j \in 0 .. m
        OBVIOUS
    <2>2. PICK r : r = RunOf(v, j - 1)
        OBVIOUS
    <2>3. r \in Seq(Nat) /\ Len(r) = j - 1 /\ \A i \in 1 .. j - 1 : r[i] = v
        BY <1>1, <2>1, <2>2
    <2>4. RunOf(v, j) = Append(r, v)
        <3>1. /\ Append(r, v) \in Seq(Nat) /\ Len(Append(r, v)) = j /\ Append(r, v)[j] = v
              /\ \A i \in 1 .. j - 1 : Append(r, v)[i] = r[i]
            BY <2>1, <2>3, AppendProperties
        <3>2. PICK b : b = RunOf(v, j)
            OBVIOUS
        <3>3. b \in Seq(Nat) /\ Len(b) = j /\ \A i \in 1 .. j : b[i] = v
            BY <1>1, <2>1, <3>2
        <3>4. \A i \in 1 .. j : b[i] = Append(r, v)[i]
            BY <2>3, <3>1, <3>3
        <3> QED BY <3>1, <3>2, <3>3, <3>4, SeqEqual
    <2>5. PICK a : a = s \o r
        OBVIOUS
    <2>6. a \in Seq(Nat)
        BY <2>3, <2>5
    <2>7. s \o Append(r, v) = Append(a, v)
        <3>1. /\ Append(r, v) = r \o <<v>>
              /\ Append(a, v) = a \o <<v>>
              /\ <<v>> \in Seq(Nat)
            <4>1. ASSUME NEW q \in Seq(Nat) PROVE Append(q, v) = q \o <<v>>
                BY AppendIsConcat, Zenon
            <4>2. <<v>> \in Seq(Nat)
                OBVIOUS
            <4> QED BY <2>3, <2>6, <4>1, <4>2
        <3>2. s \o (r \o <<v>>) = (s \o r) \o <<v>>
            BY <2>3, <3>1, ConcatAssociative, SMTT(30)
        <3> QED BY <2>5, <3>1, <3>2
    <2>8. Count(Append(a, v), h) = IF v = h THEN Count(a, h) + 1 ELSE Count(a, h)
        BY <2>6, CountAppend
    <2>9. Count(a, h) = Count(s, h) + (IF v = h THEN j - 1 ELSE 0)
        BY <1>4, <2>2, <2>5
    <2>10. P(j)
        BY <1>2, <2>1, <2>4, <2>7, <2>8, <2>9
    <2> QED BY <2>1, <2>10
<1>5. m \in Good
    <2> HIDE DEF Good
    <2>1. \A j \in 0 .. m : j \in Good
        BY <1>3, <1>4, Upwards
    <2> QED BY <2>1
<1> QED
    BY <1>2, <1>5 DEF WithRun, Added

\* The slots of what was read of a window: of each height as many as clues of its row.
LEMMA SlotCounts ==
    ASSUME NEW start \in Nat, NEW contents, IsList(contents),
           \A i \in 1 .. Len(contents) : CluesIn(contents[i]) \in Nat,
           NEW slots, slots = SlotsOf(start, contents)
    PROVE  /\ slots \in Seq(Nat)
           /\ \A x : Has(slots, x) => x \in start .. start + Len(contents) - 1
           /\ \A i \in 1 .. Len(contents) : Count(slots, start + i - 1) = CluesIn(contents[i])
<1>1. PICK n \in Nat : n = Len(contents) /\ DOMAIN contents = 1 .. n
    BY ListDomain
<1>2. PICK w : w = [i \in 1 .. n |-> CluesIn(contents[i])]
    OBVIOUS
<1>3. \A i \in 1 .. n : w[i] \in Nat /\ start + i - 1 \in Nat
    BY <1>1, <1>2
<1> DEFINE g == [i \in 1 .. n |-> RunOf(start + i - 1, w[i])]
<1>4. slots = FlattenSeq(g)
    <2>1. PICK at : at = [j \in DOMAIN contents |-> j]
        OBVIOUS
    <2>2. DOMAIN at = 1 .. n /\ \A i \in 1 .. n : at[i] = i
        BY <1>1, <2>1
    <2>3. ASSUME NEW i \in 1 .. n
          PROVE  [k \in 1 .. CluesIn(contents[at[i]]) |-> start + at[i] - 1]
                     = RunOf(start + i - 1, w[i])
        <3>1. at[i] = i /\ w[i] = CluesIn(contents[i])
            BY <1>1, <1>2, <2>2
        <3> QED BY <3>1 DEF RunOf
    <2>4. [i \in DOMAIN at |-> [k \in 1 .. CluesIn(contents[at[i]]) |-> start + at[i] - 1]] = g
        BY <2>2, <2>3
    <2>5. SlotsOf(start, contents) =
              FlattenSeq([i \in DOMAIN at |->
                  [k \in 1 .. CluesIn(contents[at[i]]) |-> start + at[i] - 1]])
        BY <2>1, Zenon DEF SlotsOf, Concat
    <2> HIDE DEF g
    <2> QED BY <2>4, <2>5
<1>5. \A i \in 1 .. n : /\ RunOf(start + i - 1, w[i]) \in Seq(Nat)
                        /\ Len(RunOf(start + i - 1, w[i])) = w[i]
                        /\ \A k \in 1 .. w[i] : RunOf(start + i - 1, w[i])[k] = start + i - 1
    BY <1>3 DEF RunOf
<1>6. g \in Seq(Seq(Nat)) /\ Len(g) = n /\ \A i \in 1 .. n : g[i] = RunOf(start + i - 1, w[i])
    <2> PICK T : T = Seq(Nat)
        OBVIOUS
    <2>1. \A i \in 1 .. n : RunOf(start + i - 1, w[i]) \in T
        BY <1>5
    <2> QED BY <2>1
<1> HIDE DEF g
<1>7. slots \in Seq(Nat)
    BY <1>4, <1>6, FlattenType
<1>8. ASSUME NEW x, Has(slots, x) PROVE x \in start .. start + Len(contents) - 1
    <2>1. \E i \in 1 .. n : Has(g[i], x)
        BY <1>4, <1>6, <1>8, FlattenItems
    <2>2. PICK i \in 1 .. n : Has(g[i], x)
        BY <2>1
    <2>3. x = start + i - 1
        BY <1>5, <1>6, <2>2 DEF Has
    <2> QED BY <1>1, <2>3
<1>9. PICK f \in [0 .. n -> Seq(Nat)] :
          /\ f[0] = <<>> /\ f[n] = slots
          /\ \A i \in 1 .. n : f[i] = f[i - 1] \o g[i]
    <2>1. g \in Seq(Seq(Nat)) /\ Len(g) = n
        BY <1>6
    <2>2. \E f \in [0 .. Len(g) -> Seq(Nat)] :
              /\ f[0] = <<>> /\ f[Len(g)] = FlattenSeq(g)
              /\ \A i \in 1 .. Len(g) : f[i] = f[i - 1] \o g[i]
        BY <2>1, FlattenRuns, Zenon
    <2> QED BY <1>4, <2>1, <2>2
<1>10. ASSUME NEW i \in 1 .. n PROVE Count(slots, start + i - 1) = w[i]
    <2> PICK h : h = start + i - 1
        OBVIOUS
    <2> DEFINE P(m) == Count(f[m], h) = IF i <= m THEN w[i] ELSE 0
               Good == {m \in 0 .. n : P(m)}
    <2>1. 0 \in Good
        <3>1. Count(f[0], h) = 0
            BY <1>9, KeptNothing
        <3> QED BY <3>1
    <2>2. ASSUME NEW m \in 1 .. n, m - 1 \in Good PROVE m \in Good
        <3>1. m - 1 \in 0 .. n /\ m \in 0 .. n /\ f[m - 1] \in Seq(Nat)
            OBVIOUS
        <3>2. Count(f[m - 1], h) = IF i <= m - 1 THEN w[i] ELSE 0
            BY <2>2
        <3>3. PICK v : v = start + m - 1
            OBVIOUS
        <3>4. f[m] = f[m - 1] \o RunOf(v, w[m]) /\ v \in Nat /\ w[m] \in Nat
            BY <1>3, <1>6, <1>9, <3>3
        <3>5. Count(f[m], h) = IF v = h THEN Count(f[m - 1], h) + w[m] ELSE Count(f[m - 1], h)
            <4>1. PICK a : a = f[m - 1]
                OBVIOUS
            <4>2. PICK c \in Nat : c = w[m]
                BY <3>4
            <4>3. a \in Seq(Nat) /\ c \in Nat /\ v \in Nat
                BY <3>1, <3>4, <4>1, <4>2
            <4>4. Count(WithRun(a, v, c), h) = Count(a, h) + Added(v, c, h)
                BY <4>3, CountRun
            <4>5. Count(a, h) \in Nat
                BY <4>3, CountAppend
            <4> QED BY <3>4, <4>1, <4>2, <4>3, <4>4, <4>5 DEF WithRun, Added
        <3>6. v = h <=> m = i
            BY <1>3, <3>3
        <3>7. P(m)
            BY <1>3, <3>2, <3>5, <3>6
        <3> QED BY <3>1, <3>7
    <2>3. P(n)
        <3> HIDE DEF Good
        <3>1. \A m \in 0 .. n : m \in Good
            BY <2>1, <2>2, Upwards
        <3>2. n \in Good
            BY <3>1
        <3> QED BY <3>2 DEF Good
    <2> QED BY <1>9, <2>3
<1> QED
    BY <1>1, <1>2, <1>7, <1>8, <1>10

\* The count the wallet makes.
LEMMA CountFiltered ==
    ASSUME NEW s, NEW h
    PROVE  Len(Filter(s, LAMBDA k : k = h)) = Count(s, h)
<1>1. \A i \in DOMAIN s : s[i] = h <=> s[i] \in {h}
    OBVIOUS
<1>2. [i \in DOMAIN s |-> IF s[i] = h THEN <<s[i]>> ELSE <<>>]
          = [i \in DOMAIN s |-> IF s[i] \in {h} THEN <<s[i]>> ELSE <<>>]
    BY <1>1
<1> QED
    BY <1>2 DEF Filter, Concat, Count, Slots

\* A bounded set has a greatest element.
LEMMA TopOf ==
    ASSUME NEW N \in Nat, NEW S, S \subseteq 0 .. N, S # {}
    PROVE  Max(S) \in S
<1> DEFINE T == {N - k : k \in S}
<1>1. T \subseteq Nat /\ T # {}
    OBVIOUS
<1>2. PICK m \in T : \A k \in T : m <= k
    <2> HIDE DEF T
    <2> QED BY <1>1, LeastNat
<1>3. PICK top \in S : m = N - top
    BY <1>2
<1>4. ASSUME NEW k \in S PROVE k <= top
    <2>1. N - k \in T
        OBVIOUS
    <2>2. m <= N - k
        BY <1>2, <2>1
    <2> QED BY <1>3, <2>2
<1>5. S \subseteq Int
    OBVIOUS
<1>6. Max(S) = top
    BY <1>4, <1>5, MaxIn
<1> QED
    BY <1>6

\* A wallet that follows its digests leaves behind no height whose row the digest did
\* not cover: each is in the cache, all the clues that were read of it are in the
\* slots, and all it has now if it was not written since, however the digest was cut
\* (server.rs, digest_evaluable_end and cap_messages_to_whole_heights), for any order
\* of the poller's writes and the calls and whatever clues each insertion merges.
THEOREM DigestsLoseNothing == WindowReadsSpec => []DigestLosesNoClue
<1>1. ASSUME CacheInv, TreeInv, EndInv, WindowInv, ContentInv PROVE DigestLosesNoClue
    <2> USE ForkTreeAssumption
    <2>1. SUFFICES ASSUME call.kind = "digest", call.step = "done", call.calm, crashes = 0,
                          call.rows # <<>> => call.sound,
                          NEW h \in call.start .. ScannedTo(call)
                   PROVE  LET i == h - call.start + 1
                          IN  /\ call.rows[i] \in Hash /\ call.rows[i] = db.blocks[h]
                              /\ Shown(call, h) = CluesIn(call.contents[i])
                              /\ call.intact => call.contents[i] = content[h]
        BY DEF DigestLosesNoClue, CalmAnswer
    <2>2. PICK c : c = call
        OBVIOUS
    <2>3. c # NoCall /\ Underway(c) /\ c.step = "done" /\ c.kind = "digest"
        BY <1>1, <2>1, <2>2 DEF WindowInv, CallInv, NoCall
    <2>4. c.start \in Nat /\ c.end \in Nat /\ c.complete \in BOOLEAN /\ Heights \subseteq Nat
        BY <2>3 DEF Underway, Heights
    <2>5. PICK slots : slots = SlotsOf(c.start, c.contents)
        OBVIOUS
    <2>6. PICK cap : cap = CapToWholeHeights(slots)
        OBVIOUS
    <2>7. Digest(c) = [slots |-> cap, complete |-> c.complete /\ cap = slots]
        BY <2>5, <2>6 DEF Digest
    <2>8. ScannedTo(c) = IF c.complete /\ cap = slots THEN c.end
                         ELSE IF cap = <<>> THEN c.start - 1
                         ELSE Max(Range(cap))
        <3>1. PICK d : d = Digest(c)
            OBVIOUS
        <3>2. d.slots = cap /\ (d.complete <=> c.complete /\ cap = slots)
            <4>1. PICK q : q = (c.complete /\ cap = slots)
                OBVIOUS
            <4>2. d = [slots |-> cap, complete |-> q]
                BY <2>7, <3>1, <4>1, Zenon
            <4>3. d.slots = cap /\ d.complete = q
                BY <4>2
            <4> QED BY <4>1, <4>3, Zenon
        <3>3. ScannedTo(c) = IF d.complete THEN c.end
                             ELSE IF d.slots = <<>> THEN c.start - 1
                             ELSE Max(Range(d.slots))
            BY <3>1, Zenon DEF ScannedTo
        <3> QED BY <3>2, <3>3, Zenon
    <2>9. Shown(c, h) = Count(cap, h)
        <3>1. Digest(c).slots = cap
            BY <2>7
        <3>2. Len(FlattenSeq([i \in DOMAIN cap |-> IF cap[i] = h THEN <<cap[i]>> ELSE <<>>]))
                  = Count(cap, h)
            BY CountFiltered DEF Filter, Concat
        <3>3. Shown(c, h) =
                  Len(FlattenSeq([i \in DOMAIN cap |-> IF cap[i] = h THEN <<cap[i]>> ELSE <<>>]))
            BY <3>1 DEF Shown, Filter, Concat
        <3> QED BY <3>2, <3>3
    <2>a. /\ IsList(c.contents) /\ Len(c.contents) = Len(c.rows)
          /\ \A i \in 1 .. Len(c.rows) : CluesIn(c.contents[i]) \in Nat
          /\ c.intact => AsNow(c.start, c.contents)
        <3>1. CallHolds(c)
            BY <1>1, <2>2, <2>3 DEF ContentInv
        <3>2. \A i \in 1 .. Len(c.rows) : c.contents[i] \in MayHold(c.rows[i])
            BY <3>1 DEF CallHolds, OfRows
        <3>3. \A i \in 1 .. Len(c.rows) : CluesIn(c.contents[i]) \in Nat
            BY <3>2, HoldsForm
        <3> QED BY <2>1, <2>2, <3>1, <3>3 DEF CallHolds, OfRows
    <2>10. CASE c.rows = <<>>
        <3>1. ~ c.complete
            <4>1. SUFFICES ASSUME Spans(c), Len(c.rows) = c.last - c.start + 1 PROVE FALSE
                BY <2>3 DEF Underway
            <4> QED BY <2>4, <2>10, <4>1, NoWrite DEF Spans
        <3>2. IsList(c.contents) /\ Len(c.contents) = 0
            BY <2>10, <2>a, NoWrite
        <3>3. slots \in Seq(Nat) /\ \A x : ~ Has(slots, x)
            BY <2>4, <2>5, <3>2, SlotCounts, SMTT(30)
        <3>4. cap \in Seq(Nat) /\ \A x : ~ Has(cap, x)
            BY <2>6, <3>3, CapItems
        <3>5. cap = <<>>
            <4>1. SUFFICES ASSUME cap # <<>> PROVE FALSE
                OBVIOUS
            <4>2. 1 \in 1 .. Len(cap)
                BY <3>4, <4>1
            <4> QED BY <3>4, <4>2 DEF Has
        <3>6. ScannedTo(c) = c.start - 1
            BY <2>8, <3>1, <3>5
        <3> QED BY <2>1, <2>2, <2>4, <3>6
    <2>11. CASE c.rows # <<>>
        <3>1. /\ Spans(c) /\ IsList(c.rows) /\ Len(c.rows) = c.last - c.start + 1
              /\ c.complete => c.last = c.end
            BY <2>3, <2>11 DEF Underway
        <3>2. c.start \in Heights /\ c.last \in Heights /\ c.start <= c.last /\ c.last \in Nat
            BY <2>4, <3>1 DEF Spans
        <3>3. /\ todo = <<>> /\ Probed(c.start, c.last)
              /\ RowsTrue("digest", c.start, db.hashes[c.last], c.rows)
            BY <1>1, <2>1, <2>2, <2>3, <2>11 DEF WindowInv, CalmInv, EndHash
        <3>4. WholeCache(db)
            BY <1>1, <2>1, <3>3, IdleCache
        <3>5. \A i \in 1 .. Len(c.rows) : c.rows[i] = db.blocks[c.start + i - 1] /\ c.rows[i] \in Hash
            BY <3>1, <3>2, <3>3, <3>4, FoundRows
        <3>6. /\ slots \in Seq(Nat)
              /\ \A x : Has(slots, x) => x \in c.start .. c.start + Len(c.rows) - 1
              /\ \A i \in 1 .. Len(c.rows) : Count(slots, c.start + i - 1) = CluesIn(c.contents[i])
            <4>1. PICK start \in Nat : start = c.start
                BY <2>4
            <4>2. PICK contents : contents = c.contents
                OBVIOUS
            <4>3. slots = SlotsOf(start, contents) /\ IsList(contents) /\ Len(contents) = Len(c.rows)
                BY <2>5, <2>a, <4>1, <4>2
            <4>4. \A i \in 1 .. Len(contents) : CluesIn(contents[i]) \in Nat
                BY <2>a, <4>2, <4>3
            <4>5. /\ slots \in Seq(Nat)
                  /\ \A x : Has(slots, x) => x \in start .. start + Len(contents) - 1
                  /\ \A i \in 1 .. Len(contents) : Count(slots, start + i - 1) = CluesIn(contents[i])
                BY <4>3, <4>4, SlotCounts
            <4> QED BY <4>1, <4>2, <4>3, <4>5
        <3>7. cap \in Seq(Nat) /\ \A x : Has(cap, x) => x \in c.start .. c.last
            <4>1. c.start + Len(c.rows) - 1 = c.last
                BY <2>4, <3>1, <3>2
            <4>2. cap \in Seq(Nat) /\ \A x : Has(cap, x) => Has(slots, x)
                BY <2>6, <3>6, CapItems
            <4> QED BY <3>6, <4>1, <4>2
        <3>8. h \in c.start .. c.last /\ Count(cap, h) = Count(slots, h)
            <4>0. h \in c.start .. ScannedTo(c)
                BY <2>1, <2>2
            <4>1. CASE c.complete /\ cap = slots
                <5>1. ScannedTo(c) = c.last
                    BY <2>8, <3>1, <4>1
                <5> QED BY <4>0, <4>1, <5>1
            <4>2. CASE ~ (c.complete /\ cap = slots) /\ cap = <<>>
                <5>1. ScannedTo(c) = c.start - 1
                    BY <2>8, <4>2
                <5> QED BY <2>4, <4>0, <5>1
            <4>3. CASE ~ (c.complete /\ cap = slots) /\ cap # <<>>
                <5>1. PICK k : k = Max(Range(cap))
                    OBVIOUS
                <5>2. ScannedTo(c) = k
                    BY <2>8, <4>3, <5>1
                <5>3. Range(cap) = {cap[i] : i \in 1 .. Len(cap)}
                    BY <3>7, SMTT(30) DEF Range
                <5>4. \A x : x \in Range(cap) <=> Has(cap, x)
                    BY <5>3 DEF Has
                <5>5. Range(cap) # {}
                    <6>1. 1 \in 1 .. Len(cap)
                        BY <3>7, <4>3
                    <6>2. Has(cap, cap[1])
                        BY <6>1 DEF Has
                    <6> QED BY <5>4, <6>2
                <5>6. Range(cap) \subseteq 0 .. c.last
                    BY <2>4, <3>7, <5>4
                <5>7. k \in Range(cap)
                    BY <3>2, <5>1, <5>5, <5>6, TopOf
                <5>8. Has(cap, k) /\ k \in c.start .. c.last
                    BY <3>7, <5>4, <5>7
                <5>9. h \in Nat /\ k \in Nat /\ h <= k /\ h \in c.start .. c.last
                    BY <2>4, <3>2, <4>0, <5>2, <5>8
                <5>10. Count(cap, h) = Count(slots, h)
                    BY <2>6, <3>6, <5>8, <5>9, CapCounts
                <5> QED BY <5>9, <5>10
            <4> QED BY <4>1, <4>2, <4>3
        <3>9. PICK i : i = h - c.start + 1
            OBVIOUS
        <3>10. i \in 1 .. Len(c.rows) /\ c.start + i - 1 = h
            BY <2>4, <3>1, <3>2, <3>8, <3>9, SMTT(30)
        <3>11. c.rows[i] \in Hash /\ c.rows[i] = db.blocks[h]
            BY <3>5, <3>10
        <3>12. Shown(c, h) = CluesIn(c.contents[i])
            BY <2>9, <3>6, <3>8, <3>10
        <3>13. c.intact => c.contents[i] = content[h]
            BY <2>a, <3>10 DEF AsNow
        <3> QED BY <2>2, <3>9, <3>11, <3>12, <3>13
    <2> QED BY <2>10, <2>11
<1> QED
    BY <1>1, WindowsHold, PTL
=============================================================================
