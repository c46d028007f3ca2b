----------------------------- MODULE RangeStreams -----------------------------
(***************************************************************************)
(* The streams of compact blocks and of their parts (src/src/server.rs,    *)
(* src/src/continuity.rs): a task reads the cache one row at a time, while *)
(* the poller writes it row by row.  One stream is followed, from the      *)
(* request to its last row; what it sends is a function of the rows it     *)
(* read, so the rows are the state and Sent(kind, b) what it sends of row b. *)
(***************************************************************************)
EXTENDS CacheWrites, PaddedRanges

\* What the contracts and the validators of darkfid hold a chain to: no coin, no
\* nullifier and no transaction twice.
ASSUME ChainAssumption ==
    /\ DOMAIN RawTxs = Hash
    /\ \A top \in Hash : \A b, c \in Ancestors[top] :
          \A i \in DOMAIN RawTxs[b], m \in DOMAIN RawTxs[c] :
              LET t == RawTxs[b][i].calls
                  u == RawTxs[c][m].calls
              IN  /\ RawTxs[b][i].hash = RawTxs[c][m].hash => b = c /\ i = m
                  /\ \A j \in DOMAIN t, n \in DOMAIN u : MoneyCall(t[j]) /\ MoneyCall(u[n]) =>
                        /\ \A k \in DOMAIN t[j].outputs, l \in DOMAIN u[n].outputs :
                              t[j].outputs[k].coin = u[n].outputs[l].coin
                                  => b = c /\ i = m /\ j = n /\ k = l
                        /\ \A k \in DOMAIN t[j].nullifiers, l \in DOMAIN u[n].nullifiers :
                              t[j].nullifiers[k] = u[n].nullifiers[l]
                                  => b = c /\ i = m /\ j = n /\ k = l

VARIABLE stream   \* the request, its range, the rows read so far, and how it ended

NoStream == [state |-> "none", kind |-> "none", want |-> <<>>, rows |-> <<>>]

HeightsFrom(start, end) == [i \in 1 .. end - start + 1 |-> start + i - 1]

\* resolve_block_range and reject_oversized_window: end 0 is the tip, and a
\* later end is cut to it.
BlockRange(tip, start, end) ==
    LET last == IF end = 0 THEN tip ELSE Min({end, tip})
    IN  IF start > last \/ last - start + 1 > MaxBlocks THEN <<>> ELSE HeightsFrom(start, last)

\* require_padded_block_range: taken as it is or not at all.
PartRange(tip, start, end) ==
    IF Rejected(start, end, tip) THEN <<>> ELSE HeightsFrom(start, end)

\* A handler resolves its range against the tip once, then the task starts:
\* GetBlockRange with any range, the streams of parts with a padded one.
OpenRange ==
    /\ mode = "serving" /\ stream = NoStream /\ Tip(db) # NoTip
    /\ \E start, end \in Heights :
          \/ /\ BlockRange(Tip(db).height, start, end) # <<>>
             /\ stream' = [NoStream EXCEPT !.state = "open", !.kind = "blocks",
                               !.want = BlockRange(Tip(db).height, start, end)]
          \/ /\ PartRange(Tip(db).height, start, end) # <<>>
             /\ stream' = [NoStream EXCEPT !.state = "open", !.kind = "parts",
                               !.want = PartRange(Tip(db).height, start, end)]
    /\ UNCHANGED cacheVars

\* GetCompactBlocksAtHeights sorts its heights and does not look at the tip.
OpenSparse ==
    /\ mode = "serving" /\ stream = NoStream
    /\ \E S \in SUBSET Heights \ {{}} :
          stream' = [NoStream EXCEPT !.state = "open", !.kind = "sparse",
                                     !.want = Ascending(S)]
    /\ UNCHANGED cacheVars

CheckSuccessor_HeightOnly(prev, next) == HeightOf[next] = HeightOf[prev] + 1

\* check_successor.
CheckSuccessor(prev, next) == HeightOf[next] = HeightOf[prev] + 1 /\ Prev[next] = prev

\* check_adjacent_pair, for every two neighbours of a sparse list.
AdjacentPairs(rows) ==
    \A i \in 2 .. Len(rows) :
        HeightOf[rows[i]] = HeightOf[rows[i - 1]] + 1 => CheckSuccessor(rows[i - 1], rows[i])

\* A range ends with an error at the first row that is missing or does not
\* continue the one before; a sparse list is checked once it is complete.
Continues(rows, b) ==
    /\ b # None
    /\ stream.kind # "sparse" /\ rows # <<>> => CheckSuccessor(Last(rows), b)

ReadRow ==
    /\ stream.state = "open" /\ Len(stream.rows) < Len(stream.want)
    /\ LET b == db.blocks[stream.want[Len(stream.rows) + 1]]
       IN  stream' = IF Continues(stream.rows, b)
                     THEN [stream EXCEPT !.rows = Append(@, b)]
                     ELSE [stream EXCEPT !.state = "aborted"]
    /\ UNCHANGED cacheVars

Finish ==
    /\ stream.state = "open" /\ Len(stream.rows) = Len(stream.want)
    /\ stream' = [stream EXCEPT !.state =
                     IF stream.kind = "sparse" /\ ~AdjacentPairs(stream.rows)
                     THEN "aborted" ELSE "done"]
    /\ UNCHANGED cacheVars

\* The client closes the stream, has read it, or stopped reading for
\* STREAM_SEND_TIMEOUT.
Hangup ==
    /\ stream # NoStream
    /\ stream' = NoStream
    /\ UNCHANGED cacheVars

StreamNext == OpenRange \/ OpenSparse \/ ReadRow \/ Finish \/ Hangup

-----------------------------------------------------------------------------
(* What is sent for one row.                                                *)

CompactBlocks == [b \in Hash |-> ProcessBlock(b)]

Outputs(b) ==
    Concat(CompactBlocks[b].txs, LAMBDA t :
        [k \in DOMAIN t.outputs |->
            [tx |-> t.tx_hash, coin |-> t.outputs[k].coin, func |-> t.outputs[k].func]])

\* The items of one block, in the order they are sent; the streams of one
\* function are named for it, and send its events after its outputs.
Sent(kind, b) ==
    CASE kind = "commitments" -> [k \in DOMAIN Outputs(b) |-> Outputs(b)[k].coin]
      [] kind = "nullifiers"  -> Concat(CompactBlocks[b].txs, LAMBDA t : t.nullifiers)
      [] kind = "outputs"     -> Outputs(b)
      [] kind = "dao"         -> CompactBlocks[b].dao_calls
      [] kind \in MoneyFunctions ->
            Filter(Outputs(b), LAMBDA o : o.func = kind)
                \o Concat(CompactBlocks[b].func_events, LAMBDA e :
                       IF e.func = kind
                       THEN <<[tx |-> e.tx_hash, coin |-> None, func |-> kind]>> ELSE <<>>)

-----------------------------------------------------------------------------
(* Properties.                                                              *)

\* What a wallet must learn of a block, taken from the raw transactions: every
\* coin that is not spent inside its transaction, every nullifier, every call
\* of an auth-token function, every DAO call that can be read.
RawCalls(b, Wanted(_)) ==
    UNION {{[tx |-> t.hash, call |-> c] : c \in {x \in Range(t.calls) : Wanted(x)}} :
              t \in Range(RawTxs[b])}
RawMoneyCalls(b) == RawCalls(b, MoneyCall)
RawDaoCalls(b)   == RawCalls(b, LAMBDA c : c.contract = "dao" /\ c.ok)
RawOutputs(b) ==
    UNION {{[tx |-> r.tx, coin |-> o.coin, func |-> r.call.func] :
               o \in {x \in Range(r.call.outputs) : ~x.local}} : r \in RawMoneyCalls(b)}
Owed(kind, b) ==
    CASE kind = "commitments" -> {o.coin : o \in RawOutputs(b)}
      [] kind = "nullifiers"  -> UNION {Range(r.call.nullifiers) : r \in RawMoneyCalls(b)}
      [] kind = "outputs"     -> RawOutputs(b)
      [] kind = "dao"         -> {[tx_hash |-> r.tx, kind |-> r.call.func] : r \in RawDaoCalls(b)}
      [] kind \in MoneyFunctions ->
            {o \in RawOutputs(b) : o.func = kind} \cup
            {[tx |-> r.tx, coin |-> None, func |-> kind] :
                r \in {x \in RawMoneyCalls(b) : kind \in AuthFunctions /\ x.call.func = kind}}

Kinds == {"commitments", "nullifiers", "outputs", "dao"} \cup MoneyFunctions

\* Records of auth-token and DAO calls do not tell two calls of one function in
\* one transaction apart.
TellsApart(kind, b) ==
    kind \in AuthFunctions \cup {"dao"} =>
        \A t \in Range(RawTxs[b]) : \A i, j \in DOMAIN t.calls :
            (t.calls[i].contract = t.calls[j].contract /\ t.calls[i].func = t.calls[j].func) => i = j

\* A stream that runs to its end has sent one chain and nothing else, each
\* block of the range once and in order, whatever the poller did to the rows in
\* between.  A sparse list owes this of every two neighbouring heights.
OneChain ==
    stream.state = "done" =>
        LET rows == stream.rows
        IN  /\ [i \in DOMAIN rows |-> HeightOf[rows[i]]] = stream.want
            /\ IF stream.kind = "sparse"
               THEN \A i \in DOMAIN rows : HeightOf[rows[i]] + 1 \in Range(stream.want)
                       => rows[i] = Prev[rows[i + 1]]
               ELSE Range(rows) = {a \in Ancestors[Last(rows)] : HeightOf[a] >= stream.want[1]}

\* Of each block, a wallet is sent every item it must learn and nothing else,
\* once.  The rows of a sparse list may be of two forks, with a transaction that
\* was mined on both.
EachItemOnce ==
    stream.state = "done" =>
        \A k \in Kinds :
            LET rows == stream.rows
                S    == Concat(rows, LAMBDA b : Sent(k, b))
            IN  /\ Range(S) = UNION {Owed(k, b) : b \in Range(rows)}
                /\ (\A b \in Range(rows) : TellsApart(k, b)) =>
                      IF stream.kind = "sparse"
                      THEN \A b \in Range(rows) : IsInjective(Sent(k, b))
                      ELSE IsInjective(S)

\* What a finished stream of blocks or of their parts has delivered: one chain,
\* whole, with every item of its blocks.
StreamDeliversChain == OneChain /\ EachItemOnce
=============================================================================
