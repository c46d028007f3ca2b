---------------------------- MODULE BlockProcessor ----------------------------
(***************************************************************************)
(* What the compact form of a block keeps of its transactions              *)
(* (src/src/block_processor.rs, src/src/compact_block.rs), as operators    *)
(* over the raw blocks darkfid serves.  Notes, commitments, DAO payloads   *)
(* and proofs are opaque and left out; a DAO record is its function.       *)
(***************************************************************************)
EXTENDS Naturals, SequencesExt

CONSTANTS
    RawTxs,      \* RawTxs[b]: the transactions of block b, records
                 \*   [hash |-> ..., calls |-> <<...>>]; a call is a record
                 \*   [contract, func, ok, nullifiers, outputs]; ok: the rest of
                 \*   its data decodes; an output is [coin |-> ..., local |-> ...]
    MaxTxs,      \* MAX_TXS_PER_BLOCK
    MaxCalls     \* MAX_CALLS_PER_TX

MoneyFunctions == {"FeeV1", "TransferV1", "GenesisMintV1", "PoWRewardV1", "TokenMintV1",
                   "BurnV1", "AuthTokenMintV1", "AuthTokenFreezeV1"}
DaoFunctions   == {"Mint", "Propose", "Vote", "Exec", "AuthMoneyTransfer"}

\* Calls with no data or an unknown discriminant are skipped.
MoneyCall(c) == c.contract = "money" /\ c.func \in MoneyFunctions

\* A block is refused when it has a Money call whose data does not decode, or
\* too many transactions or calls.  (A FeeV1 call of fewer than 9 bytes panics
\* instead, which ends the poller's task and with it the process, main.rs 383:
\* to the cache a crash before the block.)
Refused(b) ==
    \/ Len(RawTxs[b]) > MaxTxs
    \/ \E i \in DOMAIN RawTxs[b] :
          LET calls == RawTxs[b][i].calls
          IN  Len(calls) > MaxCalls \/ \E j \in DOMAIN calls : MoneyCall(calls[j]) /\ ~calls[j].ok

Concat(s, Op(_)) == FlattenSeq([i \in DOMAIN s |-> Op(s[i])])
Filter(s, Test(_)) == Concat(s, LAMBDA x : IF Test(x) THEN <<x>> ELSE <<>>)

\* The functions with outputs and with inputs.  TokenMint's output has no
\* tx_local flag.
OutputFunctions == {"FeeV1", "TransferV1", "GenesisMintV1", "PoWRewardV1", "TokenMintV1"}
InputFunctions  == {"FeeV1", "TransferV1", "BurnV1"}
AuthFunctions   == {"AuthTokenMintV1", "AuthTokenFreezeV1"}
Adds(c, o) == MoneyCall(c) /\ c.func \in OutputFunctions /\ (c.func # "TokenMintV1" => ~o.local)

CallOutputs(c) ==
    Concat(c.outputs, LAMBDA o :
        IF Adds(c, o) THEN <<[coin |-> o.coin, func |-> c.func]>> ELSE <<>>)

CallNullifiers(c) == IF MoneyCall(c) /\ c.func \in InputFunctions THEN c.nullifiers ELSE <<>>

CompactTx(t) == [tx_hash    |-> t.hash,
                 outputs    |-> Concat(t.calls, CallOutputs),
                 nullifiers |-> Concat(t.calls, CallNullifiers)]

\* Auth-token calls have no coin; they are listed beside the transactions.
TxEvents(t) ==
    Concat(t.calls, LAMBDA c :
        IF MoneyCall(c) /\ c.func \in AuthFunctions
        THEN <<[tx_hash |-> t.hash, func |-> c.func]>> ELSE <<>>)

\* compact_dao_call: a call that does not decode is skipped, not an error.
TxDaoCalls(t) ==
    Concat(t.calls, LAMBDA c :
        IF c.contract = "dao" /\ c.func \in DaoFunctions /\ c.ok
        THEN <<[tx_hash |-> t.hash, kind |-> c.func]>> ELSE <<>>)

\* process_block, for a block that is not refused.  A transaction without
\* outputs and nullifiers is dropped, its events and DAO calls are not.
ProcessBlock(b) ==
    LET kept(t) == CompactTx(t).outputs # <<>> \/ CompactTx(t).nullifiers # <<>>
    IN  [txs         |-> Concat(RawTxs[b], LAMBDA t :
                             IF kept(t) THEN <<CompactTx(t)>> ELSE <<>>),
         dao_calls   |-> Concat(RawTxs[b], TxDaoCalls),
         func_events |-> Concat(RawTxs[b], TxEvents)]

-----------------------------------------------------------------------------
\* What a call that decodes looks like: the parameters of its function.
CallShape(c) ==
    /\ c.outputs \in Seq(Range(c.outputs)) /\ c.nullifiers \in Seq(Range(c.nullifiers))
    /\ MoneyCall(c) =>
          /\ c.outputs # <<>> => c.func \in OutputFunctions
          /\ c.nullifiers # <<>> => c.func \in InputFunctions
          /\ c.func = "TokenMintV1" => \A o \in Range(c.outputs) : ~o.local
    /\ (c.contract = "dao" /\ c.ok) => c.func \in DaoFunctions

ASSUME RawTxsAssumption ==
    \A b \in DOMAIN RawTxs :
        /\ RawTxs[b] \in Seq(Range(RawTxs[b]))
        /\ \A t \in Range(RawTxs[b]) :
              /\ t.calls \in Seq(Range(t.calls))
              /\ \A c \in Range(t.calls) : CallShape(c)
=============================================================================
