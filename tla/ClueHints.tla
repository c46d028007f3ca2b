------------------------------ MODULE ClueHints ------------------------------
(***************************************************************************)
(* Clue hints: from a wallet's SendTransaction or RegisterOmrClue          *)
(* (src/src/server.rs) through the sled trees that park the clues until    *)
(* the transaction is mined, to the block the poller indexes               *)
(* (src/src/cache.rs).  The handlers run on many threads and the trees     *)
(* have no lock over them: each access to a tree is a step of its own.     *)
(*                                                                         *)
(*   hints   omr_clue_hints: the clue parked for each output index         *)
(*   stamp   omr_clue_hint_meta: when a clue was last parked               *)
(*   meta    omr_metadata_enc: the output its metadata is for              *)
(*   bind    recent_send_peers: who sent the transaction, and when         *)
(*   calls   the handlers in progress, with their local variables          *)
(*   sweep   the full scan a handler is in the middle of                   *)
(*   poll    the transaction the poller is merging clues into              *)
(*   index   the transactions in cached blocks, with the clues they got    *)
(*   heard   the transactions darkfid has taken                            *)
(*   now     the clock of the hints and of the bindings                    *)
(*   sent    the transactions sent so far;  started  the number of calls   *)
(*                                                                         *)
(* A clue that is empty or fails validate_omr_clue is dropped before any   *)
(* access: it is a clue the call does not carry.                           *)
(***************************************************************************)
EXTENDS Integers, Sequences, FiniteSets

CONSTANTS Tx, Peer, Call, Clue, None,
          Index,            \* the output indexes a client may name
          Output,           \* those the transactions have
          Opaque,           \* transactions whose hash only darkfid can tell
          Ttl,              \* OMR_CLUE_HINT_TTL_SECS and SEND_PEER_BIND_TTL
          MaxBinds,         \* max_send_peer_entries
          Requests,         \* what clients send: a set of Request for each transaction
          Registrations,    \* what they register: a set of Item for each
          MaxTime,          \* bound: the clock
          MaxCalls,         \* bound: calls started
          OneCallPerTx,     \* wallets wait for an answer about a transaction
          Resends           \* wallets send a transaction again

Item == [clue : Clue, at : Index, main : BOOLEAN]

\* Who sends, the recipient's clue or <<>>, the extra clues, the metadata's output
\* or None.
Request == [peer : Peer, base : Seq(Item), extras : Seq(Item), metaAt : Index \cup {None}]

ASSUME ClueHintsAssumption ==
    /\ Output \subseteq Index /\ Opaque \subseteq Tx
    /\ Requests \in [Tx -> SUBSET Request] /\ Registrations \in [Tx -> SUBSET Item]
    /\ None \notin Tx /\ None \notin Peer /\ None \notin Call /\ None \notin Clue
    /\ None \notin Index /\ None \notin 0..MaxTime
    /\ Ttl \in Nat \ {0} /\ MaxBinds \in Nat \ {0}
    /\ MaxTime \in Nat /\ MaxCalls \in Nat
    /\ {OneCallPerTx, Resends} \subseteq BOOLEAN

\* Of a request's clues the recipient's, at most one, decides clue_accepted.
MainFirst(items) == \A i \in DOMAIN items : items[i].main => i = 1
ASSUME RequestAssumption ==
    \A t \in Tx : \A r \in Requests[t] :
        /\ r.base = <<>> \/ (Len(r.base) = 1 /\ r.base[1].main)
        /\ \A i \in DOMAIN r.extras : ~ r.extras[i].main

VARIABLES now, hints, stamp, meta, bind, calls, sweep, poll, index, heard,
          sent, started

vars == <<now, hints, stamp, meta, bind, calls, sweep, poll, index, heard,
          sent, started>>

Time    == 0..MaxTime
Row     == [Index -> Clue \cup {None}]
NoClues == [i \in Index |-> None]

Places == {"prune", "stale", "dropHints", "dropStamp", "look", "insert", "stamp",
           "broadcast", "remember", "hasMeta", "putMeta", "forgetHints",
           "forgetStamp", "refused", "done"}

\* A handler: what it still has to park before and after the broadcast, the
\* metadata's output, clue_accepted, and the row it read.
Handlers == [ pc : Places,
              mode : {"check", "store"}, stage : {"before", "after", "register"},
              tx : Tx, peer : Peer, todo : Seq(Item), late : Seq(Item),
              metaAt : Index \cup {None}, accepted : BOOLEAN, row : Row ]

Sweeps == [by : Call \cup {None}, todo : SUBSET Tx, half : Tx \cup {None}]
Idle   == [by |-> None, todo |-> {}, half |-> None]

Outs   == [Output -> Clue \cup {None}]
Merges == [ pc : {"stale", "dropHints", "dropStamp", "look", "meta", "unmeta", "write"},
            tx : Tx, out : Outs, meta : Index \cup {None} ]

TypeOK ==
    /\ now \in Time
    /\ hints \in [Tx -> Row]
    /\ stamp \in [Tx -> Time \cup {None}]
    /\ meta \in [Tx -> Index \cup {None}]
    /\ bind \in [Tx -> [peer : Peer, at : Time] \cup {None}]
    /\ calls \in [Call -> Handlers \cup {None}]
    /\ sweep \in Sweeps
    /\ poll \in Merges \cup {None}
    /\ index \in [Tx -> [out : Outs, meta : Output \cup {None}] \cup {None}]
    /\ heard \subseteq Tx
    /\ sent \subseteq Tx
    /\ started \in 0..MaxCalls

Init ==
    /\ now = 0
    /\ hints = [t \in Tx |-> NoClues]
    /\ stamp = [t \in Tx |-> None]
    /\ meta = [t \in Tx |-> None]
    /\ bind = [t \in Tx |-> None]
    /\ calls = [c \in Call |-> None]
    /\ sweep = Idle
    /\ poll = None
    /\ index = [t \in Tx |-> None]
    /\ heard = {}
    /\ sent = {}
    /\ started = 0

-----------------------------------------------------------------------------
(* The rows of the trees.                                                   *)

\* omr_hint_meta_expired, of a transaction that has a stamp.
Expired(t) == stamp[t] # None /\ now - stamp[t] > Ttl

IndexTaken_Never(row, i) == FALSE

\* The row has a clue for this output index.
IndexTaken(row, i) == row[i] # None

\* A clue pushed on the list of the row.
AddClue(row, item) == [row EXCEPT ![item.at] = item.clue]

\* What a merge may leave on outputs that had no clue: each output gets the clue
\* that names it, unless the transaction already has that clue elsewhere.
Attached(row) ==
    {out \in Outs :
        /\ \A o \in Output : out[o] \in {row[o], None}
        /\ \A o, p \in Output : out[o] # None /\ o # p => out[o] # out[p]
        /\ \A o \in Output : row[o] # None => \E p \in Output : out[p] = row[o]}

\* The bindings the retain call of both functions leaves.
Live == [t \in Tx |-> IF bind[t] # None /\ now - bind[t].at < Ttl THEN bind[t] ELSE None]

Matches_Expired(t, p) == bind[t] # None /\ bind[t].peer = p

\* send_peer_matches
Matches(t, p) == Live[t] # None /\ Live[t].peer = p

Bound(b) == {t \in Tx : b[t] # None}

Evicted_OneTooFew(b) ==
    IF Cardinality(Bound(b)) <= MaxBinds THEN {{}}
    ELSE {gone \in SUBSET Bound(b) : Cardinality(gone) = Cardinality(Bound(b)) - MaxBinds}

\* The oldest bindings, one more than there are above the limit.
Evicted(b) ==
    IF Cardinality(Bound(b)) < MaxBinds THEN {{}}
    ELSE {gone \in SUBSET Bound(b) :
             /\ Cardinality(gone) = Cardinality(Bound(b)) - MaxBinds + 1
             /\ \A t \in gone, u \in Bound(b) \ gone : b[t].at <= b[u].at}

-----------------------------------------------------------------------------
(* The control of a handler.                                                *)

At(c, pc)  == calls[c] # None /\ calls[c].pc = pc
Step(c, r) == calls' = [calls EXCEPT ![c] = r]
Goto(c, p) == Step(c, [calls[c] EXCEPT !.pc = p])
Return(c)  == Step(c, None)

\* Where a handler goes when it has nothing left to park.
Emptied(call) ==
    CASE call.stage = "before" -> "broadcast"
      [] call.stage = "after" /\ call.metaAt # None -> "hasMeta"
      [] OTHER -> "done"

\* The next item of store_send_clue_hint's callers, if any: the check comes first.
NextItem(call) ==
    [call EXCEPT !.pc = IF call.todo = <<>> THEN Emptied(call) ELSE "prune",
                 !.mode = "check"]

\* An item is over; clue_accepted is whether the first clue was parked.
Over(call, parked) ==
    NextItem([call EXCEPT !.todo = Tail(call.todo),
                          !.accepted = IF Head(call.todo).main THEN parked ELSE @])

\* The index is free: the clue is stored, which begins as the check did.
ToStore(c) == Step(c, [calls[c] EXCEPT !.pc = "prune", !.mode = "store"])

MayStart(c, t) ==
    /\ calls[c] = None /\ started < MaxCalls
    /\ OneCallPerTx => \A d \in Call : calls[d] # None => calls[d].tx # t

Blank(t, p) ==
    [ pc |-> "prune", mode |-> "check", stage |-> "before", tx |-> t, peer |-> p,
      todo |-> <<>>, late |-> <<>>, metaAt |-> None, accepted |-> FALSE,
      row |-> NoClues ]

StartSend_StoresLate(c, t, r) ==
    /\ MayStart(c, t) /\ (Resends \/ t \notin sent)
    /\ Step(c, NextItem([Blank(t, r.peer) EXCEPT !.late = r.base \o r.extras,
                                                !.metaAt = r.metaAt]))
    /\ sent' = sent \cup {t} /\ started' = started + 1
    /\ UNCHANGED <<now, hints, stamp, meta, bind, sweep, poll, index, heard>>

\* send_transaction up to its first access.  With a clue for the recipient and a
\* hash, all clues are parked before the broadcast; the extra clues, and the first
\* of a transaction without a hash, are tried after it.
StartSend(c, t, r) ==
    LET all   == r.base \o r.extras
        early == r.base # <<>> /\ t \notin Opaque
    IN  /\ MayStart(c, t) /\ (Resends \/ t \notin sent)
        /\ Step(c, NextItem([Blank(t, r.peer) EXCEPT
                                !.todo   = IF early THEN all ELSE <<>>,
                                !.late   = IF t \in Opaque THEN all ELSE r.extras,
                                !.metaAt = r.metaAt]))
        /\ sent' = sent \cup {t} /\ started' = started + 1
        /\ UNCHANGED <<now, hints, stamp, meta, bind, sweep, poll, index, heard>>

\* register_omr_clue, up to and including the check of the peer.
StartRegister(c, t, p, item) ==
    /\ MayStart(c, t) /\ Matches(t, p)
    /\ Step(c, [Blank(t, p) EXCEPT !.stage = "register", !.todo = <<item>>])
    /\ bind' = Live /\ started' = started + 1
    /\ UNCHANGED <<now, hints, stamp, meta, sweep, poll, index, heard, sent>>

-----------------------------------------------------------------------------
(* omr_clue_index_taken (mode "check") and store_omr_clue_hint ("store").   *)

\* prune_expired_omr_clue_hints: a scan collects the expired keys and then drops them.
SweepCollect(c) ==
    LET expired == {t \in Tx : Expired(t)}
    IN  /\ At(c, "prune") /\ sweep = Idle /\ expired # {}
        /\ sweep' = [by |-> c, todo |-> expired, half |-> None]
        /\ UNCHANGED <<now, hints, stamp, meta, bind, calls, poll, index, heard, sent, started>>

SweepHints(c) ==
    /\ sweep.by = c /\ sweep.half = None
    /\ \E t \in sweep.todo :
          /\ hints' = [hints EXCEPT ![t] = NoClues]
          /\ sweep' = [by |-> c, todo |-> sweep.todo \ {t}, half |-> t]
    /\ UNCHANGED <<now, stamp, meta, bind, calls, poll, index, heard, sent, started>>

SweepStamp(c) ==
    /\ sweep.by = c /\ sweep.half # None
    /\ stamp' = [stamp EXCEPT ![sweep.half] = None]
    /\ IF sweep.todo = {} THEN sweep' = Idle /\ Goto(c, "stale")
       ELSE sweep' = [sweep EXCEPT !.half = None] /\ UNCHANGED calls
    /\ UNCHANGED <<now, hints, meta, bind, poll, index, heard, sent, started>>

\* drop_omr_clue_hint_if_expired: the stamp is read, after the scan or, when
\* another scan is too recent, at once;
Stale(c) ==
    /\ At(c, "stale") \/ (At(c, "prune") /\ sweep.by # c)
    /\ Goto(c, IF Expired(calls[c].tx) THEN "dropHints" ELSE "look")
    /\ UNCHANGED <<now, hints, stamp, meta, bind, sweep, poll, index, heard, sent, started>>

\* an expired row goes, as in remove_omr_clue_hint after a refusal,
RemoveHints(c) ==
    /\ At(c, "dropHints") \/ At(c, "forgetHints")
    /\ hints' = [hints EXCEPT ![calls[c].tx] = NoClues]
    /\ Goto(c, IF calls[c].pc = "dropHints" THEN "dropStamp" ELSE "forgetStamp")
    /\ UNCHANGED <<now, stamp, meta, bind, sweep, poll, index, heard, sent, started>>

\* and its stamp after it.  The check of a row that was dropped is over: the index
\* is free.
RemoveStamp(c) ==
    /\ At(c, "dropStamp") \/ At(c, "forgetStamp")
    /\ stamp' = [stamp EXCEPT ![calls[c].tx] = None]
    /\ CASE calls[c].pc = "forgetStamp" -> Goto(c, "refused")
         [] calls[c].pc = "dropStamp" /\ calls[c].mode = "check" -> ToStore(c)
         [] OTHER -> Goto(c, "look")
    /\ UNCHANGED <<now, hints, meta, bind, sweep, poll, index, heard, sent, started>>

\* omr_clue_index_taken reads the row: the first writer of an index wins.
LookToCheck(c) ==
    /\ At(c, "look") /\ calls[c].mode = "check"
    /\ IF IndexTaken(hints[calls[c].tx], Head(calls[c].todo).at)
       THEN Step(c, Over(calls[c], FALSE))
       ELSE ToStore(c)
    /\ UNCHANGED <<now, hints, stamp, meta, bind, sweep, poll, index, heard, sent, started>>

\* store_omr_clue_hint reads it again; an index taken meanwhile is still Ok.
LookToStore(c) ==
    LET row == hints[calls[c].tx]
    IN  /\ At(c, "look") /\ calls[c].mode = "store"
        /\ IF IndexTaken(row, Head(calls[c].todo).at)
           THEN Step(c, Over(calls[c], TRUE))
           ELSE Step(c, [calls[c] EXCEPT !.pc = "insert", !.row = row])
        /\ UNCHANGED <<now, hints, stamp, meta, bind, sweep, poll, index, heard, sent, started>>

\* The row it read, with the clue added, is written back,
InsertHints(c) ==
    /\ At(c, "insert")
    /\ hints' = [hints EXCEPT ![calls[c].tx] = AddClue(calls[c].row, Head(calls[c].todo))]
    /\ Goto(c, "stamp")
    /\ UNCHANGED <<now, stamp, meta, bind, sweep, poll, index, heard, sent, started>>

\* and stamped.
InsertStamp(c) ==
    /\ At(c, "stamp")
    /\ stamp' = [stamp EXCEPT ![calls[c].tx] = now]
    /\ Step(c, Over([calls[c] EXCEPT !.row = NoClues], TRUE))
    /\ UNCHANGED <<now, hints, meta, bind, sweep, poll, index, heard, sent, started>>

Park(c) == \/ SweepCollect(c) \/ SweepHints(c) \/ SweepStamp(c)
           \/ Stale(c) \/ RemoveHints(c) \/ RemoveStamp(c)
           \/ LookToCheck(c) \/ LookToStore(c) \/ InsertHints(c) \/ InsertStamp(c)

-----------------------------------------------------------------------------
(* The broadcast, its answer, and the rest of send_transaction.             *)

\* darkfid takes the transaction; its answer is still on its way.
Take(c) ==
    /\ At(c, "broadcast")
    /\ heard' = heard \cup {calls[c].tx}
    /\ UNCHANGED <<now, hints, stamp, meta, bind, calls, sweep, poll, index, sent, started>>

Accepted(c) ==
    /\ At(c, "broadcast") /\ calls[c].tx \in heard
    /\ Goto(c, "remember")
    /\ UNCHANGED <<now, hints, stamp, meta, bind, sweep, poll, index, heard, sent, started>>

Refused_KeepsClues(c) ==
    /\ At(c, "broadcast")
    /\ Goto(c, "refused")
    /\ UNCHANGED <<now, hints, stamp, meta, bind, sweep, poll, index, heard, sent, started>>

\* Any error of broadcast_tx: darkfid refused, or its answer was lost.
Refused(c) ==
    /\ At(c, "broadcast")
    /\ Goto(c, IF calls[c].accepted THEN "forgetHints" ELSE "refused")
    /\ UNCHANGED <<now, hints, stamp, meta, bind, sweep, poll, index, heard, sent, started>>

\* Ten seconds without an answer: the call fails and the clues stay.
TimedOut(c) ==
    /\ At(c, "broadcast")
    /\ Return(c)
    /\ UNCHANGED <<now, hints, stamp, meta, bind, sweep, poll, index, heard, sent, started>>

\* remember_send_peer, under its lock; then the clues tried after the broadcast.
Remember(c) ==
    LET t == calls[c].tx
    IN  /\ At(c, "remember")
        /\ \E gone \in Evicted(Live) :
              bind' = [u \in Tx |-> IF u = t THEN [peer |-> calls[c].peer, at |-> now]
                                    ELSE IF u \in gone THEN None ELSE Live[u]]
        /\ Step(c, NextItem([calls[c] EXCEPT !.stage = "after",
                                             !.todo = calls[c].late, !.late = <<>>]))
        /\ UNCHANGED <<now, hints, stamp, meta, sweep, poll, index, heard, sent, started>>

\* has_omr_metadata_enc: the first metadata of a transaction wins,
HasMeta(c) ==
    /\ At(c, "hasMeta")
    /\ Goto(c, IF meta[calls[c].tx] # None THEN "done" ELSE "putMeta")
    /\ UNCHANGED <<now, hints, stamp, meta, bind, sweep, poll, index, heard, sent, started>>

\* store_omr_metadata_enc.
PutMeta(c) ==
    /\ At(c, "putMeta")
    /\ meta' = [meta EXCEPT ![calls[c].tx] = calls[c].metaAt]
    /\ Goto(c, "done")
    /\ UNCHANGED <<now, hints, stamp, bind, sweep, poll, index, heard, sent, started>>

\* The handler answers its client.
Answer(c) ==
    /\ At(c, "done") \/ At(c, "refused")
    /\ Return(c)
    /\ UNCHANGED <<now, hints, stamp, meta, bind, sweep, poll, index, heard, sent, started>>

Finish(c) == \/ Take(c) \/ Accepted(c) \/ Refused(c) \/ TimedOut(c)
             \/ Remember(c) \/ HasMeta(c) \/ PutMeta(c) \/ Answer(c)

-----------------------------------------------------------------------------
(* apply_omr_clue_hints, for one transaction of a block being inserted.     *)

Merging(p)  == poll # None /\ poll.pc = p
MergeTo(p)  == poll' = [poll EXCEPT !.pc = p]

\* A mined transaction comes with outputs that have no clue.
StartMerge(t) ==
    /\ poll = None /\ t \in heard /\ index[t] = None
    /\ poll' = [pc |-> "stale", tx |-> t, out |-> [o \in Output |-> None], meta |-> None]
    /\ UNCHANGED <<now, hints, stamp, meta, bind, calls, sweep, index, heard, sent, started>>

MergeStale ==
    /\ Merging("stale")
    /\ MergeTo(IF Expired(poll.tx) THEN "dropHints" ELSE "look")
    /\ UNCHANGED <<now, hints, stamp, meta, bind, calls, sweep, index, heard, sent, started>>

MergeDropHints ==
    /\ Merging("dropHints")
    /\ hints' = [hints EXCEPT ![poll.tx] = NoClues]
    /\ MergeTo("dropStamp")
    /\ UNCHANGED <<now, stamp, meta, bind, calls, sweep, index, heard, sent, started>>

MergeDropStamp ==
    /\ Merging("dropStamp")
    /\ stamp' = [stamp EXCEPT ![poll.tx] = None]
    /\ MergeTo("meta")
    /\ UNCHANGED <<now, hints, meta, bind, calls, sweep, index, heard, sent, started>>

MergeClues_Consumes ==
    /\ Merging("look")
    /\ \E out \in Attached(hints[poll.tx]) :
          poll' = [poll EXCEPT !.pc = "meta", !.out = out]
    /\ hints' = [hints EXCEPT ![poll.tx] = NoClues]
    /\ UNCHANGED <<now, stamp, meta, bind, calls, sweep, index, heard, sent, started>>

\* The clues are copied: the row stays for a block that comes after a reorg.
MergeClues ==
    /\ Merging("look")
    /\ \E out \in Attached(hints[poll.tx]) :
          poll' = [poll EXCEPT !.pc = "meta", !.out = out]
    /\ UNCHANGED <<now, hints, stamp, meta, bind, calls, sweep, index, heard, sent, started>>

\* The metadata is read,
MergeMeta ==
    /\ Merging("meta")
    /\ poll' = [poll EXCEPT !.pc   = IF meta[poll.tx] # None THEN "unmeta" ELSE "write",
                            !.meta = meta[poll.tx]]
    /\ UNCHANGED <<now, hints, stamp, meta, bind, calls, sweep, index, heard, sent, started>>

\* and removed from its tree.
TakeMeta ==
    /\ Merging("unmeta")
    /\ meta' = [meta EXCEPT ![poll.tx] = None]
    /\ MergeTo("write")
    /\ UNCHANGED <<now, hints, stamp, bind, calls, sweep, index, heard, sent, started>>

WriteBlock_AnyIndex ==
    /\ Merging("write")
    /\ index' = [index EXCEPT ![poll.tx] = [out |-> poll.out, meta |-> poll.meta]]
    /\ poll' = None
    /\ UNCHANGED <<now, hints, stamp, meta, bind, calls, sweep, heard, sent, started>>

\* insert_compact_block writes the block; metadata for no output of it is dropped.
WriteBlock ==
    /\ Merging("write")
    /\ index' = [index EXCEPT ![poll.tx] =
                    [out  |-> poll.out,
                     meta |-> IF poll.meta \in Output THEN poll.meta ELSE None]]
    /\ poll' = None
    /\ UNCHANGED <<now, hints, stamp, meta, bind, calls, sweep, heard, sent, started>>

\* A reorg: the poller deletes the transaction's block from the cache.
Unindex(t) ==
    /\ poll = None /\ index[t] # None
    /\ index' = [index EXCEPT ![t] = None]
    /\ UNCHANGED <<now, hints, stamp, meta, bind, calls, sweep, poll, heard, sent, started>>

Poller == \/ \E t \in Tx : StartMerge(t) \/ Unindex(t)
          \/ MergeStale \/ MergeDropHints \/ MergeDropStamp \/ MergeClues
          \/ MergeMeta \/ TakeMeta \/ WriteBlock

-----------------------------------------------------------------------------

Tick ==
    /\ now < MaxTime
    /\ now' = now + 1
    /\ UNCHANGED <<hints, stamp, meta, bind, calls, sweep, poll, index, heard, sent, started>>

Start == \E c \in Call, t \in Tx :
            \/ \E r \in Requests[t] : StartSend(c, t, r)
            \/ \E p \in Peer, item \in Registrations[t] : StartRegister(c, t, p, item)

Next == Start \/ (\E c \in Call : Park(c) \/ Finish(c)) \/ Poller \/ Tick

Spec == Init /\ [][Next]_vars

-----------------------------------------------------------------------------

\* A clue parked for an output is never replaced by another, nor lost to a clue for
\* another output (the comment of store_omr_clue_hint): it goes with its whole row.
FirstWriterWins ==
    [][\A t \in Tx : \/ hints'[t] = NoClues
                    \/ \A i \in Index : hints[t][i] # None => hints'[t][i] = hints[t][i]]_hints

\* When a client learns that its transaction was refused, no clue of it is left
\* parked (the comment of send_transaction).
RejectedParksNothing ==
    \A c \in Call : At(c, "refused") => hints[calls[c].tx] = NoClues

\* The bindings stay within max_send_peer_entries.
BindsBounded == Cardinality(Bound(bind)) <= MaxBinds
=============================================================================
