----------------------------- MODULE WindowCaches -----------------------------
(***************************************************************************)
(* The digest of a range and the PIR calls that follow it, with the caches *)
(* of whole windows before them (src/src/server.rs): which part of a range *)
(* a digest may cover, the end hash a window is filed and found under, the *)
(* scan of its rows, and what the wallet makes of the answer.  One call is *)
(* followed at a time, and every read of the cache is a step of it.        *)
(*                                                                         *)
(* A hash does not say what a row holds: the clues and the metadata parked *)
(* for its transactions are merged into a block when it is inserted, and a *)
(* block that is rewound and inserted again may get others.                *)
(***************************************************************************)
EXTENDS CacheWrites, PirBatch

CONSTANTS
    DigestRanges,  \* the ranges <<start, end>> wallets ask digests of
    PirRanges,     \* and the windows they fetch from
    WindowCap,     \* ClueWindowCache::CAP, PirWindowCache::CAP
    MaxMessages,   \* MAX_OMR_MESSAGES
    Contents       \* Contents[b]: what b's row may hold, by what is parked when it is
                   \* inserted: so many valid clues, and the bytes that
                   \* encode_compact_block_for_pir leaves of it

ASSUME WindowAssumption ==
    /\ DigestRanges \cup PirRanges \subseteq {r \in Heights \X Heights : r[1] <= r[2]}
    /\ WindowCap \in Nat \ {0} /\ MaxMessages \in Nat \ {0}
    /\ None \notin [clues : Nat, payload : Seq(0 .. 255)]
    /\ \A b \in Hash : /\ Contents[b] # {}
                       /\ \A c \in Contents[b] : c \in [clues : Nat, payload : Seq(0 .. 255)]

VARIABLES
    content,   \* what the block row of each height holds, None where there is none
    windows,   \* the entries of the caches, oldest first.  History: calm, the poller
               \* wrote nothing during the call that filed it; intact, nor has it
               \* written or removed a block row of the window since
    call       \* the running call.  History: calm, the poller has written nothing
               \* since it began; sound and intact, those of the window it answers from

windowVars == <<content, windows, call>>

NoCall == [kind |-> "none", step |-> "none", start |-> None, end |-> None, last |-> None,
           at |-> None, complete |-> FALSE, hash |-> None, rows |-> <<>>, contents |-> <<>>,
           calm |-> FALSE, sound |-> FALSE, intact |-> FALSE]

New(kind, range, last) ==
    [NoCall EXCEPT !.kind = kind, !.step = "probe", !.start = range[1], !.end = range[2],
                   !.last = last, !.at = range[1], !.calm = (todo = <<>>)]

TipHeight(d) == IF Tip(d) = NoTip THEN 0 ELSE Tip(d).height

\* digest_evaluable_end reads the tip first.
AskDigest ==
    /\ mode = "serving" /\ call = NoCall
    /\ \E range \in DigestRanges :
          LET last == Min({range[2], TipHeight(db)})
          IN  call' = IF range[1] > last
                      THEN [New("digest", range, None) EXCEPT !.step = "done"]
                      ELSE [New("digest", range, last)
                               EXCEPT !.complete = TipHeight(db) >= range[2]]
    /\ UNCHANGED <<cacheVars, content, windows>>

\* Then every height in turn: the digest ends before the first without a hash.
ProbeHash ==
    /\ call.step = "probe"
    /\ call' = IF db.hashes[call.at] = None
               THEN [call EXCEPT !.complete = FALSE, !.last = call.at - 1,
                                 !.step = IF call.at > call.start THEN "hash" ELSE "done"]
               ELSE IF call.at < call.last THEN [call EXCEPT !.at = @ + 1]
               ELSE [call EXCEPT !.step = "hash"]
    /\ UNCHANGED <<cacheVars, content, windows>>

\* FetchPirBatch takes no window that ends above the tip or needs too many
\* stripes.
AskPir ==
    /\ mode = "serving" /\ call = NoCall /\ Tip(db) # NoTip
    /\ \E range \in PirRanges :
          /\ range[2] <= Tip(db).height
          /\ StripeCount(range[2] - range[1] + 1) <= MaxStripes
          /\ call' = [New("pir", range, range[2]) EXCEPT !.step = "hash"]
    /\ UNCHANGED <<cacheVars, content, windows>>

\* The hash a window is filed under; pir_window_end_hash falls back on the tip.
EndHash(kind, d, h) ==
    IF d.hashes[h] = None /\ kind = "pir" /\ Tip(d).height = h THEN Tip(d).hash ELSE d.hashes[h]

Lookup_AnyHash(kind, start, last, hash) ==
    {w \in Range(windows) : w.kind = kind /\ w.start = start /\ w.last = last}

\* ClueWindowCache::get, PirWindowCache::get.
Lookup(kind, start, last, hash) ==
    {w \in Range(windows) :
        w.kind = kind /\ w.start = start /\ w.last = last /\ w.hash = hash}

\* A window that is found is not read again.
LookUp ==
    /\ call.step = "hash"
    /\ LET hash == EndHash(call.kind, db, call.last)
           hits == Lookup(call.kind, call.start, call.last, hash)
       IN  \/ \E w \in hits :
                 call' = [call EXCEPT !.step = "done", !.hash = hash, !.rows = w.rows,
                                      !.contents = w.contents, !.sound = w.calm,
                                      !.intact = w.intact]
           \/ hits = {} /\ call' = [call EXCEPT !.step = "scan", !.hash = hash]
    /\ UNCHANGED <<cacheVars, content, windows>>

\* ClueWindowCache::insert, PirWindowCache::insert: an entry of the window is
\* replaced in its place, else the oldest of the cache makes room.
File(entry) ==
    LET same(w) == w.kind = entry.kind /\ w.start = entry.start /\ w.last = entry.last
        mine(w) == w.kind = entry.kind
        rest    == IF Len(Filter(windows, mine)) < WindowCap THEN windows
                   ELSE RemoveFirst(windows, Filter(windows, mine)[1])
    IN  IF \E w \in Range(windows) : same(w)
        THEN [i \in DOMAIN windows |-> IF same(windows[i]) THEN entry ELSE windows[i]]
        ELSE Append(rest, entry)

\* get_encrypted_notes_range, load_pir_window_payloads: row by row, nothing for
\* a missing one.
ScanRow ==
    /\ call.step = "scan" /\ Len(call.rows) <= call.last - call.start
    /\ LET h == call.start + Len(call.rows)
       IN  call' = [call EXCEPT !.rows     = Append(@, db.blocks[h]),
                                !.contents = Append(@, content[h])]
    /\ UNCHANGED <<cacheVars, content, windows>>

\* A PIR window without a hash is not kept.
FileWindow ==
    /\ call.step = "scan" /\ Len(call.rows) > call.last - call.start
    /\ call' = [call EXCEPT !.step = "done", !.sound = call.calm, !.intact = call.calm]
    /\ windows' = IF call.kind = "pir" /\ call.hash = None THEN windows
                  ELSE File([kind |-> call.kind, start |-> call.start, last |-> call.last,
                             hash |-> call.hash, rows |-> call.rows, contents |-> call.contents,
                             calm |-> call.calm, intact |-> call.calm])
    /\ UNCHANGED <<cacheVars, content>>

Reply ==
    /\ call.step = "done"
    /\ call' = NoCall
    /\ UNCHANGED <<cacheVars, content, windows>>

WindowNext == AskDigest \/ ProbeHash \/ AskPir \/ LookUp \/ ScanRow \/ FileWindow \/ Reply

\* What is in a row that is written, after apply_omr_clue_hints.
MayHold(row) == IF row \in Hash THEN Contents[row] ELSE {None}

\* The poller's steps, beside a call.
Disturb ==
    /\ call' = [call EXCEPT !.calm = @ /\ todo' = <<>>]
    /\ IF todo # <<>> /\ Head(todo).tree = "blocks"
       THEN LET h == Head(todo).key
            IN  /\ \E c \in MayHold(Head(todo).val) : content' = [content EXCEPT ![h] = c]
                /\ windows' = [i \in DOMAIN windows |->
                       [windows[i] EXCEPT !.intact = @ /\ h \notin windows[i].start .. windows[i].last]]
       ELSE UNCHANGED <<content, windows>>

\* A crash loses the windows and the call.
WindowReset == windows' = <<>> /\ call' = NoCall /\ UNCHANGED content

WindowInit == content = NoRows /\ windows = <<>> /\ call = NoCall

-----------------------------------------------------------------------------
(* The answers.                                                             *)

CluesIn(c)   == IF c = None THEN 0 ELSE c.clues
PayloadIn(c) == IF c = None THEN <<>> ELSE c.payload

\* flatten_messages: one slot per clue, named by its height.
SlotsOf(start, contents) ==
    Concat([i \in DOMAIN contents |-> i], LAMBDA i :
        [k \in 1 .. CluesIn(contents[i]) |-> start + i - 1])

CapToWholeHeights_CutsAtCap(slots) == SubSeq(slots, 1, Min({Len(slots), MaxMessages}))

\* cap_messages_to_whole_heights: back to the end of a height, or the whole of
\* the first one.
CapToWholeHeights(slots) ==
    IF Len(slots) <= MaxMessages THEN slots
    ELSE LET below == Filter(slots, LAMBDA h : h < slots[MaxMessages])
         IN  IF below # <<>> THEN below
             ELSE Filter(slots, LAMBDA h : h = slots[MaxMessages])

\* The digest of evaluate_detection_keys: slot_heights and complete.
Digest(c) ==
    LET slots == SlotsOf(c.start, c.contents)
    IN  [slots    |-> CapToWholeHeights(slots),
         complete |-> c.complete /\ CapToWholeHeights(slots) = slots]

\* The wallet goes on above the last height it was told of.
ScannedTo(c) ==
    IF Digest(c).complete THEN c.end
    ELSE IF Digest(c).slots = <<>> THEN c.start - 1
    ELSE Max(Range(Digest(c).slots))

\* The slots of a height.
Shown(c, h) == Len(Filter(Digest(c).slots, LAMBDA k : k = h))

\* The block a window of a chain has at a height.
ChainBlock(top, h) == CHOOSE b \in Ancestors[top] : HeightOf[b] = h

-----------------------------------------------------------------------------
(* Properties.                                                              *)

\* A call that ran while the poller wrote nothing, before any crash.
CalmAnswer(kind) == call.kind = kind /\ call.step = "done" /\ call.calm /\ crashes = 0

\* A wallet that follows its digests leaves behind no height whose row the digest
\* did not cover: the rows are those the cache has now, each with all the clues
\* that were read of it, and with all it has now if it was not written since,
\* however the range was cut at the tip, at a hole or at the message cap, and
\* whether the window was scanned or kept from an earlier fork.  Claimed of calm
\* calls and of windows filed by one.
DigestLosesNoClue ==
    (CalmAnswer("digest") /\ (call.rows # <<>> => call.sound)) =>
        \A h \in call.start .. ScannedTo(call) :
            LET i == h - call.start + 1
            IN  /\ call.rows[i] \in Hash /\ call.rows[i] = db.blocks[h]
                /\ Shown(call, h) = CluesIn(call.contents[i])
                /\ call.intact => call.contents[i] = content[h]

\* Two indices of a window, fetched limb by limb, come back as what the rows held
\* when the window was read, byte for byte, or as nothing where a row is missing or
\* does not fit: rows of the blocks below its end hash; a row that was never pruned
\* is not missing, and one that was not written since is as it is now.  Claimed of
\* the same calls and windows: after a crash in a rewind the rows above and below
\* the hole may be of two forks.
PirReassembles ==
    (CalmAnswer("pir") /\ call.sound /\ call.hash # None) =>
        LET n == Len(call.rows)
            P == [i \in 1 .. n |-> PayloadIn(call.contents[i])]
        IN  \A i, j \in 0 .. n - 1 :
                LET got  == Round2(P, {i, j})[i]
                    read == call.contents[i + 1]
                    may  == Contents[ChainBlock(call.hash, call.start + i)]
                IN  /\ got \in {<<>>} \cup {c.payload : c \in may}
                    /\ Undamaged => read \in may
                    /\ (read # None /\ Len(read.payload) <= MaxPayload) => got = read.payload
                    /\ call.intact => read = content[call.start + i]

\* "No pertinent clue is ever silently lost" (unifomr.rs 1068): a wallet that
\* follows its digests is shown the clues that the rows it leaves behind have now,
\* also when the digest is made from a window that is kept (server.rs 1360).
KeptDigestLosesNoClue ==
    (CalmAnswer("digest") /\ (call.rows # <<>> => call.sound)) =>
        \A h \in call.start .. ScannedTo(call) : Shown(call, h) >= CluesIn(content[h])
=============================================================================
