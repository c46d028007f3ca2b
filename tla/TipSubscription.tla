--------------------------- MODULE TipSubscription ---------------------------
(***************************************************************************)
(* SubscribeBlocks (src/src/server.rs): the watch channel that the poller  *)
(* fires, the task that wakes on it and reads the tip row by row, the RPC  *)
(* it waits for, and the buffer of one notice its client reads from.  A    *)
(* notice only says that something changed: what is sent is read anew.     *)
(***************************************************************************)
EXTENDS CacheWrites

ASSUME TipAssumption == None \notin Tips

VARIABLES
    changed,   \* the watch holds a value this subscriber has not marked seen
    task,      \* the step the task is at, and the tip and row it has read
    buffer,    \* the channel to the client (SUBSCRIBE_TIP_BUFFER)
    known,     \* the last tip the client took
    skipped    \* history: a notice was dropped on a full buffer since the last
               \* one that was sent

subVars == <<changed, task, buffer, known, skipped>>

Waiting == [step |-> "wait", height |-> None, hash |-> None]

SubInit == /\ changed = FALSE /\ task = Waiting /\ buffer = None /\ known = None
           /\ skipped = FALSE

\* notify_tip, when a pass of the poller has changed the cache.
Announce ==
    /\ Idle /\ owed /\ Tip(db) # NoTip
    /\ owed' = FALSE
    /\ changed' = TRUE
    /\ UNCHANGED <<db, todo, mode, pruned, crashes, task, buffer, known, skipped>>

\* changed() and borrow_and_update(): the value is marked seen before the cache
\* is read.
Wake ==
    /\ mode = "serving" /\ task.step = "wait" /\ changed
    /\ changed' = FALSE
    /\ task' = [task EXCEPT !.step = "height"]
    /\ UNCHANGED <<cacheVars, buffer, known, skipped>>

\* get_tip, then get_compact_block; without one of the rows the task waits for
\* the next notice.
ReadTipHeight ==
    /\ task.step = "height"
    /\ task' = IF db.meta.tip_height = None THEN Waiting
               ELSE [task EXCEPT !.step = "hash", !.height = db.meta.tip_height]
    /\ UNCHANGED <<cacheVars, changed, buffer, known, skipped>>

ReadTipHash ==
    /\ task.step = "hash"
    /\ task' = IF db.meta.tip_hash = None THEN Waiting
               ELSE [task EXCEPT !.step = "block", !.hash = db.meta.tip_hash]
    /\ UNCHANGED <<cacheVars, changed, buffer, known, skipped>>

ReadTipBlock ==
    /\ task.step = "block"
    /\ task' = IF db.blocks[task.height] = None THEN Waiting
               ELSE [task EXCEPT !.step = "send"]
    /\ UNCHANGED <<cacheVars, changed, buffer, known, skipped>>

SendTip_NoticesAfter ==
    /\ task.step = "send"
    /\ task' = Waiting
    /\ changed' = FALSE
    /\ IF buffer = None
       THEN /\ buffer' = [height |-> task.height, hash |-> task.hash]
            /\ skipped' = FALSE
       ELSE /\ skipped' = TRUE
            /\ UNCHANGED buffer
    /\ UNCHANGED <<cacheVars, known>>

\* After block_target_from has waited for darkfid: try_send.
SendTip ==
    /\ task.step = "send"
    /\ task' = Waiting
    /\ IF buffer = None
       THEN /\ buffer' = [height |-> task.height, hash |-> task.hash]
            /\ skipped' = FALSE
       ELSE /\ skipped' = TRUE
            /\ UNCHANGED buffer
    /\ UNCHANGED <<cacheVars, changed, known>>

ClientReads ==
    /\ buffer # None
    /\ known' = buffer
    /\ buffer' = None
    /\ UNCHANGED <<cacheVars, changed, task, skipped>>

SubNext == Announce \/ Wake \/ ReadTipHeight \/ ReadTipHash \/ ReadTipBlock \/ SendTip
               \/ ClientReads

\* A crash ends the stream; the client subscribes again.
SubReset == /\ changed' = FALSE /\ task' = Waiting /\ buffer' = None
            /\ known' = None /\ skipped' = FALSE

-----------------------------------------------------------------------------
(* Properties.                                                              *)

\* Nothing is on its way to the client any more.
Quiet == Idle /\ ~owed /\ ~changed /\ task = Waiting /\ buffer = None

\* Once the poller rests and all it announced is read, the client knows the tip
\* the cache has: no change falls between a notice and the reads it causes.
\* The code makes two exceptions: a notice that finds the buffer full, and a tip
\* whose row is gone.
SubscriberCaughtUp ==
    (Quiet /\ known # None /\ ~skipped /\ Tip(db) # NoTip /\ db.blocks[Tip(db).height] # None)
        => known = Tip(db)
=============================================================================
