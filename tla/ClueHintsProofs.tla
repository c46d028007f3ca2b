--------------------------- MODULE ClueHintsProofs ---------------------------
(***************************************************************************)
(* For every set of transactions, peers, handlers, clues and indexes:      *)
(* the types; that the bindings stay within their limit; that only a       *)
(* sender registers; and that, if no two calls about one transaction       *)
(* overlap, the first writer of an output wins, whatever expires, is       *)
(* refused, times out or is sent again.  If besides a transaction is sent  *)
(* once, a refusal leaves nothing and an accepted clue stays; and if each  *)
(* clue is for one output, the clues that were sent with an accepted       *)
(* transaction are on it in the blocks of the day.                         *)
(***************************************************************************)
EXTENDS MCClueHints, FiniteSetTheorems, SequenceTheorems, TLAPS

Parking == {"prune", "stale", "dropHints", "dropStamp", "look", "insert", "stamp"}

\* A handler that is parking a clue has one to park.
Busy(call) == call.pc \in Parking => call.todo # <<>>

Calls == \A c \in Call : calls[c] # None => Busy(calls[c])

\* The scan belongs to a handler that waits for it.
Sweeper == sweep.by # None => At(sweep.by, "prune")

Inv == TypeOK /\ Calls /\ Sweeper

-----------------------------------------------------------------------------
(* What the control operators do to a handler.                              *)

\* A handler at another place of its code.
LEMMA GotoType ==
    ASSUME NEW r \in Handlers,
           NEW p \in Places
    PROVE  /\ [r EXCEPT !.pc = p] \in Handlers
           /\ [r EXCEPT !.pc = p].tx = r.tx
           /\ [r EXCEPT !.pc = p].pc = p
           /\ [r EXCEPT !.pc = p].todo = r.todo
BY DEF Handlers

\* The next item, or what follows when there is none.
LEMMA NextItemType ==
    ASSUME NEW r \in Handlers
    PROVE  /\ NextItem(r) \in Handlers /\ NextItem(r).tx = r.tx
           /\ Busy(NextItem(r)) /\ NextItem(r).pc # "insert"
<1>1. Emptied(r) \in {"broadcast", "hasMeta", "done"}
    BY DEF Emptied
<1>2. NextItem(r).pc \in {"prune", "broadcast", "hasMeta", "done"}
    BY <1>1 DEF NextItem, Handlers, Places
<1>3. NextItem(r) \in Handlers /\ NextItem(r).tx = r.tx /\ NextItem(r).todo = r.todo
    BY <1>1 DEF NextItem, Handlers, Places
<1>4. r.todo = <<>> => NextItem(r).pc \in {"broadcast", "hasMeta", "done"}
    BY <1>1 DEF NextItem, Handlers, Places
<1> QED
    BY <1>2, <1>3, <1>4 DEF Busy, Parking

\* The item is over: the next one comes, or what follows.
LEMMA OverType ==
    ASSUME NEW r \in Handlers, r.todo # <<>>, NEW parked \in BOOLEAN
    PROVE  /\ Over(r, parked) \in Handlers /\ Over(r, parked).tx = r.tx
           /\ Busy(Over(r, parked)) /\ Over(r, parked).pc # "insert"
<1> DEFINE acc == IF Head(r.todo).main THEN parked ELSE r.accepted
           s   == [r EXCEPT !.todo = Tail(r.todo), !.accepted = acc]
<1>1. Head(r.todo) \in Item /\ Tail(r.todo) \in Seq(Item)
    BY DEF Handlers
<1>2. acc \in BOOLEAN
    BY DEF Handlers
<1>3. s \in Handlers /\ s.tx = r.tx
    BY <1>1, <1>2 DEF Handlers
<1>4. Over(r, parked) = NextItem(s)
    BY DEF Over, Handlers
<1> HIDE DEF s
<1> QED
    BY <1>3, <1>4, NextItemType

\* A handler's own step keeps what is known of the handlers and of the scan.
LEMMA StepKeeps ==
    ASSUME Inv, NEW c \in Call, NEW r \in Handlers \cup {None},
           r # None => Busy(r), sweep.by # c, Step(c, r), UNCHANGED sweep
    PROVE  calls' \in [Call -> Handlers \cup {None}] /\ Calls' /\ Sweeper'
<1>1. calls' \in [Call -> Handlers \cup {None}]
    BY DEF Inv, TypeOK, Step
<1>2. \A d \in Call : calls'[d] = IF d = c THEN r ELSE calls[d]
    BY DEF Inv, TypeOK, Step
<1>3. Calls'
    BY <1>2 DEF Inv, Calls
<1>4. Sweeper'
    BY <1>2 DEF Inv, TypeOK, Sweeps, Sweeper, At
<1> QED
    BY <1>1, <1>3, <1>4

\* A step to another place of the code.
LEMMA GotoKeeps ==
    ASSUME Inv, NEW c \in Call, calls[c] # None, sweep.by # c,
           NEW p \in Places,
           p \in Parking => calls[c].pc \in Parking,
           Goto(c, p), UNCHANGED sweep
    PROVE  calls' \in [Call -> Handlers \cup {None}] /\ Calls' /\ Sweeper'
<1> DEFINE r == [calls[c] EXCEPT !.pc = p]
<1>1. calls[c] \in Handlers /\ Busy(calls[c])
    BY DEF Inv, TypeOK, Calls
<1>2. r \in Handlers /\ r.pc = p /\ r.todo = calls[c].todo
    BY <1>1, GotoType
<1>3. Busy(r)
    BY <1>1, <1>2 DEF Busy
<1>4. Step(c, r)
    BY DEF Goto
<1> HIDE DEF r
<1> QED
    BY <1>2, <1>3, <1>4, StepKeeps

\* From the check of an index to the store.
LEMMA ToStoreKeeps ==
    ASSUME Inv, NEW c \in Call, calls[c] # None, sweep.by # c,
           calls[c].pc \in Parking, ToStore(c), UNCHANGED sweep
    PROVE  calls' \in [Call -> Handlers \cup {None}] /\ Calls' /\ Sweeper'
<1> DEFINE r == [calls[c] EXCEPT !.pc = "prune", !.mode = "store"]
<1>1. calls[c] \in Handlers /\ calls[c].todo # <<>>
    BY DEF Inv, TypeOK, Calls, Busy
<1>2. r \in Handlers /\ r.todo = calls[c].todo
    BY <1>1 DEF Handlers, Places
<1>3. Step(c, r)
    BY DEF ToStore
<1> HIDE DEF r
<1> QED
    BY <1>1, <1>2, <1>3, StepKeeps DEF Busy

\* A handler that is not waiting for the scan is not the one that scans.
LEMMA NotScanning ==
    ASSUME Inv, NEW c \in Call, NEW p, p # "prune", At(c, p)
    PROVE  sweep.by # c /\ calls[c] \in Handlers /\ Busy(calls[c]) /\ calls[c].pc = p
BY ClueHintsAssumption DEF Inv, TypeOK, Calls, Sweeper, At

-----------------------------------------------------------------------------

LEMMA InitInv == Init => Inv
<1> USE ClueHintsAssumption
<1> SUFFICES ASSUME Init PROVE Inv
    OBVIOUS
<1>1. TypeOK
    BY DEF Init, TypeOK, Time, Row, NoClues, Sweeps, Idle
<1>2. Calls /\ Sweeper
    BY DEF Init, Calls, Sweeper, Idle
<1> QED
    BY <1>1, <1>2 DEF Inv

-----------------------------------------------------------------------------
(* Each operation keeps Inv.                                                *)

LEMMA StartSendInv ==
    ASSUME Inv, NEW c \in Call, NEW t \in Tx, NEW q \in Requests[t], StartSend(c, t, q)
    PROVE  Inv'
<1> USE ClueHintsAssumption
<1> DEFINE all   == q.base \o q.extras
           early == q.base # <<>> /\ t \notin Opaque
           todo  == IF early THEN all ELSE <<>>
           late  == IF t \in Opaque THEN all ELSE q.extras
           r     == [Blank(t, q.peer) EXCEPT !.todo = todo, !.late = late, !.metaAt = q.metaAt]
<1>1. q \in Request
    OBVIOUS
<1>2. all \in Seq(Item)
    BY <1>1 DEF Request
<1>3. todo \in Seq(Item) /\ late \in Seq(Item) /\ q.metaAt \in Index \cup {None} /\ q.peer \in Peer
    BY <1>1, <1>2 DEF Request
<1>4. NoClues \in Row
    BY DEF NoClues, Row
<1> HIDE DEF todo, late
<1>5. r \in Handlers
    BY <1>3, <1>4 DEF Handlers, Blank, Places
<1>6. Step(c, NextItem(r)) /\ calls[c] = None
    BY DEF StartSend, MayStart, todo, late
<1>7. UNCHANGED <<now, hints, stamp, meta, bind, sweep, poll, index, heard>>
    BY DEF StartSend
<1>8. sweep.by # c
    BY <1>6 DEF Inv, Sweeper, At
<1>9. NextItem(r) \in Handlers /\ Busy(NextItem(r))
    BY <1>5, NextItemType
<1>10. calls' \in [Call -> Handlers \cup {None}] /\ Calls' /\ Sweeper'
    BY <1>6, <1>7, <1>8, <1>9, StepKeeps
<1>11. started' \in 0..MaxCalls /\ sent' \subseteq Tx
    BY DEF StartSend, MayStart, Inv, TypeOK
<1> QED
    BY <1>7, <1>10, <1>11 DEF Inv, TypeOK

LEMMA LiveType == ASSUME TypeOK PROVE Live \in [Tx -> [peer : Peer, at : Time] \cup {None}]
BY DEF TypeOK, Live

LEMMA StartRegisterInv ==
    ASSUME Inv, NEW c \in Call, NEW t \in Tx, NEW p \in Peer,
           NEW item \in Registrations[t], StartRegister(c, t, p, item)
    PROVE  Inv'
<1> USE ClueHintsAssumption
<1> DEFINE one == <<item>>
           r   == [Blank(t, p) EXCEPT !.stage = "register", !.todo = one]
<1>1. item \in Item
    OBVIOUS
<1>2. NoClues \in Row
    BY DEF NoClues, Row
<1>3. one \in Seq(Item) /\ one # <<>>
    BY <1>1
<1> HIDE DEF one
<1>4. r \in Handlers /\ r.todo # <<>>
    <2>1. Blank(t, p) \in Handlers
        BY <1>2 DEF Handlers, Blank, Places
    <2>2. r \in Handlers /\ r.todo = one
        BY <1>3, <2>1 DEF Handlers
    <2> QED
        BY <1>3, <2>2
<1>5. Step(c, r) /\ calls[c] = None
    BY DEF StartRegister, MayStart, one
<1>6. UNCHANGED <<now, hints, stamp, meta, sweep, poll, index, heard, sent>>
    BY DEF StartRegister
<1>7. sweep.by # c
    BY <1>5 DEF Inv, Sweeper, At
<1> HIDE DEF r
<1>8. calls' \in [Call -> Handlers \cup {None}] /\ Calls' /\ Sweeper'
    BY <1>4, <1>5, <1>6, <1>7, StepKeeps DEF Busy
<1>9. started' \in 0..MaxCalls
    BY DEF StartRegister, MayStart, Inv, TypeOK
<1>10. bind' \in [Tx -> [peer : Peer, at : Time] \cup {None}]
    BY LiveType DEF StartRegister, Inv
<1> QED
    BY <1>6, <1>8, <1>9, <1>10 DEF Inv, TypeOK

\* The full scan.
LEMMA SweepInv ==
    ASSUME Inv, NEW c \in Call, SweepCollect(c) \/ SweepHints(c) \/ SweepStamp(c)
    PROVE  Inv'
<1> USE ClueHintsAssumption
<1>0. NoClues \in Row
    BY DEF NoClues, Row
<1>1. CASE SweepCollect(c)
    <2>1. sweep' \in Sweeps /\ sweep'.by = c /\ UNCHANGED calls
        BY <1>1 DEF SweepCollect, Sweeps
    <2>2. Calls' /\ Sweeper'
        BY <1>1, <2>1 DEF Inv, Calls, Sweeper, At, SweepCollect
    <2> QED
        BY <1>1, <2>1, <2>2 DEF SweepCollect, Inv, TypeOK
<1>2. CASE SweepHints(c)
    <2>1. PICK t \in sweep.todo :
              /\ hints' = [hints EXCEPT ![t] = NoClues]
              /\ sweep' = [by |-> c, todo |-> sweep.todo \ {t}, half |-> t]
        BY <1>2 DEF SweepHints
    <2>2. sweep' \in Sweeps /\ sweep'.by = sweep.by /\ UNCHANGED calls
        BY <1>2, <2>1 DEF SweepHints, Sweeps, Inv, TypeOK
    <2>3. hints' \in [Tx -> Row]
        BY <1>0, <2>1 DEF Inv, TypeOK, Sweeps
    <2>4. Calls' /\ Sweeper'
        BY <2>2 DEF Inv, Calls, Sweeper, At
    <2> QED
        BY <1>2, <2>2, <2>3, <2>4 DEF SweepHints, Inv, TypeOK
<1>3. CASE SweepStamp(c)
    <2>1. sweep.half \in Tx /\ sweep.by = c /\ At(c, "prune")
        BY <1>3 DEF SweepStamp, Inv, TypeOK, Sweeps, Sweeper
    <2>2. stamp' \in [Tx -> Time \cup {None}]
        BY <1>3, <2>1 DEF SweepStamp, Inv, TypeOK
    <2>3. UNCHANGED <<now, hints, meta, bind, poll, index, heard, sent, started>>
        BY <1>3 DEF SweepStamp
    <2>4. CASE sweep.todo = {}
        <3> DEFINE r == [calls[c] EXCEPT !.pc = "stale"]
        <3>1. sweep' = Idle /\ Step(c, r)
            BY <1>3, <2>4 DEF SweepStamp, Goto
        <3>2. calls[c] \in Handlers /\ Busy(calls[c]) /\ calls[c].pc = "prune"
            BY <2>1 DEF Inv, TypeOK, Calls, At
        <3>3. r \in Handlers /\ r.pc = "stale" /\ r.todo = calls[c].todo
            BY <3>2, GotoType DEF Places
        <3>4. Busy(r)
            BY <3>2, <3>3 DEF Busy, Parking
        <3> HIDE DEF r
        <3>5. calls' \in [Call -> Handlers \cup {None}]
            BY <3>1, <3>3 DEF Inv, TypeOK, Step
        <3>6. Calls'
            BY <3>1, <3>4 DEF Inv, TypeOK, Calls, Step
        <3>7. sweep' \in Sweeps /\ Sweeper'
            BY <3>1 DEF Idle, Sweeps, Sweeper
        <3> QED
            BY <2>2, <2>3, <3>5, <3>6, <3>7 DEF Inv, TypeOK
    <2>5. CASE sweep.todo # {}
        <3>1. sweep' = [sweep EXCEPT !.half = None] /\ UNCHANGED calls
            BY <1>3, <2>5 DEF SweepStamp
        <3>2. sweep' \in Sweeps /\ sweep'.by = sweep.by
            BY <3>1 DEF Inv, TypeOK, Sweeps
        <3>3. Calls' /\ Sweeper'
            BY <3>1, <3>2 DEF Inv, Calls, Sweeper, At
        <3> QED
            BY <2>2, <2>3, <3>1, <3>2, <3>3 DEF Inv, TypeOK
    <2> QED
        BY <2>4, <2>5
<1> QED
    BY <1>1, <1>2, <1>3

\* A handler's other steps while it parks a clue.
LEMMA ParkInv ==
    ASSUME Inv, NEW c \in Call,
           \/ Stale(c) \/ RemoveHints(c) \/ RemoveStamp(c) \/ LookToCheck(c)
           \/ LookToStore(c) \/ InsertHints(c) \/ InsertStamp(c)
    PROVE  Inv'
<1> USE ClueHintsAssumption
<1>0. NoClues \in Row
    BY DEF NoClues, Row
<1> DEFINE t == calls[c].tx
<1>1. CASE Stale(c)
    <2>1. calls[c] # None /\ sweep.by # c /\ calls[c].pc \in Parking
        BY <1>1, NotScanning DEF Stale, At, Parking
    <2>2. \E p \in {"dropHints", "look"} : Goto(c, p)
        BY <1>1 DEF Stale
    <2>3. calls' \in [Call -> Handlers \cup {None}] /\ Calls' /\ Sweeper'
        BY <1>1, <2>1, <2>2, GotoKeeps DEF Stale, Places
    <2> QED
        BY <1>1, <2>3 DEF Stale, Inv, TypeOK
<1>2. CASE RemoveHints(c)
    <2>1. calls[c] # None /\ sweep.by # c /\ t \in Tx
        BY <1>2, NotScanning DEF RemoveHints, At, Handlers
    <2>2. \/ calls[c].pc = "dropHints" /\ Goto(c, "dropStamp")
          \/ Goto(c, "forgetStamp")
        BY <1>2 DEF RemoveHints
    <2>3. calls' \in [Call -> Handlers \cup {None}] /\ Calls' /\ Sweeper'
        BY <1>2, <2>1, <2>2, GotoKeeps DEF RemoveHints, Places, Parking
    <2>4. hints' \in [Tx -> Row]
        BY <1>0, <1>2, <2>1 DEF RemoveHints, Inv, TypeOK
    <2> QED
        BY <1>2, <2>3, <2>4 DEF RemoveHints, Inv, TypeOK
<1>3. CASE RemoveStamp(c)
    <2>1. calls[c] # None /\ sweep.by # c /\ calls[c] \in Handlers /\ Busy(calls[c]) /\ t \in Tx
        BY <1>3, NotScanning DEF RemoveStamp, At, Handlers
    <2>2. \/ Goto(c, "refused")
          \/ calls[c].pc = "dropStamp" /\ ToStore(c)
          \/ calls[c].pc = "dropStamp" /\ Goto(c, "look")
        BY <1>3 DEF RemoveStamp, At
    <2>3. ToStore(c) /\ calls[c].pc = "dropStamp"
             => calls' \in [Call -> Handlers \cup {None}] /\ Calls' /\ Sweeper'
        BY <1>3, <2>1, ToStoreKeeps DEF RemoveStamp, Parking
    <2>4. calls' \in [Call -> Handlers \cup {None}] /\ Calls' /\ Sweeper'
        BY <1>3, <2>1, <2>2, <2>3, GotoKeeps DEF RemoveStamp, Places, Parking
    <2>5. stamp' \in [Tx -> Time \cup {None}]
        BY <1>3, <2>1 DEF RemoveStamp, Inv, TypeOK
    <2> QED
        BY <1>3, <2>4, <2>5 DEF RemoveStamp, Inv, TypeOK
<1>4. CASE LookToCheck(c)
    <2>1. /\ calls[c] # None /\ sweep.by # c /\ calls[c] \in Handlers /\ Busy(calls[c])
          /\ calls[c].pc = "look" /\ calls[c].todo # <<>>
        BY <1>4, NotScanning DEF LookToCheck, At, Busy, Parking
    <2>2. Step(c, Over(calls[c], FALSE)) \/ ToStore(c)
        BY <1>4 DEF LookToCheck
    <2>3. calls' \in [Call -> Handlers \cup {None}] /\ Calls' /\ Sweeper'
        BY <1>4, <2>1, <2>2, OverType, StepKeeps, ToStoreKeeps DEF LookToCheck, Parking
    <2> QED
        BY <1>4, <2>3 DEF LookToCheck, Inv, TypeOK
<1>5. CASE LookToStore(c)
    <2> DEFINE r == [calls[c] EXCEPT !.pc = "insert", !.row = hints[t]]
    <2>1. /\ calls[c] # None /\ sweep.by # c /\ calls[c] \in Handlers /\ t \in Tx
          /\ calls[c].pc = "look" /\ calls[c].todo # <<>>
        BY <1>5, NotScanning DEF LookToStore, At, Busy, Parking, Handlers
    <2>2. hints[t] \in Row
        BY <2>1 DEF Inv, TypeOK
    <2>3. r \in Handlers /\ r.todo = calls[c].todo
        BY <2>1, <2>2 DEF Handlers, Places
    <2>4. Step(c, Over(calls[c], TRUE)) \/ Step(c, r)
        BY <1>5 DEF LookToStore
    <2> HIDE DEF r
    <2>5. calls' \in [Call -> Handlers \cup {None}] /\ Calls' /\ Sweeper'
        BY <1>5, <2>1, <2>3, <2>4, OverType, StepKeeps DEF LookToStore, Busy
    <2> QED
        BY <1>5, <2>5 DEF LookToStore, Inv, TypeOK
<1>6. CASE InsertHints(c)
    <2>1. /\ calls[c] # None /\ sweep.by # c /\ calls[c] \in Handlers /\ t \in Tx
          /\ calls[c].pc = "insert" /\ calls[c].todo # <<>>
        BY <1>6, NotScanning DEF InsertHints, At, Busy, Parking, Handlers
    <2>2. Head(calls[c].todo) \in Item /\ calls[c].row \in Row
        BY <2>1 DEF Handlers
    <2>3. AddClue(calls[c].row, Head(calls[c].todo)) \in Row
        BY <2>2 DEF AddClue, Row, Item
    <2>4. hints' \in [Tx -> Row]
        BY <1>6, <2>1, <2>3 DEF InsertHints, Inv, TypeOK
    <2>5. calls' \in [Call -> Handlers \cup {None}] /\ Calls' /\ Sweeper'
        BY <1>6, <2>1, GotoKeeps DEF InsertHints, Places, Parking
    <2> QED
        BY <1>6, <2>4, <2>5 DEF InsertHints, Inv, TypeOK
<1>7. CASE InsertStamp(c)
    <2> DEFINE r == [calls[c] EXCEPT !.row = NoClues]
    <2>1. /\ calls[c] # None /\ sweep.by # c /\ calls[c] \in Handlers /\ t \in Tx
          /\ calls[c].pc = "stamp" /\ calls[c].todo # <<>>
        BY <1>7, NotScanning DEF InsertStamp, At, Busy, Parking, Handlers
    <2>2. r \in Handlers /\ r.todo = calls[c].todo
        BY <1>0, <2>1 DEF Handlers
    <2>3. Step(c, Over(r, TRUE))
        BY <1>7 DEF InsertStamp
    <2> HIDE DEF r
    <2>4. calls' \in [Call -> Handlers \cup {None}] /\ Calls' /\ Sweeper'
        BY <1>7, <2>1, <2>2, <2>3, OverType, StepKeeps DEF InsertStamp
    <2>5. stamp' \in [Tx -> Time \cup {None}]
        BY <1>7, <2>1 DEF InsertStamp, Inv, TypeOK
    <2> QED
        BY <1>7, <2>4, <2>5 DEF InsertStamp, Inv, TypeOK
<1> QED
    BY <1>1, <1>2, <1>3, <1>4, <1>5, <1>6, <1>7

\* The broadcast, its answer and what follows it.
LEMMA FinishInv == ASSUME Inv, NEW c \in Call, Finish(c) PROVE Inv'
<1> USE ClueHintsAssumption
<1> DEFINE t == calls[c].tx
<1>1. CASE Take(c)
    <2>1. t \in Tx
        BY <1>1, NotScanning DEF Take, Handlers
    <2>2. Calls' /\ Sweeper'
        BY <1>1 DEF Take, Inv, Calls, Sweeper, At
    <2> QED
        BY <1>1, <2>1, <2>2 DEF Take, Inv, TypeOK
<1>2. CASE Accepted(c) \/ Refused(c) \/ HasMeta(c) \/ PutMeta(c)
    <2>1. calls[c] # None /\ sweep.by # c /\ calls[c] \in Handlers
        BY <1>2, NotScanning DEF Accepted, Refused, HasMeta, PutMeta, At
    <2>2. \E p \in {"remember", "forgetHints", "refused", "done", "putMeta"} : Goto(c, p)
        BY <1>2 DEF Accepted, Refused, HasMeta, PutMeta
    <2>3. UNCHANGED <<now, hints, stamp, bind, sweep, poll, index, heard, sent, started>>
        BY <1>2 DEF Accepted, Refused, HasMeta, PutMeta
    <2>4. calls' \in [Call -> Handlers \cup {None}] /\ Calls' /\ Sweeper'
        BY <2>1, <2>2, <2>3, GotoKeeps DEF Places, Parking
    <2>5. t \in Tx /\ calls[c].metaAt \in Index \cup {None}
        BY <2>1 DEF Handlers
    <2>6. meta' = meta \/ meta' = [meta EXCEPT ![t] = calls[c].metaAt]
        BY <1>2 DEF Accepted, Refused, HasMeta, PutMeta
    <2>7. meta' \in [Tx -> Index \cup {None}]
        BY <2>5, <2>6 DEF Inv, TypeOK
    <2> QED
        BY <2>3, <2>4, <2>7 DEF Inv, TypeOK
<1>3. CASE TimedOut(c) \/ Answer(c)
    <2>1. sweep.by # c
        BY <1>3, NotScanning DEF TimedOut, Answer
    <2>2. Step(c, None)
        BY <1>3 DEF TimedOut, Answer, Return
    <2>3. UNCHANGED <<now, hints, stamp, meta, bind, sweep, poll, index, heard, sent, started>>
        BY <1>3 DEF TimedOut, Answer
    <2>4. calls' \in [Call -> Handlers \cup {None}] /\ Calls' /\ Sweeper'
        BY <2>1, <2>2, <2>3, StepKeeps
    <2> QED
        BY <2>3, <2>4 DEF Inv, TypeOK
<1>4. CASE Remember(c)
    <2> DEFINE late  == calls[c].late
               empty == <<>>
               r     == [calls[c] EXCEPT !.stage = "after", !.todo = late, !.late = empty]
    <2>1. calls[c] # None /\ sweep.by # c /\ calls[c] \in Handlers
        BY <1>4, NotScanning DEF Remember, At
    <2>2. late \in Seq(Item) /\ empty \in Seq(Item) /\ calls[c].peer \in Peer /\ t \in Tx
        BY <2>1 DEF Handlers
    <2>3. Step(c, NextItem(r))
        BY <1>4 DEF Remember
    <2> HIDE DEF late, empty
    <2>4. r \in Handlers
        BY <2>1, <2>2 DEF Handlers
    <2> HIDE DEF r
    <2>5. calls' \in [Call -> Handlers \cup {None}] /\ Calls' /\ Sweeper'
        BY <1>4, <2>1, <2>3, <2>4, NextItemType, StepKeeps DEF Remember
    <2>6. bind' \in [Tx -> [peer : Peer, at : Time] \cup {None}]
        <3>1. PICK gone \in Evicted(Live) :
                  bind' = [u \in Tx |-> IF u = t THEN [peer |-> calls[c].peer, at |-> now]
                                        ELSE IF u \in gone THEN None ELSE Live[u]]
            BY <1>4 DEF Remember
        <3>2. Live \in [Tx -> [peer : Peer, at : Time] \cup {None}]
            BY LiveType DEF Inv
        <3>3. now \in Time
            BY DEF Inv, TypeOK
        <3> QED
            BY <2>2, <3>1, <3>2, <3>3
    <2> QED
        BY <1>4, <2>5, <2>6 DEF Remember, Inv, TypeOK
<1> QED
    BY <1>1, <1>2, <1>3, <1>4 DEF Finish

\* The poller's merge, and the clock.
LEMMA PollerInv == ASSUME Inv, Poller \/ Tick PROVE Inv'
<1> USE ClueHintsAssumption
<1>0. NoClues \in Row
    BY DEF NoClues, Row
<1>1. Poller \/ Tick => UNCHANGED <<bind, calls, sweep, heard, sent, started>>
    BY DEF Poller, Tick, StartMerge, MergeStale, MergeDropHints, MergeDropStamp,
           MergeClues, MergeMeta, TakeMeta, WriteBlock, Unindex
<1>2. Calls' /\ Sweeper'
    BY <1>1 DEF Inv, Calls, Sweeper, At
<1>3. ASSUME poll # None
      PROVE  poll \in Merges /\ poll.tx \in Tx /\ poll.out \in Outs
             /\ poll.meta \in Index \cup {None}
    BY <1>3 DEF Inv, TypeOK, Merges
<1>4. ASSUME NEW t \in Tx, StartMerge(t) \/ Unindex(t) PROVE TypeOK'
    <2>1. CASE StartMerge(t)
        <3>1. [o \in Output |-> None] \in Outs
            BY DEF Outs
        <3>2. poll' \in Merges
            BY <2>1, <3>1 DEF StartMerge, Merges
        <3> QED
            BY <2>1, <3>2 DEF StartMerge, Inv, TypeOK
    <2>2. CASE Unindex(t)
        BY <2>2 DEF Unindex, Inv, TypeOK
    <2> QED
        BY <1>4, <2>1, <2>2
<1>5. ASSUME MergeStale \/ MergeDropHints \/ MergeDropStamp PROVE TypeOK'
    <2>1. poll # None /\ \E p \in {"dropHints", "look", "dropStamp", "meta"} : MergeTo(p)
        BY <1>5 DEF MergeStale, MergeDropHints, MergeDropStamp, Merging
    <2>2. poll' \in Merges
        BY <1>3, <2>1 DEF MergeTo, Merges
    <2>3. hints' \in [Tx -> Row] /\ stamp' \in [Tx -> Time \cup {None}]
        BY <1>0, <1>3, <1>5, <2>1 DEF MergeStale, MergeDropHints, MergeDropStamp, Inv, TypeOK
    <2>4. UNCHANGED <<now, meta, bind, calls, sweep, index, heard, sent, started>>
        BY <1>5 DEF MergeStale, MergeDropHints, MergeDropStamp
    <2> QED
        BY <2>2, <2>3, <2>4 DEF Inv, TypeOK
<1>6. ASSUME MergeClues PROVE TypeOK'
    <2>1. poll' \in Merges
        BY <1>3, <1>6, ZenonT(60) DEF MergeClues, Merging, Attached, Merges
    <2> QED
        BY <1>6, <2>1 DEF MergeClues, Inv, TypeOK
<1>7. ASSUME MergeMeta PROVE TypeOK'
    <2>1. poll # None
        BY <1>7 DEF MergeMeta, Merging
    <2>2. meta[poll.tx] \in Index \cup {None}
        BY <1>3, <2>1 DEF Inv, TypeOK
    <2>3. poll' \in Merges
        BY <1>3, <1>7, <2>1, <2>2 DEF MergeMeta, Merges
    <2> QED
        BY <1>7, <2>3 DEF MergeMeta, Inv, TypeOK
<1>8. ASSUME TakeMeta PROVE TypeOK'
    <2>1. poll' \in Merges
        BY <1>3, <1>8 DEF TakeMeta, Merging, MergeTo, Merges
    <2>2. meta' \in [Tx -> Index \cup {None}]
        BY <1>3, <1>8 DEF TakeMeta, Merging, Inv, TypeOK
    <2> QED
        BY <1>8, <2>1, <2>2 DEF TakeMeta, Inv, TypeOK
<1>9. ASSUME WriteBlock PROVE TypeOK'
    <2> DEFINE m     == IF poll.meta \in Output THEN poll.meta ELSE None
               block == [out |-> poll.out, meta |-> m]
    <2>1. poll # None
        BY <1>9 DEF WriteBlock, Merging
    <2>2. block \in [out : Outs, meta : Output \cup {None}]
        BY <1>3, <2>1
    <2>3. index' = [index EXCEPT ![poll.tx] = block]
        BY <1>9 DEF WriteBlock
    <2> HIDE DEF block
    <2>4. index' \in [Tx -> [out : Outs, meta : Output \cup {None}] \cup {None}]
        BY <1>3, <2>1, <2>2, <2>3 DEF Inv, TypeOK
    <2> QED
        BY <1>9, <2>4 DEF WriteBlock, Inv, TypeOK
<1>10. ASSUME Tick PROVE TypeOK'
    BY <1>10 DEF Tick, Time, Inv, TypeOK
<1> QED
    BY <1>2, <1>4, <1>5, <1>6, <1>7, <1>8, <1>9, <1>10 DEF Poller, Inv

LEMMA NextInv == Inv /\ [Next]_vars => Inv'
<1>1. ASSUME Inv, Start PROVE Inv'
    BY <1>1, StartSendInv, StartRegisterInv DEF Start
<1>2. ASSUME Inv, NEW c \in Call, Park(c) PROVE Inv'
    BY <1>2, SweepInv, ParkInv DEF Park
<1>3. ASSUME Inv, UNCHANGED vars PROVE Inv'
    BY <1>3 DEF vars, Inv, TypeOK, Calls, Sweeper, At
<1> QED
    BY <1>1, <1>2, <1>3, FinishInv, PollerInv DEF Next

LEMMA SpecInv == Spec => []Inv
BY InitInv, NextInv, PTL DEF Spec

\* The types of the trees, of the handlers' variables and of the bindings.
THEOREM TypeCorrectHints == Spec => []TypeOK
<1>1. Inv => TypeOK
    BY DEF Inv
<1> QED
    BY <1>1, SpecInv, PTL

-----------------------------------------------------------------------------
(* The limit of the bindings.                                               *)

Finite == IsFiniteSet(Bound(bind))

\* The bindings that are not expired are some of the bindings.
LEMMA LiveBound ==
    ASSUME Finite, BindsBounded
    PROVE  IsFiniteSet(Bound(Live)) /\ Cardinality(Bound(Live)) <= MaxBinds
<1>1. Bound(Live) \subseteq Bound(bind)
    BY DEF Bound, Live
<1>2. IsFiniteSet(Bound(Live)) /\ Cardinality(Bound(Live)) <= Cardinality(Bound(bind))
    BY <1>1, FS_Subset DEF Finite
<1>3. Cardinality(Bound(Live)) \in Nat /\ Cardinality(Bound(bind)) \in Nat
    BY <1>2, FS_CardinalityType DEF Finite
<1> QED
    BY <1>2, <1>3, ClueHintsAssumption DEF BindsBounded

\* remember_send_peer makes room for the binding it adds.
LEMMA RememberBound ==
    ASSUME Finite, BindsBounded, NEW c \in Call, Remember(c)
    PROVE  Finite' /\ BindsBounded'
<1> USE ClueHintsAssumption
<1> DEFINE t == calls[c].tx
           L == Bound(Live)
<1>1. PICK gone \in Evicted(Live) :
          bind' = [u \in Tx |-> IF u = t THEN [peer |-> calls[c].peer, at |-> now]
                                ELSE IF u \in gone THEN None ELSE Live[u]]
    BY DEF Remember
<1>2. IsFiniteSet(L) /\ Cardinality(L) \in Nat /\ Cardinality(L) <= MaxBinds
    BY LiveBound, FS_CardinalityType
<1>3. gone \subseteq L
    BY DEF Evicted
<1>4. /\ IsFiniteSet(L \ gone) /\ Cardinality(L \ gone) \in Nat
      /\ Cardinality(L \ gone) < MaxBinds
    <2>1. IsFiniteSet(gone) /\ Cardinality(gone) \in Nat
        BY <1>2, <1>3, FS_Subset, FS_CardinalityType
    <2>2. IsFiniteSet(L \ gone) /\ Cardinality(L \ gone) = Cardinality(L) - Cardinality(gone)
        <3>1. L \cap gone = gone
            BY <1>3
        <3> QED
            BY <1>2, <3>1, FS_Difference
    <2>3. Cardinality(L) < MaxBinds \/ Cardinality(gone) = Cardinality(L) - MaxBinds + 1
        BY DEF Evicted
    <2>4. Cardinality(L \ gone) \in Nat
        BY <2>2, FS_CardinalityType
    <2> QED
        BY <1>2, <2>1, <2>2, <2>3, <2>4
<1>5. Bound(bind') \subseteq (L \ gone) \cup {t}
    BY <1>1 DEF Bound
<1>6. /\ IsFiniteSet((L \ gone) \cup {t})
      /\ Cardinality((L \ gone) \cup {t}) \in Nat
      /\ Cardinality((L \ gone) \cup {t}) <= MaxBinds
    <2> DEFINE D == L \ gone
    <2>1. IsFiniteSet(D) /\ Cardinality(D) \in Nat /\ Cardinality(D) < MaxBinds
        BY <1>4
    <2> HIDE DEF D
    <2>2. /\ IsFiniteSet(D \cup {t})
          /\ Cardinality(D \cup {t}) = IF t \in D THEN Cardinality(D) ELSE Cardinality(D) + 1
        BY <2>1, FS_AddElement
    <2>3. Cardinality(D \cup {t}) \in Nat /\ Cardinality(D \cup {t}) <= MaxBinds
        BY <2>1, <2>2
    <2> QED
        BY <2>2, <2>3 DEF D
<1>7. IsFiniteSet(Bound(bind')) /\ Cardinality(Bound(bind')) <= Cardinality((L \ gone) \cup {t})
    BY <1>5, <1>6, FS_Subset
<1>8. Cardinality(Bound(bind')) \in Nat
    BY <1>7, FS_CardinalityType
<1>9. Cardinality(Bound(bind')) <= MaxBinds
    BY <1>6, <1>7, <1>8
<1> QED
    BY <1>7, <1>9 DEF Finite, BindsBounded, Bound

\* However many transactions are sent and whenever they expire, recent_send_peers
\* never exceeds max_send_peer_entries.
THEOREM BindsStayBounded == Spec => []BindsBounded
<1> USE ClueHintsAssumption
<1>1. Init => Finite /\ BindsBounded
    <2> SUFFICES ASSUME Init PROVE Finite /\ BindsBounded
        OBVIOUS
    <2>1. Bound(bind) = {}
        BY DEF Init, Bound
    <2> QED
        BY <2>1, FS_EmptySet DEF Finite, BindsBounded
<1>2. Finite /\ BindsBounded /\ [Next]_vars => (Finite /\ BindsBounded)'
    <2> SUFFICES ASSUME Finite, BindsBounded, [Next]_vars PROVE Finite' /\ BindsBounded'
        OBVIOUS
    <2>1. ASSUME UNCHANGED bind PROVE Finite' /\ BindsBounded'
        BY <2>1 DEF Finite, BindsBounded, Bound
    <2>2. ASSUME NEW c \in Call, NEW t \in Tx, NEW p, NEW item, StartRegister(c, t, p, item)
          PROVE  Finite' /\ BindsBounded'
        <3>1. Bound(bind') = Bound(Live)
            BY <2>2 DEF StartRegister
        <3> QED
            BY <3>1, LiveBound DEF Finite, BindsBounded, Bound
    <2>3. ASSUME NEW c \in Call, NEW t \in Tx, NEW r, StartSend(c, t, r) PROVE UNCHANGED bind
        BY <2>3 DEF StartSend
    <2>4. ASSUME NEW c \in Call, Park(c) PROVE UNCHANGED bind
        BY <2>4 DEF Park, SweepCollect, SweepHints, SweepStamp, Stale, RemoveHints,
               RemoveStamp, LookToCheck, LookToStore, InsertHints, InsertStamp
    <2>5. ASSUME NEW c \in Call, Finish(c) PROVE Remember(c) \/ UNCHANGED bind
        BY <2>5 DEF Finish, Take, Accepted, Refused, TimedOut, HasMeta, PutMeta, Answer
    <2>6. Poller \/ Tick \/ UNCHANGED vars => UNCHANGED bind
        BY DEF Poller, Tick, StartMerge, MergeStale, MergeDropHints, MergeDropStamp,
               MergeClues, MergeMeta, TakeMeta, WriteBlock, Unindex, vars
    <2> QED
        BY <2>1, <2>2, <2>3, <2>4, <2>5, <2>6, RememberBound DEF Next, Start
<1> QED
    BY <1>1, <1>2, PTL DEF Spec

-----------------------------------------------------------------------------
(* The first writer wins where no two calls about a transaction overlap.    *)
(* What a handler read of a row is still there when it writes it back, or   *)
(* the row is gone: others only ever remove it.                             *)

Alone ==
    \A c, d \in Call :
        calls[c] # None /\ calls[d] # None /\ calls[c].tx = calls[d].tx => c = d

Fresh(call, row) ==
    call.pc = "insert" =>
        /\ row = NoClues \/ row = call.row
        /\ ~ IndexTaken(call.row, Head(call.todo).at)

ReadsFresh == \A c \in Call : calls[c] # None => Fresh(calls[c], hints[calls[c].tx])

\* A handler's own step, to where it has no row to write back, keeps both.
LEMMA StepAlone ==
    ASSUME Inv, Alone, NEW c \in Call, calls[c] # None, NEW r \in Handlers \cup {None},
           r # None => r.tx = calls[c].tx, Step(c, r)
    PROVE  Alone'
<1>1. \A d \in Call : calls'[d] = IF d = c THEN r ELSE calls[d]
    BY DEF Inv, TypeOK, Step
<1>2. \A d \in Call : calls'[d] # None => calls[d] # None /\ calls'[d].tx = calls[d].tx
    BY <1>1
<1> QED
    BY <1>2 DEF Alone

\* Hints that lose whole rows only leave what the others read good.
LEMMA StepFresh ==
    ASSUME Inv, ReadsFresh, NEW c \in Call, NEW r, Step(c, r),
           r # None => Fresh(r, hints'[r.tx]),
           \A t \in Tx : hints'[t] = hints[t] \/ hints'[t] = NoClues
    PROVE  ReadsFresh'
<1>1. \A d \in Call : calls'[d] = IF d = c THEN r ELSE calls[d]
    BY DEF Inv, TypeOK, Step
<1>2. ASSUME NEW d \in Call, d # c, calls[d] # None
      PROVE  Fresh(calls[d], hints'[calls[d].tx])
    <2>1. calls[d].tx \in Tx
        BY <1>2 DEF Inv, TypeOK, Handlers
    <2> QED
        BY <1>2, <2>1 DEF ReadsFresh, Fresh
<1> QED
    BY <1>1, <1>2 DEF ReadsFresh

\* The rows of a step are those before it, or gone.
OnlyRemoves == \A t \in Tx : hints'[t] \in {hints[t], NoClues}

\* A step of a handler that does not end where it writes a row back.
Quiet(c) ==
    \E r \in Handlers \cup {None} :
        Step(c, r) /\ (r # None => r.tx = calls[c].tx /\ r.pc # "insert")

\* Going to another place, unless it is the write, is quiet.
LEMMA GotoQuiet ==
    ASSUME NEW c \in Call, calls[c] \in Handlers, NEW p \in Places \ {"insert"}, Goto(c, p)
    PROVE  Quiet(c)
<1> DEFINE r == [calls[c] EXCEPT !.pc = p]
<1>1. r \in Handlers /\ r.tx = calls[c].tx /\ r.pc = p
    BY GotoType
<1>2. Step(c, r)
    BY DEF Goto
<1> HIDE DEF r
<1> QED
    BY <1>1, <1>2 DEF Quiet

LEMMA ToStoreQuiet ==
    ASSUME NEW c \in Call, calls[c] \in Handlers, ToStore(c) PROVE Quiet(c)
<1> DEFINE r == [calls[c] EXCEPT !.pc = "prune", !.mode = "store"]
<1>1. r \in Handlers /\ r.tx = calls[c].tx /\ r.pc = "prune"
    BY DEF Handlers, Places
<1>2. Step(c, r)
    BY DEF ToStore
<1> HIDE DEF r
<1> QED
    BY <1>1, <1>2 DEF Quiet

\* The steps of a handler that are quiet: all but two.
LEMMA QuietSteps ==
    ASSUME Inv, NEW c \in Call,
           \/ Stale(c) \/ RemoveHints(c) \/ RemoveStamp(c) \/ LookToCheck(c)
           \/ InsertStamp(c) \/ (Finish(c) /\ ~ Take(c))
    PROVE  Quiet(c) /\ calls[c] # None
<1> USE ClueHintsAssumption
<1>0. ASSUME calls[c] # None PROVE calls[c] \in Handlers /\ Busy(calls[c])
    BY <1>0 DEF Inv, TypeOK, Calls
<1>1. CASE Stale(c) \/ RemoveHints(c) \/ Accepted(c) \/ Refused(c) \/ HasMeta(c) \/ PutMeta(c)
    <2>1. calls[c] # None
        BY <1>1 DEF Stale, RemoveHints, Accepted, Refused, HasMeta, PutMeta, At
    <2>2. \E p \in {"dropHints", "look", "dropStamp", "forgetStamp", "remember",
                     "forgetHints", "refused", "done", "putMeta"} : Goto(c, p)
        BY <1>1 DEF Stale, RemoveHints, Accepted, Refused, HasMeta, PutMeta
    <2> QED
        BY <1>0, <2>1, <2>2, GotoQuiet DEF Places
<1>2. CASE RemoveStamp(c)
    <2>1. calls[c] # None
        BY <1>2 DEF RemoveStamp, At
    <2>2. Goto(c, "refused") \/ ToStore(c) \/ Goto(c, "look")
        BY <1>2 DEF RemoveStamp
    <2> QED
        BY <1>0, <2>1, <2>2, GotoQuiet, ToStoreQuiet DEF Places
<1>3. CASE LookToCheck(c)
    <2>1. calls[c] # None /\ calls[c].pc = "look"
        BY <1>3 DEF LookToCheck, At
    <2>2. calls[c].todo # <<>>
        BY <1>0, <2>1 DEF Busy, Parking
    <2>3. Step(c, Over(calls[c], FALSE)) \/ ToStore(c)
        BY <1>3 DEF LookToCheck
    <2>4. calls[c] \in Handlers
        BY <1>0, <2>1
    <2>5. /\ Over(calls[c], FALSE) \in Handlers /\ Over(calls[c], FALSE).tx = calls[c].tx
          /\ Over(calls[c], FALSE).pc # "insert"
        BY <2>2, <2>4, OverType
    <2>6. Step(c, Over(calls[c], FALSE)) => Quiet(c)
        BY <2>5 DEF Quiet
    <2> QED
        BY <2>1, <2>3, <2>4, <2>6, ToStoreQuiet
<1>4. CASE InsertStamp(c)
    <2> DEFINE r == [calls[c] EXCEPT !.row = NoClues]
    <2>1. calls[c] # None /\ calls[c].pc = "stamp"
        BY <1>4 DEF InsertStamp, At
    <2>2. calls[c].todo # <<>> /\ calls[c] \in Handlers
        BY <1>0, <2>1 DEF Busy, Parking
    <2>3. r \in Handlers /\ r.todo = calls[c].todo /\ r.tx = calls[c].tx
        BY <2>2 DEF Handlers, NoClues, Row
    <2>4. Step(c, Over(r, TRUE))
        BY <1>4 DEF InsertStamp
    <2> HIDE DEF r
    <2>5. /\ Over(r, TRUE) \in Handlers /\ Over(r, TRUE).tx = calls[c].tx
          /\ Over(r, TRUE).pc # "insert"
        BY <2>2, <2>3, OverType
    <2> QED
        BY <2>1, <2>4, <2>5 DEF Quiet
<1>5. CASE TimedOut(c) \/ Answer(c)
    <2>1. Step(c, None) /\ calls[c] # None
        BY <1>5 DEF TimedOut, Answer, Return, At
    <2> QED
        BY <2>1 DEF Quiet
<1>6. CASE Remember(c)
    <2> DEFINE late  == calls[c].late
               empty == <<>>
               r     == [calls[c] EXCEPT !.stage = "after", !.todo = late, !.late = empty]
    <2>1. calls[c] # None
        BY <1>6 DEF Remember, At
    <2>2. calls[c] \in Handlers /\ late \in Seq(Item) /\ empty \in Seq(Item)
        BY <1>0, <2>1 DEF Handlers
    <2>3. Step(c, NextItem(r))
        BY <1>6 DEF Remember
    <2> HIDE DEF late, empty
    <2>4. r \in Handlers /\ r.tx = calls[c].tx
        BY <2>2 DEF Handlers
    <2> HIDE DEF r
    <2>5. NextItem(r) \in Handlers /\ NextItem(r).tx = calls[c].tx /\ NextItem(r).pc # "insert"
        BY <2>4, NextItemType
    <2> QED
        BY <2>1, <2>3, <2>5 DEF Quiet
<1> QED
    BY <1>1, <1>2, <1>3, <1>4, <1>5, <1>6 DEF Finish

\* What FirstWriterWins says of a step.
Keeps(t) == \/ hints'[t] = NoClues
            \/ \A i \in Index : hints[t][i] # None => hints'[t][i] = hints[t][i]

Good == Alone /\ ReadsFresh

\* A quiet step that only removes rows is good.
LEMMA QuietGood ==
    ASSUME Inv, Good, NEW c \in Call, calls[c] # None, Quiet(c), OnlyRemoves
    PROVE  Good'
<1>1. PICK r \in Handlers \cup {None} :
          Step(c, r) /\ (r # None => r.tx = calls[c].tx /\ r.pc # "insert")
    BY DEF Quiet
<1>2. Alone'
    BY <1>1, StepAlone DEF Good
<1>3. r # None => Fresh(r, hints'[r.tx])
    BY <1>1 DEF Fresh
<1>4. \A t \in Tx : hints'[t] = hints[t] \/ hints'[t] = NoClues
    BY DEF OnlyRemoves
<1>5. ReadsFresh'
    BY <1>1, <1>3, <1>4, StepFresh DEF Good
<1> QED
    BY <1>2, <1>5 DEF Good

\* So is a step of no handler.
LEMMA OthersGood ==
    ASSUME Inv, Good, UNCHANGED calls, OnlyRemoves
    PROVE  Good'
<1>1. Alone'
    BY DEF Good, Alone
<1>2. \A d \in Call : calls[d] # None => calls[d].tx \in Tx
    BY DEF Inv, TypeOK, Handlers
<1>3. ReadsFresh'
    BY <1>2 DEF Good, ReadsFresh, Fresh, OnlyRemoves
<1> QED
    BY <1>1, <1>3 DEF Good

\* A call starts where no other call is about its transaction.
LEMMA StartGood ==
    ASSUME Inv, Good, OneCallPerTx, Start
    PROVE  Good' /\ UNCHANGED hints
<1> USE ClueHintsAssumption
<1>1. PICK c \in Call, t \in Tx, r \in Handlers :
          MayStart(c, t) /\ Step(c, r) /\ r.tx = t /\ r.pc # "insert" /\ UNCHANGED hints
    <2>1. NoClues \in Row
        BY DEF NoClues, Row
    <2>2. ASSUME NEW c \in Call, NEW t \in Tx, NEW q \in Requests[t], StartSend(c, t, q)
          PROVE  \E r \in Handlers : /\ MayStart(c, t) /\ Step(c, r) /\ r.tx = t
                                     /\ r.pc # "insert" /\ UNCHANGED hints
        <3> DEFINE all   == q.base \o q.extras
                   early == q.base # <<>> /\ t \notin Opaque
                   todo  == IF early THEN all ELSE <<>>
                   late  == IF t \in Opaque THEN all ELSE q.extras
                   r     == [Blank(t, q.peer) EXCEPT !.todo = todo, !.late = late,
                                                     !.metaAt = q.metaAt]
        <3>1. q \in Request
            OBVIOUS
        <3>2. all \in Seq(Item)
            BY <3>1 DEF Request
        <3>3. /\ todo \in Seq(Item) /\ late \in Seq(Item)
              /\ q.metaAt \in Index \cup {None} /\ q.peer \in Peer
            BY <3>1, <3>2 DEF Request
        <3>4. MayStart(c, t) /\ Step(c, NextItem(r)) /\ UNCHANGED hints
            BY <2>2 DEF StartSend
        <3> HIDE DEF todo, late
        <3>5. r \in Handlers /\ r.tx = t
            BY <2>1, <3>3 DEF Handlers, Blank, Places
        <3> HIDE DEF r
        <3>6. NextItem(r) \in Handlers /\ NextItem(r).tx = t /\ NextItem(r).pc # "insert"
            BY <3>5, NextItemType
        <3> QED
            BY <3>4, <3>6
    <2>3. ASSUME NEW c \in Call, NEW t \in Tx, NEW p \in Peer,
                 NEW item \in Registrations[t], StartRegister(c, t, p, item)
          PROVE  \E r \in Handlers : /\ MayStart(c, t) /\ Step(c, r) /\ r.tx = t
                                     /\ r.pc # "insert" /\ UNCHANGED hints
        <3> DEFINE one == <<item>>
                   r   == [Blank(t, p) EXCEPT !.stage = "register", !.todo = one]
        <3>1. item \in Item
            OBVIOUS
        <3>2. one \in Seq(Item)
            BY <3>1
        <3>3. MayStart(c, t) /\ Step(c, r) /\ UNCHANGED hints
            BY <2>3 DEF StartRegister
        <3> HIDE DEF one
        <3>4. Blank(t, p) \in Handlers /\ Blank(t, p).tx = t /\ Blank(t, p).pc = "prune"
            BY <2>1 DEF Handlers, Blank, Places
        <3>5. r \in Handlers /\ r.tx = t /\ r.pc = "prune"
            BY <3>2, <3>4 DEF Handlers
        <3> HIDE DEF r
        <3> QED
            BY <3>3, <3>5
    <2> QED
        BY <2>2, <2>3 DEF Start
<1>2. \A d \in Call : calls'[d] = IF d = c THEN r ELSE calls[d]
    BY <1>1 DEF Inv, TypeOK, Step
<1>3. calls[c] = None /\ \A d \in Call : calls[d] # None => calls[d].tx # t
    BY <1>1 DEF MayStart
<1>4. Alone'
    BY <1>1, <1>2, <1>3 DEF Good, Alone
<1>5. ReadsFresh'
    BY <1>1, <1>2 DEF Good, ReadsFresh, Fresh
<1> QED
    BY <1>1, <1>4, <1>5 DEF Good

\* store_omr_clue_hint has read the row and found the index free.
LEMMA LookGood ==
    ASSUME Inv, Good, NEW c \in Call, LookToStore(c)
    PROVE  Good'
<1> DEFINE t == calls[c].tx
           r == [calls[c] EXCEPT !.pc = "insert", !.row = hints[t]]
<1>1. /\ calls[c] # None /\ calls[c] \in Handlers /\ t \in Tx
      /\ calls[c].pc = "look" /\ calls[c].todo # <<>>
    BY NotScanning DEF LookToStore, At, Busy, Parking, Handlers
<1>2. UNCHANGED hints
    BY DEF LookToStore
<1>3. CASE Step(c, Over(calls[c], TRUE))
    <2>1. /\ Over(calls[c], TRUE) \in Handlers /\ Over(calls[c], TRUE).tx = t
          /\ Over(calls[c], TRUE).pc # "insert"
        BY <1>1, OverType
    <2>2. Quiet(c)
        BY <1>3, <2>1 DEF Quiet
    <2> QED
        BY <1>1, <1>2, <2>2, QuietGood DEF OnlyRemoves
<1>4. CASE Step(c, r) /\ ~ IndexTaken(hints[t], Head(calls[c].todo).at)
    <2>1. hints[t] \in Row
        BY <1>1 DEF Inv, TypeOK
    <2>2. r \in Handlers /\ r.tx = t /\ r.row = hints[t] /\ r.todo = calls[c].todo
        BY <1>1, <2>1 DEF Handlers, Places
    <2>3. Step(c, r)
        BY <1>4
    <2> HIDE DEF r
    <2>4. Alone'
        BY <1>1, <2>2, <2>3, StepAlone DEF Good
    <2>5. Fresh(r, hints'[r.tx])
        BY <1>2, <1>4, <2>2 DEF Fresh
    <2>6. ReadsFresh'
        BY <1>2, <2>3, <2>5, StepFresh DEF Good
    <2> QED
        BY <2>4, <2>6 DEF Good
<1> QED
    BY <1>3, <1>4 DEF LookToStore

\* It writes the row back, with one more clue.
LEMMA InsertGood ==
    ASSUME Inv, Good, NEW c \in Call, InsertHints(c)
    PROVE  Good' /\ \A t \in Tx : Keeps(t)
<1> DEFINE t    == calls[c].tx
           item == Head(calls[c].todo)
           row  == calls[c].row
           r    == [calls[c] EXCEPT !.pc = "stamp"]
<1>1. /\ calls[c] # None /\ calls[c] \in Handlers /\ t \in Tx
      /\ calls[c].pc = "insert" /\ calls[c].todo # <<>>
    BY NotScanning DEF InsertHints, At, Busy, Parking, Handlers
<1>2. item \in Item /\ row \in Row
    BY <1>1 DEF Handlers
<1>3. \A u \in Tx : hints'[u] = IF u = t THEN AddClue(row, item) ELSE hints[u]
    BY <1>1 DEF InsertHints, Inv, TypeOK
<1>4. /\ hints[t] = NoClues \/ hints[t] = row
      /\ ~ IndexTaken(row, item.at)
    BY <1>1 DEF Good, ReadsFresh, Fresh
<1>5. \A u \in Tx : Keeps(u)
    <2>1. \A i \in Index : row[i] # None => AddClue(row, item)[i] = row[i]
        BY <1>2, <1>4 DEF AddClue, IndexTaken, Row
    <2>2. \A i \in Index : hints[t][i] # None => hints'[t][i] = hints[t][i]
        BY <1>1, <1>3, <1>4, <2>1 DEF NoClues
    <2> QED
        BY <1>3, <2>2 DEF Keeps
<1>6. r \in Handlers /\ r.tx = t /\ r.pc = "stamp" /\ Step(c, r)
    BY <1>1, GotoType DEF InsertHints, Goto, Places
<1> HIDE DEF r
<1>7. Alone'
    BY <1>1, <1>6, StepAlone DEF Good
<1>8. \A d \in Call : calls'[d] = IF d = c THEN r ELSE calls[d]
    BY <1>6 DEF Inv, TypeOK, Step
<1>9. ASSUME NEW d \in Call, d # c, calls[d] # None
      PROVE  calls[d].tx \in Tx /\ hints'[calls[d].tx] = hints[calls[d].tx]
    <2>1. calls[d].tx \in Tx
        BY <1>9 DEF Inv, TypeOK, Handlers
    <2>2. calls[d].tx # t
        BY <1>1, <1>9 DEF Good, Alone
    <2> QED
        BY <1>3, <2>1, <2>2
<1>10. ReadsFresh'
    BY <1>6, <1>8, <1>9 DEF Good, ReadsFresh, Fresh
<1> QED
    BY <1>5, <1>7, <1>10 DEF Good

LEMMA NextGood ==
    ASSUME Inv, Good, OneCallPerTx, [Next]_vars
    PROVE  Good' /\ \A t \in Tx : Keeps(t)
<1>1. ASSUME OnlyRemoves PROVE \A t \in Tx : Keeps(t)
    BY <1>1 DEF OnlyRemoves, Keeps
<1>2. ASSUME Start PROVE Good' /\ OnlyRemoves
    BY <1>2, StartGood DEF OnlyRemoves
<1>3. ASSUME NEW c \in Call, SweepCollect(c) \/ SweepHints(c) \/ SweepStamp(c)
      PROVE  Good' /\ OnlyRemoves
    <2>1. OnlyRemoves
        BY <1>3 DEF SweepCollect, SweepHints, SweepStamp, Inv, TypeOK, Sweeps, OnlyRemoves
    <2>2. CASE UNCHANGED calls
        BY <2>1, <2>2, OthersGood
    <2>3. CASE SweepStamp(c) /\ Goto(c, "stale")
        <3>1. calls[c] # None /\ calls[c] \in Handlers
            BY <2>3, ClueHintsAssumption DEF SweepStamp, Inv, TypeOK, Sweeper, At
        <3> QED
            BY <2>1, <2>3, <3>1, GotoQuiet, QuietGood DEF Places
    <2> QED
        BY <1>3, <2>1, <2>2, <2>3 DEF SweepCollect, SweepHints, SweepStamp
<1>4. ASSUME NEW c \in Call,
             \/ Stale(c) \/ RemoveHints(c) \/ RemoveStamp(c) \/ LookToCheck(c)
             \/ InsertStamp(c) \/ (Finish(c) /\ ~ Take(c))
      PROVE  Good' /\ OnlyRemoves
    <2>1. Quiet(c) /\ calls[c] # None
        BY <1>4, QuietSteps
    <2>2. OnlyRemoves
        BY <1>4 DEF Stale, RemoveHints, RemoveStamp, LookToCheck, InsertStamp, Finish,
               Accepted, Refused, TimedOut, Remember, HasMeta, PutMeta, Answer,
               Inv, TypeOK, OnlyRemoves
    <2> QED
        BY <2>1, <2>2, QuietGood
<1>5. ASSUME NEW c \in Call, LookToStore(c) PROVE Good' /\ OnlyRemoves
    BY <1>5, LookGood DEF LookToStore, OnlyRemoves
<1>6. ASSUME (\E c \in Call : Take(c)) \/ Poller \/ Tick \/ UNCHANGED vars
      PROVE  Good' /\ OnlyRemoves
    <2>1. UNCHANGED calls
        BY <1>6 DEF Take, Poller, Tick, vars, StartMerge, MergeStale, MergeDropHints,
               MergeDropStamp, MergeClues, MergeMeta, TakeMeta, WriteBlock, Unindex
    <2>2. UNCHANGED hints \/ hints' = [hints EXCEPT ![poll.tx] = NoClues]
        BY <1>6 DEF Take, Poller, Tick, vars, StartMerge, MergeStale, MergeDropHints,
               MergeDropStamp, MergeClues, MergeMeta, TakeMeta, WriteBlock, Unindex
    <2>3. OnlyRemoves
        BY <2>2 DEF Inv, TypeOK, OnlyRemoves
    <2> QED
        BY <2>1, <2>3, OthersGood
<1>7. ASSUME NEW c \in Call, Park(c) \/ Finish(c) PROVE Good' /\ \A t \in Tx : Keeps(t)
    BY <1>1, <1>3, <1>4, <1>5, <1>6, <1>7, InsertGood DEF Park
<1> QED
    BY <1>1, <1>2, <1>6, <1>7 DEF Next

\* No matter what expires, is refused, times out or is sent again, and with any
\* number of handlers: where no two calls about one transaction overlap, a clue is
\* never replaced, nor lost to a clue for another output.
THEOREM FirstWriterWinsAlone == OneCallPerTx /\ Spec => FirstWriterWins
<1> SUFFICES ASSUME OneCallPerTx PROVE Spec => FirstWriterWins
    OBVIOUS
<1>1. Init => Inv /\ Good
    <2>1. Init => Good
        BY DEF Init, Good, Alone, ReadsFresh
    <2> QED
        BY <2>1, InitInv
<1>2. Inv /\ Good /\ [Next]_vars => (Inv /\ Good)'
    BY NextInv, NextGood
<1>3. Inv /\ Good /\ [Next]_vars =>
        [\A t \in Tx : \/ hints'[t] = NoClues
                     \/ \A i \in Index : hints[t][i] # None => hints'[t][i] = hints[t][i]]_hints
    BY NextGood DEF Keeps
<1> QED
    BY <1>1, <1>2, <1>3, PTL DEF Spec, FirstWriterWins

-----------------------------------------------------------------------------
(* What a client is told of its clues, where no two calls about one         *)
(* transaction overlap and a transaction is sent once.                      *)

Dropping == {"dropHints", "dropStamp"}
Refusal  == {"forgetHints", "forgetStamp", "refused"}

\* A row that was found expired and is about to be removed.
Doomed(t) ==
    \/ t \in sweep.todo \/ sweep.half = t
    \/ \E c \in Call : calls[c] # None /\ calls[c].tx = t /\ calls[c].pc \in Dropping
    \/ poll # None /\ poll.tx = t /\ poll.pc \in Dropping

\* Before a transaction is sent nobody knows anything of it.
Unseen(t) ==
    /\ hints[t] = NoClues /\ stamp[t] = None /\ bind[t] = None
    /\ t \notin heard /\ t \notin sweep.todo /\ sweep.half # t
    /\ poll # None => poll.tx # t
    /\ \A c \in Call : calls[c] # None => calls[c].tx # t

SentFirst == \A t \in Tx : t \notin sent => Unseen(t)

LeadsMain(items) == items # <<>> /\ Head(items).main
Sends(call) == call.stage \in {"before", "after"}

\* The recipient's clue is tried first, and clue_accepted is unset until then.
Shape(call) ==
    /\ MainFirst(call.todo) /\ MainFirst(call.late)
    /\ Sends(call) /\ LeadsMain(call.todo) => ~ call.accepted
    /\ LeadsMain(call.late) => /\ ~ call.accepted /\ call.stage = "before"
                               /\ call.pc \notin Parking
    /\ call.stage = "before" /\ call.pc \in Parking /\ ~ call.accepted => LeadsMain(call.todo)
    /\ call.pc \in Refusal \cup {"broadcast", "remember"} => call.stage = "before"

\* A send whose recipient's clue is not parked yet, or that has none,
Unparked(call) ==
    ~ call.accepted /\ (call.stage = "before" \/ (call.stage = "after" /\ LeadsMain(call.todo)))

\* has parked nothing, but for the moment between the clue and its stamp.
Clean(call, row, st) ==
    /\ st = None
    /\ row = IF call.pc = "stamp" THEN AddClue(NoClues, Head(call.todo)) ELSE NoClues
    /\ call.pc = "insert" => call.row = NoClues

Parked(call, row, st) ==
    /\ Shape(call)
    /\ Unparked(call) => Clean(call, row, st)
    /\ call.pc \in {"forgetStamp", "refused"} => row = NoClues

ParkedInv ==
    \A c \in Call : calls[c] # None =>
        /\ Parked(calls[c], hints[calls[c].tx], stamp[calls[c].tx])
        /\ Unparked(calls[c]) => ~ Doomed(calls[c].tx)

\* What a step of a handler leaves of what it was.
Follows(call, r) ==
    /\ r.tx = call.tx /\ r.peer = call.peer
    /\ r.stage = "register" <=> call.stage = "register"
    /\ LeadsMain(r.late) => r.late = call.late
    /\ Sends(r) /\ LeadsMain(r.todo) =>
          \/ Sends(call) /\ LeadsMain(call.todo) /\ Head(r.todo) = Head(call.todo)
          \/ LeadsMain(call.late) /\ Head(r.todo) = Head(call.late)
    /\ Unparked(r) => Unparked(call)

\* The recipient's clue is parked and stamped.
NowParked(call) == Sends(call) /\ LeadsMain(call.todo) /\ call.pc = "stamp"

\* clue_accepted of a call that was not refused.
Holds(call) == Sends(call) /\ call.accepted /\ call.pc \notin Refusal

Moved(call, r, row, st) ==
    /\ Follows(call, r) /\ Parked(r, row, st)
    /\ Unparked(r) => r.pc \notin Dropping
    /\ Holds(r) => Holds(call) \/ NowParked(call)

\* A step to another place of the code, of a row that stays.
LEMMA GotoMoved ==
    ASSUME NEW call \in Handlers, NEW row, NEW st, Parked(call, row, st), call.pc # "stamp",
           NEW p \in Places, p \notin {"insert", "stamp", "forgetStamp"},
           p = "refused" => row = NoClues,
           p \in Refusal \cup {"broadcast", "remember"} => call.stage = "before",
           p \in Parking => call.pc \in Parking,
           p \in Dropping => ~ Unparked(call),
           call.pc \in Refusal => p \in Refusal
    PROVE  Moved(call, [call EXCEPT !.pc = p], row, st)
<1> DEFINE r == [call EXCEPT !.pc = p]
<1>1. /\ r.pc = p /\ r.tx = call.tx /\ r.peer = call.peer /\ r.stage = call.stage
      /\ r.todo = call.todo /\ r.late = call.late /\ r.accepted = call.accepted /\ r.row = call.row
    BY DEF Handlers
<1> HIDE DEF r
<1>2. Unparked(r) <=> Unparked(call)
    BY <1>1 DEF Unparked
<1>3. Shape(r)
    BY <1>1 DEF Parked, Shape, Sends
<1>4. Unparked(r) => Clean(r, row, st)
    BY <1>1, <1>2 DEF Parked, Clean
<1>5. Parked(r, row, st)
    BY <1>1, <1>3, <1>4 DEF Parked
<1>6. Follows(call, r)
    BY <1>1, <1>2 DEF Follows, Sends
<1>7. Unparked(r) => r.pc \notin Dropping
    BY <1>1, <1>2
<1>8. Holds(r) => Holds(call)
    BY <1>1 DEF Holds, Sends
<1> QED
    BY <1>5, <1>6, <1>7, <1>8 DEF Moved, r

\* The next item leaves all but the place and the mode.
LEMMA NextItemFields ==
    ASSUME NEW r \in Handlers
    PROVE  LET n == NextItem(r)
           IN  /\ n.tx = r.tx /\ n.peer = r.peer /\ n.stage = r.stage /\ n.todo = r.todo
               /\ n.late = r.late /\ n.accepted = r.accepted /\ n.row = r.row
               /\ n.pc = IF r.todo = <<>> THEN Emptied(r) ELSE "prune"
BY DEF NextItem, Handlers

\* The item is over, and clue_accepted is set by the recipient's clue.
LEMMA OverFields ==
    ASSUME NEW r \in Handlers, r.todo # <<>>, NEW parked \in BOOLEAN
    PROVE  LET n == Over(r, parked)
           IN  /\ n.tx = r.tx /\ n.peer = r.peer /\ n.stage = r.stage /\ n.todo = Tail(r.todo)
               /\ n.late = r.late /\ n.row = r.row
               /\ n.accepted = IF Head(r.todo).main THEN parked ELSE r.accepted
               /\ n.pc \in {"prune", "broadcast", "hasMeta", "done"}
               /\ n.pc = "prune" <=> Tail(r.todo) # <<>>
               /\ n.pc = "broadcast" => r.stage = "before"
<1> DEFINE acc  == IF Head(r.todo).main THEN parked ELSE r.accepted
           rest == Tail(r.todo)
           s    == [r EXCEPT !.todo = rest, !.accepted = acc]
<1>1. Head(r.todo) \in Item /\ rest \in Seq(Item)
    BY DEF Handlers
<1>2. acc \in BOOLEAN
    BY DEF Handlers
<1>3. Over(r, parked) = NextItem(s)
    BY DEF Over, Handlers
<1> HIDE DEF acc, rest
<1>4. /\ s \in Handlers /\ s.tx = r.tx /\ s.peer = r.peer /\ s.stage = r.stage
      /\ s.todo = rest /\ s.late = r.late /\ s.accepted = acc /\ s.row = r.row
    BY <1>1, <1>2 DEF Handlers
<1> HIDE DEF s
<1>5. LET n == NextItem(s)
      IN  /\ n.tx = s.tx /\ n.peer = s.peer /\ n.stage = s.stage /\ n.todo = s.todo
          /\ n.late = s.late /\ n.accepted = s.accepted /\ n.row = s.row
          /\ n.pc = IF s.todo = <<>> THEN Emptied(s) ELSE "prune"
    BY <1>4, NextItemFields
<1>6. Emptied(s) \in {"broadcast", "hasMeta", "done"} /\ (Emptied(s) = "broadcast" => s.stage = "before")
    BY <1>4 DEF Emptied
<1> QED
    BY <1>3, <1>4, <1>5, <1>6 DEF acc, rest

\* Behind the first of the items none is the recipient's.
LEMMA TailMain ==
    ASSUME NEW s \in Seq(Item), s # <<>>, MainFirst(s)
    PROVE  MainFirst(Tail(s)) /\ ~ LeadsMain(Tail(s))
<1>1. \A i \in DOMAIN Tail(s) : i + 1 \in DOMAIN s /\ Tail(s)[i] = s[i + 1] /\ i \in Nat \ {0}
    OBVIOUS
<1>2. \A i \in DOMAIN Tail(s) : ~ Tail(s)[i].main
    BY <1>1 DEF MainFirst
<1>3. Tail(s) \in Seq(Item) /\ (Tail(s) # <<>> => 1 \in DOMAIN Tail(s) /\ Head(Tail(s)) = Tail(s)[1])
    OBVIOUS
<1> QED
    BY <1>2, <1>3 DEF MainFirst, LeadsMain

\* An item that ends without having been the recipient's, parked just now.
LEMMA OverMoved ==
    ASSUME NEW call \in Handlers, NEW row, NEW st, NEW before, NEW old,
           Parked(call, before, old), call.todo # <<>>, call.pc \in {"look", "stamp"},
           NEW parked \in BOOLEAN, parked = FALSE => ~ Unparked(call),
           call.pc = "look" => ~ Unparked(call) /\ row = before /\ st = old,
           call.pc = "stamp" => parked = TRUE
    PROVE  Moved(call, Over(call, parked), row, st)
<1> DEFINE n == Over(call, parked)
<1>1. /\ n.tx = call.tx /\ n.peer = call.peer /\ n.stage = call.stage /\ n.todo = Tail(call.todo)
      /\ n.late = call.late
      /\ n.accepted = IF Head(call.todo).main THEN parked ELSE call.accepted
      /\ n.pc \in {"prune", "broadcast", "hasMeta", "done"}
      /\ n.pc = "prune" => Tail(call.todo) # <<>>
      /\ n.pc = "broadcast" => call.stage = "before"
    BY OverFields
<1> HIDE DEF n
<1>2. MainFirst(n.todo) /\ ~ LeadsMain(n.todo)
    BY <1>1, TailMain DEF Parked, Shape, Handlers
<1>3. ~ LeadsMain(call.late) /\ MainFirst(call.late)
    BY DEF Parked, Shape, Parking
<1>4. call.stage = "before" => n.accepted
    <2>1. CASE call.accepted /\ call.stage = "before"
        <3>1. ~ Head(call.todo).main
            BY <2>1 DEF Parked, Shape, Sends, LeadsMain
        <3> QED
            BY <1>1, <2>1, <3>1
    <2>2. CASE ~ call.accepted /\ call.stage = "before"
        <3>1. Head(call.todo).main /\ Unparked(call)
            BY <2>2 DEF Parked, Shape, LeadsMain, Parking, Unparked
        <3> QED
            BY <1>1, <3>1
    <2> QED
        BY <2>1, <2>2
<1>5. ~ Unparked(n)
    BY <1>1, <1>2, <1>4 DEF Unparked
<1>6. Shape(n)
    BY <1>1, <1>2, <1>3, <1>4 DEF Shape, Refusal
<1>7. Follows(call, n)
    BY <1>1, <1>2, <1>3, <1>5 DEF Follows
<1>8. Parked(n, row, st)
    BY <1>1, <1>5, <1>6 DEF Parked
<1>9. Holds(n) => Holds(call) \/ NowParked(call)
    <2> SUFFICES ASSUME Holds(n) PROVE Holds(call) \/ NowParked(call)
        OBVIOUS
    <2>1. Sends(call) /\ n.accepted /\ call.pc \notin Refusal
        BY <1>1 DEF Holds, Sends, Refusal
    <2>2. CASE ~ Head(call.todo).main
        BY <1>1, <2>1, <2>2 DEF Holds
    <2>3. CASE Head(call.todo).main
        <3>1. LeadsMain(call.todo) /\ ~ call.accepted
            BY <2>1, <2>3 DEF Parked, Shape, LeadsMain
        <3>2. Unparked(call)
            BY <2>1, <3>1 DEF Unparked, Sends
        <3> QED
            BY <2>1, <3>1, <3>2 DEF NowParked
    <2> QED
        BY <2>2, <2>3
<1> QED
    BY <1>5, <1>7, <1>8, <1>9 DEF Moved, n

\* Three steps of one shape: to the store, to the write, and past it.
LEMMA SameItemMoved ==
    ASSUME NEW call \in Handlers, NEW r \in Handlers, NEW before, NEW row, NEW old, NEW st,
           Parked(call, before, old), call.pc \in {"look", "dropStamp", "insert"},
           /\ r.tx = call.tx /\ r.peer = call.peer /\ r.stage = call.stage
           /\ r.todo = call.todo /\ r.late = call.late /\ r.accepted = call.accepted,
           r.pc \in {"prune", "insert", "stamp"},
           Unparked(call) => Clean(r, row, st)
    PROVE  Moved(call, r, row, st)
<1>1. Unparked(r) <=> Unparked(call)
    BY DEF Unparked
<1>2. Shape(r)
    BY DEF Parked, Shape, Sends, Refusal, Parking
<1>3. Parked(r, row, st)
    BY <1>1, <1>2 DEF Parked
<1>4. Follows(call, r)
    BY <1>1 DEF Follows, Sends
<1>5. r.pc \notin Dropping
    BY DEF Dropping
<1>6. Holds(r) => Holds(call)
    BY DEF Holds, Sends, Refusal
<1> QED
    BY <1>3, <1>4, <1>5, <1>6 DEF Moved

LEMMA ToStoreMoved ==
    ASSUME NEW call \in Handlers, NEW row, NEW old, NEW st,
           Parked(call, row, old), call.pc \in {"look", "dropStamp"},
           call.pc = "dropStamp" => ~ Unparked(call),
           call.pc = "look" => st = old
    PROVE  /\ [call EXCEPT !.pc = "prune", !.mode = "store"] \in Handlers
           /\ Moved(call, [call EXCEPT !.pc = "prune", !.mode = "store"], row, st)
<1> DEFINE r == [call EXCEPT !.pc = "prune", !.mode = "store"]
<1>1. /\ r \in Handlers /\ r.pc = "prune" /\ r.tx = call.tx /\ r.peer = call.peer
      /\ r.stage = call.stage /\ r.todo = call.todo /\ r.late = call.late
      /\ r.accepted = call.accepted
    BY DEF Handlers, Places
<1> HIDE DEF r
<1>2. Unparked(call) => Clean(r, row, st)
    BY <1>1 DEF Parked, Clean
<1>3. Moved(call, r, row, st)
    BY <1>1, <1>2, SameItemMoved
<1> QED
    BY <1>1, <1>3 DEF r

\* store_omr_clue_hint goes on to write what it read, and one clue more.
LEMMA ReadMoved ==
    ASSUME NEW call \in Handlers, NEW row \in Row, NEW st, Parked(call, row, st), call.pc = "look"
    PROVE  /\ [call EXCEPT !.pc = "insert", !.row = row] \in Handlers
           /\ Moved(call, [call EXCEPT !.pc = "insert", !.row = row], row, st)
<1> DEFINE r == [call EXCEPT !.pc = "insert", !.row = row]
<1>1. /\ r \in Handlers /\ r.pc = "insert" /\ r.tx = call.tx /\ r.peer = call.peer
      /\ r.stage = call.stage /\ r.todo = call.todo /\ r.late = call.late
      /\ r.accepted = call.accepted /\ r.row = row
    BY DEF Handlers, Places
<1> HIDE DEF r
<1>2. Unparked(call) => Clean(r, row, st)
    BY <1>1 DEF Parked, Clean
<1>3. Moved(call, r, row, st)
    BY <1>1, <1>2, SameItemMoved
<1> QED
    BY <1>1, <1>3 DEF r

LEMMA WriteMoved ==
    ASSUME NEW call \in Handlers, NEW row, NEW st, Parked(call, row, st), call.pc = "insert"
    PROVE  Moved(call, [call EXCEPT !.pc = "stamp"], AddClue(call.row, Head(call.todo)), st)
<1> DEFINE r == [call EXCEPT !.pc = "stamp"]
           n == AddClue(call.row, Head(call.todo))
<1>1. /\ r \in Handlers /\ r.pc = "stamp" /\ r.tx = call.tx /\ r.peer = call.peer
      /\ r.stage = call.stage /\ r.todo = call.todo /\ r.late = call.late
      /\ r.accepted = call.accepted
    BY DEF Handlers, Places
<1> HIDE DEF r
<1>2. Unparked(call) => n = AddClue(NoClues, Head(r.todo)) /\ st = None
    BY <1>1 DEF Parked, Clean
<1> HIDE DEF n
<1>3. Unparked(call) => Clean(r, n, st)
    BY <1>1, <1>2 DEF Clean
<1>4. Moved(call, r, n, st)
    BY <1>1, <1>3, SameItemMoved
<1> QED
    BY <1>4 DEF r, n

\* A row is gone, then its stamp.
LEMMA DroppedMoved ==
    ASSUME NEW call \in Handlers, NEW before, NEW row, NEW old, NEW st,
           Parked(call, before, old),
           call.pc \in Dropping => ~ Unparked(call),
           NEW p \in Places,
           \/ call.pc = "dropHints" /\ p = "dropStamp" /\ st = old /\ row = NoClues
           \/ call.pc = "forgetHints" /\ p = "forgetStamp" /\ st = old /\ row = NoClues
           \/ call.pc = "dropStamp" /\ p = "look" /\ st = None
           \/ call.pc = "forgetStamp" /\ p = "refused" /\ st = None /\ row = before
    PROVE  Moved(call, [call EXCEPT !.pc = p], row, st)
<1> DEFINE r == [call EXCEPT !.pc = p]
<1>1. /\ r.pc = p /\ r.tx = call.tx /\ r.peer = call.peer /\ r.stage = call.stage
      /\ r.todo = call.todo /\ r.late = call.late /\ r.accepted = call.accepted /\ r.row = call.row
    BY DEF Handlers
<1> HIDE DEF r
<1>2. Unparked(r) <=> Unparked(call)
    BY <1>1 DEF Unparked
<1>3. Shape(r)
    BY <1>1 DEF Parked, Shape, Sends, Refusal, Parking
<1>4. Unparked(r) => Clean(r, row, st)
    BY <1>1, <1>2 DEF Parked, Clean, Dropping
<1>5. Parked(r, row, st)
    BY <1>1, <1>3, <1>4 DEF Parked
<1>6. Follows(call, r)
    BY <1>1, <1>2 DEF Follows, Sends
<1>7. Unparked(r) => r.pc \notin Dropping
    BY <1>1, <1>2 DEF Dropping
<1>8. Holds(r) => Holds(call)
    BY <1>1 DEF Holds, Sends, Refusal
<1> QED
    BY <1>5, <1>6, <1>7, <1>8 DEF Moved, r

\* After the answer come the clues that could not be parked before.
LEMMA LateMoved ==
    ASSUME NEW call \in Handlers, NEW row, NEW st, Parked(call, row, st), call.pc = "remember",
           NEW r \in Handlers,
           /\ r.tx = call.tx /\ r.peer = call.peer /\ r.stage = "after" /\ r.todo = call.late
           /\ r.late = <<>> /\ r.accepted = call.accepted
    PROVE  NextItem(r) \in Handlers /\ Moved(call, NextItem(r), row, st)
<1> DEFINE n == NextItem(r)
<1>1. /\ n.tx = call.tx /\ n.peer = call.peer /\ n.stage = "after" /\ n.todo = call.late
      /\ n.late = <<>> /\ n.accepted = call.accepted
      /\ n.pc = IF r.todo = <<>> THEN Emptied(r) ELSE "prune"
    BY NextItemFields
<1>2. n \in Handlers
    BY NextItemType
<1>3. n.pc \in {"prune", "hasMeta", "done"}
    BY <1>1 DEF Emptied
<1> HIDE DEF n
<1>4. call.stage = "before" /\ MainFirst(call.late)
    BY DEF Parked, Shape
<1>5. Unparked(n) => Unparked(call)
    BY <1>1, <1>4 DEF Unparked
<1>6. Shape(n)
    <2>1. MainFirst(n.late) /\ ~ LeadsMain(n.late)
        BY <1>1 DEF MainFirst, LeadsMain
    <2>2. LeadsMain(n.todo) => ~ n.accepted
        BY <1>1 DEF Parked, Shape
    <2> QED
        BY <1>1, <1>3, <1>4, <2>1, <2>2 DEF Shape, Refusal
<1>7. Unparked(n) => Clean(n, row, st)
    BY <1>3, <1>5 DEF Parked, Clean
<1>8. Parked(n, row, st)
    BY <1>3, <1>6, <1>7 DEF Parked
<1>9. Follows(call, n)
    BY <1>1, <1>4, <1>5 DEF Follows, LeadsMain
<1>10. Holds(n) => Holds(call)
    BY <1>1, <1>4 DEF Holds, Sends, Refusal
<1> QED
    BY <1>2, <1>3, <1>8, <1>9, <1>10 DEF Moved, n, Dropping

\* A handler's own step, if it does not return.
StepsTo(c, r) ==
    /\ Step(c, r) /\ Moved(calls[c], r, hints'[calls[c].tx], stamp'[calls[c].tx])
    /\ r.pc \in Dropping => Doomed(calls[c].tx) \/ Expired(calls[c].tx)

LEMMA ParkSteps ==
    ASSUME Inv, ParkedInv, NEW c \in Call,
           \/ Stale(c) \/ RemoveHints(c) \/ RemoveStamp(c) \/ LookToCheck(c)
           \/ LookToStore(c) \/ InsertHints(c) \/ InsertStamp(c)
    PROVE  calls[c] # None /\ \E r \in Handlers : StepsTo(c, r)
<1> USE ClueHintsAssumption
<1> DEFINE call == calls[c]
           t    == call.tx
           row  == hints[t]
           st   == stamp[t]
<1>0. call # None
    BY DEF Stale, RemoveHints, RemoveStamp, LookToCheck, LookToStore, InsertHints, InsertStamp, At
<1> SUFFICES \E r \in Handlers : StepsTo(c, r)
    BY <1>0
<1>1. /\ call \in Handlers /\ t \in Tx /\ Busy(call) /\ row \in Row
      /\ Parked(call, row, st) /\ (Unparked(call) => ~ Doomed(t))
    <2>1. call \in Handlers
        BY <1>0 DEF Inv, TypeOK
    <2>2. t \in Tx
        BY <2>1 DEF Handlers
    <2> QED
        BY <1>0, <2>1, <2>2 DEF Inv, TypeOK, Calls, ParkedInv
<1>2. call.pc \in Dropping => Doomed(t)
    BY <1>0 DEF Doomed
<1>3. ASSUME NEW p \in Places, Goto(c, p), NEW q, NEW u,
             Moved(call, [call EXCEPT !.pc = p], q, u), q = hints'[t], u = stamp'[t],
             p \in Dropping => Doomed(t) \/ Expired(t)
      PROVE  \E r \in Handlers : StepsTo(c, r)
    <2> DEFINE r == [call EXCEPT !.pc = p]
    <2>1. r \in Handlers /\ r.pc = p /\ Step(c, r)
        BY <1>1, <1>3, GotoType DEF Goto
    <2> HIDE DEF r
    <2>2. Moved(call, r, hints'[t], stamp'[t])
        BY <1>3 DEF r
    <2>3. StepsTo(c, r)
        BY <1>3, <2>1, <2>2 DEF StepsTo
    <2> QED
        BY <2>1, <2>3
<1>4. CASE Stale(c)
    <2>1. call.pc \in {"stale", "prune"} /\ UNCHANGED <<hints, stamp>>
        BY <1>4 DEF Stale, At
    <2>2. CASE Expired(t) /\ Goto(c, "dropHints")
        <3>1. ~ Unparked(call)
            BY <1>1, <2>2 DEF Parked, Clean, Expired
        <3>2. Moved(call, [call EXCEPT !.pc = "dropHints"], row, st)
            BY <1>1, <2>1, <3>1, GotoMoved DEF Places, Parking, Refusal
        <3> QED
            BY <1>3, <2>1, <2>2, <3>2 DEF Places
    <2>3. CASE Goto(c, "look")
        <3>1. Moved(call, [call EXCEPT !.pc = "look"], row, st)
            BY <1>1, <2>1, GotoMoved DEF Places, Parking, Refusal, Dropping
        <3> QED
            BY <1>3, <2>1, <2>3, <3>1 DEF Places, Dropping
    <2> QED
        BY <1>4, <2>2, <2>3 DEF Stale
<1>5. CASE RemoveHints(c)
    <2>1. hints'[t] = NoClues /\ stamp'[t] = st
        BY <1>1, <1>5 DEF RemoveHints, Inv, TypeOK
    <2>2. CASE call.pc = "dropHints" /\ Goto(c, "dropStamp")
        <3>1. Moved(call, [call EXCEPT !.pc = "dropStamp"], NoClues, st)
            BY <1>1, <1>2, <2>2, DroppedMoved DEF Places, Dropping
        <3> QED
            BY <1>2, <1>3, <2>1, <2>2, <3>1 DEF Places, Dropping
    <2>3. CASE call.pc = "forgetHints" /\ Goto(c, "forgetStamp")
        <3>1. Moved(call, [call EXCEPT !.pc = "forgetStamp"], NoClues, st)
            BY <1>1, <2>3, DroppedMoved DEF Places, Dropping
        <3> QED
            BY <1>3, <2>1, <2>3, <3>1 DEF Places, Dropping
    <2> QED
        BY <1>5, <2>2, <2>3 DEF RemoveHints, At
<1>6. CASE RemoveStamp(c)
    <2>1. hints'[t] = row /\ stamp'[t] = None
        BY <1>1, <1>6 DEF RemoveStamp, Inv, TypeOK
    <2>2. CASE call.pc = "forgetStamp" /\ Goto(c, "refused")
        <3>1. Moved(call, [call EXCEPT !.pc = "refused"], row, None)
            BY <1>1, <2>2, DroppedMoved DEF Places, Dropping
        <3> QED
            BY <1>3, <2>1, <2>2, <3>1 DEF Places, Dropping
    <2>3. CASE call.pc = "dropStamp" /\ Goto(c, "look")
        <3>1. Moved(call, [call EXCEPT !.pc = "look"], row, None)
            BY <1>1, <1>2, <2>3, DroppedMoved DEF Places, Dropping
        <3> QED
            BY <1>3, <2>1, <2>3, <3>1 DEF Places, Dropping
    <2>4. CASE call.pc = "dropStamp" /\ ToStore(c)
        <3> DEFINE r == [call EXCEPT !.pc = "prune", !.mode = "store"]
        <3>1. r \in Handlers /\ Moved(call, r, row, None)
            BY <1>1, <1>2, <2>4, ToStoreMoved DEF Dropping
        <3>2. Step(c, r)
            BY <2>4 DEF ToStore
        <3>3. r.pc = "prune"
            BY <1>1 DEF Handlers
        <3> HIDE DEF r
        <3> QED
            BY <2>1, <3>1, <3>2, <3>3 DEF StepsTo, Dropping
    <2> QED
        BY <1>6, <2>2, <2>3, <2>4 DEF RemoveStamp, At
<1>7. CASE LookToCheck(c) \/ LookToStore(c)
    <2>1. call.pc = "look" /\ call.todo # <<>> /\ hints'[t] = row /\ stamp'[t] = st
        BY <1>1, <1>7 DEF LookToCheck, LookToStore, At, Busy, Parking
    <2>2. Head(call.todo) \in Item
        BY <1>1, <2>1 DEF Handlers
    <2>3. ASSUME NEW b \in BOOLEAN, IndexTaken(row, Head(call.todo).at), Step(c, Over(call, b))
          PROVE  \E r \in Handlers : StepsTo(c, r)
        <3>1. ~ Unparked(call)
            BY <1>1, <2>1, <2>2, <2>3 DEF Parked, Clean, IndexTaken, NoClues, Item
        <3>2. Moved(call, Over(call, b), row, st)
            BY <1>1, <2>1, <2>3, <3>1, OverMoved
        <3>3. Over(call, b) \in Handlers
            BY <1>1, <2>1, OverType
        <3>4. Over(call, b).pc \notin Dropping
            BY <1>1, <2>1, OverFields DEF Dropping
        <3> QED
            BY <2>1, <2>3, <3>2, <3>3, <3>4 DEF StepsTo
    <2>4. CASE ToStore(c)
        <3> DEFINE r == [call EXCEPT !.pc = "prune", !.mode = "store"]
        <3>1. r \in Handlers /\ Moved(call, r, row, st)
            BY <1>1, <2>1, ToStoreMoved
        <3>2. Step(c, r)
            BY <2>4 DEF ToStore
        <3>3. r.pc = "prune"
            BY <1>1 DEF Handlers
        <3> HIDE DEF r
        <3> QED
            BY <2>1, <3>1, <3>2, <3>3 DEF StepsTo, Dropping
    <2>5. CASE Step(c, [call EXCEPT !.pc = "insert", !.row = row])
        <3> DEFINE r == [call EXCEPT !.pc = "insert", !.row = row]
        <3>1. r \in Handlers /\ Moved(call, r, row, st)
            BY <1>1, <2>1, ReadMoved
        <3>2. Step(c, r) /\ r.pc = "insert"
            BY <1>1, <2>5 DEF Handlers
        <3> HIDE DEF r
        <3> QED
            BY <2>1, <3>1, <3>2 DEF StepsTo, Dropping
    <2> QED
        BY <1>7, <2>3, <2>4, <2>5 DEF LookToCheck, LookToStore
<1>8. CASE InsertHints(c)
    <2> DEFINE n == AddClue(call.row, Head(call.todo))
    <2>1. call.pc = "insert" /\ hints'[t] = n /\ stamp'[t] = st /\ Goto(c, "stamp")
        BY <1>1, <1>8 DEF InsertHints, At, Inv, TypeOK
    <2>2. Moved(call, [call EXCEPT !.pc = "stamp"], n, st)
        BY <1>1, <2>1, WriteMoved
    <2> HIDE DEF n
    <2> QED
        BY <1>3, <2>1, <2>2 DEF Places, Dropping
<1>9. CASE InsertStamp(c)
    <2> DEFINE s == [call EXCEPT !.row = NoClues]
    <2>1. call.pc = "stamp" /\ call.todo # <<>> /\ Step(c, Over(s, TRUE))
        BY <1>1, <1>9 DEF InsertStamp, At, Busy, Parking
    <2>2. /\ s \in Handlers /\ s.pc = call.pc /\ s.tx = call.tx /\ s.peer = call.peer
          /\ s.stage = call.stage /\ s.todo = call.todo /\ s.late = call.late
          /\ s.accepted = call.accepted
        BY <1>1 DEF Handlers, NoClues, Row
    <2> HIDE DEF s
    <2>3. Unparked(s) <=> Unparked(call)
        BY <2>2 DEF Unparked
    <2>4. Shape(s)
        BY <1>1, <2>2 DEF Parked, Shape, Sends
    <2>5. Unparked(s) => Clean(s, row, st)
        BY <1>1, <2>1, <2>2, <2>3 DEF Parked, Clean
    <2>6. Parked(s, row, st)
        BY <2>1, <2>2, <2>4, <2>5 DEF Parked
    <2>7. Moved(s, Over(s, TRUE), hints'[t], stamp'[t])
        BY <2>1, <2>2, <2>6, OverMoved
    <2>8. Follows(call, Over(s, TRUE))
        BY <2>2, <2>3, <2>7 DEF Moved, Follows, Sends
    <2>9. (Holds(s) => Holds(call)) /\ (NowParked(s) => NowParked(call))
        BY <2>2 DEF Holds, NowParked, Sends
    <2>10. Moved(call, Over(s, TRUE), hints'[t], stamp'[t])
        BY <2>7, <2>8, <2>9 DEF Moved
    <2>11. Over(s, TRUE) \in Handlers /\ Over(s, TRUE).pc \notin Dropping
        BY <2>1, <2>2, OverType, OverFields DEF Dropping
    <2> QED
        BY <2>1, <2>10, <2>11 DEF StepsTo
<1> QED
    BY <1>4, <1>5, <1>6, <1>7, <1>8, <1>9

LEMMA FinishSteps ==
    ASSUME Inv, ParkedInv, NEW c \in Call,
           \/ Accepted(c) \/ Refused(c) \/ Remember(c) \/ HasMeta(c) \/ PutMeta(c)
           \/ SweepStamp(c) /\ Goto(c, "stale")
    PROVE  calls[c] # None /\ \E r \in Handlers : StepsTo(c, r)
<1> USE ClueHintsAssumption
<1> DEFINE call == calls[c]
           t    == call.tx
           row  == hints[t]
           st   == stamp[t]
<1>0. call # None
    BY DEF Accepted, Refused, Remember, HasMeta, PutMeta, SweepStamp, At, Inv, TypeOK, Sweeps, Sweeper
<1> SUFFICES \E r \in Handlers : StepsTo(c, r)
    BY <1>0
<1>1. /\ call \in Handlers /\ t \in Tx /\ Busy(call) /\ row \in Row
      /\ Parked(call, row, st) /\ (Unparked(call) => ~ Doomed(t))
    <2>1. call \in Handlers
        BY <1>0 DEF Inv, TypeOK
    <2>2. t \in Tx
        BY <2>1 DEF Handlers
    <2> QED
        BY <1>0, <2>1, <2>2 DEF Inv, TypeOK, Calls, ParkedInv
<1>2. ASSUME NEW p \in Places \ Dropping, Goto(c, p),
             Moved(call, [call EXCEPT !.pc = p], hints'[t], stamp'[t])
      PROVE  \E r \in Handlers : StepsTo(c, r)
    <2> DEFINE r == [call EXCEPT !.pc = p]
    <2>1. r \in Handlers /\ r.pc = p /\ Step(c, r)
        BY <1>1, <1>2, GotoType DEF Goto
    <2>2. Moved(call, r, hints'[t], stamp'[t])
        BY <1>2
    <2> HIDE DEF r
    <2>3. StepsTo(c, r)
        BY <1>2, <2>1, <2>2 DEF StepsTo
    <2> QED
        BY <2>1, <2>3
<1>3. CASE Accepted(c) \/ Refused(c) \/ HasMeta(c) \/ PutMeta(c)
    <2>1. hints'[t] = row /\ stamp'[t] = st /\ call.pc \in {"broadcast", "hasMeta", "putMeta"}
        BY <1>3 DEF Accepted, Refused, HasMeta, PutMeta, At
    <2>2. \E p \in {"remember", "forgetHints", "refused", "done", "putMeta"} :
              /\ Goto(c, p)
              /\ p \in {"remember", "forgetHints", "refused"} => call.pc = "broadcast"
              /\ p = "refused" => ~ call.accepted
        BY <1>3 DEF Accepted, Refused, HasMeta, PutMeta, At
    <2>3. PICK p \in {"remember", "forgetHints", "refused", "done", "putMeta"} :
              /\ Goto(c, p)
              /\ p \in {"remember", "forgetHints", "refused"} => call.pc = "broadcast"
              /\ p = "refused" => ~ call.accepted
        BY <2>2
    <2>4. call.pc = "broadcast" => call.stage = "before"
        BY <1>1 DEF Parked, Shape
    <2>5. p = "refused" => row = NoClues
        BY <1>1, <2>1, <2>3, <2>4 DEF Parked, Unparked, Clean
    <2>6. p \in Places \ Dropping /\ p \notin Parking /\ p \notin {"insert", "stamp", "forgetStamp"}
        BY DEF Places, Dropping, Parking
    <2>7. Moved(call, [call EXCEPT !.pc = p], row, st)
        BY <1>1, <2>1, <2>3, <2>4, <2>5, <2>6, GotoMoved DEF Refusal
    <2> QED
        BY <1>2, <2>1, <2>3, <2>6, <2>7
<1>4. CASE SweepStamp(c) /\ Goto(c, "stale")
    <2>1. call.pc = "prune" /\ hints'[t] = row /\ (t # sweep.half => stamp'[t] = st)
        BY <1>1, <1>4 DEF SweepStamp, Inv, TypeOK, Sweeps, Sweeper, At
    <2>2. t = sweep.half => ~ Unparked(call)
        BY <1>1 DEF Doomed
    <2>3. Parked(call, row, stamp'[t])
        BY <1>1, <2>1, <2>2 DEF Parked
    <2>4. Moved(call, [call EXCEPT !.pc = "stale"], row, stamp'[t])
        BY <1>1, <2>1, <2>3, GotoMoved DEF Places, Parking, Refusal, Dropping
    <2> QED
        BY <1>2, <1>4, <2>1, <2>4 DEF Places, Dropping
<1>5. CASE Remember(c)
    <2> DEFINE late  == call.late
               empty == <<>>
               r     == [call EXCEPT !.stage = "after", !.todo = late, !.late = empty]
    <2>1. call.pc = "remember" /\ Step(c, NextItem(r)) /\ hints'[t] = row /\ stamp'[t] = st
        BY <1>5 DEF Remember, At
    <2>2. late \in Seq(Item) /\ empty \in Seq(Item)
        BY <1>1 DEF Handlers
    <2> HIDE DEF late, empty
    <2>3. /\ r \in Handlers /\ r.tx = call.tx /\ r.peer = call.peer /\ r.stage = "after"
          /\ r.todo = late /\ r.late = empty /\ r.accepted = call.accepted
        BY <1>1, <2>2 DEF Handlers
    <2> HIDE DEF r
    <2>4. r.todo = call.late /\ r.late = <<>>
        BY <2>3 DEF late, empty
    <2>5. NextItem(r) \in Handlers /\ Moved(call, NextItem(r), row, st)
        BY <1>1, <2>1, <2>3, <2>4, LateMoved
    <2>6. NextItem(r).pc \notin Dropping
        <3>1. NextItem(r).pc = IF r.todo = <<>> THEN Emptied(r) ELSE "prune"
            BY <2>3, NextItemFields
        <3> QED
            BY <3>1 DEF Emptied, Dropping
    <2>7. StepsTo(c, NextItem(r))
        BY <2>1, <2>5, <2>6 DEF StepsTo
    <2> QED
        BY <2>5, <2>7
<1> QED
    BY <1>3, <1>4, <1>5

\* What a step that is not about a transaction may do to its rows: remove what
\* has expired.
Spares(t) ==
    /\ hints'[t] \in {hints[t], NoClues} /\ (hints'[t] # hints[t] => Doomed(t))
    /\ stamp'[t] # stamp[t] => Doomed(t)
    /\ Doomed(t)' => Doomed(t) \/ Expired(t)

LEMMA DoomedStep ==
    ASSUME Inv, NEW c \in Call, NEW r, Step(c, r), NEW t \in Tx, UNCHANGED poll,
           sweep'.todo \subseteq sweep.todo, sweep'.half \in {sweep.half, None}
    PROVE  Doomed(t)' => Doomed(t) \/ (r # None /\ r.tx = t /\ r.pc \in Dropping)
<1>1. \A d \in Call : calls'[d] = IF d = c THEN r ELSE calls[d]
    BY DEF Inv, TypeOK, Step
<1> QED
    BY <1>1, ClueHintsAssumption DEF Doomed

LEMMA OthersSpare ==
    ASSUME Inv, NEW t \in Tx,
           \/ \E c \in Call : SweepCollect(c) \/ SweepHints(c) \/ SweepStamp(c) \/ Take(c)
           \/ Poller \/ Tick \/ UNCHANGED vars
    PROVE  Spares(t)
<1> USE ClueHintsAssumption
<1>1. ASSUME NEW c \in Call, SweepCollect(c) PROVE Spares(t)
    <2>1. sweep' = [by |-> c, todo |-> {u \in Tx : Expired(u)}, half |-> None]
        BY <1>1 DEF SweepCollect
    <2>2. UNCHANGED <<hints, stamp, calls, poll>>
        BY <1>1 DEF SweepCollect
    <2> QED
        BY <2>1, <2>2 DEF Spares, Doomed
<1>2. ASSUME NEW c \in Call, SweepHints(c) PROVE Spares(t)
    <2>1. PICK u \in sweep.todo :
              /\ hints' = [hints EXCEPT ![u] = NoClues]
              /\ sweep' = [by |-> c, todo |-> sweep.todo \ {u}, half |-> u]
        BY <1>2 DEF SweepHints
    <2>2. UNCHANGED <<stamp, calls, poll>>
        BY <1>2 DEF SweepHints
    <2>3. hints'[t] = IF t = u THEN NoClues ELSE hints[t]
        BY <2>1 DEF Inv, TypeOK, Sweeps
    <2> QED
        BY <2>1, <2>2, <2>3 DEF Spares, Doomed
<1>3. ASSUME NEW c \in Call, SweepStamp(c) PROVE Spares(t)
    <2>1. UNCHANGED <<hints, poll>> /\ stamp'[t] = IF t = sweep.half THEN None ELSE stamp[t]
        BY <1>3 DEF SweepStamp, Inv, TypeOK, Sweeps
    <2>2. CASE UNCHANGED calls /\ sweep' = [sweep EXCEPT !.half = None]
        <3>1. sweep'.todo = sweep.todo /\ sweep'.half = None
            BY <2>2 DEF Inv, TypeOK, Sweeps
        <3> QED
            BY <2>1, <2>2, <3>1 DEF Spares, Doomed
    <2>3. CASE Goto(c, "stale") /\ sweep' = Idle
        <3> DEFINE r == [calls[c] EXCEPT !.pc = "stale"]
        <3>1. calls[c] \in Handlers
            BY <1>3 DEF SweepStamp, Inv, TypeOK, Sweeper, At
        <3>2. Step(c, r) /\ r.pc = "stale"
            BY <2>3, <3>1, GotoType DEF Goto, Places
        <3> HIDE DEF r
        <3>3. sweep'.todo = {} /\ sweep'.half = None
            BY <2>3 DEF Idle
        <3>4. Doomed(t)' => Doomed(t)
            BY <2>1, <3>2, <3>3, DoomedStep DEF Dropping
        <3> QED
            BY <2>1, <3>4 DEF Spares, Doomed
    <2> QED
        BY <1>3, <2>2, <2>3 DEF SweepStamp
<1>4. ASSUME Tick \/ UNCHANGED vars \/ \E c \in Call : Take(c) PROVE Spares(t)
    BY <1>4 DEF Tick, vars, Take, Spares, Doomed
<1>5. ASSUME Poller PROVE Spares(t)
    <2>1. UNCHANGED <<calls, sweep>>
        BY <1>5 DEF Poller, StartMerge, MergeStale, MergeDropHints, MergeDropStamp,
               MergeClues, MergeMeta, TakeMeta, WriteBlock, Unindex
    <2>2. poll # None => poll \in Merges /\ poll.tx \in Tx
        BY DEF Inv, TypeOK, Merges
    <2>3. CASE MergeStale
        <3>1. poll # None /\ UNCHANGED <<hints, stamp>>
            BY <2>3 DEF MergeStale, Merging
        <3>2. poll'.tx = poll.tx /\ (poll'.pc \in Dropping => Expired(poll.tx))
            BY <2>2, <2>3, <3>1 DEF MergeStale, MergeTo, Merges, Dropping
        <3> QED
            BY <2>1, <3>1, <3>2 DEF Spares, Doomed
    <2>4. CASE MergeDropHints \/ MergeDropStamp
        <3>1. /\ poll # None /\ poll.pc \in Dropping
              /\ \/ hints' = [hints EXCEPT ![poll.tx] = NoClues] /\ UNCHANGED stamp
                 \/ stamp' = [stamp EXCEPT ![poll.tx] = None] /\ UNCHANGED hints
            BY <2>4 DEF MergeDropHints, MergeDropStamp, Merging, Dropping
        <3>2. /\ hints'[t] = hints[t] \/ (t = poll.tx /\ hints'[t] = NoClues)
              /\ stamp'[t] = stamp[t] \/ t = poll.tx
            BY <3>1 DEF Inv, TypeOK
        <3>3. poll'.tx = poll.tx
            BY <2>2, <2>4, <3>1 DEF MergeDropHints, MergeDropStamp, MergeTo, Merges
        <3> QED
            BY <2>1, <3>1, <3>2, <3>3 DEF Spares, Doomed
    <2>5. CASE \/ (\E u \in Tx : StartMerge(u) \/ Unindex(u))
               \/ MergeClues \/ MergeMeta \/ TakeMeta \/ WriteBlock
        <3>1. UNCHANGED <<hints, stamp>>
            BY <2>5 DEF StartMerge, Unindex, MergeClues, MergeMeta, TakeMeta, WriteBlock
        <3>2. poll' # None => poll'.pc \notin Dropping
            <4>1. ASSUME NEW u \in Tx, StartMerge(u) \/ Unindex(u)
                  PROVE  poll' # None => poll'.pc \notin Dropping
                BY <4>1 DEF StartMerge, Unindex, Dropping
            <4>2. CASE MergeClues
                BY <2>2, <4>2 DEF MergeClues, Merging, Merges, Dropping
            <4>3. CASE MergeMeta
                BY <2>2, <4>3 DEF MergeMeta, Merging, Merges, Dropping
            <4>4. CASE TakeMeta \/ WriteBlock
                BY <2>2, <4>4 DEF TakeMeta, WriteBlock, Merging, MergeTo, Merges, Dropping
            <4> QED
                BY <2>5, <4>1, <4>2, <4>3, <4>4
        <3> QED
            BY <2>1, <3>1, <3>2 DEF Spares, Doomed
    <2> QED
        BY <1>5, <2>3, <2>4, <2>5 DEF Poller
<1> QED
    BY <1>1, <1>2, <1>3, <1>4, <1>5

\* A handler's own steps, but those of the scan.
OwnStep(c) ==
    \/ Stale(c) \/ RemoveHints(c) \/ RemoveStamp(c) \/ LookToCheck(c)
    \/ LookToStore(c) \/ InsertHints(c) \/ InsertStamp(c)
    \/ Accepted(c) \/ Refused(c) \/ Remember(c) \/ HasMeta(c) \/ PutMeta(c)

\* They touch the rows of their transaction only.
LEMMA OwnRows ==
    ASSUME Inv, NEW c \in Call, OwnStep(c)
    PROVE  /\ UNCHANGED <<now, sweep, poll, index>> /\ sent' = sent /\ heard' = heard
           /\ \A t \in Tx : t # calls[c].tx =>
                  hints'[t] = hints[t] /\ stamp'[t] = stamp[t]
<1>1. UNCHANGED <<now, sweep, poll, index, sent, heard>>
    BY DEF OwnStep, Stale, RemoveHints, RemoveStamp, LookToCheck, LookToStore, InsertHints,
           InsertStamp, Accepted, Refused, Remember, HasMeta, PutMeta
<1>2. UNCHANGED hints \/ \E row : hints' = [hints EXCEPT ![calls[c].tx] = row]
    BY DEF OwnStep, Stale, RemoveHints, RemoveStamp, LookToCheck, LookToStore, InsertHints,
           InsertStamp, Accepted, Refused, Remember, HasMeta, PutMeta
<1>3. UNCHANGED stamp \/ \E st : stamp' = [stamp EXCEPT ![calls[c].tx] = st]
    BY DEF OwnStep, Stale, RemoveHints, RemoveStamp, LookToCheck, LookToStore, InsertHints,
           InsertStamp, Accepted, Refused, Remember, HasMeta, PutMeta
<1> QED
    BY <1>1, <1>2, <1>3 DEF Inv, TypeOK

LEMMA OwnSteps ==
    ASSUME Inv, ParkedInv, NEW c \in Call, OwnStep(c)
    PROVE  calls[c] # None /\ \E r \in Handlers : StepsTo(c, r)
BY ParkSteps, FinishSteps DEF OwnStep

\* A handler that answers, or gives up.
Leaves(c) == TimedOut(c) \/ Answer(c)

LEMMA LeavesRows ==
    ASSUME Inv, NEW c \in Call, Leaves(c)
    PROVE  /\ calls[c] # None /\ Step(c, None)
           /\ UNCHANGED <<now, hints, stamp, bind, sweep, poll, index, heard, sent>>
BY DEF Leaves, TimedOut, Answer, Return, At

\* Every step is a call's start, a handler's own, its return, or one that keeps
\* the handlers but for one that goes on after its scan.
LEMMA StepKinds ==
    ASSUME [Next]_vars
    PROVE  \/ Start
           \/ \E c \in Call : OwnStep(c) \/ Leaves(c) \/ SweepStamp(c)
           \/ \E c \in Call : SweepCollect(c) \/ SweepHints(c) \/ Take(c)
           \/ Poller \/ Tick \/ UNCHANGED vars
BY DEF Next, Park, Finish, OwnStep, Leaves

\* The others are spared.
LEMMA HandlerSpares ==
    ASSUME Inv, ParkedInv, NEW c \in Call, OwnStep(c) \/ Leaves(c),
           NEW t \in Tx, t # calls[c].tx
    PROVE  Spares(t)
<1>1. CASE OwnStep(c)
    <2>1. PICK r \in Handlers : StepsTo(c, r)
        BY <1>1, OwnSteps
    <2>2. Step(c, r) /\ r.tx = calls[c].tx
        BY <2>1 DEF StepsTo, Moved, Follows
    <2>3. UNCHANGED <<sweep, poll>> /\ hints'[t] = hints[t] /\ stamp'[t] = stamp[t]
        BY <1>1, OwnRows
    <2>4. Doomed(t)' => Doomed(t)
        BY <2>2, <2>3, DoomedStep
    <2> QED
        BY <2>3, <2>4 DEF Spares
<1>2. CASE Leaves(c)
    <2>1. Step(c, None) /\ UNCHANGED <<hints, stamp, sweep, poll>>
        BY <1>2, LeavesRows
    <2>2. Doomed(t)' => Doomed(t)
        <3> DEFINE r == None
        <3>1. Step(c, r) /\ r = None
            BY <2>1
        <3> HIDE DEF r
        <3> QED
            BY <2>1, <3>1, DoomedStep
    <2> QED
        BY <2>1, <2>2 DEF Spares
<1> QED
    BY <1>1, <1>2

\* A handler that is spared keeps what is known of it.
LEMMA SparedParked ==
    ASSUME Inv, ParkedInv, NEW d \in Call, calls[d] # None, calls'[d] = calls[d],
           Spares(calls[d].tx)
    PROVE  /\ Parked(calls'[d], hints'[calls'[d].tx], stamp'[calls'[d].tx])
           /\ Unparked(calls'[d]) => ~ Doomed(calls[d].tx)'
<1>1. calls[d].tx \in Tx
    BY DEF Inv, TypeOK, Handlers
<1>2. PICK t \in Tx : t = calls[d].tx
    BY <1>1
<1>3. /\ Parked(calls[d], hints[t], stamp[t])
      /\ Unparked(calls[d]) => ~ Doomed(t)
      /\ Spares(t)
    BY <1>2 DEF ParkedInv
<1>4. CASE Unparked(calls[d])
    <2>1. stamp[t] = None
        BY <1>3, <1>4 DEF Parked, Clean
    <2>2. hints'[t] = hints[t] /\ stamp'[t] = stamp[t] /\ ~ Doomed(t)'
        BY <1>3, <1>4, <2>1 DEF Spares, Expired
    <2>3. Doomed(calls[d].tx)' <=> Doomed(t)'
        BY <1>2 DEF Doomed
    <2> QED
        BY <1>2, <1>3, <2>2, <2>3
<1>5. CASE ~ Unparked(calls[d])
    <2>1. hints'[t] \in {hints[t], NoClues}
        BY <1>3 DEF Spares
    <2> QED
        BY <1>2, <1>3, <1>5, <2>1 DEF Parked
<1> QED
    BY <1>4, <1>5

\* One item and the items behind it.
LEMMA OneThenMore ==
    ASSUME NEW s \in Seq(Item), NEW e \in Seq(Item), Len(s) = 1
    PROVE  /\ \A i \in DOMAIN (s \o e) : i # 1 => i - 1 \in DOMAIN e /\ (s \o e)[i] = e[i - 1]
           /\ s \o e # <<>> /\ Head(s \o e) = s[1]
<1> DEFINE all == s \o e
<1>1. all \in Seq(Item) /\ Len(all) = 1 + Len(e)
    <2>1. all \in Seq(Item)
        BY ConcatProperties
    <2>2. Len(all) = Len(s) + Len(e)
        BY ConcatProperties
    <2> QED BY <2>1, <2>2
<1>2. \A i \in 1 .. Len(all) : all[i] = IF i <= 1 THEN s[i] ELSE e[i - 1]
    <2>1. \A i \in 1 .. Len(s) + Len(e) : all[i] = IF i <= Len(s) THEN s[i] ELSE e[i - Len(s)]
        BY ConcatProperties
    <2> HIDE DEF all
    <2> QED
        BY <1>1, <2>1
<1> HIDE DEF all
<1>3. all # <<>> /\ Head(all) = all[1] /\ all[1] = s[1]
    BY <1>1, <1>2
<1>4. \A i \in DOMAIN all : i # 1 => i - 1 \in DOMAIN e /\ all[i] = e[i - 1]
    BY <1>1, <1>2
<1> QED
    BY <1>3, <1>4 DEF all

\* A send begins with its recipient's clue, or without one.
Begins(c, t, q, r) ==
    /\ calls[c] = None /\ MayStart(c, t) /\ Step(c, r) /\ r.tx = t
    /\ r.stage = "before" /\ ~ r.accepted
    /\ r.pc \in {"prune", "broadcast"} /\ Shape(r)
    /\ LeadsMain(r.todo) => r.todo # <<>> /\ Head(r.todo) = Head(q.base \o q.extras)
    /\ LeadsMain(r.late) => r.todo = <<>> /\ Head(r.late) = Head(q.base \o q.extras)

LEMMA SendBegins ==
    ASSUME Inv, NEW c \in Call, NEW t \in Tx, NEW q \in Requests[t], StartSend(c, t, q)
    PROVE  \E r \in Handlers : Begins(c, t, q, r)
<1> USE ClueHintsAssumption, RequestAssumption
<1> DEFINE all   == q.base \o q.extras
           early == q.base # <<>> /\ t \notin Opaque
           todo  == IF early THEN all ELSE <<>>
           late  == IF t \in Opaque THEN all ELSE q.extras
           r     == [Blank(t, q.peer) EXCEPT !.todo = todo, !.late = late, !.metaAt = q.metaAt]
           n     == NextItem(r)
<1>1. /\ q \in Request /\ q.base \in Seq(Item) /\ q.extras \in Seq(Item)
      /\ q.base = <<>> \/ (Len(q.base) = 1 /\ q.base[1].main)
      /\ \A i \in DOMAIN q.extras : ~ q.extras[i].main
    BY DEF Request
<1>2. all \in Seq(Item)
    BY <1>1
<1>3. MainFirst(q.extras) /\ ~ LeadsMain(q.extras)
    BY <1>1 DEF MainFirst, LeadsMain
<1>4. MainFirst(all) /\ (q.base # <<>> => LeadsMain(all))
    <2>1. CASE q.base = <<>>
        <3>1. all = q.extras
            BY <1>1, <2>1
        <3> QED
            BY <1>3, <2>1, <3>1
    <2>2. CASE Len(q.base) = 1 /\ q.base[1].main
        <3>1. \A i \in DOMAIN all : i # 1 => i - 1 \in DOMAIN q.extras /\ all[i] = q.extras[i - 1]
            BY <1>1, <2>2, OneThenMore
        <3>2. all # <<>> /\ Head(all) = q.base[1]
            BY <1>1, <2>2, OneThenMore, ZenonT(60)
        <3> QED
            BY <1>1, <2>2, <3>1, <3>2 DEF MainFirst, LeadsMain
    <2> QED
        BY <1>1, <2>1, <2>2
<1>5. MainFirst(<<>>) /\ ~ LeadsMain(<<>>)
    BY DEF MainFirst, LeadsMain
<1>6. todo \in Seq(Item) /\ late \in Seq(Item) /\ q.metaAt \in Index \cup {None} /\ q.peer \in Peer
    BY <1>1, <1>2 DEF Request
<1>7. NoClues \in Row
    BY DEF NoClues, Row
<1>8. Step(c, n) /\ calls[c] = None /\ MayStart(c, t)
    BY DEF StartSend, MayStart
<1>9. /\ MainFirst(todo) /\ MainFirst(late)
      /\ todo # <<>> => LeadsMain(todo) /\ Head(todo) = Head(all) /\ ~ LeadsMain(late)
      /\ LeadsMain(late) => todo = <<>> /\ Head(late) = Head(all)
    BY <1>3, <1>4, <1>5
<1> HIDE DEF todo, late, all
<1>10. /\ r \in Handlers /\ r.tx = t /\ r.stage = "before" /\ r.accepted = FALSE
       /\ r.todo = todo /\ r.late = late
    BY <1>6, <1>7 DEF Handlers, Blank, Places
<1> HIDE DEF r
<1>11. /\ n.tx = t /\ n.stage = "before" /\ ~ n.accepted /\ n.todo = todo /\ n.late = late
       /\ n.pc = IF todo = <<>> THEN Emptied(r) ELSE "prune"
    BY <1>10, NextItemFields
<1>12. n \in Handlers
    BY <1>10, NextItemType
<1>13. Emptied(r) = "broadcast"
    BY <1>10 DEF Emptied
<1> HIDE DEF n
<1>14. Shape(n)
    BY <1>9, <1>11, <1>13 DEF Shape, Parking
<1>15. (LeadsMain(n.todo) => n.todo # <<>>)
    BY DEF LeadsMain
<1>16. Begins(c, t, q, n)
    BY <1>8, <1>9, <1>11, <1>13, <1>14, <1>15 DEF all, Begins
<1> QED
    BY <1>12, <1>16

LEMMA RegisterBegins ==
    ASSUME Inv, NEW c \in Call, NEW t \in Tx, NEW p \in Peer,
           NEW item \in Registrations[t], StartRegister(c, t, p, item)
    PROVE  \E r \in Handlers :
              /\ calls[c] = None /\ MayStart(c, t) /\ Step(c, r) /\ r.tx = t /\ r.peer = p
              /\ r.stage = "register" /\ r.pc = "prune" /\ Shape(r) /\ ~ LeadsMain(r.late)
<1> USE ClueHintsAssumption
<1> DEFINE one == <<item>>
           r   == [Blank(t, p) EXCEPT !.stage = "register", !.todo = one]
<1>1. item \in Item
    OBVIOUS
<1>2. one \in Seq(Item) /\ NoClues \in Row
    BY <1>1 DEF NoClues, Row
<1>3. Step(c, r) /\ calls[c] = None /\ MayStart(c, t)
    BY DEF StartRegister, MayStart
<1>4. MainFirst(one) /\ MainFirst(<<>>) /\ ~ LeadsMain(<<>>)
    BY <1>1 DEF MainFirst, LeadsMain
<1> HIDE DEF one
<1>5. Blank(t, p) \in Handlers /\ Blank(t, p).late = <<>>
    BY <1>2 DEF Handlers, Blank, Places
<1>6. /\ r \in Handlers /\ r.tx = t /\ r.peer = p /\ r.stage = "register" /\ r.pc = "prune"
      /\ r.todo = one /\ r.late = <<>>
    BY <1>2, <1>5 DEF Handlers, Blank
<1> HIDE DEF r
<1>7. Shape(r) /\ ~ LeadsMain(r.late)
    BY <1>4, <1>6 DEF Shape, Sends, Refusal
<1> QED
    BY <1>3, <1>6, <1>7

\* A call that starts is the only one it changes.
LEMMA StartSpares ==
    ASSUME Inv, Start, NEW t \in Tx
    PROVE  Spares(t)
<1>1. UNCHANGED <<hints, stamp, sweep, poll>>
    BY DEF Start, StartSend, StartRegister
<1>2. \E c \in Call, r \in Handlers : Step(c, r) /\ r.pc \notin Dropping
    BY SendBegins, RegisterBegins DEF Start, Begins, Dropping
<1>3. PICK c \in Call, r \in Handlers : Step(c, r) /\ r.pc \notin Dropping
    BY <1>2
<1>4. Doomed(t)' => Doomed(t)
    BY <1>1, <1>3, DoomedStep
<1> QED
    BY <1>1, <1>4 DEF Spares

LEMMA StartParked ==
    ASSUME Inv, SentFirst, ParkedInv, ~ Resends, Start
    PROVE  ParkedInv'
<1> USE ClueHintsAssumption
<1>1. UNCHANGED <<hints, stamp, sweep, poll>>
    BY DEF Start, StartSend, StartRegister
<1>2. \E c \in Call, r \in Handlers :
          /\ calls[c] = None /\ Step(c, r) /\ Shape(r)
          /\ r.pc \in {"prune", "broadcast"}
          /\ Unparked(r) => Unseen(r.tx)
    <2>1. ASSUME NEW c \in Call, NEW t \in Tx, NEW q \in Requests[t], StartSend(c, t, q)
          PROVE  Unseen(t)
        BY <2>1 DEF StartSend, SentFirst
    <2>2. ASSUME NEW c \in Call, NEW t \in Tx, NEW q \in Requests[t], StartSend(c, t, q)
          PROVE  \E r \in Handlers :
              /\ calls[c] = None /\ Step(c, r) /\ Shape(r)
              /\ r.pc \in {"prune", "broadcast"}
              /\ Unparked(r) => Unseen(r.tx)
        <3>1. PICK r \in Handlers :
                  /\ calls[c] = None /\ Step(c, r) /\ r.tx = t
                  /\ r.pc \in {"prune", "broadcast"} /\ Shape(r)
            BY <2>2, SendBegins DEF Begins
        <3>2. Unseen(r.tx)
            BY <2>1, <2>2, <3>1
        <3> QED
            BY <3>1, <3>2
    <2>3. ASSUME NEW c \in Call, NEW t \in Tx, NEW p \in Peer,
                 NEW item \in Registrations[t], StartRegister(c, t, p, item)
          PROVE  \E r \in Handlers :
              /\ calls[c] = None /\ Step(c, r) /\ Shape(r)
              /\ r.pc \in {"prune", "broadcast"}
              /\ Unparked(r) => Unseen(r.tx)
        BY <2>3, RegisterBegins DEF Unparked
    <2> QED
        BY <2>2, <2>3 DEF Start
<1>3. PICK c \in Call, r \in Handlers :
          /\ calls[c] = None /\ Step(c, r) /\ Shape(r)
          /\ r.pc \in {"prune", "broadcast"}
          /\ Unparked(r) => Unseen(r.tx)
    BY <1>2
<1>4. \A d \in Call : calls'[d] = IF d = c THEN r ELSE calls[d]
    BY <1>3 DEF Inv, TypeOK, Step
<1>5. ASSUME NEW d \in Call, calls'[d] # None
      PROVE  /\ Parked(calls'[d], hints'[calls'[d].tx], stamp'[calls'[d].tx])
             /\ Unparked(calls'[d]) => ~ Doomed(calls[d].tx)'
    <2>1. CASE d = c
        <3>1. r.tx \in Tx
            BY DEF Handlers
        <3>2. PICK t \in Tx : t = r.tx
            BY <3>1
        <3>3. calls'[d] = r
            BY <1>4, <2>1
        <3>4. Unparked(r) => hints'[t] = NoClues /\ stamp'[t] = None /\ ~ Doomed(t)
            BY <1>1, <1>3, <3>2 DEF Unseen, Doomed
        <3>5. Doomed(t)' => Doomed(t)
            BY <1>1, <1>3, DoomedStep DEF Dropping
        <3>6. Parked(r, hints'[t], stamp'[t])
            BY <1>3, <3>4 DEF Parked, Clean
        <3>7. Doomed(calls[d].tx)' <=> Doomed(t)'
            BY <3>2, <3>3 DEF Doomed
        <3> QED
            BY <3>2, <3>3, <3>4, <3>5, <3>6, <3>7
    <2>2. CASE d # c
        <3>1. calls'[d] = calls[d] /\ calls[d] # None
            BY <1>4, <1>5, <2>2
        <3>2. calls[d].tx \in Tx
            BY <3>1 DEF Inv, TypeOK, Handlers
        <3>3. PICK t \in Tx : t = calls[d].tx
            BY <3>2
        <3>4. Spares(t)
            BY StartSpares
        <3>5. Spares(calls[d].tx)
            <4>1. (calls[d].tx)' = t
                BY <3>1, <3>3
            <4> QED
                BY <3>3, <3>4, <4>1 DEF Spares, Doomed
        <3> QED
            BY <3>1, <3>5, SparedParked
    <2> QED
        BY <2>1, <2>2
<1> QED
    BY <1>5 DEF ParkedInv

\* Whatever the others do, what is known of a handler stays: they are about other
\* transactions.
LEMMA ParkedStep ==
    ASSUME Inv, Alone, SentFirst, ParkedInv, ~ Resends, [Next]_vars
    PROVE  ParkedInv'
<1> USE ClueHintsAssumption
<1>1. ASSUME UNCHANGED calls, \A t \in Tx : Spares(t) PROVE ParkedInv'
    <2>1. ASSUME NEW d \in Call, calls[d] # None
          PROVE  /\ Parked(calls'[d], hints'[calls'[d].tx], stamp'[calls'[d].tx])
                 /\ Unparked(calls'[d]) => ~ Doomed(calls[d].tx)'
        <3>1. PICK t \in Tx : t = calls[d].tx
            BY <2>1 DEF Inv, TypeOK, Handlers
        <3>2. Spares(calls[d].tx)
            BY <1>1, <3>1 DEF Spares, Doomed
        <3> QED
            BY <1>1, <2>1, <3>2, SparedParked
    <2> QED
        BY <1>1, <2>1 DEF ParkedInv
<1>2. ASSUME NEW c \in Call, calls[c] # None, NEW r \in Handlers \cup {None}, Step(c, r),
             \A t \in Tx : t # calls[c].tx => Spares(t),
             r # None => /\ r.tx = calls[c].tx
                         /\ Parked(r, hints'[calls[c].tx], stamp'[calls[c].tx])
                         /\ Unparked(r) => ~ Doomed(calls[c].tx) /\ ~ Expired(calls[c].tx),
             r # None /\ r.pc \in Dropping => ~ Unparked(r),
             UNCHANGED poll, sweep'.todo \subseteq sweep.todo, sweep'.half \in {sweep.half, None}
      PROVE  ParkedInv'
    <2>1. \A d \in Call : calls'[d] = IF d = c THEN r ELSE calls[d]
        BY <1>2 DEF Inv, TypeOK, Step
    <2>2. ASSUME NEW d \in Call, calls'[d] # None
          PROVE  /\ Parked(calls'[d], hints'[calls'[d].tx], stamp'[calls'[d].tx])
                 /\ Unparked(calls'[d]) => ~ Doomed(calls[d].tx)'
        <3>1. CASE d = c
            <4>1. calls'[d] = r /\ r # None /\ r.tx \in Tx
                BY <1>2, <2>1, <2>2, <3>1 DEF Handlers
            <4>2. PICK t \in Tx : t = r.tx /\ t = calls[c].tx
                BY <1>2, <4>1
            <4>3. Doomed(t)' => Doomed(t) \/ (r.tx = t /\ r.pc \in Dropping)
                BY <1>2, DoomedStep
            <4>4. Unparked(r) => ~ Doomed(t)'
                BY <1>2, <4>1, <4>2, <4>3
            <4>5. Doomed(calls[d].tx)' <=> Doomed(t)'
                BY <4>1, <4>2 DEF Doomed
            <4> QED
                BY <1>2, <4>1, <4>2, <4>4, <4>5
        <3>2. CASE d # c
            <4>1. calls'[d] = calls[d] /\ calls[d] # None
                BY <2>1, <2>2, <3>2
            <4>2. calls[d].tx # calls[c].tx
                BY <1>2, <3>2, <4>1 DEF Alone
            <4>3. PICK t \in Tx : t = calls[d].tx
                BY <4>1 DEF Inv, TypeOK, Handlers
            <4>4. (calls[d].tx)' = t
                BY <4>1, <4>3
            <4>5. Spares(t)
                BY <1>2, <4>2, <4>3
            <4>6. Spares(calls[d].tx)
                BY <4>3, <4>4, <4>5 DEF Spares, Doomed
            <4> QED
                BY <4>1, <4>6, SparedParked
        <3> QED
            BY <3>1, <3>2
    <2> QED
        BY <2>2 DEF ParkedInv
<1>3. ASSUME NEW c \in Call, calls[c] # None, NEW r \in Handlers, StepsTo(c, r)
      PROVE  /\ r.tx = calls[c].tx /\ Step(c, r)
             /\ Parked(r, hints'[calls[c].tx], stamp'[calls[c].tx])
             /\ Unparked(r) => ~ Doomed(calls[c].tx) /\ ~ Expired(calls[c].tx)
             /\ r.pc \in Dropping => ~ Unparked(r)
    <2>1. Moved(calls[c], r, hints'[calls[c].tx], stamp'[calls[c].tx]) /\ Step(c, r)
        BY <1>3 DEF StepsTo
    <2>2. Unparked(r) => Unparked(calls[c]) /\ r.pc \notin Dropping
        BY <2>1 DEF Moved, Follows
    <2>3. Unparked(calls[c]) => ~ Doomed(calls[c].tx) /\ stamp[calls[c].tx] = None
        BY <1>3 DEF ParkedInv, Parked, Clean
    <2> QED
        BY <2>1, <2>2, <2>3 DEF Moved, Follows, Expired
<1>4. CASE Start
    BY <1>4, StartParked
<1>5. ASSUME NEW c \in Call, OwnStep(c) PROVE ParkedInv'
    <2>1. PICK r \in Handlers : StepsTo(c, r)
        BY <1>5, OwnSteps
    <2>2. calls[c] # None
        BY <1>5, OwnSteps
    <2>3. UNCHANGED <<sweep, poll>>
        BY <1>5, OwnRows
    <2>4. \A t \in Tx : t # calls[c].tx => Spares(t)
        BY <1>5, HandlerSpares
    <2>5. /\ r.tx = calls[c].tx /\ Step(c, r)
          /\ Parked(r, hints'[calls[c].tx], stamp'[calls[c].tx])
          /\ Unparked(r) => ~ Doomed(calls[c].tx) /\ ~ Expired(calls[c].tx)
          /\ r.pc \in Dropping => ~ Unparked(r)
        BY <1>3, <2>1, <2>2
    <2> QED
        BY <1>2, <2>2, <2>3, <2>4, <2>5
<1>6. ASSUME NEW c \in Call, Leaves(c) PROVE ParkedInv'
    <2> DEFINE r == None
    <2>1. calls[c] # None /\ Step(c, r) /\ UNCHANGED <<sweep, poll>> /\ r \in {None}
        BY <1>6, LeavesRows
    <2>2. \A t \in Tx : t # calls[c].tx => Spares(t)
        BY <1>6, HandlerSpares
    <2>3. r = None
        OBVIOUS
    <2> HIDE DEF r
    <2> QED
        BY <1>2, <2>1, <2>2, <2>3
<1>7. ASSUME NEW c \in Call, SweepStamp(c) PROVE ParkedInv'
    <2>1. \A t \in Tx : Spares(t)
        BY <1>7, OthersSpare
    <2>2. CASE UNCHANGED calls
        BY <1>1, <2>1, <2>2
    <2>3. CASE Goto(c, "stale") /\ sweep' = Idle
        <3>1. calls[c] # None
            BY <1>7, <2>3, FinishSteps
        <3>2. PICK r \in Handlers : StepsTo(c, r)
            BY <1>7, <2>3, FinishSteps
        <3>3. /\ r.tx = calls[c].tx /\ Step(c, r)
              /\ Parked(r, hints'[calls[c].tx], stamp'[calls[c].tx])
              /\ Unparked(r) => ~ Doomed(calls[c].tx) /\ ~ Expired(calls[c].tx)
              /\ r.pc \in Dropping => ~ Unparked(r)
            BY <1>3, <3>1, <3>2
        <3>4. UNCHANGED poll /\ sweep'.todo \subseteq sweep.todo /\ sweep'.half \in {sweep.half, None}
            BY <1>7, <2>3 DEF SweepStamp, Idle
        <3> QED
            BY <1>2, <2>1, <3>1, <3>3, <3>4
    <2> QED
        BY <1>7, <2>2, <2>3 DEF SweepStamp
<1>8. ASSUME \/ \E c \in Call : SweepCollect(c) \/ SweepHints(c) \/ Take(c)
             \/ Poller \/ Tick \/ UNCHANGED vars
      PROVE  ParkedInv'
    <2>1. UNCHANGED calls
        BY <1>8 DEF SweepCollect, SweepHints, Take, Poller, Tick, vars, StartMerge, MergeStale,
               MergeDropHints, MergeDropStamp, MergeClues, MergeMeta, TakeMeta, WriteBlock, Unindex
    <2>2. \A t \in Tx : Spares(t)
        BY <1>8, OthersSpare
    <2> QED
        BY <1>1, <2>1, <2>2
<1> QED
    BY <1>4, <1>5, <1>6, <1>7, <1>8, StepKinds

\* Nothing is known of a transaction before it is sent.
LEMMA SentFirstStep ==
    ASSUME Inv, SentFirst, ParkedInv, [Next]_vars
    PROVE  SentFirst'
<1> USE ClueHintsAssumption
<1> SUFFICES ASSUME NEW t \in Tx, t \notin sent' PROVE Unseen(t)'
    BY DEF SentFirst
<1>1. t \notin sent
    <2>1. UNCHANGED sent \/ \E u \in Tx : sent' = sent \cup {u}
        BY DEF Next, Start, StartSend, StartRegister, Park, Finish, Poller, Tick, vars,
               SweepCollect, SweepHints, SweepStamp, Stale, RemoveHints, RemoveStamp,
               LookToCheck, LookToStore, InsertHints, InsertStamp, Take, Accepted, Refused,
               TimedOut, Remember, HasMeta, PutMeta, Answer, StartMerge, MergeStale,
               MergeDropHints, MergeDropStamp, MergeClues, MergeMeta, TakeMeta, WriteBlock, Unindex
    <2> QED
        BY <2>1
<1>2. Unseen(t)
    BY <1>1 DEF SentFirst
<1>3. ~ Doomed(t) /\ ~ Expired(t)
    BY <1>2 DEF Unseen, Doomed, Expired
<1>4. ASSUME Spares(t)
      PROVE  /\ hints'[t] = NoClues /\ stamp'[t] = None
             /\ t \notin sweep'.todo /\ sweep'.half # t
    BY <1>2, <1>3, <1>4 DEF Spares, Unseen, Doomed
<1>5. ASSUME NEW c \in Call, NEW r, Step(c, r), r # None => r.tx # t
      PROVE  \A d \in Call : calls'[d] # None => calls'[d].tx # t
    <2>1. \A d \in Call : calls'[d] = IF d = c THEN r ELSE calls[d]
        BY <1>5 DEF Inv, TypeOK, Step
    <2> QED
        BY <1>2, <1>5, <2>1 DEF Unseen
<1>6. CASE Start
    <2>1. UNCHANGED <<heard, poll>> /\ Spares(t)
        BY <1>6, StartSpares DEF Start, StartSend, StartRegister
    <2>2. bind'[t] = None
        BY <1>2, <1>6 DEF Start, StartSend, StartRegister, Live, Unseen, Inv, TypeOK
    <2>3. ASSUME NEW c \in Call, NEW u \in Tx, NEW q \in Requests[u], StartSend(c, u, q)
          PROVE  \E r \in Handlers : Step(c, r) /\ r.tx # t
        <3>1. PICK r \in Handlers :
                  /\ calls[c] = None /\ Step(c, r) /\ r.tx = u
                  /\ r.pc \in {"prune", "broadcast"} /\ Shape(r)
            BY <2>3, SendBegins DEF Begins
        <3>2. u # t
            BY <2>3 DEF StartSend
        <3> QED
            BY <3>1, <3>2
    <2>4. ASSUME NEW c \in Call, NEW u \in Tx, NEW p \in Peer,
                 NEW item \in Registrations[u], StartRegister(c, u, p, item)
          PROVE  \E r \in Handlers : Step(c, r) /\ r.tx # t
        <3>1. \E r \in Handlers : Step(c, r) /\ r.tx = u
            BY <2>4, RegisterBegins
        <3>2. u # t
            BY <1>2, <2>4 DEF StartRegister, Matches, Live, Unseen
        <3> QED
            BY <3>1, <3>2
    <2>5. \E c \in Call : \E r \in Handlers : Step(c, r) /\ r.tx # t
        BY <1>6, <2>3, <2>4 DEF Start
    <2>6. \A d \in Call : calls'[d] # None => calls'[d].tx # t
        BY <1>5, <2>5
    <2> QED
        BY <1>2, <1>4, <2>1, <2>2, <2>6 DEF Unseen
<1>7. ASSUME NEW c \in Call, OwnStep(c) PROVE Unseen(t)'
    <2>1. calls[c] # None /\ UNCHANGED <<poll, heard>>
        BY <1>7, OwnSteps, OwnRows
    <2>2. PICK r \in Handlers : StepsTo(c, r)
        BY <1>7, OwnSteps
    <2>3. Step(c, r) /\ r.tx = calls[c].tx /\ calls[c].tx # t
        BY <1>2, <2>1, <2>2 DEF StepsTo, Moved, Follows, Unseen
    <2>4. Spares(t)
        BY <1>7, <2>3, HandlerSpares
    <2>5. bind'[t] = None
        <3>1. CASE Remember(c)
            <4>1. PICK gone \in Evicted(Live) :
                      bind' = [u \in Tx |-> IF u = calls[c].tx THEN [peer |-> calls[c].peer, at |-> now]
                                            ELSE IF u \in gone THEN None ELSE Live[u]]
                BY <3>1 DEF Remember
            <4>2. Live[t] = None
                BY <1>2 DEF Live, Unseen
            <4> QED
                BY <2>3, <4>1, <4>2
        <3>2. CASE ~ Remember(c)
            <4>1. UNCHANGED bind
                BY <1>7, <3>2 DEF OwnStep, Stale, RemoveHints, RemoveStamp, LookToCheck, LookToStore,
                       InsertHints, InsertStamp, Accepted, Refused, HasMeta, PutMeta
            <4> QED
                BY <1>2, <4>1 DEF Unseen
        <3> QED
            BY <3>1, <3>2
    <2>6. \A d \in Call : calls'[d] # None => calls'[d].tx # t
        BY <1>5, <2>3
    <2> QED
        BY <1>2, <1>4, <2>1, <2>4, <2>5, <2>6 DEF Unseen
<1>8. ASSUME NEW c \in Call, Leaves(c) PROVE Unseen(t)'
    <2>1. calls[c] # None /\ Step(c, None)
          /\ UNCHANGED <<hints, stamp, bind, sweep, poll, heard>>
        BY <1>8, LeavesRows
    <2>2. \A d \in Call : calls'[d] # None => calls'[d].tx # t
        BY <1>5, <2>1
    <2> QED
        BY <1>2, <2>1, <2>2 DEF Unseen
<1>9. ASSUME NEW c \in Call, SweepStamp(c) PROVE Unseen(t)'
    <2>1. Spares(t) /\ UNCHANGED <<bind, poll, heard>>
        BY <1>9, OthersSpare DEF SweepStamp
    <2>2. CASE UNCHANGED calls
        BY <1>2, <1>4, <2>1, <2>2 DEF Unseen
    <2>3. CASE Goto(c, "stale")
        <3>1. PICK r \in Handlers : StepsTo(c, r)
            BY <1>9, <2>3, FinishSteps
        <3>2. Step(c, r) /\ r.tx = calls[c].tx /\ calls[c].tx # t
            BY <1>2, <1>9, <2>3, <3>1, FinishSteps DEF StepsTo, Moved, Follows, Unseen
        <3>3. \A d \in Call : calls'[d] # None => calls'[d].tx # t
            BY <1>5, <3>2
        <3> QED
            BY <1>2, <1>4, <2>1, <3>3 DEF Unseen
    <2> QED
        BY <1>9, <2>2, <2>3 DEF SweepStamp
<1>10. ASSUME \/ \E c \in Call : SweepCollect(c) \/ SweepHints(c) \/ Take(c)
              \/ Poller \/ Tick \/ UNCHANGED vars
       PROVE  Unseen(t)'
    <2>1. Spares(t)
        BY <1>10, OthersSpare
    <2>2. UNCHANGED <<calls, bind>>
        BY <1>10 DEF SweepCollect, SweepHints, Take, Poller, Tick, vars, StartMerge, MergeStale,
               MergeDropHints, MergeDropStamp, MergeClues, MergeMeta, TakeMeta, WriteBlock, Unindex
    <2>3. t \notin heard'
        <3>1. UNCHANGED heard \/ \E c \in Call : calls[c] # None /\ heard' = heard \cup {calls[c].tx}
            BY <1>10 DEF SweepCollect, SweepHints, Take, At, Poller, Tick, vars, StartMerge, MergeStale,
                   MergeDropHints, MergeDropStamp, MergeClues, MergeMeta, TakeMeta, WriteBlock, Unindex
        <3> QED
            BY <1>2, <3>1 DEF Unseen
    <2>4. poll' # None => poll'.tx # t
        <3>1. poll # None => poll \in Merges
            BY DEF Inv, TypeOK
        <3>2. CASE Poller
            <4>1. ASSUME NEW u \in Tx, StartMerge(u) \/ Unindex(u)
                  PROVE  poll' # None => poll'.tx # t
                BY <1>2, <4>1 DEF StartMerge, Unindex, Unseen
            <4>2. CASE MergeStale \/ MergeDropHints \/ MergeDropStamp
                BY <1>2, <3>1, <4>2 DEF MergeStale, MergeDropHints, MergeDropStamp, Merging,
                       MergeTo, Merges, Unseen
            <4>3. CASE MergeClues
                BY <1>2, <3>1, <4>3 DEF MergeClues, Merging, Merges, Unseen
            <4>4. CASE MergeMeta
                BY <1>2, <3>1, <4>4 DEF MergeMeta, Merging, Merges, Unseen
            <4>5. CASE TakeMeta \/ WriteBlock
                BY <1>2, <3>1, <4>5 DEF TakeMeta, WriteBlock, Merging, MergeTo, Merges, Unseen
            <4> QED
                BY <3>2, <4>1, <4>2, <4>3, <4>4, <4>5 DEF Poller
        <3>3. CASE ~ Poller
            BY <1>2, <1>10, <3>3 DEF SweepCollect, SweepHints, Take, Tick, vars, Unseen
        <3> QED
            BY <3>2, <3>3
    <2> QED
        BY <1>2, <1>4, <2>1, <2>2, <2>3, <2>4 DEF Unseen
<1> QED
    BY <1>6, <1>7, <1>8, <1>9, <1>10, StepKinds

-----------------------------------------------------------------------------

OnceInv == Inv /\ Good /\ SentFirst /\ ParkedInv

LEMMA OnceInit == Init => OnceInv
<1> USE ClueHintsAssumption
<1> SUFFICES ASSUME Init PROVE OnceInv
    OBVIOUS
<1>1. Good /\ ParkedInv
    BY DEF Init, Good, Alone, ReadsFresh, ParkedInv
<1>2. SentFirst
    BY DEF Init, SentFirst, Unseen, Idle
<1> QED
    BY <1>1, <1>2, InitInv DEF OnceInv

LEMMA OnceNext ==
    ASSUME OneCallPerTx, ~ Resends, OnceInv, [Next]_vars
    PROVE  OnceInv'
BY NextInv, NextGood, SentFirstStep, ParkedStep DEF OnceInv, Good

\* Where a transaction is sent once and no two calls about it overlap, a refusal
\* leaves no clue of the transaction parked: the server drops the row exactly when
\* its own call put something there.
THEOREM RefusalLeavesNothing ==
    OneCallPerTx /\ ~ Resends /\ Spec => []RejectedParksNothing
<1> SUFFICES ASSUME OneCallPerTx, ~ Resends PROVE Spec => []RejectedParksNothing
    OBVIOUS
<1>1. OnceInv => RejectedParksNothing
    BY DEF OnceInv, ParkedInv, Parked, RejectedParksNothing, At
<1> QED
    BY <1>1, OnceInit, OnceNext, PTL DEF Spec

-----------------------------------------------------------------------------
(* Who may register a clue.                                                 *)

\* What a handler keeps of what it was asked, and that it does not become a
\* registration.
Stays(call, r) ==
    /\ r.tx = call.tx /\ r.peer = call.peer
    /\ r.stage = "register" => call.stage = "register"

\* A handler's own step that leaves it what it is.
OneStays(c) == \E r : Step(c, r) /\ (r # None => Stays(calls[c], r))

LEMMA GotoStays ==
    ASSUME NEW c \in Call, calls[c] \in Handlers, NEW p, Goto(c, p)
    PROVE  OneStays(c)
<1> DEFINE r == [calls[c] EXCEPT !.pc = p]
<1>1. r.tx = calls[c].tx /\ r.peer = calls[c].peer /\ r.stage = calls[c].stage
    BY DEF Handlers
<1>2. Step(c, r)
    BY DEF Goto
<1> HIDE DEF r
<1> QED
    BY <1>1, <1>2 DEF OneStays, Stays

\* The steps to another place of the code.
LEMMA PlainStays ==
    ASSUME Inv, NEW c \in Call,
           \/ Stale(c) \/ RemoveHints(c) \/ RemoveStamp(c) \/ InsertHints(c)
           \/ Accepted(c) \/ Refused(c) \/ HasMeta(c) \/ PutMeta(c)
    PROVE  calls[c] # None /\ OneStays(c)
<1>1. calls[c] # None
    BY DEF Stale, RemoveHints, RemoveStamp, InsertHints, Accepted, Refused, HasMeta, PutMeta, At
<1>2. calls[c] \in Handlers
    BY <1>1 DEF Inv, TypeOK
<1>3. (\E p : Goto(c, p)) \/ ToStore(c)
    BY DEF Stale, RemoveHints, RemoveStamp, InsertHints, Accepted, Refused, HasMeta, PutMeta
<1>4. CASE ToStore(c)
    <2> DEFINE r == [calls[c] EXCEPT !.pc = "prune", !.mode = "store"]
    <2>1. r.tx = calls[c].tx /\ r.peer = calls[c].peer /\ r.stage = calls[c].stage
        BY <1>2 DEF Handlers
    <2>2. Step(c, r)
        BY <1>4 DEF ToStore
    <2> HIDE DEF r
    <2> QED
        BY <1>1, <2>1, <2>2 DEF OneStays, Stays
<1> QED
    BY <1>1, <1>2, <1>3, <1>4, GotoStays

\* The steps that end an item.
LEMMA LookStays ==
    ASSUME Inv, NEW c \in Call, LookToCheck(c) \/ LookToStore(c) \/ InsertStamp(c)
    PROVE  calls[c] # None /\ OneStays(c)
<1> DEFINE row  == hints[calls[c].tx]
           free == NoClues
           s    == [calls[c] EXCEPT !.row = free]
           u    == [calls[c] EXCEPT !.pc = "prune", !.mode = "store"]
           w    == [calls[c] EXCEPT !.pc = "insert", !.row = row]
<1>1. calls[c] # None
    BY DEF LookToCheck, LookToStore, InsertStamp, At
<1>2. calls[c] \in Handlers /\ calls[c].todo # <<>>
    BY <1>1 DEF Inv, TypeOK, Calls, Busy, Parking, LookToCheck, LookToStore, InsertStamp, At
<1>3. free \in Row
    BY DEF NoClues, Row
<1>4. \/ Step(c, Over(calls[c], FALSE)) \/ Step(c, Over(calls[c], TRUE))
      \/ Step(c, Over(s, TRUE)) \/ Step(c, u) \/ Step(c, w)
    BY DEF LookToCheck, LookToStore, InsertStamp, ToStore
<1> HIDE DEF free, row
<1>5. /\ s \in Handlers /\ s.todo = calls[c].todo /\ s.tx = calls[c].tx
      /\ s.peer = calls[c].peer /\ s.stage = calls[c].stage
    BY <1>2, <1>3 DEF Handlers
<1>6. /\ u.tx = calls[c].tx /\ u.peer = calls[c].peer /\ u.stage = calls[c].stage
      /\ w.tx = calls[c].tx /\ w.peer = calls[c].peer /\ w.stage = calls[c].stage
    BY <1>2 DEF Handlers
<1> HIDE DEF s, u, w
<1>7. ASSUME NEW q \in Handlers, q.todo # <<>>, NEW parked \in BOOLEAN
      PROVE  /\ Over(q, parked).tx = q.tx /\ Over(q, parked).peer = q.peer
             /\ Over(q, parked).stage = q.stage
    BY <1>7, OverFields
<1>8. /\ Stays(calls[c], Over(calls[c], FALSE)) /\ Stays(calls[c], Over(calls[c], TRUE))
      /\ Stays(calls[c], Over(s, TRUE)) /\ Stays(calls[c], u) /\ Stays(calls[c], w)
    BY <1>2, <1>5, <1>6, <1>7 DEF Stays
<1> QED
    BY <1>1, <1>4, <1>8 DEF OneStays

LEMMA RememberStays ==
    ASSUME Inv, NEW c \in Call, Remember(c)
    PROVE  calls[c] # None /\ OneStays(c) /\ calls'[c] # calls[c] /\ At(c, "remember")
<1> DEFINE late  == calls[c].late
           empty == <<>>
           r     == [calls[c] EXCEPT !.stage = "after", !.todo = late, !.late = empty]
<1>1. calls[c] # None /\ At(c, "remember") /\ calls[c].pc = "remember"
    BY DEF Remember, At
<1>2. calls[c] \in Handlers /\ late \in Seq(Item) /\ empty \in Seq(Item)
    BY <1>1 DEF Inv, TypeOK, Handlers
<1>3. Step(c, NextItem(r))
    BY DEF Remember
<1> HIDE DEF late, empty
<1>4. r \in Handlers /\ r.tx = calls[c].tx /\ r.peer = calls[c].peer /\ r.stage = "after"
    BY <1>2 DEF Handlers
<1> HIDE DEF r
<1>5. LET n == NextItem(r)
      IN  /\ n.tx = calls[c].tx /\ n.peer = calls[c].peer /\ n.stage = "after"
          /\ n.pc = IF r.todo = <<>> THEN Emptied(r) ELSE "prune"
    BY <1>4, NextItemFields
<1>6. NextItem(r).pc # "remember"
    BY <1>5 DEF Emptied
<1>7. calls'[c] = NextItem(r)
    BY <1>3 DEF Step, Inv, TypeOK
<1> QED
    BY <1>1, <1>3, <1>5, <1>6, <1>7 DEF OneStays, Stays

\* No step but the start of a call makes a handler another's, or a registration.
LEMMA CallsStay ==
    ASSUME Inv, [Next]_vars, ~ Start, NEW d \in Call, calls'[d] # None
    PROVE  calls[d] # None /\ Stays(calls[d], calls'[d])
<1>1. ASSUME NEW c \in Call, OneStays(c)
      PROVE  calls'[d] = calls[d] \/ (d = c /\ Stays(calls[d], calls'[d]))
    BY <1>1 DEF OneStays, Step, Inv, TypeOK
<1>2. ASSUME NEW c \in Call, OwnStep(c)
      PROVE  calls[c] # None /\ OneStays(c)
    BY <1>2, PlainStays, LookStays, RememberStays DEF OwnStep
<1>3. ASSUME NEW c \in Call, Leaves(c)
      PROVE  calls[c] # None /\ OneStays(c)
    BY <1>3 DEF Leaves, TimedOut, Answer, Return, OneStays, At
<1>4. ASSUME NEW c \in Call, SweepStamp(c), UNCHANGED calls \/ Goto(c, "stale")
      PROVE  UNCHANGED calls \/ (calls[c] # None /\ OneStays(c))
    <2>1. CASE Goto(c, "stale")
        <3>1. At(c, "prune")
            BY <1>4, ClueHintsAssumption DEF SweepStamp, Inv, TypeOK, Sweeps, Sweeper
        <3>2. calls[c] # None /\ calls[c] \in Handlers
            BY <3>1 DEF At, Inv, TypeOK
        <3> QED
            BY <2>1, <3>2, GotoStays
    <2> QED
        BY <1>4, <2>1
<1>5. ASSUME NEW c \in Call, SweepStamp(c) PROVE UNCHANGED calls \/ Goto(c, "stale")
    BY <1>5 DEF SweepStamp
<1>6. \/ UNCHANGED calls
      \/ \E c \in Call : calls[c] # None /\ OneStays(c)
    <2>1. ASSUME \E c \in Call : OwnStep(c) \/ Leaves(c) \/ SweepStamp(c)
          PROVE  UNCHANGED calls \/ \E c \in Call : calls[c] # None /\ OneStays(c)
        BY <1>2, <1>3, <1>4, <1>5, <2>1
    <2>2. ASSUME \E c \in Call : SweepCollect(c) \/ SweepHints(c) \/ Take(c)
          PROVE  UNCHANGED calls
        BY <2>2 DEF SweepCollect, SweepHints, Take
    <2>3. ASSUME Poller \/ Tick \/ UNCHANGED vars
          PROVE  UNCHANGED calls
        BY <2>3 DEF Poller, Tick, vars, StartMerge, Unindex, MergeStale, MergeDropHints,
               MergeDropStamp, MergeClues, MergeMeta, TakeMeta, WriteBlock
    <2> QED
        BY <2>1, <2>2, <2>3, StepKinds
<1> QED
    BY <1>1, <1>6 DEF Stays

\* A binding is of a sender whose transaction darkfid accepted then.
BindsKnown ==
    \A t \in Tx : bind[t] # None =>
        \E s \in senders : s.tx = t /\ s.peer = bind[t].peer /\ s.at = bind[t].at

SenderInv == Inv /\ BindsKnown /\ RegisterFromSender

\* The steps that change the bindings.
LEMMA WhoBinds ==
    ASSUME [Next]_vars
    PROVE  \/ UNCHANGED bind
           \/ Start /\ bind' = Live
           \/ \E c \in Call : Remember(c)
<1>1. ASSUME \E c \in Call : OwnStep(c) \/ Leaves(c) \/ SweepStamp(c)
      PROVE  UNCHANGED bind \/ \E c \in Call : Remember(c)
    BY <1>1 DEF OwnStep, Leaves, Stale, RemoveHints, RemoveStamp, LookToCheck, LookToStore,
           InsertHints, InsertStamp, Accepted, Refused, HasMeta, PutMeta, TimedOut, Answer,
           SweepStamp
<1>2. ASSUME \E c \in Call : SweepCollect(c) \/ SweepHints(c) \/ Take(c)
      PROVE  UNCHANGED bind
    BY <1>2 DEF SweepCollect, SweepHints, Take
<1>3. ASSUME Poller \/ Tick \/ UNCHANGED vars
      PROVE  UNCHANGED bind
    BY <1>3 DEF Poller, Tick, vars, StartMerge, Unindex, MergeStale, MergeDropHints,
           MergeDropStamp, MergeClues, MergeMeta, TakeMeta, WriteBlock
<1>4. ASSUME Start PROVE UNCHANGED bind \/ bind' = Live
    BY <1>4 DEF Start, StartSend, StartRegister
<1> QED
    BY <1>1, <1>2, <1>3, <1>4, StepKinds

LEMMA BindsKnownStep ==
    ASSUME SenderInv, [Next]_vars, Record
    PROVE  BindsKnown'
<1> SUFFICES ASSUME NEW t \in Tx, bind'[t] # None
             PROVE  \E s \in senders' : s.tx = t /\ s.peer = bind'[t].peer /\ s.at = bind'[t].at
    BY DEF BindsKnown
<1>1. senders \subseteq senders'
    BY DEF Record
<1>2. ASSUME bind'[t] = bind[t]
      PROVE  \E s \in senders' : s.tx = t /\ s.peer = bind'[t].peer /\ s.at = bind'[t].at
    BY <1>1, <1>2 DEF SenderInv, BindsKnown
<1>3. CASE UNCHANGED bind
    BY <1>2, <1>3
<1>4. CASE bind' = Live
    BY <1>2, <1>4 DEF Live
<1>5. ASSUME NEW c \in Call, Remember(c)
      PROVE  \E s \in senders' : s.tx = t /\ s.peer = bind'[t].peer /\ s.at = bind'[t].at
    <2>1. Remembers(c)
        BY <1>5, RememberStays DEF SenderInv, Remembers
    <2>2. [tx |-> calls[c].tx, peer |-> calls[c].peer, at |-> now] \in senders'
        BY <2>1 DEF Record
    <2>3. \/ t = calls[c].tx /\ bind'[t] = [peer |-> calls[c].peer, at |-> now]
          \/ bind'[t] = Live[t]
        BY <1>5 DEF Remember
    <2>4. CASE bind'[t] = Live[t]
        BY <1>2, <2>4 DEF Live
    <2> QED
        BY <2>2, <2>3, <2>4
<1> QED
    BY <1>3, <1>4, <1>5, WhoBinds

LEMMA RegisterFromSenderStep ==
    ASSUME SenderInv, [Next]_vars, Record
    PROVE  RegisterFromSender'
<1> SUFFICES ASSUME NEW d \in Call, calls'[d] # None, calls'[d].stage = "register"
             PROVE  \E s \in senders' : /\ s.tx = calls'[d].tx /\ s.peer = calls'[d].peer
                                        /\ asked'[d].since - s.at < Ttl
    BY DEF RegisterFromSender
<1>1. senders \subseteq senders'
    BY DEF Record
<1>2. ASSUME calls[d] # None, Stays(calls[d], calls'[d])
      PROVE  \E s \in senders' : /\ s.tx = calls'[d].tx /\ s.peer = calls'[d].peer
                                 /\ asked'[d].since - s.at < Ttl
    <2>1. asked'[d] = asked[d]
        BY <1>2 DEF Record
    <2> QED
        BY <1>1, <1>2, <2>1 DEF SenderInv, RegisterFromSender, Stays
<1>3. CASE Start
    <2>1. ASSUME NEW c \in Call, NEW t \in Tx, NEW q \in Requests[t], StartSend(c, t, q)
          PROVE  \E r \in Handlers : Step(c, r) /\ r.stage # "register"
        <3>0. Inv
            BY DEF SenderInv
        <3>1. PICK r \in Handlers : Begins(c, t, q, r)
            BY <2>1, <3>0, SendBegins
        <3> QED
            BY <3>1 DEF Begins
    <2>2. ASSUME NEW c \in Call, NEW t \in Tx, NEW p \in Peer,
                 NEW item \in Registrations[t], StartRegister(c, t, p, item), c = d
          PROVE  \E s \in senders' : /\ s.tx = calls'[d].tx /\ s.peer = calls'[d].peer
                                     /\ asked'[d].since - s.at < Ttl
        <3>1. PICK r \in Handlers :
                  /\ calls[c] = None /\ Step(c, r) /\ r.tx = t /\ r.peer = p
            BY <2>2, RegisterBegins DEF SenderInv
        <3>2. calls[d] = None /\ calls'[d].tx = t /\ calls'[d].peer = p
            BY <2>2, <3>1 DEF Step, SenderInv, Inv, TypeOK
        <3>3. asked'[d].since = now
            BY <3>2 DEF Record, Ask
        <3>4. bind[t] # None /\ bind[t].peer = p /\ now - bind[t].at < Ttl
            BY <2>2 DEF StartRegister, Matches, Live
        <3> QED
            BY <1>1, <3>2, <3>3, <3>4 DEF SenderInv, BindsKnown
    <2>3. PICK c \in Call : \E t \in Tx :
              \/ \E q \in Requests[t] : StartSend(c, t, q)
              \/ \E p \in Peer, item \in Registrations[t] : StartRegister(c, t, p, item)
        BY <1>3 DEF Start
    <2>4. CASE c = d
        <3>1. ASSUME NEW t \in Tx, NEW q \in Requests[t], StartSend(c, t, q) PROVE FALSE
            BY <2>1, <2>4, <3>1 DEF Step, SenderInv, Inv, TypeOK
        <3> QED
            BY <2>2, <2>3, <2>4, <3>1
    <2>5. CASE c # d
        <3>1. calls'[d] = calls[d]
            BY <2>3, <2>5 DEF StartSend, StartRegister, Step, SenderInv, Inv, TypeOK
        <3> QED
            BY <1>2, <3>1 DEF Stays
    <2> QED
        BY <2>4, <2>5
<1>4. CASE ~ Start
    BY <1>2, <1>4, CallsStay DEF SenderInv
<1> QED
    BY <1>3, <1>4

\* A clue is registered only by a peer whose transaction darkfid accepted less than
\* the binding's time before, however the bindings are evicted and renewed.
THEOREM RegisteredBySender == MCSpec => []RegisterFromSender
<1>1. MCInit => SenderInv
    <2> SUFFICES ASSUME MCInit PROVE SenderInv
        OBVIOUS
    <2>1. BindsKnown /\ RegisterFromSender
        BY DEF MCInit, Init, BindsKnown, RegisterFromSender
    <2> QED
        BY <2>1, InitInv DEF MCInit, SenderInv
<1>2. SenderInv /\ [Next /\ Record]_<<vars, history>> => SenderInv'
    <2> SUFFICES ASSUME SenderInv, [Next /\ Record]_<<vars, history>> PROVE SenderInv'
        OBVIOUS
    <2>1. CASE Next /\ Record
        BY <2>1, NextInv, BindsKnownStep, RegisterFromSenderStep DEF SenderInv
    <2>2. CASE UNCHANGED <<vars, history>>
        <3>1. Inv'
            BY <2>2, NextInv DEF SenderInv
        <3>2. UNCHANGED <<bind, senders, calls, asked>>
            BY <2>2 DEF vars, history
        <3> QED
            BY <3>1, <3>2 DEF SenderInv, BindsKnown, RegisterFromSender
    <2> QED
        BY <2>1, <2>2
<1> QED
    BY <1>1, <1>2, PTL DEF MCSpec, SenderInv

-----------------------------------------------------------------------------
(* A clue whose client was told it is accepted stays, where a transaction   *)
(* is sent once and no two calls about it overlap.                          *)

\* What a step may do to the rows of a transaction that must keep its clues: write
\* more of them and stamp them again, unless they are expired.
Tame(t) ==
    /\ Doomed(t) \/ \A i \in Index : hints[t][i] # None => hints'[t][i] = hints[t][i]
    /\ Doomed(t) \/ stamp'[t] \in {stamp[t], now}
    /\ Doomed(t)' => Doomed(t) \/ Expired(t)

\* The recipient's clue of what was asked is parked, and no one is about to remove
\* it before it is a day old.
Safe(t, ask) ==
    LET base == Head(ask.items)
    IN  now - ask.since <= Ttl =>
            /\ base \in Item /\ hints[t][base.at] = base.clue
            /\ stamp[t] # None /\ stamp[t] >= ask.since
            /\ ~ Doomed(t)

LEMMA NowGrows ==
    ASSUME Inv, [Next]_vars
    PROVE  now \in Nat /\ now' \in Nat /\ now <= now'
<1>1. now' = now \/ now' = now + 1
    BY DEF Next, Start, StartSend, StartRegister, Park, Finish, Poller, Tick, vars,
           Stale, RemoveHints, RemoveStamp, LookToCheck, LookToStore, InsertHints, InsertStamp,
           SweepCollect, SweepHints, SweepStamp,
           Take, Accepted, Refused, TimedOut, Remember, HasMeta, PutMeta, Answer,
           StartMerge, Unindex, MergeStale, MergeDropHints, MergeDropStamp, MergeClues,
           MergeMeta, TakeMeta, WriteBlock, Inv, TypeOK, Time
<1> QED
    BY <1>1, ClueHintsAssumption DEF Inv, TypeOK, Time

LEMMA SafeKept ==
    ASSUME Inv, [Next]_vars, NEW t \in Tx, NEW ask, ask.since \in Time, ask.since <= now,
           Safe(t, ask), Tame(t)
    PROVE  Safe(t, ask)'
<1> USE ClueHintsAssumption
<1> DEFINE base == Head(ask.items)
<1>1. now \in Nat /\ now' \in Nat /\ now <= now' /\ ask.since \in Nat /\ Ttl \in Nat
    BY NowGrows DEF Time
<1> SUFFICES ASSUME now' - ask.since <= Ttl
             PROVE  /\ base \in Item /\ hints'[t][base.at] = base.clue
                    /\ stamp'[t] # None /\ stamp'[t] >= ask.since
                    /\ ~ Doomed(t)'
    BY DEF Safe
<1>2. /\ base \in Item /\ hints[t][base.at] = base.clue
      /\ stamp[t] # None /\ stamp[t] >= ask.since /\ ~ Doomed(t)
    BY <1>1 DEF Safe
<1> HIDE DEF base
<1>3. base.at \in Index /\ base.clue # None
    BY <1>2 DEF Item
<1>4. stamp[t] \in Nat
    BY <1>2 DEF Inv, TypeOK, Time
<1>5. ~ Expired(t)
    BY <1>1, <1>2, <1>4 DEF Expired
<1>6. stamp'[t] \in {stamp[t], now}
    BY <1>2 DEF Tame
<1>7. stamp'[t] \in Nat /\ stamp'[t] >= ask.since
    BY <1>1, <1>2, <1>4, <1>6
<1>8. stamp'[t] # None
    BY <1>2, <1>6 DEF Inv, TypeOK, Time
<1> QED
    BY <1>2, <1>3, <1>5, <1>7, <1>8 DEF Tame

\* A handler's own step is tame, but for the removal after a refusal.
LEMMA OwnTame ==
    ASSUME OnceInv, OneCallPerTx, [Next]_vars, NEW c \in Call, OwnStep(c),
           calls[c].pc \notin Refusal, NEW t \in Tx, t = calls[c].tx
    PROVE  Tame(t)
<1> USE ClueHintsAssumption
<1>1. Inv /\ Good /\ ParkedInv
    BY DEF OnceInv
<1>2. PICK r \in Handlers : calls[c] # None /\ StepsTo(c, r)
    BY <1>1, OwnSteps
<1>3. calls[c] \in Handlers
    BY <1>1, <1>2 DEF Inv, TypeOK
<1>4. Doomed(t)' => Doomed(t) \/ Expired(t)
    BY <1>1, <1>2, OwnRows, DoomedStep DEF StepsTo
<1>5. ASSUME RemoveHints(c) \/ RemoveStamp(c) PROVE Doomed(t)
    <2>1. calls[c].pc \in Dropping
        BY <1>5 DEF RemoveHints, RemoveStamp, At, Dropping, Refusal
    <2> QED
        BY <1>2, <2>1 DEF Doomed
<1>6. Doomed(t) \/ \A i \in Index : hints[t][i] # None => hints'[t][i] = hints[t][i]
    <2>1. CASE InsertHints(c)
        <3> DEFINE item == Head(calls[c].todo)
        <3>1. At(c, "insert")
            BY <2>1 DEF InsertHints
        <3>2. item \in Item /\ calls[c].row \in Row
            BY <1>1, <1>3, <3>1 DEF Inv, Calls, Busy, Parking, At, Handlers
        <3>3. hints'[t] = AddClue(calls[c].row, item)
            BY <1>1, <2>1 DEF InsertHints, Inv, TypeOK
        <3>4. hints'[t][item.at] # None /\ item.at \in Index
            BY <3>2, <3>3 DEF AddClue, Row, Item
        <3>5. Keeps(t)
            BY <1>1, NextGood
        <3> QED
            BY <3>4, <3>5 DEF Keeps, NoClues
    <2>2. CASE RemoveHints(c)
        BY <1>5, <2>2
    <2>3. CASE ~ InsertHints(c) /\ ~ RemoveHints(c)
        BY <2>3 DEF OwnStep, Stale, RemoveStamp, LookToCheck, LookToStore, InsertStamp,
               Accepted, Refused, Remember, HasMeta, PutMeta
    <2> QED
        BY <2>1, <2>2, <2>3
<1>7. Doomed(t) \/ stamp'[t] \in {stamp[t], now}
    <2>1. CASE RemoveStamp(c)
        BY <1>5, <2>1
    <2>2. CASE InsertStamp(c)
        BY <1>1, <2>2 DEF InsertStamp, Inv, TypeOK
    <2>3. CASE ~ InsertStamp(c) /\ ~ RemoveStamp(c)
        BY <2>3 DEF OwnStep, Stale, RemoveHints, LookToCheck, LookToStore, InsertHints,
               Accepted, Refused, Remember, HasMeta, PutMeta
    <2> QED
        BY <2>1, <2>2, <2>3
<1> QED
    BY <1>4, <1>6, <1>7 DEF Tame

\* What is spared is tame.
LEMMA SparesTame == ASSUME NEW t \in Tx, Spares(t) PROVE Tame(t)
BY DEF Spares, Tame

LEMMA LeavesSpare ==
    ASSUME Inv, NEW c \in Call, Leaves(c), NEW t \in Tx PROVE Spares(t)
<1> DEFINE r == None
<1>1. Step(c, r) /\ r = None /\ UNCHANGED <<hints, stamp, sweep, poll>>
    BY LeavesRows
<1> HIDE DEF r
<1>2. Doomed(t)' => Doomed(t)
    BY <1>1, DoomedStep
<1> QED
    BY <1>1, <1>2 DEF Spares

\* Every step is tame, but for the removal after a refusal.
LEMMA StepTame ==
    ASSUME OnceInv, OneCallPerTx, [Next]_vars, NEW t \in Tx,
           \A c \in Call : calls[c] # None /\ calls[c].tx = t => calls[c].pc \notin Refusal
    PROVE  Tame(t)
<1>1. Inv /\ ParkedInv
    BY DEF OnceInv
<1>2. ASSUME NEW c \in Call, OwnStep(c) PROVE Tame(t)
    <2>1. calls[c] # None
        BY <1>1, <1>2, OwnSteps
    <2>2. CASE calls[c].tx = t
        BY <1>2, <2>1, <2>2, OwnTame
    <2>3. CASE calls[c].tx # t
        BY <1>1, <1>2, <2>3, HandlerSpares, SparesTame
    <2> QED
        BY <2>2, <2>3
<1>3. ASSUME NEW c \in Call, Leaves(c) PROVE Tame(t)
    BY <1>1, <1>3, LeavesSpare, SparesTame
<1>4. ASSUME Start PROVE Tame(t)
    BY <1>1, <1>4, StartSpares, SparesTame
<1>5. ASSUME \/ \E c \in Call : SweepCollect(c) \/ SweepHints(c) \/ SweepStamp(c) \/ Take(c)
             \/ Poller \/ Tick \/ UNCHANGED vars
      PROVE  Tame(t)
    BY <1>1, <1>5, OthersSpare, SparesTame
<1> QED
    BY <1>2, <1>3, <1>4, <1>5, StepKinds

\* What a call was asked is what it still has to park, and once its recipient's
\* clue is accepted the clue is safe.
AskedOf(call, ask) ==
    /\ ask.since \in Time /\ ask.since <= now
    /\ Sends(call) /\ LeadsMain(call.todo) => Head(ask.items) = Head(call.todo)
    /\ LeadsMain(call.late) => Head(ask.items) = Head(call.late)

AskedInv == \A c \in Call : calls[c] # None =>
    /\ AskedOf(calls[c], asked[c])
    /\ Holds(calls[c]) => Safe(calls[c].tx, asked[c])

\* The clue of a client that was told so is safe, and no other call but a
\* registration is about its transaction.
ToldInv == \A x \in told :
    /\ x.tx \in sent /\ x.asked.since \in Time /\ x.asked.since <= now
    /\ Safe(x.tx, x.asked)
    /\ \A c \in Call : calls[c] # None /\ calls[c].tx = x.tx => calls[c].stage = "register"

KeptInv == OnceInv /\ AskedInv /\ ToldInv

\* The stamp that ends the parking of the recipient's clue makes it safe.
LEMMA StampSafe ==
    ASSUME OnceInv, [Next]_vars, NEW c \in Call, InsertStamp(c), NowParked(calls[c]),
           NEW t \in Tx, t = calls[c].tx, NEW ask, AskedOf(calls[c], ask)
    PROVE  Safe(t, ask)'
<1> USE ClueHintsAssumption
<1> DEFINE base == Head(calls[c].todo)
<1>1. Inv /\ ParkedInv /\ calls[c] # None /\ calls[c].pc = "stamp"
    BY DEF OnceInv, InsertStamp, At
<1>2. calls[c] \in Handlers /\ calls[c].todo # <<>> /\ calls[c].row \in Row
    BY <1>1 DEF Inv, TypeOK, Calls, Busy, Parking, Handlers
<1>3. base \in Item
    BY <1>2 DEF Handlers
<1>4. Parked(calls[c], hints[t], stamp[t]) /\ (Unparked(calls[c]) => ~ Doomed(t))
    BY <1>1 DEF ParkedInv
<1>5. Unparked(calls[c])
    BY <1>4 DEF NowParked, Parked, Shape, Unparked, Sends
<1>6. stamp[t] = None /\ hints[t] = AddClue(NoClues, base) /\ ~ Doomed(t)
    BY <1>1, <1>4, <1>5 DEF Parked, Clean
<1>7. hints' = hints /\ stamp'[t] = now /\ UNCHANGED <<now, sweep, poll>>
    BY <1>1 DEF InsertStamp, Inv, TypeOK
<1>8. hints'[t][base.at] = base.clue
    BY <1>3, <1>6, <1>7 DEF AddClue, NoClues, Item
<1>9. ~ Doomed(t)'
    <2>1. OwnStep(c)
        BY DEF OwnStep
    <2>2. PICK r \in Handlers : calls[c] # None /\ StepsTo(c, r)
        BY <1>1, <2>1, OwnSteps
    <2>3. r.pc \notin Dropping
        BY <1>6, <2>2 DEF StepsTo, Expired
    <2> QED
        BY <1>1, <1>6, <1>7, <2>2, <2>3, DoomedStep DEF StepsTo
<1>10. now \in Nat /\ now # None /\ ask.since <= now /\ Head(ask.items) = base
    BY <1>1 DEF AskedOf, NowParked, Inv, TypeOK, Time
<1> HIDE DEF base
<1> QED
    BY <1>3, <1>7, <1>8, <1>9, <1>10 DEF Safe

\* A handler that is changed but not started takes a step of its own.
LEMMA Changed ==
    ASSUME Inv, ParkedInv, [Next]_vars, ~ Start,
           NEW d \in Call, calls'[d] # None, calls'[d] # calls[d]
    PROVE  /\ calls[d] # None /\ StepsTo(d, calls'[d])
           /\ OwnStep(d) \/ SweepStamp(d)
<1> USE ClueHintsAssumption
<1>1. ASSUME NEW c \in Call, \E r \in Handlers : StepsTo(c, r)
      PROVE  c = d /\ StepsTo(d, calls'[d])
    <2>1. PICK r \in Handlers : StepsTo(c, r)
        BY <1>1
    <2>2. \A e \in Call : calls'[e] = IF e = c THEN r ELSE calls[e]
        BY <2>1 DEF StepsTo, Step, Inv, TypeOK
    <2> QED
        BY <2>1, <2>2
<1>2. ASSUME NEW c \in Call, OwnStep(c)
      PROVE  calls[d] # None /\ StepsTo(d, calls'[d]) /\ OwnStep(d)
    BY <1>1, <1>2, OwnSteps
<1>3. ASSUME NEW c \in Call, Leaves(c) PROVE FALSE
    BY <1>3, LeavesRows DEF Step, Inv, TypeOK
<1>4. ASSUME NEW c \in Call, SweepStamp(c)
      PROVE  calls[d] # None /\ StepsTo(d, calls'[d]) /\ SweepStamp(d)
    <2>1. Goto(c, "stale")
        BY <1>4 DEF SweepStamp
    <2> QED
        BY <1>1, <1>4, <2>1, FinishSteps
<1>5. ASSUME \E c \in Call : SweepCollect(c) \/ SweepHints(c) \/ Take(c) PROVE FALSE
    BY <1>5 DEF SweepCollect, SweepHints, Take
<1>6. ASSUME Poller \/ Tick \/ UNCHANGED vars PROVE FALSE
    BY <1>6 DEF Poller, Tick, vars, StartMerge, Unindex, MergeStale, MergeDropHints,
           MergeDropStamp, MergeClues, MergeMeta, TakeMeta, WriteBlock
<1> QED
    BY <1>2, <1>3, <1>4, <1>5, <1>6, StepKinds

\* A call begins with what it is asked, nothing accepted yet; about a transaction
\* that was sent, only a registration does.
LEMMA StartAsked ==
    ASSUME Inv, ~ Resends, Start, Record
    PROVE  \E c \in Call, r \in Handlers :
              /\ calls[c] = None /\ Step(c, r) /\ ~ Holds(r)
              /\ r # None => AskedOf(r, asked'[c])
              /\ r.tx \in sent => r.stage = "register"
<1> USE ClueHintsAssumption
<1>1. now \in Time /\ now <= now
    BY DEF Inv, TypeOK, Time
<1>2. ASSUME NEW c \in Call, NEW r \in Handlers, calls[c] = None, Step(c, r), r # None
      PROVE  /\ asked'[c].items = IF r.todo = <<>> THEN r.late ELSE r.todo
             /\ asked'[c].since = now
    <2>1. calls'[c] = r
        BY <1>2 DEF Step, Inv, TypeOK
    <2> QED
        BY <1>2, <2>1 DEF Record, Ask
<1>3. ASSUME NEW c \in Call, NEW t \in Tx, NEW q \in Requests[t], StartSend(c, t, q)
      PROVE  \E r \in Handlers :
              /\ calls[c] = None /\ Step(c, r) /\ ~ Holds(r)
              /\ r # None => AskedOf(r, asked'[c])
              /\ r.tx \in sent => r.stage = "register"
    <2>1. PICK r \in Handlers :
              /\ calls[c] = None /\ MayStart(c, t) /\ Step(c, r) /\ r.tx = t
              /\ r.stage = "before" /\ ~ r.accepted
              /\ r.pc \in {"prune", "broadcast"} /\ Shape(r)
              /\ LeadsMain(r.todo) => r.todo # <<>> /\ Head(r.todo) = Head(q.base \o q.extras)
              /\ LeadsMain(r.late) => r.todo = <<>> /\ Head(r.late) = Head(q.base \o q.extras)
        <3>1. PICK r \in Handlers : Begins(c, t, q, r)
            BY <1>3, SendBegins
        <3> QED
            BY <3>1 DEF Begins
    <2>2. r # None => AskedOf(r, asked'[c])
        <3> DEFINE empty == <<>>
        <3>1. LeadsMain(r.todo) => r.todo # empty
            BY DEF LeadsMain
        <3>2. LeadsMain(r.late) => r.todo = empty
            BY <2>1
        <3> SUFFICES ASSUME r # None PROVE AskedOf(r, asked'[c])
            OBVIOUS
        <3>3. calls[c] = None /\ Step(c, r)
            BY <2>1
        <3>4. /\ asked'[c].items = IF r.todo = empty THEN r.late ELSE r.todo
              /\ asked'[c].since = now
            BY <1>2, <3>3
        <3> HIDE DEF empty
        <3> QED
            BY <1>1, <3>1, <3>2, <3>4 DEF AskedOf
    <2>3. t \notin sent
        BY <1>3 DEF StartSend
    <2> QED
        BY <2>1, <2>2, <2>3 DEF Holds
<1>4. ASSUME NEW c \in Call, NEW t \in Tx, NEW p \in Peer,
             NEW item \in Registrations[t], StartRegister(c, t, p, item)
      PROVE  \E r \in Handlers :
              /\ calls[c] = None /\ Step(c, r) /\ ~ Holds(r)
              /\ r # None => AskedOf(r, asked'[c])
              /\ r.tx \in sent => r.stage = "register"
    <2>1. PICK r \in Handlers :
              /\ calls[c] = None /\ MayStart(c, t) /\ Step(c, r) /\ r.tx = t /\ r.peer = p
              /\ r.stage = "register" /\ r.pc = "prune" /\ Shape(r) /\ ~ LeadsMain(r.late)
        BY <1>4, RegisterBegins
    <2>2. r # None => AskedOf(r, asked'[c])
        <3> DEFINE empty == <<>>
        <3>1. LeadsMain(r.todo) => r.todo # empty
            BY DEF LeadsMain
        <3>2. LeadsMain(r.late) => FALSE
            BY <2>1
        <3> SUFFICES ASSUME r # None PROVE AskedOf(r, asked'[c])
            OBVIOUS
        <3>3. calls[c] = None /\ Step(c, r)
            BY <2>1
        <3>4. /\ asked'[c].items = IF r.todo = empty THEN r.late ELSE r.todo
              /\ asked'[c].since = now
            BY <1>2, <3>3
        <3> HIDE DEF empty
        <3> QED
            BY <1>1, <3>1, <3>2, <3>4 DEF AskedOf
    <2> QED
        BY <2>1, <2>2 DEF Holds, Sends
<1> QED
    BY <1>3, <1>4 DEF Start

\* A clue that is safe stays safe, of a call that was not refused or of one that is
\* over.
LEMMA StaysSafe ==
    ASSUME OnceInv, OneCallPerTx, [Next]_vars, NEW t \in Tx, NEW ask,
           ask.since \in Time, ask.since <= now, Safe(t, ask),
           \A c \in Call : calls[c] # None /\ calls[c].tx = t => calls[c].pc \notin Refusal
    PROVE  Safe(t, ask)' /\ ask.since <= now'
<1>1. Tame(t) /\ Inv
    BY StepTame DEF OnceInv
<1>2. now \in Nat /\ now' \in Nat /\ now <= now'
    BY <1>1, NowGrows
<1> QED
    BY <1>1, <1>2, SafeKept, ClueHintsAssumption DEF Time

\* What a handler keeps of what it was asked.
LEMMA AskedKept ==
    ASSUME NEW call, NEW r, NEW ask, Follows(call, r), AskedOf(call, ask),
           now \in Nat, now' \in Nat, now <= now'
    PROVE  AskedOf(r, ask)'
BY ClueHintsAssumption DEF AskedOf, Follows, Time

\* A handler that goes on keeps what is known of what it was asked.
LEMMA GoesOnAsked ==
    ASSUME KeptInv, OneCallPerTx, [Next]_vars, NEW d \in Call,
           calls[d] # None, calls'[d] # None,
           \/ calls'[d] = calls[d]
           \/ StepsTo(d, calls'[d]) /\ (OwnStep(d) \/ SweepStamp(d)),
           NEW t \in Tx, t = calls[d].tx, NEW ask, ask = asked[d]
    PROVE  /\ AskedOf(calls[d], ask)'
           /\ calls'[d].tx = t
           /\ Holds(calls'[d]) => Safe(t, ask)'
<1>1. /\ Inv /\ ParkedInv /\ Good /\ AskedOf(calls[d], ask)
      /\ Holds(calls[d]) => Safe(t, ask)
    <2>1. /\ AskedOf(calls[d], asked[d])
          /\ Holds(calls[d]) => Safe(calls[d].tx, asked[d])
        BY DEF KeptInv, AskedInv
    <2> QED
        BY <2>1 DEF KeptInv, OnceInv
<1>2. now \in Nat /\ now' \in Nat /\ now <= now'
    BY <1>1, NowGrows
<1>3. Holds(calls[d]) => Safe(t, ask)'
    <2> SUFFICES ASSUME Holds(calls[d]) PROVE Safe(t, ask)'
        OBVIOUS
    <2>1. \A c \in Call : calls[c] # None /\ calls[c].tx = t => calls[c].pc \notin Refusal
        BY <1>1 DEF Good, Alone, Holds
    <2>2. ask.since \in Time /\ ask.since <= now
        BY <1>1 DEF AskedOf
    <2> QED
        BY <1>1, <2>1, <2>2, StaysSafe DEF KeptInv
<1>4. CASE calls'[d] = calls[d]
    <2>1. AskedOf(calls[d], ask)' /\ ask.since <= now'
        BY <1>1, <1>2, <1>4 DEF AskedOf, Time
    <2> QED
        BY <1>3, <1>4, <2>1
<1>5. CASE StepsTo(d, calls'[d]) /\ (OwnStep(d) \/ SweepStamp(d))
    <2>1. PICK r : r = calls'[d]
        OBVIOUS
    <2>2. Follows(calls[d], r) /\ (Holds(r) => Holds(calls[d]) \/ NowParked(calls[d]))
        BY <1>5, <2>1 DEF StepsTo, Moved
    <2>3. PICK call : call = calls[d]
        OBVIOUS
    <2>4. Follows(call, r) /\ AskedOf(call, ask)
        BY <1>1, <2>2, <2>3
    <2>5. AskedOf(r, ask)'
        BY <1>2, <2>4, AskedKept
    <2>6. NowParked(calls[d]) => InsertStamp(d)
        <3> SUFFICES ASSUME calls[d].pc = "stamp" PROVE InsertStamp(d)
            BY DEF NowParked
        <3>1. ~ SweepStamp(d)
            BY <1>1, ClueHintsAssumption DEF SweepStamp, Inv, TypeOK, Sweeps, Sweeper, At
        <3> QED
            BY <1>5, <3>1 DEF OwnStep, At, Stale, RemoveHints, RemoveStamp, LookToCheck,
                   LookToStore, InsertHints, Accepted, Refused, Remember, HasMeta, PutMeta
    <2>7. NowParked(calls[d]) => Safe(t, ask)'
        BY <1>1, <2>6, StampSafe DEF KeptInv
    <2>8. AskedOf(calls[d], ask)'
        BY <2>1, <2>5 DEF AskedOf
    <2> QED
        BY <1>3, <2>1, <2>2, <2>7, <2>8 DEF Follows
<1> QED
    BY <1>4, <1>5

LEMMA AskedStep ==
    ASSUME KeptInv, OneCallPerTx, ~ Resends, [Next]_vars, Record
    PROVE  AskedInv'
<1>1. Inv /\ ParkedInv /\ Good
    BY DEF KeptInv, OnceInv
<1> SUFFICES ASSUME NEW d \in Call, calls'[d] # None
             PROVE  /\ AskedOf(calls[d], asked[d])'
                    /\ Holds(calls'[d]) => Safe(calls[d].tx, asked[d])'
    BY DEF AskedInv
<1>2. ASSUME calls[d] # None,
             \/ calls'[d] = calls[d]
             \/ StepsTo(d, calls'[d]) /\ (OwnStep(d) \/ SweepStamp(d))
      PROVE  /\ AskedOf(calls[d], asked[d])'
             /\ Holds(calls'[d]) => Safe(calls[d].tx, asked[d])'
    <2>1. calls[d].tx \in Tx
        BY <1>1, <1>2 DEF Inv, TypeOK, Handlers
    <2>2. PICK t \in Tx : t = calls[d].tx
        BY <2>1
    <2>3. PICK ask : ask = asked[d]
        OBVIOUS
    <2>4. asked'[d] = ask
        BY <1>2, <2>3 DEF Record
    <2>5. /\ AskedOf(calls[d], ask)' /\ calls'[d].tx = t
          /\ Holds(calls'[d]) => Safe(t, ask)'
        BY <1>2, <2>2, <2>3, GoesOnAsked
    <2> QED
        BY <2>4, <2>5 DEF AskedOf, Safe, Doomed
<1>3. CASE Start
    <2>1. PICK c \in Call, r \in Handlers :
              /\ calls[c] = None /\ Step(c, r) /\ ~ Holds(r)
              /\ r # None => AskedOf(r, asked'[c])
              /\ r.tx \in sent => r.stage = "register"
        BY <1>1, <1>3, StartAsked
    <2>2. \A e \in Call : calls'[e] = IF e = c THEN r ELSE calls[e]
        BY <1>1, <2>1 DEF Step, Inv, TypeOK
    <2>3. now' = now
        BY <1>3 DEF Start, StartSend, StartRegister
    <2>4. CASE d = c
        <3>1. AskedOf(calls[d], asked[d])'
            BY <2>1, <2>2, <2>3, <2>4 DEF AskedOf
        <3> QED
            BY <2>1, <2>2, <2>4, <3>1
    <2>5. CASE d # c
        BY <1>2, <2>2, <2>5
    <2> QED
        BY <2>4, <2>5
<1>4. CASE ~ Start
    BY <1>1, <1>2, <1>4, Changed, CallsStay
<1> QED
    BY <1>3, <1>4

LEMMA SentGrows == ASSUME [Next]_vars PROVE sent \subseteq sent'
BY DEF Next, Start, StartSend, StartRegister, Park, Finish, Poller, Tick, vars,
       Stale, RemoveHints, RemoveStamp, LookToCheck, LookToStore, InsertHints, InsertStamp,
       SweepCollect, SweepHints, SweepStamp,
       Take, Accepted, Refused, TimedOut, Remember, HasMeta, PutMeta, Answer,
       StartMerge, Unindex, MergeStale, MergeDropHints, MergeDropStamp, MergeClues,
       MergeMeta, TakeMeta, WriteBlock

\* The client of an accepted call is told.
LEMMA NewlyTold ==
    ASSUME KeptInv, OneCallPerTx, [Next]_vars, NEW c \in Call, Tells(c), calls'[c] = None,
           NEW t \in Tx, t = calls[c].tx, NEW ask, ask = asked[c]
    PROVE  /\ t \in sent' /\ ask.since \in Time /\ ask.since <= now' /\ Safe(t, ask)'
           /\ \A d \in Call : calls'[d] # None => calls'[d].tx # t
<1>1. Inv /\ ParkedInv /\ Good /\ SentFirst
    BY DEF KeptInv, OnceInv
<1>2. calls[c] # None /\ Holds(calls[c]) /\ calls[c].pc = "done"
    BY DEF Tells, At, Holds, Sends, Refusal
<1>3. AskedOf(calls[c], ask) /\ Safe(t, ask)
    <2>1. AskedOf(calls[c], asked[c]) /\ Safe(calls[c].tx, asked[c])
        BY <1>2 DEF KeptInv, AskedInv
    <2> QED
        BY <2>1
<1>4. \A d \in Call : calls[d] # None /\ calls[d].tx = t => d = c
    BY <1>1, <1>2 DEF Good, Alone
<1>5. Safe(t, ask)' /\ ask.since <= now'
    BY <1>2, <1>3, <1>4, StaysSafe DEF KeptInv, AskedOf, Holds
<1>6. t \in sent
    BY <1>1, <1>2 DEF SentFirst, Unseen
<1>7. ~ Start
    <2>1. ASSUME Start PROVE \E e \in Call : calls[e] = None /\ \E r : Step(e, r)
        <3>1. \A e \in Call, u \in Tx : \A q \in Requests[u] :
                  StartSend(e, u, q) => calls[e] = None /\ \E r : Step(e, r)
            BY DEF StartSend, MayStart
        <3>2. \A e \in Call, u \in Tx, p \in Peer : \A i \in Registrations[u] :
                  StartRegister(e, u, p, i) => calls[e] = None /\ \E r : Step(e, r)
            BY DEF StartRegister, MayStart
        <3> QED
            BY <2>1, <3>1, <3>2 DEF Start
    <2> QED
        BY <1>1, <1>2, <2>1 DEF Step, Inv, TypeOK
<1>8. ASSUME NEW d \in Call, calls'[d] # None PROVE calls'[d].tx # t
    <2>1. calls[d] # None /\ Stays(calls[d], calls'[d])
        BY <1>1, <1>7, <1>8, CallsStay
    <2> QED
        BY <1>4, <1>8, <2>1 DEF Stays
<1>9. sent \subseteq sent'
    BY SentGrows
<1> QED
    BY <1>3, <1>5, <1>6, <1>8, <1>9 DEF AskedOf

\* What was told stays true.
LEMMA StillTold ==
    ASSUME KeptInv, OneCallPerTx, ~ Resends, [Next]_vars, Record,
           NEW x \in told, NEW t \in Tx, t = x.tx
    PROVE  /\ t \in sent' /\ x.asked.since \in Time /\ x.asked.since <= now'
           /\ Safe(t, x.asked)'
           /\ \A d \in Call : calls'[d] # None /\ calls'[d].tx = t => calls'[d].stage = "register"
<1>1. Inv /\ ParkedInv /\ Good
    BY DEF KeptInv, OnceInv
<1>2. PICK ask : ask = x.asked
    OBVIOUS
<1>3. /\ t \in sent /\ ask.since \in Time /\ ask.since <= now /\ Safe(t, ask)
      /\ \A d \in Call : calls[d] # None /\ calls[d].tx = t => calls[d].stage = "register"
    BY <1>2 DEF KeptInv, ToldInv
<1>4. \A d \in Call : calls[d] # None /\ calls[d].tx = t => calls[d].pc \notin Refusal
    <2> SUFFICES ASSUME NEW d \in Call, calls[d] # None, calls[d].tx = t
                 PROVE  calls[d].pc \notin Refusal
        OBVIOUS
    <2>1. Shape(calls[d])
        BY <1>1 DEF ParkedInv, Parked
    <2> QED
        BY <1>3, <2>1 DEF Shape
<1>5. Safe(t, ask)' /\ ask.since <= now'
    BY <1>3, <1>4, StaysSafe DEF KeptInv
<1>6. Safe(t, x.asked)'
    BY <1>2, <1>5 DEF Safe
<1>7. ASSUME NEW d \in Call, calls'[d] # None, calls'[d].tx = t
      PROVE  calls'[d].stage = "register"
    <2>1. CASE calls'[d] = calls[d]
        BY <1>3, <1>7, <2>1
    <2>2. CASE Start /\ calls'[d] # calls[d]
        <3>1. PICK c \in Call, r \in Handlers :
                  /\ calls[c] = None /\ Step(c, r) /\ ~ Holds(r)
                  /\ r # None => AskedOf(r, asked'[c])
                  /\ r.tx \in sent => r.stage = "register"
            BY <1>1, <2>2, StartAsked
        <3>2. \A e \in Call : calls'[e] = IF e = c THEN r ELSE calls[e]
            BY <1>1, <3>1 DEF Step, Inv, TypeOK
        <3> QED
            BY <1>3, <1>7, <2>2, <3>1, <3>2
    <2>3. CASE ~ Start /\ calls'[d] # calls[d]
        <3>1. calls[d] # None /\ StepsTo(d, calls'[d])
            BY <1>1, <1>7, <2>3, Changed
        <3> QED
            BY <1>3, <1>7, <3>1 DEF StepsTo, Moved, Follows
    <2> QED
        BY <2>1, <2>2, <2>3
<1> QED
    BY <1>2, <1>3, <1>5, <1>6, <1>7, SentGrows

LEMMA ToldStep ==
    ASSUME KeptInv, OneCallPerTx, ~ Resends, [Next]_vars, Record
    PROVE  ToldInv'
<1>1. Inv
    BY DEF KeptInv, OnceInv
<1> SUFFICES ASSUME NEW x \in told'
             PROVE  /\ x.tx \in sent' /\ x.asked.since \in Time /\ x.asked.since <= now'
                    /\ Safe(x.tx, x.asked)'
                    /\ \A d \in Call : calls'[d] # None /\ calls'[d].tx = x.tx
                                          => calls'[d].stage = "register"
    BY DEF ToldInv
<1>2. CASE x \in told
    <2>1. x.tx \in Tx
        BY <1>1, <1>2 DEF KeptInv, ToldInv, Inv, TypeOK
    <2>2. PICK t \in Tx : t = x.tx
        BY <2>1
    <2>3. /\ t \in sent' /\ x.asked.since \in Time /\ x.asked.since <= now'
          /\ Safe(t, x.asked)'
          /\ \A d \in Call : calls'[d] # None /\ calls'[d].tx = t => calls'[d].stage = "register"
        BY <1>2, <2>2, StillTold
    <2> QED
        BY <2>2, <2>3 DEF Safe, Doomed
<1>3. ASSUME NEW c \in Call, Tells(c), calls'[c] = None,
             x = [tx |-> calls[c].tx, asked |-> asked[c]]
      PROVE  /\ x.tx \in sent' /\ x.asked.since \in Time /\ x.asked.since <= now'
             /\ Safe(x.tx, x.asked)'
             /\ \A d \in Call : calls'[d] # None /\ calls'[d].tx = x.tx
                                   => calls'[d].stage = "register"
    <2>1. calls[c].tx \in Tx
        BY <1>1, <1>3 DEF Tells, At, Inv, TypeOK, Handlers
    <2>2. PICK t \in Tx : t = calls[c].tx
        BY <2>1
    <2>3. PICK ask : ask = asked[c]
        OBVIOUS
    <2>4. /\ t \in sent' /\ ask.since \in Time /\ ask.since <= now' /\ Safe(t, ask)'
          /\ \A d \in Call : calls'[d] # None => calls'[d].tx # t
        BY <1>3, <2>2, <2>3, NewlyTold
    <2>5. x.tx = t /\ x.asked = ask
        BY <1>3, <2>2, <2>3
    <2> QED
        BY <2>4, <2>5 DEF Safe, Doomed
<1> QED
    BY <1>2, <1>3 DEF Record

LEMMA KeptInit == MCInit => KeptInv
<1> SUFFICES ASSUME MCInit PROVE KeptInv
    OBVIOUS
<1>1. AskedInv /\ ToldInv
    BY DEF MCInit, Init, AskedInv, ToldInv
<1> QED
    BY <1>1, OnceInit DEF MCInit, KeptInv

LEMMA KeptNext ==
    ASSUME OneCallPerTx, ~ Resends, KeptInv, [Next /\ Record]_<<vars, history>>
    PROVE  KeptInv'
<1>1. [Next]_vars
    BY DEF history
<1>2. OnceInv'
    BY <1>1, OnceNext DEF KeptInv
<1>3. CASE Next /\ Record
    BY <1>1, <1>2, <1>3, AskedStep, ToldStep DEF KeptInv
<1>4. CASE UNCHANGED <<vars, history>>
    <2>1. UNCHANGED <<now, hints, stamp, calls, sweep, poll, sent>>
        BY <1>4 DEF vars
    <2>2. UNCHANGED <<asked, told>>
        BY <1>4 DEF history
    <2> QED
        BY <1>2, <2>1, <2>2
           DEF KeptInv, AskedInv, ToldInv, AskedOf, Safe, Doomed
<1> QED
    BY <1>3, <1>4

\* Where a transaction is sent once and no two calls about it overlap, a clue that
\* its client was told is accepted stays parked until it is a day old, whatever is
\* swept, registered later, merged into blocks or reorganised.
THEOREM AcceptedClueStays ==
    OneCallPerTx /\ ~ Resends /\ MCSpec => []AcceptedClueKept
<1> SUFFICES ASSUME OneCallPerTx, ~ Resends PROVE MCSpec => []AcceptedClueKept
    OBVIOUS
<1>1. KeptInv /\ [Next /\ Record]_<<vars, history>> => KeptInv'
    BY KeptNext
<1>2. KeptInv => AcceptedClueKept
    BY DEF KeptInv, ToldInv, Safe, AcceptedClueKept
<1> QED
    BY <1>1, <1>2, KeptInit, PTL DEF MCSpec

-----------------------------------------------------------------------------
(* The clues that were sent with an accepted transaction are on it in every *)
(* block of the day, where besides each clue is for one output.             *)

\* The clues of the requests and of the registrations of a transaction.
AllSent(t) == {q.base \o q.extras : q \in Requests[t]}
Known(t)   == Registrations[t] \cup UNION {{items[i] : i \in DOMAIN items} : items \in AllSent(t)}

\* A client sends one clue for an output, and the same clue for no other output.
\* Of two clues for one output only the first is ever parked.
OneClueEach ==
    \A t \in Tx \ Opaque : \A items \in AllSent(t) : \A i \in DOMAIN items :
        /\ items[i].at \in Output
        /\ \A j \in DOMAIN items : items[j].at = items[i].at => j = i
        /\ \A k \in Known(t) : k.clue = items[i].clue => k.at = items[i].at

\* Only known clues are parked.
RowKnown(t, row)   == \A i \in Index : row[i] # None => \E k \in Known(t) : k.at = i /\ k.clue = row[i]
AllKnown(t, items) == \A i \in DOMAIN items : items[i] \in Known(t)
CallKnown(call)    == /\ RowKnown(call.tx, call.row)
                      /\ AllKnown(call.tx, call.todo) /\ AllKnown(call.tx, call.late)
KnownInv == /\ \A t \in Tx : RowKnown(t, hints[t])
            /\ \A c \in Call : calls[c] # None => CallKnown(calls[c])

\* The poller merges a transaction that darkfid took, into one block at a time.
MergeKnown == /\ \A t \in Tx : index[t] # None => t \in heard
              /\ poll # None => poll.tx \in heard /\ index[poll.tx] = None

\* One item of what was asked.
One(item, since) == [items |-> <<item>>, since |-> since]
Kept(t, ask, k)  == Safe(t, One(ask.items[k], ask.since))

\* The row has clues for the first n of the items only.
Only(row, items, n) == \A i \in Index : row[i] # None => \E k \in 1 .. n : items[k].at = i

\* A send before its broadcast has parked n items, and has the others still to park.
Early(call) == call.stage = "before" /\ call.pc \in Parking

InHand(n, t, call, ask) ==
    /\ n \in Nat /\ Len(ask.items) = n + Len(call.todo)
    /\ \A k \in 1 .. Len(call.todo) : call.todo[k] = ask.items[n + k]
    /\ \A k \in 1 .. n : Kept(t, ask, k)
    /\ n = 0 => ~ call.accepted
    /\ Only(hints[t], ask.items, IF call.pc = "stamp" THEN n + 1 ELSE n)
    /\ call.pc = "insert" => Only(call.row, ask.items, n)
    /\ call.pc = "stamp" /\ now - ask.since <= Ttl =>
           hints[t][ask.items[n + 1].at] = ask.items[n + 1].clue

Carries(out, items) == \A k \in DOMAIN items : out[items[k].at] = items[k].clue

\* Of all that was asked: it is parked, and on its way into the block or in it.
Carried(t, ask) ==
    /\ ask.since \in Time /\ ask.since <= now /\ ask.items \in AllSent(t)
    /\ \A k \in DOMAIN ask.items : Kept(t, ask, k)
    /\ poll # None /\ poll.tx = t /\ poll.pc \in {"meta", "unmeta", "write"}
           /\ now - ask.since <= Ttl => Carries(poll.out, ask.items)
    /\ index[t] # None /\ merged[t] - ask.since <= Ttl => Carries(index[t].out, ask.items)

SendInv(call, ask) ==
    /\ ask.items \in AllSent(call.tx)
    /\ Early(call) => call.tx \notin heard /\ \E n \in Nat : InHand(n, call.tx, call, ask)
    /\ Holds(call) /\ ~ Early(call) => Carried(call.tx, ask)
    /\ call.stage = "after" => ~ LeadsMain(call.todo)
    /\ call.stage = "before" => ~ LeadsMain(call.late)

CarriedInv ==
    /\ \A c \in Call : calls[c] # None /\ Sends(calls[c]) /\ calls[c].tx \notin Opaque =>
           SendInv(calls[c], asked[c])
    /\ \A x \in told : x.tx \notin Opaque => Carried(x.tx, x.asked)

\* A handler that waits while others act, and the one whose scan ends.
Rests(call, r) ==
    /\ r.tx = call.tx /\ r.stage = call.stage /\ r.todo = call.todo /\ r.late = call.late
    /\ r.accepted = call.accepted /\ r.row = call.row
    /\ r.pc = call.pc \/ (call.pc = "prune" /\ r.pc = "stale")

\* The steps of a handler that go on with the item it has, that end it, and that
\* turn to the items left for after the broadcast.
SameItem(c, call, r) ==
    /\ r.stage = call.stage /\ r.todo = call.todo /\ r.late = call.late
    /\ r.accepted = call.accepted
    /\ call.pc # "stamp" /\ (r.pc \in Parking <=> call.pc \in Parking)
    /\ r.pc = "stamp" <=> InsertHints(c)
    /\ r.pc = "insert" => r.row = hints[call.tx]
    /\ r.row \in {call.row, hints[call.tx]}

ItemOver(c, call, r) ==
    /\ call.todo # <<>> /\ r.stage = call.stage /\ r.todo = Tail(call.todo) /\ r.late = call.late
    /\ r.pc \notin {"insert", "stamp"} /\ (r.pc \in Parking <=> Tail(call.todo) # <<>>)
    /\ r.row \in {call.row, NoClues}
    /\ hints' = hints
    /\ InsertStamp(c) \/ (call.pc = "look" /\ IndexTaken(hints[call.tx], Head(call.todo).at))

LateItems(call, r) ==
    /\ call.pc = "remember" /\ r.stage = "after" /\ r.todo = call.late /\ r.late = <<>>
    /\ r.row = call.row /\ r.pc \notin {"insert", "stamp"}

\* An item that ends.
LEMMA OverItems ==
    ASSUME NEW call \in Handlers, call.todo # <<>>, NEW parked \in BOOLEAN
    PROVE  LET n == Over(call, parked)
           IN  /\ n.stage = call.stage /\ n.todo = Tail(call.todo) /\ n.late = call.late
               /\ n.row = call.row
               /\ n.pc \notin {"insert", "stamp"} /\ (n.pc \in Parking <=> Tail(call.todo) # <<>>)
<1> DEFINE n == Over(call, parked)
<1>1. /\ n.stage = call.stage /\ n.todo = Tail(call.todo) /\ n.late = call.late
      /\ n.row = call.row
      /\ n.pc \in {"prune", "broadcast", "hasMeta", "done"}
      /\ n.pc = "prune" <=> Tail(call.todo) # <<>>
    BY OverFields
<1> HIDE DEF n
<1> QED
    BY <1>1 DEF n, Parking

\* A handler's own step: what it still has to park.
LEMMA OwnItems ==
    ASSUME Inv, NEW c \in Call, OwnStep(c)
    PROVE  /\ calls[c] # None
           /\ \/ SameItem(c, calls[c], calls'[c]) \/ ItemOver(c, calls[c], calls'[c])
              \/ LateItems(calls[c], calls'[c])
<1> USE ClueHintsAssumption
<1> DEFINE call == calls[c]
           row  == hints[call.tx]
<1>0. call # None
    BY DEF OwnStep, Stale, RemoveHints, RemoveStamp, LookToCheck, LookToStore, InsertHints,
           InsertStamp, Accepted, Refused, Remember, HasMeta, PutMeta, At
<1>1. call \in Handlers /\ Busy(call) /\ row \in Row /\ calls \in [Call -> Handlers \cup {None}]
    BY <1>0 DEF Inv, TypeOK, Calls, Handlers
<1>2. \A r : Step(c, r) => calls'[c] = r
    BY <1>1 DEF Step
<1>3. ASSUME NEW p \in Places, Goto(c, p), p \in Parking <=> call.pc \in Parking,
             p = "stamp" <=> InsertHints(c), p # "insert", call.pc # "stamp"
      PROVE  SameItem(c, call, calls'[c])
    <2> DEFINE r == [call EXCEPT !.pc = p]
    <2>1. /\ r.pc = p /\ r.stage = call.stage /\ r.todo = call.todo /\ r.late = call.late
          /\ r.accepted = call.accepted /\ r.row = call.row
        BY <1>1 DEF Handlers
    <2>2. calls'[c] = r
        BY <1>2, <1>3 DEF Goto
    <2> HIDE DEF r
    <2> QED
        BY <1>3, <2>1, <2>2 DEF SameItem
<1>4. ASSUME ToStore(c), call.pc \in Parking \ {"stamp"}, ~ InsertHints(c)
      PROVE  SameItem(c, call, calls'[c])
    <2> DEFINE r == [call EXCEPT !.pc = "prune", !.mode = "store"]
    <2>1. /\ r.pc = "prune" /\ r.stage = call.stage /\ r.todo = call.todo /\ r.late = call.late
          /\ r.accepted = call.accepted /\ r.row = call.row
        BY <1>1 DEF Handlers
    <2>2. calls'[c] = r
        BY <1>2, <1>4 DEF ToStore
    <2> HIDE DEF r
    <2> QED
        BY <1>4, <2>1, <2>2 DEF SameItem, Parking
<1>5. CASE \/ Stale(c) \/ RemoveHints(c) \/ RemoveStamp(c) \/ InsertHints(c)
           \/ Accepted(c) \/ Refused(c) \/ HasMeta(c) \/ PutMeta(c)
    <2>1. CASE Stale(c)
        BY <1>3, <2>1 DEF Stale, At, Parking, Places, InsertHints
    <2>2. CASE RemoveHints(c)
        BY <1>3, <2>2 DEF RemoveHints, At, Parking, Places, InsertHints
    <2>3. CASE RemoveStamp(c)
        BY <1>3, <1>4, <2>3 DEF RemoveStamp, At, Parking, Places, InsertHints
    <2>4. CASE InsertHints(c)
        BY <1>3, <2>4 DEF At, Parking, Places, InsertHints
    <2>5. CASE Accepted(c) \/ Refused(c) \/ HasMeta(c) \/ PutMeta(c)
        BY <1>3, <2>5 DEF Accepted, Refused, HasMeta, PutMeta, At, Parking, Places, InsertHints
    <2> QED
        BY <1>0, <1>5, <2>1, <2>2, <2>3, <2>4, <2>5
<1>6. CASE LookToCheck(c)
    <2>1. call.pc = "look" /\ call.todo # <<>> /\ hints' = hints /\ ~ InsertHints(c)
        BY <1>1, <1>6 DEF LookToCheck, At, Busy, Parking, InsertHints
    <2>2. CASE ToStore(c)
        BY <1>0, <1>4, <2>1, <2>2 DEF Parking
    <2>3. CASE ~ ToStore(c)
        <3>1. IndexTaken(row, Head(call.todo).at) /\ Step(c, Over(call, FALSE))
            BY <1>6, <2>3 DEF LookToCheck
        <3>2. calls'[c] = Over(call, FALSE)
            BY <1>2, <3>1
        <3> QED
            BY <1>0, <1>1, <2>1, <3>1, <3>2, OverItems DEF ItemOver
    <2> QED
        BY <2>2, <2>3
<1>7. CASE LookToStore(c)
    <2> DEFINE r == [call EXCEPT !.pc = "insert", !.row = row]
    <2>1. call.pc = "look" /\ call.todo # <<>> /\ hints' = hints /\ ~ InsertHints(c)
        BY <1>1, <1>7 DEF LookToStore, At, Busy, Parking, InsertHints
    <2>2. CASE IndexTaken(row, Head(call.todo).at)
        <3>1. Step(c, Over(call, TRUE))
            BY <1>7, <2>2 DEF LookToStore
        <3>2. calls'[c] = Over(call, TRUE)
            BY <1>2, <3>1
        <3> QED
            BY <1>0, <1>1, <2>1, <2>2, <3>2, OverItems DEF ItemOver
    <2>3. CASE ~ IndexTaken(row, Head(call.todo).at)
        <3>1. Step(c, r)
            BY <1>7, <2>3 DEF LookToStore
        <3>2. calls'[c] = r
            BY <1>2, <3>1
        <3>3. /\ r.pc = "insert" /\ r.stage = call.stage /\ r.todo = call.todo /\ r.late = call.late
              /\ r.accepted = call.accepted /\ r.row = row
            BY <1>1 DEF Handlers
        <3> HIDE DEF r
        <3> QED
            BY <1>0, <2>1, <3>2, <3>3 DEF SameItem, Parking
    <2> QED
        BY <2>2, <2>3
<1>8. CASE InsertStamp(c)
    <2> DEFINE none == NoClues
               s    == [call EXCEPT !.row = none]
    <2>1. call.pc = "stamp" /\ call.todo # <<>> /\ hints' = hints
        BY <1>1, <1>8 DEF InsertStamp, At, Busy, Parking
    <2>2. none \in Row
        BY DEF NoClues, Row
    <2>3. Step(c, Over(s, TRUE))
        BY <1>8 DEF InsertStamp
    <2>4. calls'[c] = Over(s, TRUE)
        BY <1>2, <2>3
    <2> HIDE DEF none
    <2>5. /\ s \in Handlers /\ s.stage = call.stage /\ s.todo = call.todo /\ s.late = call.late
          /\ s.row = none
        BY <1>1, <2>2 DEF Handlers
    <2> HIDE DEF s
    <2> DEFINE n == Over(s, TRUE)
    <2>6. /\ n.stage = s.stage /\ n.todo = Tail(s.todo) /\ n.late = s.late /\ n.row = s.row
          /\ n.pc \notin {"insert", "stamp"} /\ (n.pc \in Parking <=> Tail(s.todo) # <<>>)
        BY <2>1, <2>5, OverItems
    <2> HIDE DEF n
    <2> QED
        BY <1>0, <1>8, <2>1, <2>4, <2>5, <2>6 DEF ItemOver, n, none
<1>9. CASE Remember(c)
    <2> DEFINE late  == call.late
               empty == <<>>
               r     == [call EXCEPT !.stage = "after", !.todo = late, !.late = empty]
    <2>1. call.pc = "remember" /\ late \in Seq(Item) /\ empty \in Seq(Item)
        BY <1>1, <1>9 DEF Remember, At, Handlers
    <2>2. Step(c, NextItem(r))
        BY <1>9 DEF Remember
    <2>3. calls'[c] = NextItem(r)
        BY <1>2, <2>2
    <2> HIDE DEF late, empty
    <2>4. /\ r \in Handlers /\ r.stage = "after" /\ r.todo = late /\ r.late = empty
          /\ r.row = call.row
        BY <1>1, <2>1 DEF Handlers
    <2> HIDE DEF r
    <2> DEFINE n == NextItem(r)
    <2>5. /\ n.stage = r.stage /\ n.todo = r.todo /\ n.late = r.late /\ n.row = r.row
          /\ n.pc = IF r.todo = <<>> THEN Emptied(r) ELSE "prune"
        BY <2>4, NextItemFields
    <2>6. n.pc \notin {"insert", "stamp"}
        BY <2>5 DEF Emptied
    <2> HIDE DEF n
    <2> QED
        BY <1>0, <2>1, <2>3, <2>4, <2>5, <2>6 DEF LateItems, n, late, empty
<1> QED
    BY <1>5, <1>6, <1>7, <1>8, <1>9 DEF OwnStep

\* What the step does to the row of its transaction.
LEMMA OwnRow ==
    ASSUME Inv, NEW c \in Call, OwnStep(c), NEW t \in Tx, t = calls[c].tx
    PROVE  IF InsertHints(c) THEN hints'[t] = AddClue(calls[c].row, Head(calls[c].todo))
           ELSE hints'[t] \in {hints[t], NoClues}
<1>1. CASE InsertHints(c)
    BY <1>1 DEF InsertHints, Inv, TypeOK
<1>2. CASE ~ InsertHints(c)
    BY <1>2 DEF OwnStep, Stale, RemoveHints, RemoveStamp, LookToCheck, LookToStore, InsertStamp,
           Accepted, Refused, Remember, HasMeta, PutMeta, Inv, TypeOK
<1> QED
    BY <1>1, <1>2

\* A handler takes a step of its own, or rests and its transaction is spared.
LEMMA OwnOrRests ==
    ASSUME Inv, Alone, ParkedInv, [Next]_vars, NEW d \in Call, calls[d] # None, calls'[d] # None,
           NEW t \in Tx, t = calls[d].tx
    PROVE  OwnStep(d) \/ (Rests(calls[d], calls'[d]) /\ Spares(t))
<1> USE ClueHintsAssumption
<1>0. calls[d] \in Handlers
    BY DEF Inv, TypeOK
<1>1. calls'[d] = calls[d] => Rests(calls[d], calls'[d])
    BY DEF Rests
<1>2. ASSUME NEW c \in Call, OwnStep(c), c # d
      PROVE  Rests(calls[d], calls'[d]) /\ Spares(t)
    <2>1. calls[c] # None /\ \E r : Step(c, r)
        BY <1>2, OwnSteps DEF StepsTo
    <2>2. calls[c].tx # t /\ calls'[d] = calls[d]
        BY <1>2, <2>1 DEF Alone, Step, Inv, TypeOK
    <2> QED
        BY <1>1, <1>2, <2>2, HandlerSpares
<1>3. ASSUME NEW c \in Call, Leaves(c)
      PROVE  Rests(calls[d], calls'[d]) /\ Spares(t)
    <2>1. Step(c, None)
        BY <1>3, LeavesRows
    <2>2. calls'[d] = calls[d]
        BY <2>1 DEF Step, Inv, TypeOK
    <2> QED
        BY <1>1, <1>3, <2>2, LeavesSpare
<1>4. ASSUME NEW c \in Call, SweepStamp(c)
      PROVE  Rests(calls[d], calls'[d]) /\ Spares(t)
    <2>1. Spares(t)
        BY <1>4, OthersSpare
    <2>2. UNCHANGED calls \/ (Goto(c, "stale") /\ At(c, "prune"))
        BY <1>4 DEF SweepStamp, Inv, TypeOK, Sweeps, Sweeper
    <2>3. CASE Goto(c, "stale") /\ At(c, "prune") /\ c = d
        <3> DEFINE r == [calls[d] EXCEPT !.pc = "stale"]
        <3>1. calls'[d] = r
            BY <2>3 DEF Goto, Step, Inv, TypeOK
        <3>2. /\ r.tx = calls[d].tx /\ r.stage = calls[d].stage /\ r.todo = calls[d].todo
              /\ r.late = calls[d].late /\ r.accepted = calls[d].accepted /\ r.row = calls[d].row
              /\ r.pc = "stale"
            BY <1>0 DEF Handlers
        <3> HIDE DEF r
        <3> QED
            BY <2>1, <2>3, <3>1, <3>2 DEF Rests, At
    <2>4. CASE Goto(c, "stale") /\ c # d
        <3>1. calls'[d] = calls[d]
            BY <2>4 DEF Goto, Step, Inv, TypeOK
        <3> QED
            BY <1>1, <2>1, <3>1
    <2> QED
        BY <1>1, <2>1, <2>2, <2>3, <2>4
<1>5. ASSUME Start PROVE Rests(calls[d], calls'[d]) /\ Spares(t)
    <2>1. \E c \in Call, r \in Handlers : calls[c] = None /\ Step(c, r)
        BY <1>5, SendBegins, RegisterBegins DEF Start, Begins
    <2>2. PICK c \in Call, r \in Handlers : calls[c] = None /\ Step(c, r)
        BY <2>1
    <2>3. calls'[d] = calls[d]
        BY <2>2 DEF Step, Inv, TypeOK
    <2> QED
        BY <1>1, <1>5, <2>3, StartSpares
<1>6. ASSUME \/ \E c \in Call : SweepCollect(c) \/ SweepHints(c) \/ Take(c)
             \/ Poller \/ Tick \/ UNCHANGED vars
      PROVE  Rests(calls[d], calls'[d]) /\ Spares(t)
    <2>1. UNCHANGED calls
        BY <1>6 DEF SweepCollect, SweepHints, Take, Poller, Tick, vars, StartMerge, MergeStale,
               MergeDropHints, MergeDropStamp, MergeClues, MergeMeta, TakeMeta, WriteBlock, Unindex
    <2> QED
        BY <1>1, <1>6, <2>1, OthersSpare
<1> QED
    BY <1>2, <1>3, <1>4, <1>5, <1>6, StepKinds

-----------------------------------------------------------------------------
(* The items of a send, one after the other.                                *)

\* The items of a request, for which OneClueEach holds.
LEMMA SentItems ==
    ASSUME NEW t \in Tx, NEW items \in AllSent(t)
    PROVE  items \in Seq(Item)
<1>1. PICK q \in Requests[t] : items = q.base \o q.extras
    BY DEF AllSent
<1>2. q.base \in Seq(Item) /\ q.extras \in Seq(Item)
    BY ClueHintsAssumption DEF Request
<1> QED
    BY <1>1, <1>2, ConcatProperties

\* No item of a request is for the output of another, nor its clue on another's.
LEMMA OtherItems ==
    ASSUME OneClueEach, NEW t \in Tx, t \notin Opaque, NEW items \in AllSent(t)
    PROVE  /\ DOMAIN items = 1 .. Len(items) /\ Len(items) \in Nat
           /\ \A k \in 1 .. Len(items) : items[k] \in Item /\ items[k].at \in Output
           /\ \A j, k \in 1 .. Len(items) : items[j].at = items[k].at => j = k
<1>1. items \in Seq(Item)
    BY SentItems
<1>2. DOMAIN items = 1 .. Len(items) /\ Len(items) \in Nat
    BY <1>1
<1>3. \A k \in 1 .. Len(items) : items[k] \in Item
    BY <1>1
<1> QED
    BY <1>2, <1>3 DEF OneClueEach

\* An item that is parked stays, where no call about the transaction is refused.
LEMMA KeptStays ==
    ASSUME OnceInv, OneCallPerTx, [Next]_vars, NEW t \in Tx, NEW ask,
           ask.since \in Time, ask.since <= now, NEW k, Kept(t, ask, k),
           \A c \in Call : calls[c] # None /\ calls[c].tx = t => calls[c].pc \notin Refusal
    PROVE  Kept(t, ask, k)'
<1> DEFINE one == One(ask.items[k], ask.since)
<1>1. one.since = ask.since
    BY DEF One
<1>2. Safe(t, one)
    BY DEF Kept
<1> HIDE DEF one
<1>3. one.since \in Time /\ one.since <= now
    BY <1>1
<1>4. Safe(t, one)'
    BY <1>2, <1>3, StaysSafe
<1> QED
    BY <1>4 DEF Kept, one

\* A kept item of the day is in its row, under its stamp.
LEMMA KeptMeans ==
    ASSUME NEW t \in Tx, NEW ask, NEW k, Kept(t, ask, k), now - ask.since <= Ttl
    PROVE  ~ Doomed(t) /\ hints[t][ask.items[k].at] = ask.items[k].clue
<1> DEFINE one == <<ask.items[k]>>
<1>1. Head(one) = ask.items[k]
    OBVIOUS
<1> HIDE DEF one
<1>2. Safe(t, [items |-> one, since |-> ask.since])
    BY DEF Kept, One, one
<1> QED
    BY <1>1, <1>2 DEF Safe

\* What is being parked is not about to be removed before it is a day old.
LEMMA InHandSpared ==
    ASSUME Inv, ParkedInv, NEW d \in Call, calls[d] # None, Early(calls[d]),
           NEW t \in Tx, t = calls[d].tx, NEW ask, NEW n, InHand(n, t, calls[d], ask),
           now - ask.since <= Ttl
    PROVE  ~ Doomed(t)
<1>1. CASE n = 0
    <2>1. Unparked(calls[d])
        BY <1>1 DEF InHand, Unparked, Early
    <2>2. ~ Doomed(calls[d].tx)
        BY <2>1 DEF ParkedInv
    <2> QED
        BY <2>2
<1>2. CASE n # 0
    <2>1. 1 \in 1 .. n
        BY <1>2 DEF InHand
    <2>2. Kept(t, ask, 1)
        BY <2>1 DEF InHand
    <2> QED
        BY <2>2, KeptMeans
<1> QED
    BY <1>1, <1>2

\* The calls about the transaction of a handler that was not refused were not refused.
LEMMA NoneRefused ==
    ASSUME Alone, NEW d \in Call, calls[d] # None, calls[d].pc \notin Refusal,
           NEW t \in Tx, t = calls[d].tx
    PROVE  \A c \in Call : calls[c] # None /\ calls[c].tx = t => calls[c].pc \notin Refusal
BY DEF Alone

\* A row with clues for some of the items has them for more of the items.
LEMMA OnlyLess ==
    ASSUME NEW items, NEW m \in Nat, NEW n \in Nat, m <= n, NEW row, NEW less,
           less = row \/ less = NoClues, Only(row, items, m)
    PROVE  Only(less, items, n)
<1> SUFFICES ASSUME NEW i \in Index, less[i] # None
             PROVE  \E k \in 1 .. n : items[k].at = i
    BY DEF Only
<1>1. less = row
    BY DEF NoClues
<1>2. PICK k \in 1 .. m : items[k].at = i
    BY <1>1 DEF Only
<1>3. k \in 1 .. n
    BY <1>2
<1> QED
    BY <1>2, <1>3

\* The items of a handler that waits stay in hand.
LEMMA RestsInHand ==
    ASSUME OnceInv, OneCallPerTx, [Next]_vars, NEW d \in Call, calls[d] # None,
           Early(calls[d]), NEW t \in Tx, t = calls[d].tx, NEW r, Rests(calls[d], r),
           Spares(t), NEW ask, ask.since \in Time, ask.since <= now,
           NEW n, InHand(n, t, calls[d], ask)
    PROVE  InHand(n, t, r, ask)'
<1>1. Inv /\ ParkedInv /\ Alone /\ n \in Nat
    BY DEF OnceInv, Good, InHand
<1>2. calls[d].pc \notin Refusal
    BY DEF Early, Parking, Refusal
<1>3. \A k \in 1 .. n : Kept(t, ask, k)'
    <2> TAKE k \in 1 .. n
    <2>1. Kept(t, ask, k)
        BY DEF InHand
    <2> QED
        BY <1>1, <1>2, <2>1, NoneRefused, KeptStays
<1>4. hints'[t] = hints[t] \/ hints'[t] = NoClues
    BY DEF Spares
<1> DEFINE m == IF r.pc = "stamp" THEN n + 1 ELSE n
<1>5. m \in Nat /\ m = IF calls[d].pc = "stamp" THEN n + 1 ELSE n
    BY <1>1 DEF Rests
<1>6. Only(hints'[t], ask.items, m)
    <2>1. Only(hints[t], ask.items, m)
        BY <1>5 DEF InHand
    <2>2. PICK less : less = hints'[t]
        OBVIOUS
    <2> HIDE DEF m
    <2>3. Only(less, ask.items, m)
        BY <1>4, <1>5, <2>1, <2>2, OnlyLess
    <2> QED
        BY <2>2, <2>3
<1>7. ASSUME r.pc = "stamp", now' - ask.since <= Ttl
      PROVE  hints'[t][ask.items[n + 1].at] = ask.items[n + 1].clue
    <2>1. now \in Nat /\ now' \in Nat /\ now <= now' /\ ask.since \in Nat /\ Ttl \in Nat
        BY <1>1, NowGrows, ClueHintsAssumption DEF Time
    <2>2. now - ask.since <= Ttl
        BY <1>7, <2>1
    <2>3. ~ Doomed(t)
        BY <1>1, <2>2, InHandSpared
    <2>4. hints'[t] = hints[t]
        BY <2>3 DEF Spares
    <2>5. calls[d].pc = "stamp"
        BY <1>7 DEF Rests
    <2> QED
        BY <2>2, <2>4, <2>5 DEF InHand
<1> QED
    BY <1>1, <1>3, <1>6, <1>7 DEF InHand, Rests

\* What is still to park is at the end of what was asked.
LEMMA NextInHand ==
    ASSUME NEW t \in Tx, NEW call \in Handlers, call.todo # <<>>, NEW ask, NEW n,
           InHand(n, t, call, ask)
    PROVE  /\ n \in Nat /\ Len(call.todo) \in Nat /\ Len(call.todo) > 0
           /\ Head(call.todo) = ask.items[n + 1] /\ n + 1 \in 1 .. Len(ask.items)
           /\ Len(Tail(call.todo)) = Len(call.todo) - 1
           /\ \A k \in 1 .. Len(call.todo) - 1 : Tail(call.todo)[k] = ask.items[n + 1 + k]
<1> DEFINE todo == call.todo
<1>1. todo \in Seq(Item) /\ todo # <<>>
    BY DEF Handlers
<1>2. /\ n \in Nat /\ Len(ask.items) = n + Len(todo)
      /\ \A k \in 1 .. Len(todo) : todo[k] = ask.items[n + k]
    BY DEF InHand
<1> HIDE DEF todo
<1>3. /\ Len(todo) \in Nat /\ Len(todo) > 0 /\ Head(todo) = todo[1]
      /\ Len(Tail(todo)) = Len(todo) - 1
      /\ \A k \in 1 .. Len(todo) - 1 : Tail(todo)[k] = todo[k + 1]
    BY <1>1
<1>4. 1 \in 1 .. Len(todo) /\ n + 1 \in 1 .. Len(ask.items)
    BY <1>2, <1>3
<1>5. Head(todo) = ask.items[n + 1]
    BY <1>2, <1>3, <1>4
<1>6. ASSUME NEW k \in 1 .. Len(todo) - 1 PROVE Tail(todo)[k] = ask.items[n + 1 + k]
    <2>1. k + 1 \in 1 .. Len(todo) /\ n + (k + 1) = n + 1 + k
        BY <1>2, <1>3
    <2>2. todo[k + 1] = ask.items[n + (k + 1)]
        BY <1>2, <2>1
    <2> QED
        BY <1>3, <2>1, <2>2
<1> QED
    BY <1>2, <1>3, <1>4, <1>5, <1>6 DEF todo

\* A step on the way of one item.
LEMMA SameInHand ==
    ASSUME OnceInv, OneCallPerTx, [Next]_vars, NEW d \in Call, OwnStep(d), calls[d] # None,
           Early(calls[d]), NEW t \in Tx, t = calls[d].tx,
           NEW r, SameItem(d, calls[d], r),
           NEW ask, ask.since \in Time, ask.since <= now,
           NEW n, InHand(n, t, calls[d], ask)
    PROVE  Early(r) /\ InHand(n, t, r, ask)'
<1> DEFINE call == calls[d]
<1>1. /\ Inv /\ ParkedInv /\ Alone /\ n \in Nat /\ call \in Handlers
      /\ call.todo # <<>> /\ hints[t] \in Row
    BY DEF OnceInv, Good, InHand, Inv, TypeOK, Calls, Busy, Early
<1>2. call.pc \notin Refusal
    BY DEF Early, Parking, Refusal
<1>3. \A k \in 1 .. n : Kept(t, ask, k)'
    <2> TAKE k \in 1 .. n
    <2>1. Kept(t, ask, k)
        BY DEF InHand
    <2> QED
        BY <1>1, <1>2, <2>1, NoneRefused, KeptStays
<1>4. Early(r)
    BY DEF Early, SameItem
<1>5. CASE InsertHints(d)
    <2> DEFINE item == ask.items[n + 1]
    <2>1. call.pc = "insert" /\ r.pc = "stamp" /\ Head(call.todo) = item
        BY <1>1, <1>5, NextInHand DEF SameItem, InsertHints, At
    <2>2. hints'[t] = AddClue(call.row, item) /\ Only(call.row, ask.items, n)
        BY <1>1, <1>5, <2>1, OwnRow DEF InHand
    <2>3. item \in Item /\ call.row \in Row
        <3>1. call.todo \in Seq(Item) /\ call.row \in Row
            BY <1>1 DEF Handlers
        <3> QED
            BY <1>1, <2>1, <3>1
    <2> DEFINE row == hints'[t]
    <2>4. \A i \in Index : row[i] = IF i = item.at THEN item.clue ELSE call.row[i]
        BY <2>2, <2>3 DEF AddClue, Row
    <2>5. item.at \in Index
        BY <2>3 DEF Item
    <2> HIDE DEF row
    <2>6. Only(row, ask.items, n + 1)
        <3> SUFFICES ASSUME NEW i \in Index, row[i] # None
                     PROVE  \E k \in 1 .. n + 1 : ask.items[k].at = i
            BY DEF Only
        <3>1. CASE i = item.at
            BY <1>1, <3>1
        <3>2. CASE i # item.at
            <4>1. call.row[i] # None
                BY <2>4, <3>2
            <4>2. PICK k \in 1 .. n : ask.items[k].at = i
                BY <2>2, <4>1 DEF Only
            <4>3. k \in 1 .. n + 1
                BY <1>1
            <4> QED
                BY <4>2, <4>3
        <3> QED
            BY <3>1, <3>2
    <2>7. row[item.at] = item.clue
        BY <2>4, <2>5
    <2> QED
        BY <1>3, <1>4, <2>1, <2>6, <2>7 DEF InHand, SameItem, row
<1>6. CASE ~ InsertHints(d)
    <2>1. r.pc # "stamp" /\ call.pc # "stamp" /\ Only(hints[t], ask.items, n)
        BY <1>6 DEF SameItem, InHand
    <2>2. hints'[t] = hints[t] \/ hints'[t] = NoClues
        BY <1>1, <1>6, OwnRow
    <2>3. PICK less : less = hints'[t]
        OBVIOUS
    <2>4. Only(less, ask.items, n)
        BY <1>1, <2>1, <2>2, <2>3, OnlyLess
    <2>5. r.pc = "insert" => Only(r.row, ask.items, n)
        BY <2>1 DEF SameItem
    <2> QED
        BY <1>3, <1>4, <2>1, <2>3, <2>4, <2>5 DEF InHand, SameItem
<1> QED
    BY <1>5, <1>6

\* No output is taken before an item that names it, so an item ends when its clue
\* is parked and stamped.
LEMMA OverStamped ==
    ASSUME Inv, OneClueEach, NEW d \in Call, calls[d] # None, Early(calls[d]),
           NEW t \in Tx, t = calls[d].tx, t \notin Opaque,
           NEW r, ItemOver(d, calls[d], r), NEW ask, ask.items \in AllSent(t),
           NEW n, InHand(n, t, calls[d], ask)
    PROVE  InsertStamp(d)
<1> SUFFICES ASSUME calls[d].pc = "look",
                    IndexTaken(hints[t], Head(calls[d].todo).at)
             PROVE  FALSE
    BY DEF ItemOver
<1>1. calls[d] \in Handlers /\ calls[d].todo # <<>>
    BY DEF Inv, TypeOK, ItemOver
<1>2. n \in Nat /\ Head(calls[d].todo) = ask.items[n + 1] /\ n + 1 \in 1 .. Len(ask.items)
    BY <1>1, NextInHand
<1>3. \A j, k \in 1 .. Len(ask.items) : ask.items[j].at = ask.items[k].at => j = k
    BY OtherItems
<1>4. ask.items[n + 1].at \in Index
    <2>1. ask.items[n + 1] \in Item
        BY <1>2, OtherItems
    <2> QED
        BY <2>1 DEF Item
<1>5. Only(hints[t], ask.items, n)
    BY DEF InHand
<1>6. PICK k \in 1 .. n : ask.items[k].at = ask.items[n + 1].at
    BY <1>2, <1>4, <1>5 DEF Only, IndexTaken
<1>7. k \in 1 .. Len(ask.items) /\ k # n + 1
    BY <1>2
<1> QED
    BY <1>2, <1>3, <1>6, <1>7

\* The stamp that ends an item makes it safe.
LEMMA StampKept ==
    ASSUME OnceInv, [Next]_vars, NEW d \in Call, InsertStamp(d), calls[d] # None, Early(calls[d]),
           NEW t \in Tx, t = calls[d].tx,
           NEW ask, ask.since \in Time, ask.since <= now,
           NEW n, InHand(n, t, calls[d], ask)
    PROVE  Kept(t, ask, n + 1)'
<1> USE ClueHintsAssumption
<1> DEFINE item == ask.items[n + 1]
           one  == <<item>>
<1>1. Inv /\ ParkedInv /\ calls[d].pc = "stamp" /\ calls[d] \in Handlers
    BY DEF OnceInv, InsertStamp, At, Inv, TypeOK
<1>2. calls[d].todo # <<>> /\ calls[d].todo \in Seq(Item)
    BY <1>1 DEF Inv, Calls, Busy, Parking, Handlers
<1>3. item \in Item
    <2>1. Head(calls[d].todo) = item
        BY <1>1, <1>2, NextInHand
    <2> QED
        BY <1>2, <2>1
<1>4. Head(one) = item
    OBVIOUS
<1>5. hints' = hints /\ stamp'[t] = now /\ UNCHANGED <<now, sweep, poll>>
    BY <1>1 DEF InsertStamp, Inv, TypeOK
<1>6. now \in Nat /\ now # None
    BY <1>1 DEF Inv, TypeOK, Time
<1>7. ASSUME now - ask.since <= Ttl
      PROVE  hints[t][item.at] = item.clue /\ ~ Doomed(t)'
    <2>1. hints[t][item.at] = item.clue
        BY <1>1, <1>7 DEF InHand
    <2>2. ~ Doomed(t)
        BY <1>1, <1>7, InHandSpared
    <2>3. OwnStep(d)
        BY DEF OwnStep
    <2>4. PICK r \in Handlers : StepsTo(d, r)
        BY <1>1, <2>3, OwnSteps
    <2>5. Step(d, r) /\ calls'[d] = r
        BY <1>1, <2>4 DEF StepsTo, Step, Inv, TypeOK
    <2>6. r.pc \notin Dropping
        <3>1. ~ Expired(t)
            <4> SUFFICES ASSUME Expired(t) PROVE FALSE
                OBVIOUS
            <4>1. CASE n = 0
                <5>1. Unparked(calls[d])
                    BY <4>1 DEF InHand, Unparked, Early
                <5>2. Parked(calls[d], hints[t], stamp[t])
                    BY <1>1 DEF ParkedInv
                <5> QED
                    BY <5>1, <5>2 DEF Parked, Clean, Expired
            <4>2. CASE n # 0
                <5>1. 1 \in 1 .. n
                    BY <4>2 DEF InHand
                <5>2. Kept(t, ask, 1)
                    BY <5>1 DEF InHand
                <5>3. stamp[t] # None /\ stamp[t] >= ask.since
                    BY <1>7, <5>2 DEF Kept, Safe, One
                <5>4. stamp[t] \in Nat /\ ask.since \in Nat /\ Ttl \in Nat
                    BY <1>1, <5>3 DEF Inv, TypeOK, Time
                <5> QED
                    BY <1>6, <1>7, <5>3, <5>4 DEF Expired
            <4> QED
                BY <4>1, <4>2
        <3> QED
            BY <2>2, <2>4, <3>1 DEF StepsTo
    <2>7. ~ Doomed(t)'
        BY <1>1, <1>5, <2>2, <2>5, <2>6, DoomedStep
    <2> QED
        BY <2>1, <2>7
<1> HIDE DEF item, one
<1>8. Safe(t, [items |-> one, since |-> ask.since])'
    BY <1>3, <1>4, <1>5, <1>6, <1>7 DEF Safe
<1> QED
    BY <1>8 DEF Kept, One, one, item

\* The item that ends is parked: the next one comes, or all are.
LEMMA OverInHand ==
    ASSUME OnceInv, OneCallPerTx, OneClueEach, [Next]_vars, NEW d \in Call, calls[d] # None,
           Early(calls[d]), NEW t \in Tx, t = calls[d].tx, t \notin Opaque,
           NEW r, ItemOver(d, calls[d], r),
           NEW ask, ask.items \in AllSent(t), ask.since \in Time, ask.since <= now,
           NEW n, InHand(n, t, calls[d], ask)
    PROVE  /\ Early(r) => InHand(n + 1, t, r, ask)'
           /\ ~ Early(r) => \A k \in DOMAIN ask.items : Kept(t, ask, k)'
<1> DEFINE call == calls[d]
           rest == Tail(call.todo)
<1>1. /\ Inv /\ ParkedInv /\ Alone /\ call \in Handlers /\ call.todo # <<>>
      /\ call.pc \notin Refusal
    BY DEF OnceInv, Good, Inv, TypeOK, ItemOver, Early, Parking, Refusal
<1>2. InsertStamp(d) /\ call.pc = "stamp" /\ hints' = hints
    BY <1>1, OverStamped DEF InsertStamp, At
<1>3. /\ n \in Nat /\ Len(call.todo) \in Nat /\ Len(call.todo) > 0
      /\ Len(rest) = Len(call.todo) - 1
      /\ \A k \in 1 .. Len(call.todo) - 1 : rest[k] = ask.items[n + 1 + k]
    BY <1>1, NextInHand
<1>4. Len(ask.items) = n + Len(call.todo) /\ r.todo = rest
    BY DEF InHand, ItemOver
<1> HIDE DEF rest
<1>5. \A k \in 1 .. n + 1 : Kept(t, ask, k)'
    <2> TAKE k \in 1 .. n + 1
    <2>1. CASE k \in 1 .. n
        <3>1. Kept(t, ask, k)
            BY <2>1 DEF InHand
        <3> QED
            BY <1>1, <3>1, NoneRefused, KeptStays
    <2>2. CASE k = n + 1
        BY <1>2, <2>2, StampKept
    <2> QED
        BY <1>3, <2>1, <2>2
<1>6. ASSUME Early(r) PROVE InHand(n + 1, t, r, ask)'
    <2> DEFINE m == n + 1
    <2>0. Len(r.todo) = Len(call.todo) - 1
        BY <1>3, <1>4
    <2>1. m \in Nat /\ m # 0 /\ Len(ask.items) = m + Len(r.todo)
        <3> DEFINE a == Len(r.todo)
                   b == Len(call.todo)
        <3>1. a = b - 1 /\ b \in Nat /\ Len(ask.items) = n + b /\ n \in Nat
            BY <1>3, <1>4, <2>0
        <3> HIDE DEF a, b
        <3>2. Len(ask.items) = n + 1 + a
            BY <3>1
        <3> QED
            BY <3>1, <3>2 DEF a
    <2>2. \A k \in 1 .. Len(r.todo) : r.todo[k] = ask.items[m + k]
        BY <1>3, <1>4
    <2>3. Only(hints'[t], ask.items, m)
        BY <1>2 DEF InHand
    <2> HIDE DEF m
    <2>4. InHand(m, t, r, ask)'
        BY <1>5, <2>1, <2>2, <2>3 DEF InHand, ItemOver, m
    <2> QED
        BY <2>4 DEF m
<1>7. ASSUME ~ Early(r), NEW k \in DOMAIN ask.items PROVE Kept(t, ask, k)'
    <2>1. rest = <<>>
        BY <1>7 DEF ItemOver, Early, rest
    <2>2. Len(rest) = 0
        BY <2>1
    <2>3. Len(call.todo) = 1
        BY <1>3, <2>2
    <2>4. k \in 1 .. n + 1
        BY <1>4, <1>7, <2>3, OtherItems
    <2> QED
        BY <1>5, <2>4
<1> QED
    BY <1>6, <1>7

-----------------------------------------------------------------------------
(* From the parked clues into the blocks.                                   *)

\* A merge puts each clue that the row has on the output it names.
LEMMA AttachedCarries ==
    ASSUME OneClueEach, NEW t \in Tx, t \notin Opaque, NEW items \in AllSent(t),
           RowKnown(t, hints[t]), NEW out \in Attached(hints[t]),
           \A k \in DOMAIN items : hints[t][items[k].at] = items[k].clue
    PROVE  Carries(out, items)
<1> SUFFICES ASSUME NEW k \in DOMAIN items
             PROVE  out[items[k].at] = items[k].clue
    BY DEF Carries
<1> DEFINE item == items[k]
<1>1. item \in Item /\ item.at \in Output
    BY OtherItems
<1>2. item.clue # None /\ hints[t][item.at] = item.clue
    BY <1>1, ClueHintsAssumption DEF Item
<1> HIDE DEF item
<1>3. PICK p \in Output : out[p] = item.clue
    BY <1>1, <1>2 DEF Attached
<1>4. hints[t][p] = item.clue /\ p \in Index
    BY <1>2, <1>3, ClueHintsAssumption DEF Attached
<1>5. PICK j \in Known(t) : j.at = p /\ j.clue = item.clue
    BY <1>2, <1>4 DEF RowKnown
<1>6. p = item.at
    BY <1>5 DEF OneClueEach, item
<1> QED
    BY <1>3, <1>6 DEF item

\* What merged records of the blocks.
MergedOf(t) == index'[t] # None => merged'[t] = IF index[t] = None THEN now ELSE merged[t]

\* A step that is not of the poller leaves the transaction that it merges, and the
\* blocks.
LEMMA NotPoller ==
    ASSUME [Next]_vars, ~ Poller
    PROVE  UNCHANGED <<poll, index>>
BY DEF Next, Start, StartSend, StartRegister, Park, Finish, Tick, vars,
       Stale, RemoveHints, RemoveStamp, LookToCheck, LookToStore, InsertHints, InsertStamp,
       SweepCollect, SweepHints, SweepStamp,
       Take, Accepted, Refused, TimedOut, Remember, HasMeta, PutMeta, Answer

Merged == {"meta", "unmeta", "write"}

\* Clues that are parked are on the way into the block, or in it.
LEMMA MergeCarries ==
    ASSUME Inv, MergeKnown, KnownInv, OneClueEach, [Next]_vars,
           NEW t \in Tx, t \notin Opaque, MergedOf(t), NEW ask, Carried(t, ask)
    PROVE  /\ poll' # None /\ poll'.tx = t /\ poll'.pc \in Merged /\ now' - ask.since <= Ttl
                  => Carries(poll'.out, ask.items)
           /\ index'[t] # None /\ merged'[t] - ask.since <= Ttl => Carries(index'[t].out, ask.items)
<1>1. now \in Nat /\ now' \in Nat /\ now <= now' /\ ask.since \in Nat /\ Ttl \in Nat
    BY NowGrows, ClueHintsAssumption DEF Carried, Time
<1>2. now' - ask.since <= Ttl => now - ask.since <= Ttl
    BY <1>1
<1>3. poll # None /\ poll.tx = t /\ poll.pc \in Merged /\ now - ask.since <= Ttl
          => Carries(poll.out, ask.items)
    BY DEF Carried, Merged
<1>4. index[t] # None /\ merged[t] - ask.since <= Ttl => Carries(index[t].out, ask.items)
    BY DEF Carried
<1>5. poll # None => poll \in Merges
    BY DEF Inv, TypeOK
<1>6. UNCHANGED index => (index'[t] # None /\ merged'[t] - ask.since <= Ttl
                             => Carries(index'[t].out, ask.items))
    BY <1>4 DEF MergedOf
<1>7. CASE ~ Poller
    BY <1>2, <1>3, <1>6, <1>7, NotPoller
<1>8. ASSUME NEW u \in Tx, StartMerge(u)
      PROVE  UNCHANGED index /\ poll'.pc \notin Merged
    BY <1>8 DEF StartMerge, Merged
<1>9. ASSUME NEW u \in Tx, Unindex(u)
      PROVE  poll' = None /\ (index'[t] # None => index'[t] = index[t])
    BY <1>9 DEF Unindex, Inv, TypeOK
<1>10. CASE MergeStale \/ MergeDropHints
    BY <1>5, <1>6, <1>10 DEF MergeStale, MergeDropHints, Merging, MergeTo, Merges, Merged
<1>11. ASSUME MergeDropStamp, poll'.tx = t, now' - ask.since <= Ttl
       PROVE  Carries(poll'.out, ask.items)
    <2>1. poll # None /\ poll.tx = t /\ poll.pc \in Dropping
        BY <1>5, <1>11 DEF MergeDropStamp, Merging, MergeTo, Merges, Dropping
    <2>2. Doomed(t)
        BY <2>1 DEF Doomed
    <2>3. \A k \in DOMAIN ask.items : FALSE
        BY <1>2, <1>11, <2>2, KeptMeans DEF Carried
    <2> QED
        BY <2>3 DEF Carries
<1>12. ASSUME MergeClues, poll'.tx = t, now' - ask.since <= Ttl
       PROVE  Carries(poll'.out, ask.items)
    <2>1. PICK out \in Attached(hints[poll.tx]) : poll' = [poll EXCEPT !.pc = "meta", !.out = out]
        BY <1>12 DEF MergeClues
    <2>2. poll.tx = t /\ poll'.out = out
        BY <1>5, <1>12, <2>1 DEF MergeClues, Merging, Merges
    <2>3. \A k \in DOMAIN ask.items : hints[t][ask.items[k].at] = ask.items[k].clue
        BY <1>2, <1>12, KeptMeans DEF Carried
    <2>4. RowKnown(t, hints[t]) /\ out \in Attached(hints[t]) /\ ask.items \in AllSent(t)
        BY <2>1, <2>2 DEF KnownInv, Carried
    <2>5. Carries(out, ask.items)
        BY <2>3, <2>4, AttachedCarries
    <2> QED
        BY <2>2, <2>5
<1>13. CASE MergeMeta \/ TakeMeta
    <2>1. /\ UNCHANGED index /\ poll # None /\ poll.pc \in Merged
          /\ poll'.tx = poll.tx /\ poll'.out = poll.out
        BY <1>5, <1>13 DEF MergeMeta, TakeMeta, Merging, MergeTo, Merges, Merged
    <2> QED
        BY <1>2, <1>3, <1>6, <2>1
<1>14. CASE WriteBlock
    <2>1. /\ poll' = None /\ poll # None /\ poll.pc = "write" /\ poll.tx \in Tx
        BY <1>5, <1>14 DEF WriteBlock, Merging, Merges
    <2>2. CASE poll.tx # t
        <3>1. index'[t] = index[t]
            BY <1>14, <2>1, <2>2 DEF WriteBlock, Inv, TypeOK
        <3> QED
            BY <1>4, <2>1, <3>1 DEF MergedOf
    <2>3. CASE poll.tx = t
        <3>1. index'[t].out = poll.out
            BY <1>14, <2>1, <2>3 DEF WriteBlock, Inv, TypeOK
        <3>2. index'[t] # None => merged'[t] = now
            BY <2>1, <2>3 DEF MergedOf, MergeKnown
        <3> QED
            BY <1>3, <2>1, <2>3, <3>1, <3>2 DEF Merged
    <2> QED
        BY <2>2, <2>3
<1>15. CASE MergeDropStamp \/ MergeClues
    <2>1. UNCHANGED index
        BY <1>15 DEF MergeDropStamp, MergeClues
    <2> QED
        BY <1>6, <1>11, <1>12, <1>15, <2>1
<1>16. CASE \E u \in Tx : Unindex(u)
    BY <1>4, <1>9, <1>16 DEF MergedOf
<1>17. CASE \E u \in Tx : StartMerge(u)
    BY <1>6, <1>8, <1>17
<1> QED
    BY <1>7, <1>10, <1>13, <1>14, <1>15, <1>16, <1>17 DEF Poller

\* What is carried stays so, where no call about the transaction is refused.
LEMMA CarriedStays ==
    ASSUME OnceInv, MergeKnown, KnownInv, OneCallPerTx, OneClueEach, [Next]_vars,
           NEW t \in Tx, t \notin Opaque, MergedOf(t), NEW ask, Carried(t, ask),
           \A c \in Call : calls[c] # None /\ calls[c].tx = t => calls[c].pc \notin Refusal
    PROVE  Carried(t, ask)'
<1>1. Inv
    BY DEF OnceInv
<1>2. ask.since \in Time /\ ask.since <= now' /\ ask.items \in AllSent(t)
    BY <1>1, NowGrows DEF Carried, Time
<1>3. ASSUME NEW k \in DOMAIN ask.items PROVE Kept(t, ask, k)'
    BY KeptStays DEF Carried
<1>4. /\ poll' # None /\ poll'.tx = t /\ poll'.pc \in Merged /\ now' - ask.since <= Ttl
             => Carries(poll'.out, ask.items)
      /\ index'[t] # None /\ merged'[t] - ask.since <= Ttl => Carries(index'[t].out, ask.items)
    BY <1>1, MergeCarries
<1> QED
    BY <1>2, <1>3, <1>4 DEF Carried, Merged

-----------------------------------------------------------------------------
(* What is known of the rows, of the handlers and of the merge.             *)

LEMMA EmptyItems == ~ LeadsMain(<<>>) /\ \A t \in Tx : AllKnown(t, <<>>) /\ RowKnown(t, NoClues)
BY DEF LeadsMain, AllKnown, RowKnown, NoClues

\* The items of the second of two lists.
LEMMA SecondPart ==
    ASSUME NEW s \in Seq(Item), NEW e \in Seq(Item)
    PROVE  \A i \in DOMAIN e : \E j \in DOMAIN (s \o e) : (s \o e)[j] = e[i]
<1> DEFINE all == s \o e
<1>1. all \in Seq(Item)
    BY ConcatProperties
<1>2. Len(all) = Len(s) + Len(e)
    BY ConcatProperties
<1>3. \A i \in 1 .. Len(s) + Len(e) : all[i] = IF i <= Len(s) THEN s[i] ELSE e[i - Len(s)]
    BY ConcatProperties
<1> HIDE DEF all
<1>4. DOMAIN all = 1 .. Len(all)
    BY <1>1
<1> SUFFICES ASSUME NEW i \in DOMAIN e PROVE \E j \in DOMAIN all : all[j] = e[i]
    BY DEF all
<1>5. i \in 1 .. Len(e) /\ Len(s) \in Nat /\ Len(e) \in Nat
    OBVIOUS
<1> DEFINE j == Len(s) + i
<1>6. j \in 1 .. Len(s) + Len(e) /\ ~ (j <= Len(s)) /\ j - Len(s) = i
    BY <1>5
<1> HIDE DEF j
<1>7. all[j] = e[j - Len(s)]
    BY <1>3, <1>6
<1> QED
    BY <1>2, <1>4, <1>6, <1>7

\* The clues of a request are known, and of its extra clues none is the recipient's.
LEMMA RequestKnown ==
    ASSUME NEW t \in Tx, NEW q \in Requests[t]
    PROVE  /\ AllKnown(t, q.base \o q.extras) /\ AllKnown(t, q.extras)
           /\ ~ LeadsMain(q.extras) /\ q.base \o q.extras \in AllSent(t)
           /\ q.base = <<>> => q.base \o q.extras = q.extras
           /\ q.base # <<>> => q.base \o q.extras # <<>>
<1> DEFINE all == q.base \o q.extras
<1>1. /\ q.base \in Seq(Item) /\ q.extras \in Seq(Item)
      /\ q.base = <<>> \/ (Len(q.base) = 1 /\ q.base[1].main)
      /\ \A i \in DOMAIN q.extras : ~ q.extras[i].main
    BY ClueHintsAssumption, RequestAssumption DEF Request
<1>2. all \in AllSent(t)
    BY DEF AllSent
<1>3. AllKnown(t, all)
    <2> SUFFICES ASSUME NEW i \in DOMAIN all PROVE all[i] \in Known(t)
        BY DEF AllKnown
    <2> HIDE DEF all
    <2> QED
        BY <1>2 DEF Known
<1>4. AllKnown(t, q.extras)
    <2>1. \A i \in DOMAIN q.extras : \E j \in DOMAIN all : all[j] = q.extras[i]
        BY <1>1, SecondPart, Zenon
    <2> QED
        BY <1>3, <2>1 DEF AllKnown
<1>5. ~ LeadsMain(q.extras)
    BY <1>1 DEF LeadsMain
<1>6. q.base = <<>> => all = q.extras
    BY <1>1
<1>7. q.base # <<>> => all # <<>>
    <2> SUFFICES ASSUME q.base # <<>> PROVE all # <<>>
        OBVIOUS
    <2>1. Len(q.base) = 1
        BY <1>1
    <2> QED
        BY <1>1, <2>1, OneThenMore
<1> QED
    BY <1>2, <1>3, <1>4, <1>5, <1>6, <1>7

\* A send begins with all of its clues still to park, now or later.
LEMMA SendHas ==
    ASSUME Inv, NEW c \in Call, NEW t \in Tx, NEW q \in Requests[t], StartSend(c, t, q)
    PROVE  LET r   == calls'[c]
               all == q.base \o q.extras
           IN  /\ r.tx = t /\ r.stage = "before" /\ ~ r.accepted /\ r.row = NoClues
               /\ r.todo \in {<<>>, all} /\ r.late \in {all, q.extras}
               /\ (IF r.todo = <<>> THEN r.late ELSE r.todo) = all
               /\ t \notin Opaque => ~ LeadsMain(r.late)
               /\ r.pc = IF r.todo = <<>> THEN "broadcast" ELSE "prune"
               /\ \A d \in Call : d # c => calls'[d] = calls[d]
<1> USE ClueHintsAssumption
<1> DEFINE all   == q.base \o q.extras
           early == q.base # <<>> /\ t \notin Opaque
           todo  == IF early THEN all ELSE <<>>
           late  == IF t \in Opaque THEN all ELSE q.extras
           s     == [Blank(t, q.peer) EXCEPT !.todo = todo, !.late = late, !.metaAt = q.metaAt]
           n     == NextItem(s)
<1>1. /\ all \in Seq(Item) /\ q.extras \in Seq(Item) /\ NoClues \in Row
      /\ q.metaAt \in Index \cup {None} /\ q.peer \in Peer
    BY SentItems, RequestKnown DEF Request, NoClues, Row
<1>2. /\ q.base = <<>> => all = q.extras
      /\ q.base # <<>> => all # <<>>
      /\ ~ LeadsMain(q.extras)
    BY RequestKnown
<1>3. Step(c, n)
    BY DEF StartSend
<1> HIDE DEF all
<1>4. /\ todo \in Seq(Item) /\ late \in Seq(Item) /\ todo \in {<<>>, all}
      /\ late \in {all, q.extras} /\ (IF todo = <<>> THEN late ELSE todo) = all
      /\ t \notin Opaque => ~ LeadsMain(late)
    BY <1>1, <1>2
<1> HIDE DEF todo, late
<1>5. /\ s \in Handlers /\ s.tx = t /\ s.stage = "before" /\ s.accepted = FALSE
      /\ s.todo = todo /\ s.late = late /\ s.row = NoClues
    BY <1>1, <1>4 DEF Handlers, Blank, Places
<1> HIDE DEF s
<1>6. /\ n.tx = t /\ n.stage = "before" /\ ~ n.accepted /\ n.todo = todo /\ n.late = late
      /\ n.row = NoClues /\ n.pc = IF todo = <<>> THEN Emptied(s) ELSE "prune"
    BY <1>5, NextItemFields
<1>7. Emptied(s) = "broadcast"
    BY <1>5 DEF Emptied
<1> HIDE DEF n
<1>8. calls'[c] = n /\ \A d \in Call : d # c => calls'[d] = calls[d]
    BY <1>3 DEF Step, Inv, TypeOK
<1> QED
    BY <1>4, <1>6, <1>7, <1>8 DEF all

\* A registration has its one clue.
LEMMA RegisterHas ==
    ASSUME Inv, NEW c \in Call, NEW t \in Tx, NEW p \in Peer,
           NEW item \in Registrations[t], StartRegister(c, t, p, item)
    PROVE  LET r == calls'[c]
           IN  /\ r.tx = t /\ r.stage = "register" /\ r.row = NoClues
               /\ r.todo = <<item>> /\ r.late = <<>>
               /\ \A d \in Call : d # c => calls'[d] = calls[d]
<1> DEFINE one   == <<item>>
           blank == Blank(t, p)
           r     == [blank EXCEPT !.stage = "register", !.todo = one]
<1>1. Step(c, r)
    BY DEF StartRegister
<1> HIDE DEF one
<1>2. r.tx = t /\ r.stage = "register" /\ r.row = NoClues /\ r.todo = one /\ r.late = <<>>
    BY DEF Blank
<1> HIDE DEF r
<1>3. calls'[c] = r /\ \A d \in Call : d # c => calls'[d] = calls[d]
    BY <1>1 DEF Step, Inv, TypeOK
<1> QED
    BY <1>2, <1>3 DEF one

\* What a handler's own step leaves of its items.
LEMMA OwnKnown ==
    ASSUME Inv, ParkedInv, KnownInv, NEW c \in Call, OwnStep(c)
    PROVE  /\ CallKnown(calls'[c])
           /\ InsertHints(c) => RowKnown(calls[c].tx, AddClue(calls[c].row, Head(calls[c].todo)))
<1> DEFINE call == calls[c]
           r    == calls'[c]
<1>1. call # None /\ call \in Handlers /\ call.tx \in Tx
    BY OwnItems DEF Inv, TypeOK, Handlers
<1>2. PICK t \in Tx : t = call.tx
    BY <1>1
<1>3. /\ RowKnown(t, call.row) /\ AllKnown(t, call.todo) /\ AllKnown(t, call.late)
      /\ RowKnown(t, hints[t]) /\ RowKnown(t, NoClues) /\ AllKnown(t, <<>>)
    BY <1>1, <1>2, EmptyItems DEF KnownInv, CallKnown
<1>4. r.tx = t
    <2>1. PICK s \in Handlers : StepsTo(c, s)
        BY OwnSteps
    <2> QED
        BY <1>2, <2>1 DEF StepsTo, Moved, Follows, Step, Inv, TypeOK
<1>5. call.todo \in Seq(Item) /\ call.late \in Seq(Item)
    BY <1>1 DEF Handlers
<1>6. call.todo # <<>> => Head(call.todo) \in Known(t) /\ AllKnown(t, Tail(call.todo))
    <2> SUFFICES ASSUME call.todo # <<>>
                 PROVE  Head(call.todo) \in Known(t) /\ AllKnown(t, Tail(call.todo))
        OBVIOUS
    <2> DEFINE s == call.todo
    <2>1. s \in Seq(Item) /\ s # <<>>
        BY <1>5
    <2> HIDE DEF s
    <2>2. 1 \in DOMAIN s /\ Head(s) = s[1]
        BY <2>1
    <2>3. \A i \in DOMAIN Tail(s) : i + 1 \in DOMAIN s /\ Tail(s)[i] = s[i + 1]
        BY <2>1
    <2>4. AllKnown(t, s)
        BY <1>3 DEF s
    <2>5. Head(s) \in Known(t) /\ AllKnown(t, Tail(s))
        BY <2>2, <2>3, <2>4 DEF AllKnown
    <2> QED
        BY <2>5 DEF s
<1>7. CallKnown(r)
    <2>1. CASE SameItem(c, call, r)
        BY <1>2, <1>3, <1>4, <2>1 DEF SameItem, CallKnown
    <2>2. CASE ItemOver(c, call, r)
        <3>1. r.todo = Tail(call.todo) /\ r.late = call.late /\ r.row \in {call.row, NoClues}
              /\ call.todo # <<>>
            BY <2>2 DEF ItemOver
        <3> QED
            BY <1>3, <1>4, <1>6, <3>1 DEF CallKnown
    <2>3. CASE LateItems(call, r)
        BY <1>3, <1>4, <2>3 DEF LateItems, CallKnown
    <2> QED
        BY <2>1, <2>2, <2>3, OwnItems
<1>8. ASSUME InsertHints(c) PROVE RowKnown(t, AddClue(call.row, Head(call.todo)))
    <2> DEFINE item == Head(call.todo)
    <2>1. call.todo # <<>> /\ call.row \in Row
        BY <1>1, <1>8 DEF InsertHints, At, Inv, Calls, Busy, Parking, Handlers
    <2>2. item \in Known(t)
        BY <1>6, <2>1
    <2> HIDE DEF item
    <2>3. \A i \in Index : AddClue(call.row, item)[i] = IF i = item.at THEN item.clue ELSE call.row[i]
        BY <2>1 DEF AddClue, Row
    <2> QED
        BY <1>3, <2>2, <2>3 DEF RowKnown, item
<1> QED
    BY <1>2, <1>7, <1>8

\* Whatever is parked was sent or registered.
LEMMA KnownStep ==
    ASSUME Inv, Alone, ParkedInv, KnownInv, [Next]_vars
    PROVE  KnownInv'
<1>1. ASSUME NEW t \in Tx PROVE RowKnown(t, hints'[t])
    <2>1. RowKnown(t, hints[t]) /\ RowKnown(t, NoClues)
        BY EmptyItems DEF KnownInv
    <2>2. Spares(t) => RowKnown(t, hints'[t])
        BY <2>1 DEF Spares
    <2>3. ASSUME NEW c \in Call, OwnStep(c) PROVE RowKnown(t, hints'[t])
        <3>1. CASE calls[c].tx # t
            BY <2>2, <2>3, <3>1, HandlerSpares
        <3>2. CASE calls[c].tx = t
            <4>1. InsertHints(c) => RowKnown(calls[c].tx, AddClue(calls[c].row, Head(calls[c].todo)))
                BY <2>3, OwnKnown
            <4> QED
                BY <2>1, <2>3, <3>2, <4>1, OwnRow
        <3> QED
            BY <3>1, <3>2
    <2>4. ASSUME NEW c \in Call, Leaves(c) PROVE Spares(t)
        BY <2>4, LeavesSpare
    <2> QED
        BY <2>2, <2>3, <2>4, StepKinds, StartSpares, OthersSpare
<1>2. ASSUME NEW d \in Call, calls'[d] # None PROVE CallKnown(calls'[d])
    <2>1. CASE calls[d] # None
        <3>1. calls[d].tx \in Tx
            BY <2>1 DEF Inv, TypeOK, Handlers
        <3>2. OwnStep(d) \/ Rests(calls[d], calls'[d])
            BY <1>2, <2>1, <3>1, OwnOrRests
        <3>3. CASE Rests(calls[d], calls'[d])
            BY <2>1, <3>3 DEF Rests, KnownInv, CallKnown
        <3> QED
            BY <1>2, <3>2, <3>3, OwnKnown
    <2>2. CASE calls[d] = None
        <3>1. Start
            BY <1>2, <2>2, CallsStay
        <3>2. ASSUME NEW c \in Call, NEW t \in Tx, NEW q \in Requests[t], StartSend(c, t, q)
              PROVE  c = d /\ CallKnown(calls'[d])
            <4>1. c = d
                BY <1>2, <2>2, <3>2, SendHas
            <4> DEFINE all == q.base \o q.extras
                       r   == calls'[d]
            <4>2. r.tx = t /\ r.row = NoClues /\ r.todo \in {<<>>, all} /\ r.late \in {all, q.extras}
                BY <3>2, <4>1, SendHas
            <4>3. AllKnown(t, all) /\ AllKnown(t, q.extras) /\ AllKnown(t, <<>>) /\ RowKnown(t, NoClues)
                BY RequestKnown, EmptyItems
            <4> HIDE DEF all, r
            <4>4. CallKnown(r)
                BY <4>2, <4>3 DEF CallKnown
            <4> QED
                BY <4>1, <4>4 DEF r
        <3>3. ASSUME NEW c \in Call, NEW t \in Tx, NEW p \in Peer, NEW item \in Registrations[t],
                     StartRegister(c, t, p, item)
              PROVE  c = d /\ CallKnown(calls'[d])
            <4>1. c = d
                BY <1>2, <2>2, <3>3, RegisterHas
            <4> DEFINE one == <<item>>
                       r   == calls'[d]
            <4>2. r.tx = t /\ r.row = NoClues /\ r.todo = one /\ r.late = <<>>
                BY <3>3, <4>1, RegisterHas
            <4>3. AllKnown(t, one) /\ AllKnown(t, <<>>) /\ RowKnown(t, NoClues)
                BY EmptyItems DEF AllKnown, Known
            <4> HIDE DEF one, r
            <4>4. CallKnown(r)
                BY <4>2, <4>3 DEF CallKnown
            <4> QED
                BY <4>1, <4>4 DEF r
        <3> QED
            BY <3>1, <3>2, <3>3 DEF Start
    <2> QED
        BY <2>1, <2>2
<1>3. \A t \in Tx : RowKnown(t, hints'[t])
    BY <1>1
<1>4. \A d \in Call : calls'[d] # None => CallKnown(calls'[d])
    BY <1>2
<1> QED
    BY <1>3, <1>4 DEF KnownInv

\* Only the broadcast lets darkfid have a transaction.
LEMMA HeardGrows ==
    ASSUME [Next]_vars
    PROVE  UNCHANGED heard \/ \E c \in Call : Take(c)
BY DEF Next, Start, StartSend, StartRegister, Park, Finish, Poller, Tick, vars,
       Stale, RemoveHints, RemoveStamp, LookToCheck, LookToStore, InsertHints, InsertStamp,
       SweepCollect, SweepHints, SweepStamp,
       Accepted, Refused, TimedOut, Remember, HasMeta, PutMeta, Answer,
       StartMerge, Unindex, MergeStale, MergeDropHints, MergeDropStamp, MergeClues,
       MergeMeta, TakeMeta, WriteBlock

\* A step of the poller merges a transaction darkfid took.
LEMMA MergeKnownStep ==
    ASSUME Inv, MergeKnown, [Next]_vars
    PROVE  MergeKnown'
<1>1. heard \subseteq heard'
    BY HeardGrows DEF Take
<1>2. poll # None => poll \in Merges /\ poll.tx \in Tx
    BY DEF Inv, TypeOK, Merges
<1>3. CASE ~ Poller
    BY <1>1, <1>3, NotPoller DEF MergeKnown
<1>4. ASSUME NEW t \in Tx, StartMerge(t) PROVE MergeKnown'
    BY <1>1, <1>4 DEF StartMerge, MergeKnown
<1>5. ASSUME NEW t \in Tx, Unindex(t) PROVE MergeKnown'
    BY <1>1, <1>5 DEF Unindex, MergeKnown, Inv, TypeOK
<1>6. ASSUME MergeStale \/ MergeDropHints \/ MergeDropStamp \/ MergeClues \/ MergeMeta \/ TakeMeta
      PROVE  UNCHANGED index /\ poll # None /\ poll'.tx = poll.tx
    BY <1>2, <1>6 DEF MergeStale, MergeDropHints, MergeDropStamp, MergeClues, MergeMeta, TakeMeta,
           Merging, MergeTo, Merges
<1>7. CASE WriteBlock
    <2>1. poll # None /\ poll' = None
        BY <1>7 DEF WriteBlock, Merging
    <2>2. \A t \in Tx : index'[t] # None => t = poll.tx \/ index[t] # None
        BY <1>7 DEF WriteBlock, Inv, TypeOK
    <2> QED
        BY <1>1, <2>1, <2>2 DEF MergeKnown
<1> QED
    BY <1>1, <1>3, <1>4, <1>5, <1>6, <1>7 DEF Poller, MergeKnown

-----------------------------------------------------------------------------
(* Each step keeps what is known of the sends.                              *)

\* No step makes a call of extra clues one of the recipient's clue.
LEMMA NoLateMain ==
    ASSUME Inv, ParkedInv, NEW d \in Call, OwnStep(d),
           calls[d].stage = "after" => ~ LeadsMain(calls[d].todo),
           calls[d].stage = "before" => ~ LeadsMain(calls[d].late)
    PROVE  /\ calls'[d].stage = "after" => ~ LeadsMain(calls'[d].todo)
           /\ calls'[d].stage = "before" => ~ LeadsMain(calls'[d].late)
<1> DEFINE call == calls[d]
           r    == calls'[d]
<1>1. call # None /\ call \in Handlers
    BY OwnItems DEF Inv, TypeOK
<1>2. Parked(call, hints[call.tx], stamp[call.tx])
    BY <1>1 DEF ParkedInv
<1>3. CASE SameItem(d, call, r)
    BY <1>3 DEF SameItem
<1>4. CASE ItemOver(d, call, r)
    <2>1. call.todo \in Seq(Item) /\ call.todo # <<>> /\ MainFirst(call.todo)
        BY <1>1, <1>2, <1>4 DEF ItemOver, Handlers, Parked, Shape
    <2>2. ~ LeadsMain(Tail(call.todo))
        BY <2>1, TailMain
    <2> QED
        BY <1>4, <2>2 DEF ItemOver
<1>5. CASE LateItems(call, r)
    <2>1. call.stage = "before"
        BY <1>2, <1>5 DEF LateItems, Parked, Shape
    <2> QED
        BY <1>5, <2>1, EmptyItems DEF LateItems
<1> QED
    BY <1>3, <1>4, <1>5, OwnItems

\* A handler that waits.
LEMMA RestsSends ==
    ASSUME OnceInv, MergeKnown, KnownInv, OneCallPerTx, OneClueEach, [Next]_vars,
           NEW d \in Call, calls[d] # None, NEW t \in Tx, t = calls[d].tx, t \notin Opaque,
           MergedOf(t), NEW r, r = calls'[d], r # None, Rests(calls[d], r), Spares(t), NEW ask,
           AskedOf(calls[d], ask), SendInv(calls[d], ask)
    PROVE  SendInv(r, ask)'
<1>1. Inv /\ Alone /\ ParkedInv
    BY DEF OnceInv, Good
<1>2. Early(r) <=> Early(calls[d])
    BY DEF Rests, Early, Parking
<1>3. Holds(r) <=> Holds(calls[d])
    BY DEF Rests, Holds, Sends, Refusal
<1>4. ASSUME Early(r) PROVE t \notin heard' /\ \E n \in Nat : InHand(n, t, r, ask)'
    <2>1. PICK n \in Nat : InHand(n, t, calls[d], ask)
        BY <1>2, <1>4 DEF SendInv
    <2>2. InHand(n, t, r, ask)'
        BY <1>2, <1>4, <2>1, RestsInHand DEF AskedOf
    <2>3. ASSUME NEW c \in Call, Take(c) PROVE calls[c].tx # t
        <3>1. calls[c] # None /\ calls[c].pc = "broadcast"
            BY <2>3 DEF Take, At
        <3> QED
            BY <1>1, <1>2, <1>4, <3>1 DEF Alone, Early, Parking
    <2>4. t \notin heard'
        BY <1>2, <1>4, <2>3, HeardGrows DEF SendInv, Take
    <2> QED
        BY <2>2, <2>4
<1>5. ASSUME Holds(r), ~ Early(r) PROVE Carried(t, ask)'
    <2>1. Carried(t, ask)
        BY <1>2, <1>3, <1>5 DEF SendInv
    <2>2. calls[d].pc \notin Refusal
        BY <1>3, <1>5 DEF Holds
    <2> QED
        BY <1>1, <2>1, <2>2, NoneRefused, CarriedStays
<1>6. r.tx = t /\ ask.items \in AllSent(t)
    BY DEF Rests, SendInv
<1>7. (r.stage = "after" => ~ LeadsMain(r.todo)) /\ (r.stage = "before" => ~ LeadsMain(r.late))
    BY DEF Rests, SendInv
<1> QED
    BY <1>4, <1>5, <1>6, <1>7 DEF SendInv

\* A handler's own step.
LEMMA OwnSends ==
    ASSUME OnceInv, MergeKnown, KnownInv, OneCallPerTx, OneClueEach, [Next]_vars,
           NEW d \in Call, OwnStep(d), NEW t \in Tx, t = calls[d].tx, t \notin Opaque,
           MergedOf(t), NEW r, r = calls'[d], Sends(calls[d]), NEW ask,
           AskedOf(calls[d], ask), SendInv(calls[d], ask)
    PROVE  SendInv(r, ask)'
<1> DEFINE call == calls[d]
<1>1. /\ Inv /\ Alone /\ ParkedInv /\ call # None /\ ask.items \in AllSent(t)
      /\ SameItem(d, call, r) \/ ItemOver(d, call, r) \/ LateItems(call, r)
      /\ UNCHANGED <<poll, index>> /\ heard' = heard
    BY OwnItems, OwnRows DEF OnceInv, Good, SendInv
<1>2. StepsTo(d, r)
    <2>1. PICK s \in Handlers : StepsTo(d, s)
        BY <1>1, OwnSteps
    <2>2. s = r
        BY <1>1, <2>1 DEF StepsTo, Step, Inv, TypeOK
    <2> QED
        BY <2>1, <2>2
<1>3. r.tx = t /\ (Holds(r) => Holds(call) \/ NowParked(call))
    BY <1>2 DEF StepsTo, Moved, Follows
<1>4. ask.since \in Time /\ ask.since <= now
    BY DEF AskedOf
<1>5. ASSUME Early(call)
      PROVE  /\ t \notin heard' /\ ~ LateItems(call, r)
             /\ Early(r) => \E n \in Nat : InHand(n, t, r, ask)'
             /\ ~ Early(r) => Carried(t, ask)'
    <2>1. PICK n \in Nat : InHand(n, t, call, ask)
        BY <1>5 DEF SendInv
    <2>2. ~ LateItems(call, r) /\ t \notin heard /\ t \notin heard'
        BY <1>1, <1>5 DEF LateItems, Early, Parking, SendInv
    <2>3. CASE SameItem(d, call, r)
        <3>1. Early(r) /\ InHand(n, t, r, ask)'
            BY <1>1, <1>4, <1>5, <2>1, <2>3, SameInHand
        <3> QED
            BY <2>2, <3>1
    <2>4. CASE ItemOver(d, call, r)
        <3>1. /\ Early(r) => InHand(n + 1, t, r, ask)'
              /\ ~ Early(r) => \A k \in DOMAIN ask.items : Kept(t, ask, k)'
            BY <1>1, <1>4, <1>5, <2>1, <2>4, OverInHand
        <3>2. ASSUME ~ Early(r) PROVE Carried(t, ask)'
            <4>1. (poll' # None => poll'.tx # t) /\ index'[t] = None
                BY <1>1, <2>2 DEF MergeKnown
            <4>2. now' = now
                BY OwnRows, <1>1
            <4>3. ask.since <= now'
                BY <1>4, <4>2
            <4> QED
                BY <1>1, <1>4, <3>1, <3>2, <4>1, <4>3 DEF Carried
        <3>3. n + 1 \in Nat
            OBVIOUS
        <3> QED
            BY <2>2, <3>1, <3>2, <3>3
    <2> QED
        BY <1>1, <2>2, <2>3, <2>4
<1>6. ASSUME ~ Early(call) PROVE ~ Early(r)
    BY <1>1, <1>6 DEF Early, SameItem, ItemOver, LateItems, InsertStamp, At, Parking
<1>7. ASSUME Holds(r), ~ Early(r) PROVE Carried(t, ask)'
    <2>1. CASE Early(call)
        BY <1>5, <1>7, <2>1
    <2>2. CASE ~ Early(call)
        <3>1. ~ NowParked(call)
            BY <2>2 DEF NowParked, SendInv, Sends, Early, Parking
        <3>2. Holds(call) /\ call.pc \notin Refusal
            BY <1>3, <1>7, <3>1 DEF Holds
        <3>3. Carried(t, ask)
            BY <2>2, <3>2 DEF SendInv
        <3> QED
            BY <1>1, <3>2, <3>3, NoneRefused, CarriedStays
    <2> QED
        BY <2>1, <2>2
<1>8. (r.stage = "after" => ~ LeadsMain(r.todo)) /\ (r.stage = "before" => ~ LeadsMain(r.late))
    BY <1>1, NoLateMain DEF SendInv
<1>9. ASSUME Early(r) PROVE t \notin heard' /\ \E n \in Nat : InHand(n, t, r, ask)'
    BY <1>5, <1>6, <1>9
<1> QED
    BY <1>1, <1>3, <1>7, <1>8, <1>9 DEF SendInv

\* A send begins with nothing parked.
LEMMA StartSends ==
    ASSUME OnceInv, ~ Resends, NEW d \in Call, NEW t \in Tx, t \notin Opaque,
           NEW q \in Requests[t], StartSend(d, t, q), NEW r, r = calls'[d],
           NEW ask, ask.items = IF r.todo = <<>> THEN r.late ELSE r.todo
    PROVE  r.tx = t /\ SendInv(r, ask)'
<1>1. Inv /\ SentFirst /\ UNCHANGED <<hints, heard>>
    BY DEF OnceInv, StartSend
<1> DEFINE all == q.base \o q.extras
<1>2. /\ r.tx = t /\ r.stage = "before" /\ ~ r.accepted /\ r.row = NoClues
      /\ r.todo \in {<<>>, all} /\ (IF r.todo = <<>> THEN r.late ELSE r.todo) = all
      /\ ~ LeadsMain(r.late)
      /\ r.pc = IF r.todo = <<>> THEN "broadcast" ELSE "prune"
    BY <1>1, SendHas
<1>3. all \in AllSent(t)
    BY RequestKnown
<1>4. all \in Seq(Item)
    BY <1>3, SentItems
<1> HIDE DEF all
<1>5. Unseen(t)
    BY <1>1 DEF StartSend, SentFirst
<1>6. hints'[t] = NoClues /\ t \notin heard'
    BY <1>1, <1>5 DEF Unseen
<1>7. ASSUME Early(r) PROVE InHand(0, t, r, ask)'
    <2>1. r.todo = all /\ ask.items = all /\ r.pc = "prune"
        BY <1>2, <1>7 DEF Early, Parking
    <2>2. Len(all) = 0 + Len(all) /\ \A k \in 1 .. Len(all) : 0 + k = k
        BY <1>4
    <2>3. Only(hints'[t], ask.items, 0)
        BY <1>6 DEF Only, NoClues
    <2> QED
        BY <1>2, <2>1, <2>2, <2>3 DEF InHand
<1>8. ~ Holds(r)
    BY <1>2 DEF Holds
<1>9. Early(r) => \E n \in Nat : InHand(n, t, r, ask)'
    BY <1>7
<1> QED
    BY <1>2, <1>3, <1>6, <1>8, <1>9 DEF SendInv

CarryInv == KeptInv /\ MergeKnown /\ KnownInv /\ CarriedInv

\* What Record does to the call of a handler that goes on, and to the blocks.
LEMMA Recorded ==
    ASSUME Record
    PROVE  /\ \A d \in Call : calls[d] # None /\ calls'[d] # None => asked'[d] = asked[d]
           /\ \A t \in Tx : MergedOf(t)
BY DEF Record, MergedOf

\* The part of the invariant for one call, which any step keeps.
LEMMA SendsStep ==
    ASSUME CarryInv, OneCallPerTx, ~ Resends, OneClueEach, [Next]_vars, Record,
           NEW d \in Call, calls'[d] # None, Sends(calls'[d]), calls'[d].tx \notin Opaque,
           NEW r, r = calls'[d], NEW ask, ask = asked'[d]
    PROVE  SendInv(r, ask)'
<1>1. /\ OnceInv /\ Inv /\ Alone /\ ParkedInv /\ MergeKnown /\ KnownInv
    BY DEF CarryInv, KeptInv, OnceInv, Good
<1>2. CASE calls[d] # None
    <2>1. calls[d] \in Handlers /\ calls[d].tx \in Tx
        BY <1>1, <1>2 DEF Inv, TypeOK, Handlers
    <2>2. PICK t \in Tx : t = calls[d].tx
        BY <2>1
    <2>3. ask = asked[d] /\ MergedOf(t)
        BY <1>2, Recorded
    <2>4. AskedOf(calls[d], ask)
        <3>1. AskedOf(calls[d], asked[d])
            BY <1>2 DEF CarryInv, KeptInv, AskedInv
        <3> QED
            BY <2>3, <3>1
    <2>5. Sends(calls[d]) /\ t \notin Opaque => SendInv(calls[d], ask)
        <3>1. Sends(calls[d]) /\ calls[d].tx \notin Opaque => SendInv(calls[d], asked[d])
            BY <1>2 DEF CarryInv, CarriedInv
        <3> QED
            BY <2>2, <2>3, <3>1
    <2>6. CASE Rests(calls[d], r) /\ Spares(t)
        <3>1. Sends(calls[d]) /\ t \notin Opaque
            BY <2>2, <2>6 DEF Rests, Sends
        <3> QED
            BY <1>1, <1>2, <2>2, <2>3, <2>4, <2>5, <2>6, <3>1, RestsSends
    <2>7. CASE OwnStep(d)
        <3>1. PICK s \in Handlers : StepsTo(d, s)
            BY <1>1, <2>7, OwnSteps
        <3>2. s = r
            BY <1>1, <3>1 DEF StepsTo, Step, Inv, TypeOK
        <3>3. r.tx = t /\ Sends(calls[d])
            BY <2>1, <2>2, <3>1, <3>2 DEF StepsTo, Moved, Follows, Sends, Handlers
        <3> QED
            BY <1>1, <2>2, <2>3, <2>4, <2>5, <2>7, <3>3, OwnSends
    <2> QED
        BY <1>1, <1>2, <2>2, <2>6, <2>7, OwnOrRests
<1>3. CASE calls[d] = None
    <2>1. Start
        BY <1>1, <1>3, CallsStay
    <2>2. ask.items = IF r.todo = <<>> THEN r.late ELSE r.todo
        BY <1>3 DEF Record, Ask
    <2>3. ASSUME NEW c \in Call, NEW t \in Tx, NEW q \in Requests[t], StartSend(c, t, q)
          PROVE  SendInv(r, ask)'
        <3>1. c = d
            BY <1>1, <1>3, <2>3, SendHas
        <3>2. r.tx = t
            BY <1>1, <2>3, <3>1, SendHas
        <3> QED
            BY <1>1, <2>2, <2>3, <3>1, <3>2, StartSends
    <2>4. ASSUME NEW c \in Call, NEW t \in Tx, NEW p \in Peer, NEW item \in Registrations[t],
                 StartRegister(c, t, p, item)
          PROVE  FALSE
        <3>1. c = d
            BY <1>1, <1>3, <2>4, RegisterHas
        <3> QED
            BY <1>1, <2>4, <3>1, RegisterHas DEF Sends
    <2> QED
        BY <2>1, <2>3, <2>4 DEF Start
<1> QED
    BY <1>2, <1>3

\* What a client was told, or is told now, is carried.
LEMMA ToldCarried ==
    ASSUME CarryInv, OneCallPerTx, OneClueEach, [Next]_vars, Record,
           NEW x \in told', NEW t \in Tx, t = x.tx, t \notin Opaque, NEW ask, ask = x.asked
    PROVE  Carried(t, ask)'
<1>1. /\ OnceInv /\ Inv /\ Alone /\ ParkedInv /\ MergeKnown /\ KnownInv /\ MergedOf(t)
    BY Recorded DEF CarryInv, KeptInv, OnceInv, Good
<1>2. CASE x \in told
    <2>1. Carried(t, ask)
        <3>1. Carried(x.tx, x.asked)
            BY <1>2 DEF CarryInv, CarriedInv
        <3> QED
            BY <3>1
    <2>2. ASSUME NEW c \in Call, calls[c] # None, calls[c].tx = t
          PROVE  calls[c].pc \notin Refusal
        <3>1. calls[c].stage = "register" /\ Shape(calls[c])
            BY <1>1, <1>2, <2>2 DEF CarryInv, KeptInv, ToldInv, ParkedInv, Parked
        <3> QED
            BY <3>1 DEF Shape
    <2> QED
        BY <1>1, <2>1, <2>2, CarriedStays
<1>3. ASSUME NEW c \in Call, Tells(c), x = [tx |-> calls[c].tx, asked |-> asked[c]]
      PROVE  Carried(t, ask)'
    <2>1. /\ calls[c] # None /\ Sends(calls[c]) /\ Holds(calls[c]) /\ ~ Early(calls[c])
          /\ calls[c].pc \notin Refusal /\ calls[c].tx = t /\ asked[c] = ask
        BY <1>3 DEF Tells, At, Holds, Sends, Refusal, Early
    <2>2. Carried(t, ask)
        <3>1. SendInv(calls[c], asked[c])
            BY <2>1 DEF CarryInv, CarriedInv
        <3> QED
            BY <2>1, <3>1 DEF SendInv
    <2> QED
        BY <1>1, <2>1, <2>2, NoneRefused, CarriedStays
<1> QED
    BY <1>2, <1>3 DEF Record

\* The invariant after a step, for the calls and for what clients were told.
LEMMA CarriedStep ==
    ASSUME CarryInv, OneCallPerTx, ~ Resends, OneClueEach, [Next]_vars, Record
    PROVE  CarriedInv'
<1>1. ASSUME NEW d \in Call, calls'[d] # None, Sends(calls'[d]), calls'[d].tx \notin Opaque
      PROVE  SendInv(calls[d], asked[d])'
    <2>1. PICK r : r = calls'[d]
        OBVIOUS
    <2>2. PICK ask : ask = asked'[d]
        OBVIOUS
    <2>3. SendInv(r, ask)'
        BY <1>1, <2>1, <2>2, SendsStep
    <2>4. ASSUME NEW n \in Nat, InHand(n, r.tx, r, ask)'
          PROVE  InHand(n, calls[d].tx, calls[d], asked[d])'
        BY <2>1, <2>2, <2>4 DEF InHand, Kept, Safe, One, Doomed, Only
    <2>5. Carried(r.tx, ask)' => Carried(calls[d].tx, asked[d])'
        BY <2>1, <2>2 DEF Carried, Kept, Safe, One, Doomed
    <2>6. Early(calls[d])' => calls'[d].tx \notin heard' /\ \E n \in Nat : InHand(n, calls[d].tx, calls[d], asked[d])'
        <3>1. Early(calls[d])' => Early(r)'
            BY <2>1 DEF Early
        <3>2. Early(r)' => r.tx \notin heard' /\ \E n \in Nat : InHand(n, r.tx, r, ask)'
            BY <2>3 DEF SendInv
        <3>3. (\E n \in Nat : InHand(n, r.tx, r, ask)') => \E n \in Nat : InHand(n, calls[d].tx, calls[d], asked[d])'
            BY <2>4
        <3> QED
            BY <2>1, <3>1, <3>2, <3>3
    <2>7. (Holds(calls[d]) /\ ~ Early(calls[d]))' => Carried(calls[d].tx, asked[d])'
        <3>1. (Holds(calls[d]) /\ ~ Early(calls[d]))' => (Holds(r) /\ ~ Early(r))'
            BY <2>1 DEF Early, Holds
        <3>2. (Holds(r) /\ ~ Early(r))' => Carried(r.tx, ask)'
            BY <2>3 DEF SendInv
        <3> QED
            BY <2>5, <3>1, <3>2
    <2>8. /\ (asked[d].items \in AllSent(calls[d].tx))'
          /\ (calls[d].stage = "after" => ~ LeadsMain(calls[d].todo))'
          /\ (calls[d].stage = "before" => ~ LeadsMain(calls[d].late))'
        BY <2>1, <2>2, <2>3 DEF SendInv, LeadsMain
    <2> QED
        BY <2>6, <2>7, <2>8 DEF SendInv
<1>2. ASSUME NEW x \in told', x.tx \notin Opaque PROVE Carried(x.tx, x.asked)'
    <2>1. x.tx \in Tx
        <3>1. sent' \subseteq Tx /\ ToldInv'
            BY NextInv, ToldStep DEF CarryInv, KeptInv, OnceInv, Inv, TypeOK
        <3> QED
            BY <3>1 DEF ToldInv
    <2>2. PICK t \in Tx : t = x.tx
        BY <2>1
    <2>3. PICK ask : ask = x.asked
        OBVIOUS
    <2>4. Carried(t, ask)'
        BY <1>2, <2>2, <2>3, ToldCarried
    <2> QED
        BY <2>2, <2>3, <2>4 DEF Carried, Kept, Safe, One, Doomed
<1> QED
    BY <1>1, <1>2 DEF CarriedInv

LEMMA CarryNext ==
    ASSUME CarryInv, OneCallPerTx, ~ Resends, OneClueEach, [Next /\ Record]_<<vars, history>>
    PROVE  CarryInv'
<1>1. [Next]_vars
    BY DEF history
<1>2. KeptInv'
    BY KeptNext DEF CarryInv
<1>3. MergeKnown' /\ KnownInv'
    BY <1>1, MergeKnownStep, KnownStep DEF CarryInv, KeptInv, OnceInv, Good
<1>4. CASE Next /\ Record
    BY <1>1, <1>2, <1>3, <1>4, CarriedStep DEF CarryInv
<1>5. CASE UNCHANGED <<vars, history>>
    <2>1. /\ now' = now /\ hints' = hints /\ stamp' = stamp /\ calls' = calls
          /\ sweep' = sweep /\ poll' = poll /\ index' = index /\ heard' = heard
        BY <1>5 DEF vars
    <2>2. asked' = asked /\ told' = told /\ merged' = merged
        BY <1>5 DEF history
    <2>3. ASSUME NEW t, NEW ask, NEW k PROVE Kept(t, ask, k)' <=> Kept(t, ask, k)
        BY <2>1 DEF Kept, Safe, One, Doomed
    <2>4. ASSUME NEW t, NEW ask PROVE Carried(t, ask)' <=> Carried(t, ask)
        BY <2>1, <2>2, <2>3 DEF Carried
    <2>5. ASSUME NEW n, NEW t, NEW call, NEW ask PROVE InHand(n, t, call, ask)' <=> InHand(n, t, call, ask)
        BY <2>1, <2>3 DEF InHand
    <2>6. ASSUME NEW call, NEW ask PROVE SendInv(call, ask)' <=> SendInv(call, ask)
        BY <2>1, <2>4, <2>5 DEF SendInv
    <2>7. CarriedInv'
        BY <2>1, <2>2, <2>4, <2>6 DEF CarryInv, CarriedInv
    <2> QED
        BY <1>2, <1>3, <2>7 DEF CarryInv
<1> QED
    BY <1>4, <1>5

\* Where a transaction is sent once, no two calls about it overlap and each clue is
\* for one output, the clues that were sent with an accepted transaction are on it in
\* every block it is in within the day, however often a reorg takes it out of one,
\* whatever is swept, registered besides or parked while the poller merges.
THEOREM SentCluesReachBlocks ==
    OneCallPerTx /\ ~ Resends /\ OneClueEach /\ MCSpec => []SentCluesIndexed
<1> SUFFICES ASSUME OneCallPerTx, ~ Resends, OneClueEach PROVE MCSpec => []SentCluesIndexed
    OBVIOUS
<1>1. MCInit => CarryInv
    <2> SUFFICES ASSUME MCInit PROVE CarryInv
        OBVIOUS
    <2>1. MergeKnown /\ KnownInv /\ CarriedInv
        BY EmptyItems DEF MCInit, Init, MergeKnown, KnownInv, CarriedInv
    <2> QED
        BY <2>1, KeptInit DEF CarryInv
<1>2. CarryInv /\ [Next /\ Record]_<<vars, history>> => CarryInv'
    BY CarryNext
<1>3. CarryInv => SentCluesIndexed
    BY DEF CarryInv, CarriedInv, Carried, Carries, SentCluesIndexed
<1> QED
    BY <1>1, <1>2, <1>3, PTL DEF MCSpec
================================================================================
