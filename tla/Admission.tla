------------------------------ MODULE Admission ------------------------------
(***************************************************************************)
(* What the FHE handlers take before they work and give back afterwards    *)
(* (src/src/server.rs): credits of a rate limiter, a slot and the declared *)
(* bytes of an upload, a slot of FetchPirBatch, one of the permits of the  *)
(* blocking workers.  A handler may be dropped at any await: its client    *)
(* goes away or its request times out.  What it holds itself is then given *)
(* back; a worker that runs keeps its permit to its end.                   *)
(*                                                                         *)
(* Calls is a set of slots for calls, each used again and again.           *)
(***************************************************************************)
EXTENDS RateLimiter, DetectionPool

CONSTANTS
    Calls,
    Origins,       \* pairs of a TCP peer and its X-Forwarded-For hops
    Proxies,       \* trusted_proxies, the addresses its entries match
    KeyBytes,      \* max_detection_key_bytes, also the cap on all keys of a call
    MaxKeys,       \* the most keys of one upload
    UploadBudget,  \* upload_budget_mib in bytes
    MaxUploads,    \* max_uploads_per_ip
    FheWorkers     \* DEFAULT_FHE_PERMITS

Kinds == {"digest", "register", "pool", "pir"}

MaxPirInflight == 1    \* MAX_PIR_INFLIGHT_PER_IP

VARIABLES
    calls,     \* each call: its step, and what it holds
    queue,     \* the calls that wait for a permit, in order
    workers,   \* what each blocking worker runs, or None
    held,      \* upload_bytes, fhe_permits, upload_slots, pir_inflight
    pirTable,  \* pir_rate_limiter; table is omr_rate_limiter
    pool,      \* the detection pool
    issued     \* history: what each handle that was given out stands for

admissionVars == <<calls, queue, workers, held, pirTable, pool, issued>>

NoCall == [step |-> "idle", kind |-> None, peer |-> None, num |-> 0,
           keys |-> <<>>, cur |-> 0, ok |-> FALSE]

AllFree == [bytes |-> UploadBudget, permits |-> FheWorkers,
            uploads |-> [p \in Peers |-> 0], pirs |-> [p \in Peers |-> 0]]

\* peer_ip, client_ip_from_forwarded: behind a trusted proxy, the last hop that
\* is no proxy.
PeerOf(origin) ==
    LET hops == SelectSeq(origin[2], LAMBDA a : a \notin Proxies)
    IN  IF origin[1] \in Proxies /\ hops # <<>> THEN Last(hops) ELSE origin[1]

\* Config::validate; Peers has the address of every caller.
ASSUME AdmissionAssumption ==
    /\ IsFiniteSet(Calls)
    /\ KeyBytes \in Nat \ {0} /\ MaxKeys \in Nat /\ UploadBudget \in Nat
    /\ MaxUploads \in Nat \ {0} /\ FheWorkers \in Nat \ {0}
    /\ \A o \in Origins : PeerOf(o) \in Peers
    /\ None \notin Calls \cup Peers \cup Kinds
    /\ None \notin [call : Calls \cup {None}, kind : Kinds \cup {None}, peer : Peers \cup {None}]

Uploading(call) == call.kind \in {"digest", "register"} /\ call.num # 0
Reserved(call) == IF Uploading(call) THEN call.num * KeyBytes ELSE 0

-----------------------------------------------------------------------------
(* Taking and giving back.                                                  *)

\* What a call still holds when its handler ends: its UploadReservation, its
\* SlotGuard.  Until the header an upload holds nothing.
Released(h, c) ==
    [h EXCEPT !.bytes   = @ + Reserved(calls[c]),
              !.uploads = IF Uploading(calls[c])
                          THEN [h.uploads EXCEPT ![calls[c].peer] = @ - 1] ELSE @,
              !.pirs    = IF calls[c].kind = "pir"
                          THEN [h.pirs EXCEPT ![calls[c].peer] = @ - 1] ELSE @]

\* The call ends: its handler returns or is dropped.
Ends(c, h) ==
    /\ calls' = [calls EXCEPT ![c] = NoCall]
    /\ held' = Released(h, c)

CanReserve(h, p, num) == h.uploads[p] < MaxUploads /\ num * KeyBytes <= h.bytes

AfterReserve_KeepsSlot(h, p, num) ==
    CASE CanReserve(h, p, num) -> [h EXCEPT !.uploads[p] = @ + 1, !.bytes = @ - num * KeyBytes]
      [] ~CanReserve(h, p, num) /\ h.uploads[p] < MaxUploads -> [h EXCEPT !.uploads[p] = @ + 1]
      [] OTHER -> h

\* reserve_upload: the slot, then the bytes; the slot is dropped again when
\* they are not there.
AfterReserve(h, p, num) ==
    IF CanReserve(h, p, num)
    THEN [h EXCEPT !.uploads[p] = @ + 1, !.bytes = @ - num * KeyBytes] ELSE h

\* The slot and the bytes are two steps of the code: another upload of the address
\* that is at its header may have the slot for a moment, to be refused itself.
Crowded(c) ==
    \E d \in Calls \ {c} :
        calls[d].step = "upload" /\ calls[d].num = 0 /\ calls[d].peer = calls[c].peer

\* The state of an upload after a chunk; too large a key, or too many bytes in
\* all, end it.
Buffered(call, d, done) ==
    [call EXCEPT !.keys = IF done THEN Append(@, call.cur + d) ELSE @,
                 !.cur  = IF done THEN 0 ELSE call.cur + d]
Buffers(call) == SumLengths(call.keys) + call.cur
Fits(call) == Buffers(call) <= KeyBytes

-----------------------------------------------------------------------------
(* Uploads: get_unif_omr_digest, register_detection_key.                    *)

Begin(c) ==
    /\ calls[c].step = "idle"
    /\ \E origin \in Origins, kind \in {"digest", "register"} :
          calls' = [calls EXCEPT ![c] = [NoCall EXCEPT !.step = "upload", !.kind = kind,
                                                       !.peer = PeerOf(origin)]]
    /\ UNCHANGED <<queue, workers, held, pirTable, pool, issued, limiterVars>>

\* The first chunk: num_keys, the window of a digest, credits, the
\* reservation; then its data like any other chunk's.  One byte always fits.
Header(c) ==
    /\ calls[c].step = "upload" /\ calls[c].num = 0
    /\ \E num \in 0 .. MaxKeys + 1, d \in 0 .. 1, done, window, beaten \in BOOLEAN :
          LET p     == calls[c].peer
              legal == num \in 1 .. MaxKeys /\ (calls[c].kind = "digest" => window)
              paid  == legal /\ Granted(table, p, num, now) /\ ~beaten
              taken == paid /\ CanReserve(held, p, num)
              call  == Buffered([calls[c] EXCEPT !.num = num], d, done)
          IN  /\ beaten => Crowded(c)
              /\ table' = IF legal THEN Charged(table, p, num, now) ELSE table
              /\ held' = IF paid THEN AfterReserve(held, p, num) ELSE held
              /\ calls' = [calls EXCEPT ![c] = IF taken THEN call ELSE NoCall]
    /\ UNCHANGED <<queue, workers, pirTable, pool, issued, now, spent>>

\* The number of keys a client may send is bounded here.
Chunk(c) ==
    /\ calls[c].step = "upload" /\ calls[c].num # 0
    /\ Len(calls[c].keys) < MaxKeys
    /\ \E d \in 0 .. 1, done \in BOOLEAN :
          LET call == Buffered(calls[c], d, done)
          IN  IF Fits(call)
              THEN calls' = [calls EXCEPT ![c] = call] /\ UNCHANGED held
              ELSE Ends(c, held)
    /\ UNCHANGED <<queue, workers, pirTable, pool, issued, limiterVars>>

\* The stream is over: the keys are whole and as many as declared.
Complete(call) ==
    LET longest == Max({call.keys[i] : i \in DOMAIN call.keys} \cup {0})
    IN  /\ call.num # 0 /\ call.cur = 0 /\ Len(call.keys) = call.num
        /\ \A i \in DOMAIN call.keys : call.keys[i] # 0
        /\ Len(call.keys) * longest <= KeyBytes

CloseUpload(c) ==
    /\ calls[c].step = "upload"
    /\ IF Complete(calls[c])
       THEN /\ calls' = [calls EXCEPT ![c].step = "queued"]
            /\ queue' = Append(queue, c)
            /\ UNCHANGED held
       ELSE Ends(c, held) /\ UNCHANGED queue
    /\ UNCHANGED <<workers, pirTable, pool, issued, limiterVars>>

-----------------------------------------------------------------------------
(* Calls without an upload.                                                 *)

\* get_unif_omr_digest_from_pool: a miss costs a credit too, and each further
\* key of a hit another one.
StartPoolDigest(c) ==
    /\ calls[c].step = "idle"
    /\ \E origin \in Origins, handle \in DOMAIN issued \cup {0} :
          LET p     == PeerOf(origin)
              tab   == Charged(table, p, 1, now)
              asked == Granted(table, p, 1, now)
              hit   == asked /\ Served(pool, handle, now)
              extra == IF hit THEN Len(pool.entries[handle].keys) - 1 ELSE 0
              goes  == hit /\ (extra > 0 => Granted(tab, p, extra, now))
          IN  /\ table' = IF extra > 0 THEN Charged(tab, p, extra, now) ELSE tab
              /\ pool' = IF asked THEN AfterLookup(pool, handle, now) ELSE pool
              /\ calls' = IF goes
                          THEN [calls EXCEPT ![c] = [NoCall EXCEPT !.step = "queued",
                                    !.kind = "pool", !.peer = p, !.keys = pool.entries[handle].keys]]
                          ELSE calls
              /\ queue' = IF goes THEN Append(queue, c) ELSE queue
    /\ UNCHANGED <<workers, held, pirTable, issued, now, spent>>

\* fetch_pir_batch: the slot is taken before the request is looked at.
StartPir(c) ==
    /\ calls[c].step = "idle"
    /\ \E origin \in Origins, valid \in BOOLEAN :
          LET p    == PeerOf(origin)
              goes == Granted(pirTable, p, 1, now) /\ held.pirs[p] < MaxPirInflight /\ valid
          IN  /\ pirTable' = Charged(pirTable, p, 1, now)
              /\ held' = IF goes THEN [held EXCEPT !.pirs[p] = @ + 1] ELSE held
              /\ calls' = IF goes
                          THEN [calls EXCEPT ![c] = [NoCall EXCEPT !.step = "queued",
                                                        !.kind = "pir", !.peer = p]]
                          ELSE calls
              /\ queue' = IF goes THEN Append(queue, c) ELSE queue
    /\ UNCHANGED <<workers, pool, issued, limiterVars>>

-----------------------------------------------------------------------------
(* Workers.                                                                 *)

FreeWorker == CHOOSE w \in 1 .. FheWorkers : workers[w] = None

\* acquire_fhe_permit is served in order.  A digest then reads its window, and
\* ends here when that fails; else the permit moves into the worker.
Take ==
    /\ queue # <<>> /\ held.permits > 0
    /\ LET c == Head(queue)
           work == [call |-> c, kind |-> calls[c].kind, peer |-> calls[c].peer]
       IN  \/ /\ workers' = [workers EXCEPT ![FreeWorker] = work]
              /\ held' = [held EXCEPT !.permits = @ - 1]
              /\ calls' = [calls EXCEPT ![c].step = "working"]
           \/ /\ calls[c].kind \in {"digest", "pool"}
              /\ Ends(c, held)
              /\ UNCHANGED workers
    /\ queue' = Tail(queue)
    /\ UNCHANGED <<pirTable, pool, issued, limiterVars>>

\* The worker returns, with a result or an error; its handler, if it is still
\* there, resumes later.
WorkerEnds(w) ==
    /\ workers[w] # None
    /\ workers' = [workers EXCEPT ![w] = None]
    /\ held' = [held EXCEPT !.permits = @ + 1]
    /\ \E ok \in BOOLEAN :
          calls' = IF workers[w].call = None THEN calls
                   ELSE [calls EXCEPT ![workers[w].call].step = "joined",
                                      ![workers[w].call].ok = ok]
    /\ UNCHANGED <<queue, pirTable, pool, issued, limiterVars>>

\* The handler answers; a registration puts its keys into the pool first.
Respond(c) ==
    /\ calls[c].step = "joined"
    /\ LET keys   == calls[c].keys
           handle == Cardinality(DOMAIN issued) + 1
           enters == calls[c].kind = "register" /\ calls[c].ok
       IN  /\ pool' = IF enters THEN InsertKeys(pool, handle, keys, KeyBytes, now) ELSE pool
           /\ issued' = IF enters /\ Takes(pool, keys, KeyBytes, now)
                        THEN [h \in DOMAIN issued \cup {handle} |->
                                 IF h = handle THEN [keys |-> keys, expires |-> now + Ttl]
                                 ELSE issued[h]]
                        ELSE issued
    /\ Ends(c, held)
    /\ UNCHANGED <<queue, workers, pirTable, limiterVars>>

\* The queue without a call that waits no longer.
Dequeued(c) ==
    LET at == CHOOSE i \in DOMAIN queue : queue[i] = c
    IN  IF \E i \in DOMAIN queue : queue[i] = c THEN RemoveAt(queue, at) ELSE queue

\* A handler is dropped at an await.  Its worker runs on without it.
Dropped(c) ==
    /\ Ends(c, held)
    /\ queue' = Dequeued(c)
    /\ workers' = [w \in 1 .. FheWorkers |->
                      IF workers[w] # None /\ workers[w].call = c
                      THEN [workers[w] EXCEPT !.call = None] ELSE workers[w]]
    /\ UNCHANGED <<pirTable, pool, issued, limiterVars>>

\* An upload stalls or is too slow, the wait for a permit is over.
TimesOut(c) == calls[c].step \in {"upload", "queued"} /\ Dropped(c)

\* The client goes away, or the request's own timeout ends it.
Cancel(c) == calls[c].step \in {"working", "joined"} /\ Dropped(c)

AdmissionInit ==
    /\ calls = [c \in Calls |-> NoCall] /\ queue = <<>>
    /\ workers = [w \in 1 .. FheWorkers |-> None] /\ held = AllFree
    /\ pirTable = NoEntries /\ pool = EmptyPool /\ issued = <<>>

CallNext(c) == \/ Begin(c) \/ Header(c) \/ Chunk(c) \/ CloseUpload(c) \/ StartPoolDigest(c)
               \/ StartPir(c) \/ Respond(c) \/ TimesOut(c) \/ Cancel(c)

AdmissionNext == Take \/ (\E c \in Calls : CallNext(c)) \/ (\E w \in 1 .. FheWorkers : WorkerEnds(w))

-----------------------------------------------------------------------------
(* Properties.                                                              *)

UploadsOf(p) == {c \in Calls : Uploading(calls[c]) /\ calls[c].peer = p}
PirsOf(p)    == {c \in Calls : calls[c].kind = "pir" /\ calls[c].peer = p}

\* Whatever fails or is dropped, and in whatever order: what is free and what
\* running calls and workers hold add up to what there is, nothing is given out
\* that was not free, no address has more than its slots, and no upload buffers
\* more than it has reserved.
Conserved ==
    /\ held.bytes + SumFunction([c \in Calls |-> Reserved(calls[c])]) = UploadBudget
    /\ held.permits + Cardinality({w \in 1 .. FheWorkers : workers[w] # None}) = FheWorkers
    /\ held.bytes >= 0 /\ held.permits >= 0
    /\ \A p \in Peers :
          /\ held.uploads[p] = Cardinality(UploadsOf(p)) /\ held.uploads[p] <= MaxUploads
          /\ held.pirs[p] = Cardinality(PirsOf(p)) /\ held.pirs[p] <= MaxPirInflight
    /\ \A c \in Calls : Uploading(calls[c]) => Buffers(calls[c]) <= Reserved(calls[c])

\* The pool counts the bytes it has, within its limits, and has every handle it
\* gave out, with its keys, until that handle expires.
PoolExact ==
    /\ pool.total = RetainedIn(pool.entries) /\ pool.total <= MaxPoolBytes
    /\ Cardinality(DOMAIN pool.entries) <= MaxHandles
    /\ \A h \in DOMAIN issued : LiveAt(issued[h], now) =>
          h \in DOMAIN pool.entries /\ pool.entries[h] = issued[h]

\* Whatever was dropped, cancelled or refused on the way, all of it is free again
\* once no call gets in any more: the clock of an instance stops, and then the
\* credits of every address are used up.
AllGivenBack == <>[](held = AllFree)
=============================================================================
