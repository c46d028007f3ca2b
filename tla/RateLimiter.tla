----------------------------- MODULE RateLimiter -----------------------------
(***************************************************************************)
(* PeerRateLimiter (src/src/rate_limit.rs): a counter per address that     *)
(* starts anew at the first request after its window, and the collection   *)
(* of old entries when the table is large.  The operators are used by the  *)
(* handlers (Admission); AskLimiter is one limiter on its own.             *)
(***************************************************************************)
EXTENDS Integers, FiniteSetsExt

CONSTANTS
    None,         \* no entry, no value
    Peers,        \* addresses
    Limit,        \* events per window and address
    Window,       \* length of a window, in ticks
    GcThreshold,  \* entries from which old ones are collected
    MaxCredits,   \* bound on the credits of one request
    MaxTime       \* bound on the clock

\* The limiters are made with whole windows of a minute, thresholds are at
\* least 1; an entry is not an absent one.
ASSUME LimiterAssumption ==
    /\ Limit \in Nat /\ Window \in Nat \ {0} /\ MaxCredits \in Nat /\ MaxTime \in Nat
    /\ None \notin [count : Nat, since : Nat]

VARIABLES
    now,          \* the clock, in ticks
    table,        \* the limiter's entry of each address, or None
    spent         \* history: credits granted to each address at each tick

limiterVars == <<now, table, spent>>

NoEntries == [p \in Peers |-> None]

Fresh(e, t) == t - e.since < Window

Collected_All(tab, t) ==
    IF Cardinality({p \in Peers : tab[p] # None}) < GcThreshold THEN tab
    ELSE NoEntries

\* The opportunistic collection: entries whose window is over.
Collected(tab, t) ==
    IF Cardinality({p \in Peers : tab[p] # None}) < GcThreshold THEN tab
    ELSE [p \in Peers |-> IF tab[p] # None /\ Fresh(tab[p], t) THEN tab[p] ELSE None]

EntryOf(tab, p, t) ==
    IF Collected(tab, t)[p] = None THEN [count |-> 0, since |-> t] ELSE Collected(tab, t)[p]

\* check_n: whether n credits are granted, and the table it leaves.
Granted(tab, p, n, t) ==
    LET e == EntryOf(tab, p, t)
    IN  Limit = 0 \/ n = 0 \/ n + (IF Fresh(e, t) THEN e.count ELSE 0) <= Limit

\* A new window is charged even for a request it refuses.
Charged(tab, p, n, t) ==
    LET e == EntryOf(tab, p, t)
        charged == CASE ~Fresh(e, t) -> [count |-> n, since |-> t]
                     [] Fresh(e, t) /\ Granted(tab, p, n, t) -> [e EXCEPT !.count = @ + n]
                     [] OTHER -> e
    IN  IF Limit = 0 \/ n = 0 THEN tab ELSE [Collected(tab, t) EXCEPT ![p] = charged]

AskLimiter(p, n) ==
    /\ table' = Charged(table, p, n, now)
    /\ spent' = IF Granted(table, p, n, now) THEN [spent EXCEPT ![p][now] = @ + n] ELSE spent
    /\ UNCHANGED now

Tick ==
    /\ now < MaxTime
    /\ now' = now + 1
    /\ UNCHANGED <<table, spent>>

LimiterInit ==
    /\ now = 0 /\ table = NoEntries
    /\ spent = [p \in Peers |-> [t \in 0 .. MaxTime |-> 0]]

LimiterNext ==
    \/ \E p \in Peers, n \in 1 .. MaxCredits : AskLimiter(p, n)
    \/ Tick

\* What was granted to an address in the window's length that begins at t.
Within(p, t) == SumFunctionOnSet(spent[p], {u \in 0 .. MaxTime : t <= u /\ u < t + Window})

\* No address is granted more than two limits in any stretch as long as a
\* window, wherever the stretch begins and whatever was collected: windows are
\* laid end to end by the address's own requests, so a stretch meets two.
AtMostTwoLimits ==
    Limit # 0 =>
        \A p \in Peers : \A t \in 0 .. MaxTime : Within(p, t) <= 2 * Limit
=============================================================================
