----------------------------- MODULE MCClueHints -----------------------------
(***************************************************************************)
(* Instances of ClueHints for TLC, with history variables: what each call  *)
(* was asked, what clients were told, when a block was indexed, and whose  *)
(* transactions darkfid accepted.                                          *)
(***************************************************************************)
EXTENDS ClueHints, TLC

CONSTANT Sender      \* the peer that sends

VARIABLES asked, told, merged, senders

history == <<asked, told, merged, senders>>

\* The clues of a request in the order they are tried, and when it came.
Ask(c) == LET r == calls'[c]
          IN  [items |-> IF r.todo = <<>> THEN r.late ELSE r.todo, since |-> now]

\* The client of c is told that its transaction is accepted, and its clue too.
Tells(c) == At(c, "done") /\ calls[c].stage = "after" /\ calls[c].accepted

Remembers(c) == At(c, "remember") /\ calls'[c] # calls[c]

Record ==
    /\ asked' = [c \in Call |-> CASE calls'[c] = None -> None
                                  [] calls'[c] # None /\ calls[c] = None -> Ask(c)
                                  [] OTHER -> asked[c]]
    /\ told' = told \cup
          {[tx |-> calls[c].tx, asked |-> asked[c]] :
              c \in {d \in Call : Tells(d) /\ calls'[d] = None}}
    /\ merged' = [t \in Tx |-> IF index'[t] = None THEN None
                               ELSE IF index[t] = None THEN now ELSE merged[t]]
    /\ senders' = senders \cup
          {[tx |-> calls[c].tx, peer |-> calls[c].peer, at |-> now] :
              c \in {d \in Call : Remembers(d)}}

MCInit == /\ Init
          /\ asked = [c \in Call |-> None]
          /\ told = {}
          /\ merged = [t \in Tx |-> None]
          /\ senders = {}

MCSpec == MCInit /\ [][Next /\ Record]_<<vars, history>>

\* A clue its client was told is accepted stays parked until it is a day old, so
\* that a block indexed again after a reorg gets it again.
AcceptedClueKept ==
    \A x \in told : now - x.asked.since <= Ttl =>
        LET base == Head(x.asked.items) IN hints[x.tx][base.at] = base.clue

\* In whatever block the transaction lands within the day, and however often it
\* is reorganised, the clues that were sent with it are on it.  (They are parked
\* before the broadcast only if the server can compute the transaction's hash.)
SentCluesIndexed ==
    \A x \in told :
        x.tx \notin Opaque /\ index[x.tx] # None /\ merged[x.tx] - x.asked.since <= Ttl
            => \A k \in DOMAIN x.asked.items :
                   LET item == x.asked.items[k] IN index[x.tx].out[item.at] = item.clue

\* A clue is registered only by a client whose transaction darkfid accepted less
\* than the binding's time before.
RegisterFromSender ==
    \A c \in Call : calls[c] # None /\ calls[c].stage = "register" =>
        \E s \in senders : /\ s.tx = calls[c].tx /\ s.peer = calls[c].peer
                           /\ asked[c].since - s.at < Ttl

Main(k, i)  == [clue |-> k, at |-> i, main |-> TRUE]
RequestOf(b, e, m) == [peer |-> Sender, base |-> b, extras |-> e, metaAt |-> m]
Extra(k, i) == [clue |-> k, at |-> i, main |-> FALSE]

\* A transfer with change, and metadata for an output it does not have; for a
\* transaction without a hash, one clue.
MCRequests ==
    [t \in Tx |-> IF t \in Opaque THEN {RequestOf(<<Main("x", 0)>>, <<>>, None)}
                 ELSE {RequestOf(<<Main("x", 0)>>, <<Extra("y", 1)>>, 2)}]

\* A wallet that tries again makes a new clue for the recipient.
RetryRequests ==
    [t \in Tx |-> {RequestOf(<<Main(k, 0)>>, <<>>, None) : k \in {"x", "y"}}]

\* A wallet that may not register a clue for its change sends it as advised, on the
\* transaction again.
AdvisedRequests ==
    [t \in Tx |-> {RequestOf(<<Main("x", 0)>>, <<>>, None), RequestOf(<<Main("y", 1)>>, <<>>, None)}]

MCRegistrations ==
    [t \in Tx |-> IF t \in Opaque THEN {} ELSE {Extra("z", 0), Extra("z", 2)}]

Symmetry == Permutations(Call)
=============================================================================
