------------------------------- MODULE TipFacts -------------------------------
(***************************************************************************)
(* What GetLightInfo, GetChainTip and SubscribeBlocks tell of darkfid's    *)
(* target and difficulty (src/src/server.rs): two facts, kept while the    *)
(* tip stays the same, fetched by handlers that wait for the RPC while the *)
(* poller moves the tip and other handlers store facts of their own.       *)
(* darkfid's chain is counted in changes of its tip: tip t is the one it   *)
(* had after t changes, and a fact is the count when it was told.          *)
(***************************************************************************)
EXTENDS Integers

CONSTANTS
    NotKnown,   \* no fact
    Requests,   \* slots for the handlers
    MaxChanges  \* bound on darkfid's changes

\* No fact is not a fact, nor a height.
ASSUME NotKnownAssumption == NotKnown \notin Int

VARIABLES
    changes,    \* darkfid's changes so far
    cachedTip,  \* the cache's tip
    facts,      \* tip_facts: the tip, and the facts known for it
    requests    \* each handler: its tip, the fact it is at, when it asked darkfid, the facts it has

factVars == <<changes, cachedTip, facts, requests>>

FactKinds == {"target", "difficulty"}
Unknown   == [k \in FactKinds |-> NotKnown]
NoRequest == [step |-> "idle", tip |-> NotKnown, fact |-> "target", since |-> 0, got |-> Unknown]

\* tip_fact_hit.
Hit(tip, fact) == facts # NotKnown /\ facts.tip = tip /\ facts.known[fact] # NotKnown

StoreFact_KeepsOther(tip, fact, value) ==
    [tip |-> tip, known |-> [IF facts # NotKnown THEN facts.known ELSE Unknown EXCEPT ![fact] = value]]

\* store_tip_fact: the facts of another tip are dropped.
StoreFact(tip, fact, value) ==
    [tip |-> tip, known |-> [IF facts # NotKnown /\ facts.tip = tip THEN facts.known ELSE Unknown
                                EXCEPT ![fact] = value]]

\* The difficulty follows the target in get_light_info; the others are done.
AfterFact(req, value) ==
    LET got == [req EXCEPT !.got[req.fact] = value]
    IN  IF req.fact = "target" THEN [got EXCEPT !.step = "next"] ELSE [got EXCEPT !.step = "done"]

StartFacts(r) ==
    /\ requests[r].step = "idle"
    /\ requests' = [requests EXCEPT ![r] = [NoRequest EXCEPT !.step = "load", !.tip = cachedTip]]
    /\ UNCHANGED <<changes, cachedTip, facts>>

\* load_tip_fact: a hit needs no RPC.
LoadFact(r) ==
    /\ requests[r].step = "load"
    /\ requests' = [requests EXCEPT ![r] =
                       IF Hit(@.tip, @.fact) THEN AfterFact(@, facts.known[@.fact])
                       ELSE [@ EXCEPT !.step = "rpc", !.since = changes]]
    /\ UNCHANGED <<changes, cachedTip, facts>>

\* darkfid answers at some moment of the wait; the handler stores it at its end.
FactTold(r) ==
    /\ requests[r].step = "rpc"
    /\ \E told \in requests[r].since .. changes :
          /\ facts' = StoreFact(requests[r].tip, requests[r].fact, told)
          /\ requests' = [requests EXCEPT ![r] = [AfterFact(@, told) EXCEPT !.since = 0]]
    /\ UNCHANGED <<changes, cachedTip>>

\* A failed RPC, or its timeout: 0 or an empty string is sent, nothing is kept.
FactFails(r) ==
    /\ requests[r].step = "rpc"
    /\ requests' = [requests EXCEPT ![r] = [AfterFact(@, NotKnown) EXCEPT !.since = 0]]
    /\ UNCHANGED <<changes, cachedTip, facts>>

AskDifficulty(r) ==
    /\ requests[r].step = "next"
    /\ requests' = [requests EXCEPT ![r].step = "load", ![r].fact = "difficulty"]
    /\ UNCHANGED <<changes, cachedTip, facts>>

AnswerFacts(r) ==
    /\ requests[r].step \in {"next", "done"}
    /\ requests' = [requests EXCEPT ![r] = NoRequest]
    /\ UNCHANGED <<changes, cachedTip, facts>>

\* darkfid's tip changes; the poller follows it, or rewinds to an earlier one.
DarkfidMoves ==
    /\ changes < MaxChanges
    /\ changes' = changes + 1
    /\ UNCHANGED <<cachedTip, facts, requests>>

TipMoves ==
    /\ \E t \in 0 .. changes \ {cachedTip} : cachedTip' = t
    /\ UNCHANGED <<changes, facts, requests>>

FactsInit ==
    /\ changes = 0 /\ cachedTip = 0 /\ facts = NotKnown
    /\ requests = [r \in Requests |-> NoRequest]

FactsNext ==
    \/ DarkfidMoves \/ TipMoves
    \/ \E r \in Requests : StartFacts(r) \/ LoadFact(r) \/ FactTold(r) \/ FactFails(r)
                              \/ AskDifficulty(r) \/ AnswerFacts(r)

\* No handler tells its client, beside a tip, a fact darkfid told before it had
\* that tip, whoever fetched the fact and however late.
FactsNotOlder ==
    \A r \in Requests, k \in FactKinds :
        requests[r].got[k] # NotKnown => requests[r].got[k] >= requests[r].tip
=============================================================================
