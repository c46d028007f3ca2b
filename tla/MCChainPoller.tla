---------------------------- MODULE MCChainPoller ----------------------------
(***************************************************************************)
(* Instances of ChainPoller for TLC.  The fork tree has a main chain a0 to *)
(* a5, a fork b2 to b5 above a1 that a reorg of four blocks replaces, and  *)
(* the forks c4, c5 above a3 and d5 above b4.  a2, b3 and c5 have no coins. *)
(* e4 above b3 is a block that process_block refuses.                      *)
(***************************************************************************)
EXTENDS ChainPoller

MCParent == [a1 |-> "a0", a2 |-> "a1", a3 |-> "a2", a4 |-> "a3", a5 |-> "a4",
             b2 |-> "a1", b3 |-> "b2", b4 |-> "b3", b5 |-> "b4",
             c4 |-> "a3", c5 |-> "c4", d5 |-> "b4", e4 |-> "b3"]

MCGenesis == "a0"
MCHash == DOMAIN MCParent \cup {MCGenesis}
MCPrev == [b \in MCHash |-> IF b = MCGenesis THEN None ELSE MCParent[b]]

MCAncestors[b \in MCHash] ==
    {b} \cup (IF b = MCGenesis THEN {} ELSE MCAncestors[MCPrev[b]])

MCHeightOf == [b \in MCHash |-> Cardinality(MCAncestors[b]) - 1]
MCMaxHeight == 5
MCCoinBlocks == MCHash \ {"a2", "b3", "c5"}
MCRefusedBlocks == {"e4"}

(***************************************************************************)
(* A history variable: the highest block darkfid has confirmed, or None    *)
(* once it has left the fork of that block.                                *)
(***************************************************************************)
VARIABLE peak

PeakStep ==
    peak' = CASE peak = None -> None
              [] peak # None /\ remote' \in Ancestors[peak] -> peak
              [] OTHER -> IF peak \in Ancestors[remote'] THEN remote' ELSE None

MCInit == Init /\ peak = remote

MCSpec == /\ MCInit
          /\ [][Next /\ PeakStep]_<<vars, peak>>
          /\ WF_vars(Poller)

\* As long as darkfid stays on one fork, even if it lost blocks and is syncing
\* them again, the cache holds on to what it has: its tip never falls.
TipNeverFalls ==
    [][(peak' # None /\ db.tip # NoTip)
          => (db'.tip # NoTip /\ db'.tip.height >= db.tip.height)]_<<vars, peak>>
=============================================================================
