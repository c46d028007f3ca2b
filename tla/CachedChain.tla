----------------------------- MODULE CachedChain -----------------------------
(***************************************************************************)
(* What the cache promises its readers: at any moment it holds blocks of   *)
(* one chain, among them the last one.  The chain changes only by getting  *)
(* its next block, by being cut back to one of its blocks, or by losing    *)
(* its oldest blocks (pruning); a lost genesis block may come back.        *)
(***************************************************************************)
EXTENDS ForkTree

VARIABLES
    top,     \* the last block of the chain, None when there is none
    rows     \* the blocks that are held

Init == top = None /\ rows = {}

Grow == \E b \in Hash :
            /\ IF top = None THEN b = Genesis ELSE b # Genesis /\ Prev[b] = top
            /\ top' = b
            /\ rows' = rows \cup {b}

CutBack == \E b \in rows : top' = b /\ rows' = rows \cap Ancestors[b]

Forget == /\ top # None
          /\ \E h \in 1 .. HeightOf[top] :
                rows' = {b \in rows : HeightOf[b] >= h}
          /\ UNCHANGED top

Restore == /\ top # None
           /\ rows' = rows \cup {Genesis}
           /\ UNCHANGED top

Next == Grow \/ CutBack \/ Forget \/ Restore

Spec == Init /\ [][Next]_<<top, rows>>
=============================================================================
