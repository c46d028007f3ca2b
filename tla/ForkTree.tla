------------------------------ MODULE ForkTree ------------------------------
(***************************************************************************)
(* The blocks darkfid may ever serve, as constant data.  A block is named  *)
(* by its hash, an opaque value; the hash commits to the previous block,   *)
(* so the blocks form a tree rooted at the genesis block, and a chain is   *)
(* the set of ancestors of its last block.  darkfid itself is outside the  *)
(* repository: this is what src/src/rpc_client.rs and chain_poller.rs      *)
(* assume of it (one header.previous per block, one genesis per network).  *)
(***************************************************************************)
EXTENDS Integers

CONSTANTS
    Hash,        \* the block hashes (BlockInfo::hash, CompactBlock.hash)
    None,        \* "no row", "no block": never a hash
    Genesis,     \* the block at height 0
    HeightOf,    \* HeightOf[b] is the height in b's header
    Prev,        \* Prev[b] is header.previous
    Ancestors,   \* Ancestors[b]: b and the blocks below it
    CoinBlocks,  \* the blocks whose transactions create at least one coin
    MaxHeight    \* bound on heights

Heights == 0 .. MaxHeight

ASSUME ForkTreeAssumption ==
    /\ MaxHeight \in Nat
    /\ None \notin Hash \cup Nat \cup [Hash -> Nat]
    /\ Genesis \in Hash
    /\ CoinBlocks \subseteq Hash
    /\ HeightOf \in [Hash -> Heights]
    /\ Prev \in [Hash -> Hash \cup {None}]
    /\ Ancestors \in [Hash -> SUBSET Hash]

ASSUME LinkAssumption ==
    /\ \A b \in Hash : HeightOf[b] = 0 <=> b = Genesis
    /\ Ancestors[Genesis] = {Genesis}
    /\ \A b \in Hash \ {Genesis} :
          /\ Prev[b] \in Hash
          /\ HeightOf[b] = HeightOf[Prev[b]] + 1
          /\ Ancestors[b] = {b} \cup Ancestors[Prev[b]]

(***************************************************************************)
(* The Money Merkle tree of a chain is the list of its coins, oldest block *)
(* first.  It is modelled by how many times each block's coins have been   *)
(* appended; their order is that of the heights.                           *)
(***************************************************************************)
EmptyTree == [a \in Hash |-> 0]

\* The tree of the chain that ends with b.
TrueTree(b) == [a \in Hash |-> IF a \in Ancestors[b] \cap CoinBlocks THEN 1 ELSE 0]
=============================================================================
