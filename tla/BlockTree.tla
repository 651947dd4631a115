------------------------------ MODULE BlockTree ------------------------------
(***************************************************************************)
(* The tree of Bitcoin blocks the node meets, and the client that stores    *)
(* the imported ones.  A block is identified with its hash: everything the  *)
(* sync code reads of a block is its hash, its parent, its size and the     *)
(* work of its chain.                                                       *)
(***************************************************************************)
EXTENDS Naturals, FiniteSets

CONSTANTS
    Hash,       \* the block hashes
    Genesis,    \* hash of the genesis block
    Parent,     \* header.prev_blockhash of every other block
    Height,     \* height of a block in the tree
    ChainWork,  \* accumulated proof of work of the chain ending in a block
    Size        \* calculate_block_memory_usage of a block

ASSUME BlockTreeAssumption ==
    /\ IsFiniteSet(Hash)
    /\ Genesis \in Hash
    /\ Parent \in [Hash \ {Genesis} -> Hash]
    /\ Height \in [Hash -> Nat]
    /\ Height[Genesis] = 0
    /\ \A h \in Hash \ {Genesis} : Height[h] = Height[Parent[h]] + 1

ASSUME WorkAssumption ==
    /\ ChainWork \in [Hash -> Nat]
    /\ \A h \in Hash \ {Genesis} : ChainWork[h] > ChainWork[Parent[h]]
    /\ Size \in [Hash -> Nat]

-----------------------------------------------------------------------------
(* Partial maps: the HashMaps of the code.                                  *)

Put(f, k, v) == [x \in DOMAIN f \cup {k} |-> IF x = k THEN v ELSE f[x]]

Drop(f, k) == [x \in DOMAIN f \ {k} |-> f[x]]

EmptyMap == [x \in {} |-> 0]

-----------------------------------------------------------------------------
(* The client: the set of imported blocks and the best of them.             *)

\* The chain of ancestors of a block, the block included.
Chain[h \in Hash] == IF h = Genesis THEN {h} ELSE Chain[Parent[h]] \cup {h}

ClientType == [imported : SUBSET Hash, best : Hash]

GenesisClient == [imported |-> {Genesis}, best |-> Genesis]

BlockExists(c, h) == h \in c.imported

BestNumber(c) == Height[c.best]

\* The canonical block at a height, for heights up to the best one.
BlockHash(c, n) == CHOOSE h \in Chain[c.best] : Height[h] = n

\* Import of a block whose parent is known: the block becomes the best one
\* only when its chain has strictly more work.
ImportBlock(c, h) ==
    [imported |-> c.imported \cup {h},
     best     |-> IF ChainWork[h] > ChainWork[c.best] THEN h ELSE c.best]

-----------------------------------------------------------------------------
(* The block locator: heights going back from a block, one by one for the   *)
(* first eight and then in steps that double, ending with the genesis.      *)

LocatorStep[k \in Nat] == IF k < 8 THEN 1 ELSE 2 * LocatorStep[k - 1]

LocatorOffset[k \in Nat] ==
    IF k = 0 THEN 0 ELSE LocatorOffset[k - 1] + LocatorStep[k - 1]

LocatorIndexes(from) ==
    {from - LocatorOffset[k] : k \in {j \in 0..from : LocatorOffset[j] < from}}
      \cup {0}

\* pending: the heights of the blocks that are queued and not yet imported.
BlockLocator(c, from, pending) ==
    {pending[n] : n \in LocatorIndexes(from) \cap DOMAIN pending}
      \cup {BlockHash(c, n) :
              n \in {m \in LocatorIndexes(from) \ DOMAIN pending : m <= BestNumber(c)}}
=============================================================================
