--------------------------- MODULE OrphanBlocksPool ---------------------------
(***************************************************************************)
(* The pool of blocks received before their parent.  A pool is a record:    *)
(*   blocks   the blocks stored;                                            *)
(*   orphans  the children listed in `orphan_blocks`, which groups them by  *)
(*            parent;                                                       *)
(*   unknown  those of them that were never asked for.                      *)
(***************************************************************************)
EXTENDS BlockTree

PoolType == [blocks : SUBSET Hash, orphans : SUBSET Hash, unknown : SUBSET Hash]

EmptyPool == [blocks |-> {}, orphans |-> {}, unknown |-> {}]

InsertOrphanBlock(pool, h) ==
    [pool EXCEPT !.orphans = @ \cup {h}, !.blocks = @ \cup {h}]

InsertUnknownBlock(pool, h) ==
    InsertOrphanBlock([pool EXCEPT !.unknown = @ \cup {h}], h)

\* The orphans that descend from h through orphans: what the breadth-first
\* walk of remove_blocks_for_parent visits.
ClosedUnderChildren(pool, h, S) ==
    \A b \in pool.orphans : (Parent[b] = h \/ Parent[b] \in S) => b \in S

Connected(pool, h) ==
    {b \in pool.orphans :
        \A S \in SUBSET pool.orphans : ClosedUnderChildren(pool, h, S) => b \in S}

RemoveBlocksForParent(pool, h) ==
    LET gone == Connected(pool, h)
    IN  [blocks  |-> pool.blocks \ gone,
         orphans |-> pool.orphans \ gone,
         unknown |-> pool.unknown \ gone]

\* The positions, from 1, at which the walk can output the connected blocks:
\* generation by generation, the children of one parent together and in the
\* order of their parents; the order within one parent's set is not fixed.
WalkOrders(pool, h) ==
    LET S == Connected(pool, h)
        Before(ord, a, b) ==
            \/ Height[a] < Height[b]
            \/ /\ Height[a] = Height[b]
               /\ Parent[a] # Parent[b]
               /\ ord[Parent[a]] < ord[Parent[b]]
    IN  {ord \in [S -> 1..Cardinality(S)] :
            \A a, b \in S : a # b =>
                /\ ord[a] # ord[b]
                /\ Before(ord, a, b) => ord[a] < ord[b]}

\* Invariant of the pool: what is stored is what the parent map lists, and a
\* block marked unknown is one of the blocks stored.
PoolConsistent(pool) ==
    /\ pool.blocks = pool.orphans
    /\ pool.unknown \subseteq pool.blocks
    /\ Genesis \notin pool.blocks
=============================================================================
