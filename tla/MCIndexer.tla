------------------------------ MODULE MCIndexer ------------------------------
(* A line of three blocks and a fork whose second block is the heaviest.    *)
(* t2 is mined at height 2 in the line and at height 3 in the fork.         *)
EXTENDS Indexer, TLC

CONSTANTS g, b1, b2, b3, f2, f3, t1, t2, t3, t5, o1, o2, o3, o5

TreeHash == {g, b1, b2, b3, f2, f3}
TreeParent == b1 :> g @@ b2 :> b1 @@ b3 :> b2 @@ f2 :> b1 @@ f3 :> f2
TreeHeight == g :> 0 @@ b1 :> 1 @@ b2 :> 2 @@ b3 :> 3 @@ f2 :> 2 @@ f3 :> 3
TreeWork == g :> 0 @@ b1 :> 1 @@ b2 :> 2 @@ b3 :> 3 @@ f2 :> 2 @@ f3 :> 4
TreeSize == [h \in TreeHash |-> 1]

TreeTxs == g :> {} @@ b1 :> {t1} @@ b2 :> {t2} @@ b3 :> {t3} @@ f2 :> {t5} @@ f3 :> {t2}
TreeInputs == t1 :> {} @@ t2 :> {o1} @@ t3 :> {o2} @@ t5 :> {}
TreeOutputs == t1 :> {o1} @@ t2 :> {o2} @@ t3 :> {o3} @@ t5 :> {o5}
=============================================================================
