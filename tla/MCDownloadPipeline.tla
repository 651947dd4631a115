-------------------------- MODULE MCDownloadPipeline --------------------------
(***************************************************************************)
(* Two siblings on one parent and one peer for the model checker.           *)
(***************************************************************************)
EXTENDS DownloadPipeline, TLC

CONSTANTS g, b1, b2, f2, p1

TreeHash == {g, b1, b2, f2}
TreeParent == (b1 :> g) @@ (b2 :> b1) @@ (f2 :> b1)
TreeHeight == (g :> 0) @@ (b1 :> 1) @@ (b2 :> 2) @@ (f2 :> 2)
TreeInventories == {<<b1, b2>>}
=============================================================================
