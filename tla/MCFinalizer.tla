----------------------------- MODULE MCFinalizer -----------------------------
(* A line of four blocks and a fork of it, whose second blocks spend the same *)
(* coin.  f2 mines t1, which f4 spends; x3 spends it on the line, where it does *)
(* not exist; y3 pays itself too much; m2, h2 and w2 fail a check of their    *)
(* content.  f2 and f4 have the same coinbase.                                *)
EXTENDS Finalizer

CONSTANTS g, b1, b2, b3, b4, f2, f3, f4, x3, y3, m2, h2, w2,
          cb1, cb2, cb3, cb4, cf2, cf3, cx3, cy3, s1, t1, u1

TreeHash == {g, b1, b2, b3, b4, f2, f3, f4, x3, y3, m2, h2, w2}
TreeParent == b1 :> g @@ b2 :> b1 @@ b3 :> b2 @@ f2 :> b1 @@ f3 :> f2 @@ f4 :> f3
                @@ x3 :> b2 @@ y3 :> b2 @@ b4 :> b3 @@ m2 :> b1 @@ h2 :> b1 @@ w2 :> b1
TreeHeight == g :> 0 @@ b1 :> 1 @@ b2 :> 2 @@ b3 :> 3 @@ f2 :> 2 @@ f3 :> 3 @@ f4 :> 4
                @@ x3 :> 3 @@ y3 :> 3 @@ b4 :> 4 @@ m2 :> 2 @@ h2 :> 2 @@ w2 :> 2
TreeWork == [h \in TreeHash |-> TreeHeight[h] + 1]
TreeSize == [h \in TreeHash |-> 1]

Pays(value) == [value |-> value, opReturn |-> FALSE]
Burns == [value |-> 0, opReturn |-> TRUE]
Coinbase(value) == [ins |-> <<Null>>, outs |-> <<Pays(value)>>, final |-> TRUE]

TreeTx ==
    cb1 :> Coinbase(4) @@ cb2 :> Coinbase(3) @@ cb3 :> Coinbase(2) @@ cb4 :> Coinbase(1)
      @@ cf2 :> Coinbase(1) @@ cf3 :> Coinbase(2)
      @@ cx3 :> Coinbase(2) @@ cy3 :> Coinbase(9)
      @@ s1 :> [ins |-> <<<<cb1, 1>>>>, outs |-> <<Pays(3), Burns>>, final |-> TRUE]
      @@ t1 :> [ins |-> <<<<cb1, 1>>>>, outs |-> <<Pays(2), Pays(2)>>, final |-> TRUE]
      @@ u1 :> [ins |-> <<<<t1, 1>>>>, outs |-> <<Pays(1)>>, final |-> TRUE]

TreeTxs == b1 :> <<cb1>> @@ b2 :> <<cb2, s1>> @@ b3 :> <<cb3>> @@ b4 :> <<cb4>>
             @@ f2 :> <<cf2, t1>> @@ f3 :> <<cf3>> @@ f4 :> <<cf2, u1>>
             @@ x3 :> <<cx3, u1>> @@ y3 :> <<cy3>>
             @@ m2 :> <<cf3>> @@ h2 :> <<cf3>> @@ w2 :> <<cf3>>
=============================================================================
