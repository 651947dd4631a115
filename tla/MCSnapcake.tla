------------------------------ MODULE MCSnapcake ------------------------------
(* A chain of four blocks whose coins have amounts on both sides of the codec's *)
(* boundary of nine zeros, and a script of each class.                        *)
EXTENDS Snapcake

CONSTANTS p1, p2, k1, k2

Coin(height, is_coinbase, amount, script) ==
    [height |-> height, is_coinbase |-> is_coinbase, amount |-> amount,
     script_pubkey |-> script]
Utxo(txid, vout, coin) == [txid |-> txid, vout |-> vout, coin |-> coin]

Early == {Utxo(2, 0, Coin(1, TRUE, 1000000000, P2pk(k1, TRUE, FALSE)))}
Middle == Early \cup {Utxo(1, 1, Coin(2, FALSE, 100000001, P2pkh(k1))),
                      Utxo(1, 300, Coin(2, FALSE, 0, OtherScript(k2, 10000)))}
Late == {Utxo(1, 1, Coin(2, FALSE, 100000001, P2sh(k1))),
         Utxo(2, 1, Coin(3, FALSE, 19, P2pk(k2, FALSE, TRUE))),
         Utxo(2, 2, Coin(3, FALSE, 2000000000, P2pk(k2, FALSE, FALSE)))}

ChainUtxos == <<Early, Middle, Late>>
UtxosAt == [h \in 0..3 |-> IF h = 0 THEN {} ELSE ChainUtxos[h]]

PeerBests == {p1 :> 3 @@ p2 :> 3, p1 :> 3 @@ p2 :> 0, p1 :> 2 @@ p2 :> 1}
AllTargets == {[kind |-> "LastFinalized"], [kind |-> "Number", block |-> 2],
               [kind |-> "Hash", block |-> 2]}
=============================================================================
