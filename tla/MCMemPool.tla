------------------------------ MODULE MCMemPool ------------------------------
(* a and r spend the same coin, b spends a, d spends b; p1 pays no fee and q1,  *)
(* which spends it, pays for both and is locked; m spends a coinbase.         *)
EXTENDS MemPool

CONSTANTS a, b, d, r, p1, q1, m, c1, c2, c3, k

Coin(value, height, coinbase) == [value |-> value, height |-> height, coinbase |-> coinbase]

PoolCoins ==
    <<c1, 1>> :> Coin(20, 1, FALSE) @@ <<c2, 1>> :> Coin(20, 1, FALSE)
      @@ <<c3, 1>> :> Coin(20, 2, FALSE) @@ <<k, 1>> :> Coin(20, 3, TRUE)

Spend(ins, values, vsize, lock) ==
    [ins |-> ins, values |-> values, vsize |-> vsize, rbf |-> TRUE, fault |-> None, lock |-> lock]

PoolTxs ==
    a :> Spend({<<c1, 1>>}, <<14>>, 2, -1)
      @@ b :> Spend({<<a, 1>>}, <<12>>, 2, -1)
      @@ d :> Spend({<<b, 1>>}, <<8>>, 2, -1)
      @@ r :> Spend({<<c1, 1>>}, <<5>>, 2, -1)
      @@ p1 :> Spend({<<c2, 1>>}, <<20>>, 2, -1)
      @@ q1 :> Spend({<<p1, 1>>, <<c3, 1>>}, <<34>>, 2, 2)
      @@ m :> Spend({<<k, 1>>}, <<16>>, 2, -1)

PoolPackages == {{p1, q1}, {a, r}}
PoolBlocks == {{}, {a}, {r}}
=============================================================================
