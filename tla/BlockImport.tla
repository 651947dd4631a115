----------------------------- MODULE BlockImport -----------------------------
(***************************************************************************)
(* Import of Bitcoin blocks: verification of a block, its execution by the  *)
(* runtime against the UTXO set of its parent, the accumulated work and the *)
(* fork choice.  A transaction is a sequence of outpoints it spends and a   *)
(* sequence of outputs; scripts, sizes, proof of work and timestamps are    *)
(* reduced to sets of blocks that fail those checks.                        *)
(***************************************************************************)
EXTENDS BlockTree, Integers, Sequences, SequencesExt, FiniteSetsExt, Functions

CONSTANTS
    Tx,                 \* [ins : Seq(outpoint), outs : Seq([value, opReturn]), final : BOOLEAN]
    TxsOf,              \* the transactions of each block but the genesis, coinbase first
    Malformed,          \* blocks failing a size, sigop, merkle root or coinbase height check
    BadHeader,          \* blocks failing a check of the header
    BadWitness,         \* blocks failing the witness commitment or weight check
    Verification,       \* BlockVerification: "Full", "HeaderOnly" or "None"
    MaxMoney,           \* Amount::MAX_MONEY
    Maturity,           \* COINBASE_MATURITY
    InitialSubsidy, HalvingInterval,
    CsvHeight,          \* ChainParams::csv_height
    Bip30Exceptions     \* BIP30_EXCEPTION_HEIGHTS

Null == <<"null", 0>>

WorkOf(h) == IF h = Genesis THEN ChainWork[h] ELSE ChainWork[h] - ChainWork[Parent[h]]

OutPoints(t) == {<<t, i>> : i \in DOMAIN Tx[t].outs}

ASSUME BlockImportAssumption ==
    /\ \A h \in Hash \ {Genesis} : \A i \in DOMAIN TxsOf[h] : TxsOf[h][i] \in DOMAIN Tx
    /\ Verification \in {"Full", "HeaderOnly", "None"}
    /\ {MaxMoney, Maturity, InitialSubsidy, HalvingInterval, CsvHeight} \subseteq Nat
    /\ HalvingInterval > 0 /\ Bip30Exceptions \subseteq Nat

-----------------------------------------------------------------------------
(* Checks that need no context.                                             *)

IsCoinbase(t) == Tx[t].ins = <<Null>>

SumOf(seq) == FoldLeft(LAMBDA sum, x : sum + x, 0, seq)

Values(t) == [i \in DOMAIN Tx[t].outs |-> Tx[t].outs[i].value]

ValueOut(t) == SumOf(Values(t))

CheckTransactionSanity(t) ==
    /\ Tx[t].ins # <<>> /\ Tx[t].outs # <<>>
    /\ \A i \in DOMAIN Tx[t].outs :
          /\ Values(t)[i] <= MaxMoney
          /\ SumOf(SubSeq(Values(t), 1, i)) <= MaxMoney
    /\ IsInjective(Tx[t].ins)
    /\ IsCoinbase(t) \/ Null \notin Range(Tx[t].ins)

CheckBlockSanity(h) ==
    /\ TxsOf[h] # <<>>
    /\ IsCoinbase(TxsOf[h][1])
    /\ \A i \in 2..Len(TxsOf[h]) : ~IsCoinbase(TxsOf[h][i])
    /\ IsInjective(TxsOf[h])
    /\ \A i \in DOMAIN TxsOf[h] : CheckTransactionSanity(TxsOf[h][i])
    /\ h \notin Malformed

BitcoinBlockSubsidy(n) ==
    LET halvings == n \div HalvingInterval
    IN IF halvings >= 64 THEN 0 ELSE InitialSubsidy \div (2 ^ halvings)

-----------------------------------------------------------------------------
(* The client: blocks, their accumulated work (aux storage) and, for blocks *)
(* with state, the UTXO set and its recorded size after the block.          *)

HasState(c, h) == h \in DOMAIN c.coins

GenesisChain ==
    [imported |-> {Genesis}, best |-> Genesis, finalized |-> Genesis,
     work  |-> [h \in {Genesis} |-> WorkOf(Genesis)],
     coins |-> [h \in {Genesis} |-> EmptyMap],
     count |-> [h \in {Genesis} |-> 0]]

\* Outputs of earlier transactions of the block, with the transaction's index.
CreatedBefore(h, i) == UNION {OutPoints(TxsOf[h][j]) : j \in 1..(i - 1)}

\* A coin is looked up in the state of the CANONICAL block at the height of the
\* parent, then among the earlier transactions of the block.
AccessCoin(coins, h, o) ==
    IF o \in DOMAIN coins THEN coins[o]
    ELSE [height |-> Height[h], coinbase |-> o[1] = TxsOf[h][1]]

SpentValue(o) == Tx[o[1]].outs[o[2]].value

ValueIn(t) == SumOf([k \in DOMAIN Tx[t].ins |-> SpentValue(Tx[t].ins[k])])

\* CheckTxInputs of the i-th transaction.
CheckTxInputs(coins, h, i) ==
    LET t == TxsOf[h][i]
    IN /\ Tx[t].final
       /\ \A o \in Range(Tx[t].ins) :
            /\ o \in DOMAIN coins \cup CreatedBefore(h, i)
            /\ \A j \in 2..(i - 1) : o \notin Range(Tx[TxsOf[h][j]].ins)
            /\ AccessCoin(coins, h, o).coinbase
                 => Height[h] - AccessCoin(coins, h, o).height >= Maturity
       /\ ValueIn(t) >= ValueOut(t)

Fee(t) == ValueIn(t) - ValueOut(t)

\* Every input is checked, and the coinbase pays no more than subsidy and fees.
CheckTransactions(coins, h) ==
    /\ \A i \in 2..Len(TxsOf[h]) : CheckTxInputs(coins, h, i)
    /\ ValueOut(TxsOf[h][1]) <=
          BitcoinBlockSubsidy(Height[h])
            + SumOf([i \in 1..(Len(TxsOf[h]) - 1) |-> Fee(TxsOf[h][i + 1])])

VerifyTransactions(c, h) ==
    /\ Height[h] - 1 <= Height[c.best]
    /\ CheckTransactions(c.coins[BlockHash(c, Height[h] - 1)], h)

\* The header check asks for the median time past of the block itself, which
\* is not imported yet.
VerifierPanics(c, h) ==
    /\ Verification # "None"
    /\ CheckBlockSanity(h) /\ h \notin BadHeader
    /\ Height[h] >= CsvHeight /\ h \notin c.imported

VerifyBlock(c, h) ==
    /\ CheckBlockSanity(h)
    /\ Verification # "None" => h \notin BadHeader
    /\ Verification = "Full" => h \notin BadWitness /\ VerifyTransactions(c, h)

-----------------------------------------------------------------------------
(* Execution by pallet-bitcoin: one extrinsic per transaction.              *)

\* Mutant: a missing input is skipped.
ProcessTransactionMissingInputs(st, t, n) ==
    LET created  == {o \in OutPoints(t) : ~Tx[t].outs[o[2]].opReturn}
        consumed == IF IsCoinbase(t) THEN {} ELSE Range(Tx[t].ins) \cap DOMAIN st.coins
        left     == Restrict(st.coins, DOMAIN st.coins \ consumed)
        added    == [o \in created |-> [height |-> n, coinbase |-> IsCoinbase(t)]]
    IN IF IsCoinbase(t) /\ n \in Bip30Exceptions THEN st
       ELSE [st EXCEPT !.coins = added @@ left,
                       !.count = @ + Cardinality(created) - Cardinality(consumed)]

\* Mutant: OP_RETURN outputs are stored as coins.
ProcessTransactionOpReturns(st, t, n) ==
    LET consumed == IF IsCoinbase(t) THEN {} ELSE Range(Tx[t].ins)
        left     == Restrict(st.coins, DOMAIN st.coins \ consumed)
        added    == [o \in OutPoints(t) |-> [height |-> n, coinbase |-> IsCoinbase(t)]]
    IN IF IsCoinbase(t) /\ n \in Bip30Exceptions THEN st
       ELSE IF ~(consumed \subseteq DOMAIN st.coins) THEN [st EXCEPT !.ok = FALSE]
       ELSE [st EXCEPT !.coins = added @@ left,
                       !.count = @ + Len(Tx[t].outs) - Cardinality(consumed)]

\* The coins of a coinbase at a BIP30 exception height are skipped; a missing
\* input is a panic of the runtime, and the block is not imported.
ProcessBitcoinTransaction(st, t, n) ==
    LET created  == {o \in OutPoints(t) : ~Tx[t].outs[o[2]].opReturn}
        consumed == IF IsCoinbase(t) THEN {} ELSE Range(Tx[t].ins)
        left     == Restrict(st.coins, DOMAIN st.coins \ consumed)
        added    == [o \in created |-> [height |-> n, coinbase |-> IsCoinbase(t)]]
    IN IF IsCoinbase(t) /\ n \in Bip30Exceptions THEN st
       ELSE IF ~(consumed \subseteq DOMAIN st.coins)
         THEN [st EXCEPT !.ok = FALSE]
         ELSE [st EXCEPT !.coins = added @@ left,
                         !.count = @ + Cardinality(created) - Cardinality(consumed)]

ExecuteBlockAt(c, h) ==
    FoldLeft(LAMBDA st, t : IF st.ok THEN ProcessBitcoinTransaction(st, t, Height[h]) ELSE st,
             [ok |-> TRUE, coins |-> c.coins[Parent[h]], count |-> c.count[Parent[h]]],
             TxsOf[h])

\* Mutant: the work of the parent's header is taken for that of its chain.
CalculateChainWorkUnsummed(c, h) == WorkOf(h) + WorkOf(Parent[h])

\* The parent's stored work plus the header's.
CalculateChainWork(c, h) == c.work[Parent[h]] + WorkOf(h)

\* The block becomes the best one when its chain has strictly more work.
ForkChoice(c, h) == CalculateChainWork(c, h) > c.work[c.best]

\* The client refuses what would revert its finalized block.
RevertsFinalized(c, h) ==
    \/ Height[h] <= Height[c.finalized]
    \/ ForkChoice(c, h) /\ c.finalized \notin Chain[h]

\* Block, state, work and fork choice are committed together.
Imported(c, h) ==
    LET st == ExecuteBlockAt(c, h)
    IN [c EXCEPT !.imported = @ \cup {h},
                 !.best = IF ForkChoice(c, h) THEN h ELSE @,
                 !.work = Put(@, h, CalculateChainWork(c, h)),
                 !.coins = Put(@, h, st.coins),
                 !.count = Put(@, h, st.count)]

\* import_block of a node that executes every block.
Importable(c, h) ==
    /\ h \notin c.imported
    /\ Parent[h] \in c.imported
    /\ HasState(c, Parent[h])
    /\ VerifyBlock(c, h)
    /\ ExecuteBlockAt(c, h).ok
    /\ ~RevertsFinalized(c, h)

ImportPanics(c, h) ==
    h \notin c.imported /\ Parent[h] \in c.imported /\ HasState(c, Parent[h]) /\ VerifierPanics(c, h)
=============================================================================
