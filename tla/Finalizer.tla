------------------------------ MODULE Finalizer ------------------------------
(***************************************************************************)
(* The import worker and the finalizer as concurrent tasks over one client. *)
(* The finalizer reads the import notifications, looks up the canonical     *)
(* block that now has enough confirmations, and finalizes it in a spawned   *)
(* worker; while a worker is busy, or the Substrate sync has queued blocks, *)
(* it keeps the highest such block in a shared cell instead.                *)
(* Finalization is the client's: a block that does not extend the finalized *)
(* one is refused, a block outside the best chain becomes the best one, and *)
(* the states of abandoned branches are dropped.                            *)
(***************************************************************************)
EXTENDS BlockImport

CONSTANTS
    Depth           \* confirmation_depth

ASSUME FinalizerAssumption == Depth \in Nat

VARIABLES
    chain,          \* the client, see BlockImport
    stream,         \* import notifications not yet received
    handling,       \* the confirmed block of the notification being handled
    cached,         \* cached_block_to_finalize
    busy,           \* finalizer_worker_is_busy
    worker,         \* the spawned task
    panicked,       \* a task hit a failing expect
    deepest,        \* history: most blocks a reorganisation retracted
    displaced,      \* history: finalization moved the best block
    confirmed       \* history: highest block number found to be confirmed

vars == <<chain, stream, handling, cached, busy, worker, panicked, deepest, displaced, confirmed>>

\* No block: nothing is ever finalized below or at the genesis.
None == Genesis

Init ==
    /\ chain = GenesisChain
    /\ stream = <<>>
    /\ handling = None /\ cached = None
    /\ busy = FALSE
    /\ worker = [pc |-> "Idle", block |-> None]
    /\ panicked = FALSE
    /\ deepest = 0 /\ displaced = FALSE /\ confirmed = 0

Retracted(old, new) == Cardinality(Chain[old] \ Chain[new])

\* The import worker imports a block that it is given, and everyone subscribed
\* is notified.  Refused blocks leave everything as it is.
ImportBlockStep(h) ==
    /\ ~panicked
    /\ IF ImportPanics(chain, h)
         THEN panicked' = TRUE /\ UNCHANGED <<chain, stream, deepest>>
         ELSE /\ Importable(chain, h)
              /\ chain' = Imported(chain, h)
              /\ stream' = Append(stream, h)
              /\ deepest' = Max({deepest, Retracted(chain.best, chain'.best)})
              /\ UNCHANGED panicked
    /\ UNCHANGED <<handling, cached, busy, worker, displaced, confirmed>>

-----------------------------------------------------------------------------
\* Mutant: the imported block is finalized without waiting for confirmations.
OnNotificationUnconfirmed ==
    /\ ~panicked /\ handling = None /\ stream # <<>>
    /\ stream' = Tail(stream)
    /\ LET n == Height[Head(stream)]
       IN /\ handling' = BlockHash(chain, n)
          /\ confirmed' = Max({confirmed, n})
          /\ UNCHANGED panicked
    /\ UNCHANGED <<chain, cached, busy, worker, deepest, displaced>>

\* The loop of run up to the lookup of the block to finalize.
OnNotification ==
    /\ ~panicked /\ handling = None /\ stream # <<>>
    /\ stream' = Tail(stream)
    /\ LET n == Height[Head(stream)] - Depth
       IN IF n <= Height[chain.finalized]
            THEN UNCHANGED <<handling, confirmed, panicked>>
            ELSE IF n > Height[chain.best]
            THEN panicked' = TRUE /\ UNCHANGED <<handling, confirmed>>
            ELSE /\ handling' = BlockHash(chain, n)
                 /\ confirmed' = Max({confirmed, n})
                 /\ UNCHANGED panicked
    /\ UNCHANGED <<chain, cached, busy, worker, deepest, displaced>>

\* Mutant: the cell keeps the latest block, not the highest.
CacheLatest(b) == b

\* try_update_cached_block_to_finalize
CacheHighest(b) == IF Height[b] > Height[cached] THEN b ELSE cached

\* The Substrate sync has queued blocks, or a worker is busy.
Postpone ==
    /\ ~panicked /\ handling # None
    /\ cached' = CacheHighest(handling)
    /\ handling' = None
    /\ UNCHANGED <<chain, stream, busy, worker, panicked, deepest, displaced, confirmed>>

SpawnWorker ==
    /\ ~panicked /\ handling # None /\ ~busy
    /\ busy' = TRUE
    /\ worker' = [pc |-> "First", block |-> handling]
    /\ handling' = None
    /\ UNCHANGED <<chain, stream, cached, panicked, deepest, displaced, confirmed>>

-----------------------------------------------------------------------------
FinalizeBlock(c, b) ==
    LET kept == {h \in DOMAIN c.coins : b \in Chain[h] \/ h \in Chain[b]}
    IN IF c.finalized \notin Chain[b] THEN c
       ELSE [c EXCEPT !.finalized = b,
                      !.best = IF b \in Chain[@] THEN @ ELSE b,
                      !.coins = Restrict(@, kept), !.count = Restrict(@, kept)]

DoFinalizeBlock(c, b) ==
    IF Height[b] <= Height[c.finalized] THEN c ELSE FinalizeBlock(c, b)

WorkerFinalizes(from, to) ==
    /\ ~panicked /\ worker.pc = from
    /\ chain' = DoFinalizeBlock(chain, worker.block)
    /\ displaced' = (displaced \/ chain'.best # chain.best)
    /\ worker' = [pc |-> to, block |-> None]
    /\ UNCHANGED <<stream, handling, cached, busy, panicked, deepest, confirmed>>

WorkerTakesCached ==
    /\ ~panicked /\ worker.pc = "Take"
    /\ worker' = [pc |-> "Cached", block |-> cached]
    /\ cached' = None
    /\ UNCHANGED <<chain, stream, handling, busy, panicked, deepest, displaced, confirmed>>

WorkerDone ==
    /\ ~panicked /\ worker.pc = "Done"
    /\ busy' = FALSE
    /\ worker' = [pc |-> "Idle", block |-> None]
    /\ UNCHANGED <<chain, stream, handling, cached, panicked, deepest, displaced, confirmed>>

Next ==
    \/ \E h \in Hash \ {Genesis} : ImportBlockStep(h)
    \/ OnNotification \/ Postpone \/ SpawnWorker
    \/ WorkerFinalizes("First", "Take") \/ WorkerTakesCached
    \/ WorkerFinalizes("Cached", "Done") \/ WorkerDone

Spec == Init /\ [][Next]_vars

-----------------------------------------------------------------------------
\* The variables have their types, and what is stored per block is there for the
\* imported blocks only.
TypeOK ==
    /\ chain.imported \subseteq Hash
    /\ {chain.best, chain.finalized} \subseteq chain.imported
    /\ DOMAIN chain.work = chain.imported
    /\ DOMAIN chain.coins \subseteq chain.imported
    /\ DOMAIN chain.count = DOMAIN chain.coins
    /\ stream \in Seq(Hash) /\ {handling, cached} \subseteq Hash
    /\ busy \in BOOLEAN /\ panicked \in BOOLEAN /\ displaced \in BOOLEAN
    /\ worker \in [pc : {"Idle", "First", "Take", "Cached", "Done"}, block : Hash]
    /\ deepest \in Nat /\ confirmed \in Nat

\* What the chain of a block creates, and what it spends.
CreatedBy(h) ==
    {o \in UNION {OutPoints(TxsOf[h][i]) : i \in DOMAIN TxsOf[h]} :
        /\ ~Tx[o[1]].outs[o[2]].opReturn
        /\ ~(IsCoinbase(o[1]) /\ Height[h] \in Bip30Exceptions)}

SpentBy(h) == UNION {Range(Tx[TxsOf[h][i]].ins) : i \in DOMAIN TxsOf[h]}

\* The state of every block, on whichever branch and in whatever order blocks
\* were imported, is the UTXO set its own chain defines, with the height that
\* created each coin (process_bitcoin_transaction applied to the parent's state);
\* and CoinsCount, which is maintained by adding and subtracting, is its size,
\* duplicate coinbases included.
CoinsExact ==
    TypeOK /\ \A h \in DOMAIN chain.coins :
        LET above == Chain[h] \ {Genesis}
            coins == UNION {CreatedBy(b) : b \in above} \ UNION {SpentBy(b) : b \in above}
        IN /\ DOMAIN chain.coins[h] = coins /\ chain.count[h] = Cardinality(coins)
           /\ \A o \in coins : \E b \in above :
                 o \in CreatedBy(b) /\ chain.coins[h][o].height = Height[b]

\* Every imported block is valid on its own branch: verification reads the
\* coins of the canonical block at the parent's height, and what it wrongly
\* accepts on a fork is caught by the execution on the real parent's state.  So
\* the coins of a state are never worth more than the subsidies of its chain
\* ("Ensures no inflation").
ImportedAreValid ==
    \A h \in DOMAIN chain.coins \ {Genesis} :
        /\ CheckBlockSanity(h) /\ h \notin BadHeader \cup BadWitness
        /\ CheckTransactions(chain.coins[Parent[h]], h)
        /\ MapThenSumSet(SpentValue, DOMAIN chain.coins[h])
              <= MapThenSumSet(BitcoinBlockSubsidy, 1..Height[h])

\* The stored work is the accumulated work, and no imported block has more of
\* it than the best one unless finalization has moved the best block.
BestHasMostWork ==
    /\ \A h \in chain.imported : chain.work[h] = ChainWork[h]
    /\ ~displaced => \A h \in chain.imported : ChainWork[h] <= ChainWork[chain.best]

\* The finalized block is on the best chain, and finalization moves the best
\* block only after a reorganisation deeper than the confirmation depth, however
\* late the worker finalizes the block it was given.
FinalizedConfirmed ==
    /\ chain.finalized \in Chain[chain.best]
    /\ deepest <= Depth => ~displaced

\* The highest confirmed block is never forgotten: it is finalized, or held by
\* the loop, the shared cell or the worker.
NothingForgotten ==
    deepest <= Depth =>
        \E b \in {chain.finalized, handling, cached, worker.block} : Height[b] >= confirmed

\* The failing expects are unreachable: "Block must exist; qed" in the header
\* check, "Confirmed block must be available; qed" in the finalizer.
NoPanic == ~panicked
=============================================================================
