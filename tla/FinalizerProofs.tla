--------------------------- MODULE FinalizerProofs ---------------------------
(***************************************************************************)
(* What the import worker and the finalizer keep true of the client they    *)
(* share, for every tree of blocks, every confirmation depth and every      *)
(* interleaving of the two tasks with the spawned worker.                   *)
(***************************************************************************)
EXTENDS Finalizer, BlockTreeProofs, FiniteSetTheorems

\* The parts of the client.
ClientShape(c) == DOMAIN c = {"imported", "best", "finalized", "work", "coins", "count"}

\* The ancestors of an imported block are imported.
ImportedClosed == \A h \in chain.imported : Chain[h] \subseteq chain.imported

\* Notifications are of imported blocks, and so are the blocks the tasks hold;
\* the worker holds a block only between receiving it and finalizing it, and there
\* is no worker unless the flag is set.
TasksInv ==
    /\ \A i \in DOMAIN stream : stream[i] \in chain.imported
    /\ {handling, cached, worker.block} \subseteq chain.imported
    /\ worker.pc \in {"First", "Cached"} \/ worker.block = None
    /\ busy \/ worker.pc = "Idle"

\* The inductive invariant of the client, which needs nothing of the tree.
ClientInv ==
    /\ TypeOK /\ ClientShape(chain) /\ TasksInv /\ ImportedClosed
    /\ BestHasMostWork
    /\ chain.finalized \in Chain[chain.best]

\* A block that has its confirmations on the best chain.
Settled(b) ==
    b = None \/ (b \in Chain[chain.best] /\ Height[b] + Depth <= Height[chain.best])

\* What is known of the blocks on their way to finalization while no
\* reorganisation is deeper than the confirmation depth.
SettledInv ==
    /\ ~displaced
    /\ Settled(handling) /\ Settled(cached) /\ Settled(worker.block)
    /\ \E b \in {chain.finalized, handling, cached, worker.block} : Height[b] >= confirmed

ConfirmedInv == deepest <= Depth => SettledInv

IInv == ClientInv /\ ConfirmedInv

-----------------------------------------------------------------------------
(* Reorganisations.                                                         *)

\* A block that a reorganisation takes off the best chain had at most as many
\* blocks on it, itself included, as the reorganisation retracts.
LEMMA RetractedBlocks ==
    ASSUME NEW old \in Hash, NEW new \in Hash, NEW b \in Chain[old], b \notin Chain[new]
    PROVE  /\ Cardinality(Chain[old] \ Chain[new]) \in Nat
           /\ Height[old] - Height[b] + 1 <= Cardinality(Chain[old] \ Chain[new])
<1> DEFINE D == Chain[old] \ Chain[new]
           lo == Height[b]
           hi == Height[old]
           f == [n \in lo..hi |-> CHOOSE c \in Chain[old] : Height[c] = n]
<1>1. IsFiniteSet(D) /\ Cardinality(D) \in Nat
  <2>1. D \in SUBSET Hash
    BY ChainBasics, Zenon
  <2> QED
    BY <2>1, FS_Subset, FS_CardinalityType, BlockTreeAssumption, Zenon
<1>2. b \in Hash /\ lo \in Nat /\ hi \in Nat /\ lo <= hi
  BY ChainBasics, BlockTreeAssumption
<1>3. ASSUME NEW n \in lo..hi
      PROVE  f[n] \in D /\ Height[f[n]] = n
  <2>1. f[n] \in Chain[old] /\ Height[f[n]] = n
    BY <1>2, ChainComplete
  <2>2. f[n] \notin Chain[new]
    BY <1>2, <2>1, ChainOrdered, ChainTransitive
  <2> QED
    BY <2>1, <2>2, Zenon
<1>4. f \in Injection(lo..hi, D)
  <2>1. f \in [lo..hi -> D]
    BY <1>3, Zenon
  <2>2. \A m, n \in lo..hi : f[m] = f[n] => m = n
    BY <1>3, Zenon
  <2> HIDE DEF f, D, lo, hi
  <2> QED
    BY <2>1, <2>2, Zenon DEF Injection, IsInjective
<1>5. Cardinality(lo..hi) <= Cardinality(D)
  <2> HIDE DEF f, D, lo, hi
  <2> QED
    BY <1>1, <1>4, FS_Injection, Zenon
<1>6. Cardinality(lo..hi) = hi - lo + 1
  <2> HIDE DEF lo, hi
  <2> QED
    BY <1>2, FS_Interval
<1> QED
  BY <1>1, <1>2, <1>5, <1>6, Zenon

-----------------------------------------------------------------------------
(* The client's operations, field by field.                                 *)

\* The larger of two naturals, as Max picks it.
LEMMA MaxOfTwo ==
    ASSUME NEW a \in Nat, NEW b \in Nat
    PROVE  Max({a, b}) \in {a, b} /\ Max({a, b}) >= a /\ Max({a, b}) >= b
<1>1. \E x \in {a, b} : \A y \in {a, b} : x >= y
  <2>1. CASE a >= b BY <2>1
  <2>2. CASE b >= a BY <2>2
  <2> QED BY <2>1, <2>2
<1>2. /\ Max({a, b}) \in {a, b}
      /\ \A y \in {a, b} : Max({a, b}) >= y
  BY <1>1, Zenon DEF Max
<1> QED
  BY <1>2, Zenon

\* Importing a block adds it and its work, and leaves the finalized block.
LEMMA ImportedFields ==
    ASSUME NEW c, ClientShape(c), NEW h
    PROVE  /\ ClientShape(Imported(c, h))
           /\ Imported(c, h).imported = c.imported \cup {h}
           /\ Imported(c, h).best = IF ForkChoice(c, h) THEN h ELSE c.best
           /\ Imported(c, h).finalized = c.finalized
           /\ Imported(c, h).work = Put(c.work, h, CalculateChainWork(c, h))
           /\ Imported(c, h).coins = Put(c.coins, h, ExecuteBlockAt(c, h).coins)
           /\ Imported(c, h).count = Put(c.count, h, ExecuteBlockAt(c, h).count)
BY Zenon DEF ClientShape, Imported

\* Finalizing a block leaves the client as it is, or makes the block the
\* finalized one, on the best chain and above the one finalized before.
LEMMA FinalizedFields ==
    ASSUME NEW c, ClientShape(c), NEW b
    PROVE  LET d == DoFinalizeBlock(c, b)
           IN  \/ d = c /\ (Height[b] <= Height[c.finalized] \/ c.finalized \notin Chain[b])
               \/ /\ ~(Height[b] <= Height[c.finalized]) /\ c.finalized \in Chain[b]
                  /\ ClientShape(d)
                  /\ d.imported = c.imported /\ d.work = c.work
                  /\ d.finalized = b
                  /\ d.best = IF b \in Chain[c.best] THEN c.best ELSE b
                  /\ DOMAIN d.coins \subseteq DOMAIN c.coins
                  /\ DOMAIN d.count = DOMAIN d.coins
<1> DEFINE kept == {h \in DOMAIN c.coins : b \in Chain[h] \/ h \in Chain[b]}
           e == [c EXCEPT !.finalized = b,
                          !.best = IF b \in Chain[@] THEN @ ELSE b,
                          !.coins = Restrict(@, kept), !.count = Restrict(@, kept)]
<1>1. DoFinalizeBlock(c, b) =
        IF Height[b] <= Height[c.finalized] \/ c.finalized \notin Chain[b] THEN c ELSE e
  BY Zenon DEF DoFinalizeBlock, FinalizeBlock
<1>2. /\ ClientShape(e)
      /\ e.imported = c.imported /\ e.work = c.work
      /\ e.finalized = b
      /\ e.best = IF b \in Chain[c.best] THEN c.best ELSE b
      /\ e.coins = Restrict(c.coins, kept) /\ e.count = Restrict(c.count, kept)
  BY Zenon DEF ClientShape
<1>3. DOMAIN e.coins = kept /\ DOMAIN e.count = kept /\ kept \subseteq DOMAIN c.coins
  BY <1>2, Zenon DEF Restrict
<1> QED
  <2> HIDE DEF e, kept
  <2> QED
    BY <1>1, <1>2, <1>3, Zenon

-----------------------------------------------------------------------------
(* The client invariant is inductive.                                       *)

\* The work stored for the genesis is that of its header.
LEMMA ClientInvInit == Init => ClientInv
<1> SUFFICES ASSUME Init PROVE ClientInv
  BY Zenon
<1>1. Genesis \in Hash /\ Chain[Genesis] = {Genesis} /\ ChainWork[Genesis] \in Nat
  BY BlockTreeAssumption, WorkAssumption, ChainRecursion, Zenon
<1>2. /\ chain.imported = {Genesis} /\ chain.best = Genesis /\ chain.finalized = Genesis
      /\ chain.work = [h \in {Genesis} |-> ChainWork[Genesis]]
      /\ DOMAIN chain.coins = {Genesis} /\ DOMAIN chain.count = {Genesis}
      /\ ClientShape(chain)
  BY Zenon DEF Init, GenesisChain, WorkOf, ClientShape
<1>3. TypeOK
  <2>1. stream \in Seq(Hash) /\ worker \in [pc : {"Idle", "First", "Take", "Cached", "Done"}, block : Hash]
    BY <1>1 DEF Init, None
  <2> QED
    BY <1>1, <1>2, <2>1, Zenon DEF Init, TypeOK, None
<1>4. TasksInv /\ ImportedClosed
  BY <1>1, <1>2 DEF Init, TasksInv, ImportedClosed, None
<1>5. BestHasMostWork
  BY <1>1, <1>2 DEF BestHasMostWork
<1> QED
  BY <1>1, <1>2, <1>3, <1>4, <1>5, Zenon DEF ClientInv

\* The stored work of a new block is its accumulated work, so the fork choice
\* compares what it should.
LEMMA ForkChoiceByWork ==
    ASSUME ClientInv, NEW h \in Hash \ {Genesis}, Parent[h] \in chain.imported
    PROVE  /\ CalculateChainWork(chain, h) = ChainWork[h]
           /\ ForkChoice(chain, h) <=> ChainWork[h] > ChainWork[chain.best]
<1>1. Parent[h] \in Hash /\ ChainWork[h] \in Nat /\ ChainWork[Parent[h]] \in Nat
  BY ParentLower, WorkAssumption, Zenon
<1>2. chain.work[Parent[h]] = ChainWork[Parent[h]] /\ chain.work[chain.best] = ChainWork[chain.best]
  BY Zenon DEF ClientInv, BestHasMostWork, TypeOK
<1>3. CalculateChainWork(chain, h) = ChainWork[h]
  BY <1>1, <1>2 DEF CalculateChainWork, WorkOf
<1> QED
  BY <1>2, <1>3, Zenon DEF ForkChoice

\* An imported block keeps the client invariant.
LEMMA ImportKeepsClient ==
    ASSUME ClientInv, NEW h \in Hash \ {Genesis}, ImportBlockStep(h)
    PROVE  ClientInv'
<1> USE DEF ClientInv
<1>1. CASE ImportPanics(chain, h)
  BY <1>1, Zenon DEF ImportBlockStep, TypeOK, TasksInv, ImportedClosed, BestHasMostWork
<1>2. CASE ~ImportPanics(chain, h)
  <2>1. /\ Importable(chain, h) /\ chain' = Imported(chain, h)
        /\ stream' = Append(stream, h)
        /\ deepest' = Max({deepest, Retracted(chain.best, chain'.best)})
        /\ UNCHANGED <<panicked, handling, cached, busy, worker, displaced, confirmed>>
    BY <1>2, Zenon DEF ImportBlockStep
  <2>2. h \notin chain.imported /\ Parent[h] \in chain.imported /\ ~RevertsFinalized(chain, h)
    BY <2>1, Zenon DEF Importable
  <2>3. /\ ClientShape(chain')
        /\ chain'.imported = chain.imported \cup {h}
        /\ chain'.best = IF ForkChoice(chain, h) THEN h ELSE chain.best
        /\ chain'.finalized = chain.finalized
        /\ chain'.work = Put(chain.work, h, CalculateChainWork(chain, h))
        /\ chain'.coins = Put(chain.coins, h, ExecuteBlockAt(chain, h).coins)
        /\ chain'.count = Put(chain.count, h, ExecuteBlockAt(chain, h).count)
    BY <2>1, ImportedFields
  <2>4. /\ DOMAIN chain'.work = chain.imported \cup {h}
        /\ DOMAIN chain'.coins = DOMAIN chain.coins \cup {h}
        /\ DOMAIN chain'.count = DOMAIN chain.coins \cup {h}
        /\ chain'.work[h] = ChainWork[h]
        /\ \A x \in chain.imported : chain'.work[x] = chain.work[x]
    <3>1. CalculateChainWork(chain, h) = ChainWork[h]
      BY <2>2, ForkChoiceByWork, Zenon
    <3>2. /\ DOMAIN chain.work = chain.imported /\ DOMAIN chain.count = DOMAIN chain.coins
          /\ h \notin DOMAIN chain.work
      BY <2>2, Zenon DEF TypeOK
    <3>3. DOMAIN chain'.coins = DOMAIN chain.coins \cup {h}
      BY <2>3, Zenon DEF Put
    <3>4. DOMAIN chain'.count = DOMAIN chain.coins \cup {h}
      BY <2>3, <3>2, Zenon DEF Put
    <3>5. /\ DOMAIN chain'.work = chain.imported \cup {h}
          /\ chain'.work[h] = ChainWork[h]
          /\ \A x \in chain.imported : chain'.work[x] = chain.work[x]
      BY <2>3, <3>1, <3>2, Zenon DEF Put
    <3> QED
      BY <3>3, <3>4, <3>5, Zenon
  <2>5. deepest' \in Nat
    <3>1. Retracted(chain.best, chain'.best) \in Nat
      <4>1. Chain[chain.best] \ Chain[chain'.best] \in SUBSET Hash
        BY ChainBasics, Zenon DEF TypeOK
      <4> QED
        BY <4>1, FS_Subset, FS_CardinalityType, BlockTreeAssumption, Zenon DEF Retracted
    <3> QED
      BY <2>1, <3>1, MaxOfTwo, Zenon DEF TypeOK
  <2>6. TypeOK'
    BY <2>1, <2>3, <2>4, <2>5 DEF TypeOK
  <2>7. TasksInv'
    BY <2>1, <2>3 DEF TasksInv, TypeOK
  <2>8. BestHasMostWork'
    <3>1. ForkChoice(chain, h) <=> ChainWork[h] > ChainWork[chain.best]
      BY <2>2, ForkChoiceByWork, Zenon
    <3>2. \A x \in chain.imported \cup {h} : ChainWork[x] \in Nat
      BY WorkAssumption, Zenon DEF TypeOK
    <3>3. ~displaced => \A x \in chain.imported \cup {h} : ChainWork[x] <= ChainWork[chain'.best]
      BY <2>3, <3>1, <3>2 DEF BestHasMostWork, TypeOK
    <3> QED
      BY <2>1, <2>3, <2>4, <3>3, Zenon DEF BestHasMostWork
  <2>9. chain'.finalized \in Chain[chain'.best]
    BY <2>2, <2>3, Zenon DEF RevertsFinalized
  <2>10. ImportedClosed'
    <3>1. Chain[h] = Chain[Parent[h]] \cup {h}
      BY ChainRecursion, Zenon
    <3> QED
      BY <2>2, <2>3, <3>1, Zenon DEF ImportedClosed
  <2> QED
    BY <2>3, <2>6, <2>7, <2>8, <2>9, <2>10, Zenon
<1> QED
  BY <1>1, <1>2, Zenon

\* Finalizing a block, on the best chain or not, keeps the client invariant.
LEMMA FinalizeKeepsClient ==
    ASSUME ClientInv, NEW from \in {"First", "Cached"}, NEW to \in {"Take", "Done"},
           WorkerFinalizes(from, to)
    PROVE  ClientInv'
<1> USE DEF ClientInv
<1> DEFINE b == worker.block
<1>1. /\ chain' = DoFinalizeBlock(chain, b)
      /\ displaced' = (displaced \/ chain'.best # chain.best)
      /\ worker.pc = from /\ worker' = [pc |-> to, block |-> None]
      /\ UNCHANGED <<stream, handling, cached, busy, panicked, deepest, confirmed>>
  BY Zenon DEF WorkerFinalizes
<1>2. b \in Hash /\ None \in Hash /\ busy
  BY <1>1, BlockTreeAssumption, Zenon DEF TypeOK, TasksInv, None
<1>3. worker' \in [pc : {"Idle", "First", "Take", "Cached", "Done"}, block : Hash]
  BY <1>1, <1>2, Zenon
<1>4. displaced' \in BOOLEAN
  BY <1>1, Zenon DEF TypeOK
<1>5. None \in chain.imported
  BY ChainBasics, Zenon DEF TypeOK, ImportedClosed, None
<1>6. CASE chain' = chain
  <2>1. TypeOK'
    BY <1>1, <1>3, <1>4, <1>6, Zenon DEF TypeOK
  <2>2. TasksInv' /\ ImportedClosed'
    BY <1>1, <1>2, <1>6, <1>5, Zenon DEF TasksInv, ImportedClosed
  <2>3. BestHasMostWork'
    BY <1>1, <1>6, Zenon DEF BestHasMostWork
  <2> QED
    BY <1>6, <2>1, <2>2, <2>3, Zenon
<1>7. CASE chain' # chain
  <2>1. /\ chain.finalized \in Chain[b]
        /\ ClientShape(chain')
        /\ chain'.imported = chain.imported /\ chain'.work = chain.work
        /\ chain'.finalized = b
        /\ chain'.best = IF b \in Chain[chain.best] THEN chain.best ELSE b
        /\ DOMAIN chain'.coins \subseteq DOMAIN chain.coins
        /\ DOMAIN chain'.count = DOMAIN chain'.coins
    BY <1>1, <1>7, FinalizedFields
  <2>2. b \in chain.imported
    BY Zenon DEF TasksInv
  <2>3. TypeOK'
    BY <1>1, <1>3, <1>4, <2>1, <2>2 DEF TypeOK
  <2>4. TasksInv' /\ ImportedClosed'
    BY <1>1, <1>2, <1>5, <2>1, Zenon DEF TasksInv, ImportedClosed
  <2>5. BestHasMostWork'
    BY <1>1, <2>1, Zenon DEF BestHasMostWork
  <2>6. chain'.finalized \in Chain[chain'.best]
    BY <1>2, <2>1, ChainBasics, Zenon
  <2> QED
    BY <2>1, <2>3, <2>4, <2>5, <2>6, Zenon
<1> QED
  BY <1>6, <1>7, Zenon

\* Reading a notification: the confirmed block is one of the best chain's.
LEMMA NotificationBlock ==
    ASSUME ClientInv, OnNotification
    PROVE  LET n == Height[Head(stream)] - Depth
           IN  /\ Head(stream) \in chain.imported /\ Head(stream) \in Hash
               /\ stream' = Tail(stream) /\ stream' \in Seq(Hash)
               /\ \A i \in DOMAIN stream' : stream'[i] \in chain.imported
               /\ UNCHANGED <<chain, cached, busy, worker, deepest, displaced>>
               /\ handling = None /\ ~panicked
               /\ \/ UNCHANGED <<handling, confirmed, panicked>>
                  \/ /\ n > Height[chain.best] /\ panicked' = TRUE
                     /\ UNCHANGED <<handling, confirmed>>
                  \/ /\ n \in Nat /\ n <= Height[chain.best]
                     /\ handling' \in Chain[chain.best] /\ handling' \in chain.imported
                     /\ Height[handling'] = n
                     /\ confirmed' \in {confirmed, n} /\ confirmed' \in Nat
                     /\ UNCHANGED panicked
<1> USE DEF ClientInv
<1> DEFINE n == Height[Head(stream)] - Depth
<1>1. /\ stream \in Seq(Hash) /\ stream # <<>> /\ stream' = Tail(stream)
      /\ \A i \in DOMAIN stream : stream[i] \in chain.imported
      /\ UNCHANGED <<chain, cached, busy, worker, deepest, displaced>>
      /\ handling = None /\ ~panicked
  BY Zenon DEF OnNotification, TypeOK, TasksInv
<1>2. /\ stream' \in Seq(Hash)
      /\ \A i \in DOMAIN stream' : stream'[i] \in chain.imported
      /\ Head(stream) \in chain.imported
  BY <1>1
<1>3. Head(stream) \in Hash /\ chain.best \in Hash /\ chain.finalized \in Hash
  BY <1>2, Zenon DEF TypeOK
<1>4. n \in Int /\ Height[chain.best] \in Nat /\ Height[chain.finalized] \in Nat
  BY <1>3, FinalizerAssumption, BlockTreeAssumption
<1>5. IF n <= Height[chain.finalized]
        THEN UNCHANGED <<handling, confirmed, panicked>>
        ELSE IF n > Height[chain.best]
        THEN panicked' = TRUE /\ UNCHANGED <<handling, confirmed>>
        ELSE /\ handling' = BlockHash(chain, n)
             /\ confirmed' = Max({confirmed, n})
             /\ UNCHANGED panicked
  BY Zenon DEF OnNotification
<1> HIDE DEF n
<1>6. CASE n <= Height[chain.finalized] \/ n > Height[chain.best]
  BY <1>1, <1>2, <1>3, <1>5, <1>6, Zenon DEF n
<1>7. CASE ~(n <= Height[chain.finalized]) /\ ~(n > Height[chain.best])
  <2>1. n \in Nat /\ n <= Height[chain.best]
    BY <1>4, <1>7
  <2>2. handling' = BlockHash(chain, n) /\ confirmed' = Max({confirmed, n}) /\ UNCHANGED panicked
    BY <1>5, <1>7, Zenon
  <2>3. handling' \in Chain[chain.best] /\ Height[handling'] = n
    BY <1>3, <2>1, <2>2, CanonicalBlock, Zenon
  <2>4. handling' \in chain.imported
    BY <2>3, Zenon DEF ImportedClosed, TypeOK
  <2>5. confirmed' \in {confirmed, n} /\ confirmed' \in Nat
    BY <2>1, <2>2, MaxOfTwo, Zenon DEF TypeOK
  <2> QED
    BY <1>1, <1>2, <1>3, <2>1, <2>2, <2>3, <2>4, <2>5, Zenon DEF n
<1> QED
  BY <1>6, <1>7, Zenon

\* No step of any task breaks the client invariant.
LEMMA ClientInvNext == ClientInv /\ [Next]_vars => ClientInv'
<1> SUFFICES ASSUME ClientInv, [Next]_vars PROVE ClientInv'
  BY Zenon
<1> USE DEF ClientInv
<1>1. None \in chain.imported /\ None \in Hash
  BY ChainBasics, Zenon DEF TypeOK, ImportedClosed, None
<1>2. ASSUME NEW h \in Hash \ {Genesis}, ImportBlockStep(h) PROVE ClientInv'
  BY <1>2, ImportKeepsClient, Zenon
<1>3. CASE OnNotification
  <2>1. /\ stream' \in Seq(Hash)
        /\ \A i \in DOMAIN stream' : stream'[i] \in chain.imported
        /\ handling' \in chain.imported /\ confirmed' \in Nat /\ panicked' \in BOOLEAN
        /\ UNCHANGED <<chain, cached, busy, worker, deepest, displaced>>
    BY <1>3, NotificationBlock, Zenon DEF TypeOK, TasksInv
  <2> QED
    BY <2>1, Zenon DEF TypeOK, TasksInv, ImportedClosed, BestHasMostWork
<1>4. CASE Postpone
  BY <1>1, <1>4, Zenon DEF Postpone, CacheHighest, TypeOK, TasksInv, ImportedClosed, BestHasMostWork
<1>5. CASE SpawnWorker
  <2>1. worker' \in [pc : {"Idle", "First", "Take", "Cached", "Done"}, block : Hash]
    BY <1>5, Zenon DEF SpawnWorker, TypeOK
  <2> QED
    BY <1>1, <1>5, <2>1, Zenon DEF SpawnWorker, TypeOK, TasksInv, ImportedClosed, BestHasMostWork
<1>6. CASE WorkerFinalizes("First", "Take")
  BY <1>6, FinalizeKeepsClient, Zenon
<1>7. CASE WorkerTakesCached
  <2>1. worker' \in [pc : {"Idle", "First", "Take", "Cached", "Done"}, block : Hash]
    BY <1>7, Zenon DEF WorkerTakesCached, TypeOK
  <2> QED
    BY <1>1, <1>7, <2>1 DEF WorkerTakesCached, TypeOK, TasksInv, ImportedClosed, BestHasMostWork
<1>8. CASE WorkerFinalizes("Cached", "Done")
  BY <1>8, FinalizeKeepsClient, Zenon
<1>9. CASE WorkerDone
  <2>1. worker' \in [pc : {"Idle", "First", "Take", "Cached", "Done"}, block : Hash]
    BY <1>1, <1>9, Zenon DEF WorkerDone
  <2>2. /\ busy' \in BOOLEAN /\ worker.pc' = "Idle" /\ worker.block' = None
        /\ UNCHANGED <<chain, stream, handling, cached, panicked, deepest, displaced, confirmed>>
    BY <1>9, Zenon DEF WorkerDone
  <2>3. TypeOK'
    BY <2>1, <2>2, Zenon DEF TypeOK
  <2>4. TasksInv'
    BY <1>1, <2>2, Zenon DEF TasksInv
  <2> QED
    BY <2>2, <2>3, <2>4, Zenon DEF ImportedClosed, BestHasMostWork
<1>10. CASE UNCHANGED vars
  BY <1>10, Zenon DEF vars, TypeOK, TasksInv, ImportedClosed, BestHasMostWork
<1> QED
  BY <1>2, <1>3, <1>4, <1>5, <1>6, <1>7, <1>8, <1>9, <1>10, Zenon DEF Next

\* The client invariant holds throughout.
LEMMA ClientInvariant == Spec => []ClientInv
BY ClientInvInit, ClientInvNext, PTL DEF Spec

\* The work stored with every imported block is the accumulated work of its chain,
\* and as long as finalization has not moved the best block no imported block has
\* more: fork choice and import keep the client on the heaviest chain whatever
\* the order in which blocks of competing branches arrive.
THEOREM BestHasMostWorkTheorem == Spec => []BestHasMostWork
<1>1. ClientInv => BestHasMostWork
  BY Zenon DEF ClientInv
<1> QED
  BY <1>1, ClientInvariant, PTL

-----------------------------------------------------------------------------
(* Confirmed blocks, for branches of one difficulty.                        *)

\* A block with its confirmations on the best chain keeps them when the best
\* block changes by a reorganisation no deeper than the confirmation depth.
LEMMA SettledAfterReorg ==
    ASSUME NEW old \in Hash, NEW new \in Hash, Height[old] <= Height[new],
           Retracted(old, new) <= Depth,
           NEW b \in Chain[old], Height[b] + Depth <= Height[old]
    PROVE  b \in Chain[new] /\ Height[b] + Depth <= Height[new]
<1>1. b \in Hash /\ Height[b] \in Nat /\ Height[old] \in Nat /\ Height[new] \in Nat
  BY ChainBasics, BlockTreeAssumption, Zenon
<1>2. ASSUME b \notin Chain[new] PROVE FALSE
  <2>1. /\ Retracted(old, new) \in Nat
        /\ Height[old] - Height[b] + 1 <= Retracted(old, new)
    BY <1>2, RetractedBlocks, Zenon DEF Retracted
  <2> QED
    BY <1>1, <2>1, FinalizerAssumption
<1> QED
  BY <1>1, <1>2, FinalizerAssumption

\* A block that becomes the best one has more work, so it is not lower.
LEMMA ImportKeepsConfirmed ==
    ASSUME WorkFollowsHeight, ClientInv, ConfirmedInv,
           NEW h \in Hash \ {Genesis}, ImportBlockStep(h)
    PROVE  ConfirmedInv'
<1>1. CASE ImportPanics(chain, h)
  BY <1>1, Zenon DEF ImportBlockStep, ConfirmedInv, SettledInv, Settled
<1>2. CASE ~ImportPanics(chain, h)
  <2>1. /\ Importable(chain, h) /\ chain' = Imported(chain, h)
        /\ deepest' = Max({deepest, Retracted(chain.best, chain'.best)})
        /\ UNCHANGED <<handling, cached, worker, displaced, confirmed>>
    BY <1>2, Zenon DEF ImportBlockStep
  <2>2. /\ chain'.best = IF ForkChoice(chain, h) THEN h ELSE chain.best
        /\ chain'.finalized = chain.finalized
    BY <2>1, ImportedFields, Zenon DEF ClientInv
  <2>3. chain.best \in Hash /\ chain'.best \in Hash /\ deepest \in Nat
    BY <2>2, Zenon DEF ClientInv, TypeOK
  <2>4. Height[chain.best] <= Height[chain'.best]
    <3>1. ForkChoice(chain, h) => ChainWork[h] > ChainWork[chain.best]
      BY <2>1, ForkChoiceByWork, Zenon DEF Importable
    <3>2. ChainWork[chain.best] \in Nat /\ ChainWork[h] \in Nat
      BY <2>3, WorkAssumption, Zenon
    <3>3. ChainWork[chain.best] <= ChainWork[chain'.best]
      BY <2>2, <3>1, <3>2
    <3> QED
      BY <2>3, <3>3, Zenon DEF WorkFollowsHeight
  <2>5. Retracted(chain.best, chain'.best) \in Nat
    <3>1. Chain[chain.best] \ Chain[chain'.best] \in SUBSET Hash
      BY <2>3, ChainBasics, Zenon
    <3> QED
      BY <3>1, FS_Subset, FS_CardinalityType, BlockTreeAssumption, Zenon DEF Retracted
  <2>6. deepest <= deepest' /\ Retracted(chain.best, chain'.best) <= deepest' /\ deepest' \in Nat
    BY <2>1, <2>3, <2>5, MaxOfTwo, Zenon
  <2>7. SUFFICES ASSUME deepest' <= Depth PROVE SettledInv'
    BY Zenon DEF ConfirmedInv
  <2>8. SettledInv /\ Retracted(chain.best, chain'.best) <= Depth
    BY <2>3, <2>5, <2>6, <2>7, FinalizerAssumption DEF ConfirmedInv
  <2>9. ASSUME NEW b, Settled(b)
        PROVE  b = None \/ (b \in Chain[chain'.best] /\ Height[b] + Depth <= Height[chain'.best])
    BY <2>3, <2>4, <2>8, <2>9, SettledAfterReorg, Zenon DEF Settled
  <2>10. Settled(handling)' /\ Settled(cached)' /\ Settled(worker.block)'
    BY <2>1, <2>8, <2>9, Zenon DEF SettledInv, Settled
  <2> QED
    BY <2>1, <2>2, <2>8, <2>10, Zenon DEF SettledInv
<1> QED
  BY <1>1, <1>2, Zenon

\* As long as the best block has the most work, no imported block is higher.
LEMMA NoneHigher ==
    ASSUME WorkFollowsHeight, ClientInv, ~displaced, NEW h \in chain.imported
    PROVE  Height[h] <= Height[chain.best]
BY Zenon DEF WorkFollowsHeight, ClientInv, BestHasMostWork, TypeOK

\* The block found for a notification has its confirmations, because the notified
\* block is no higher than the best one.
LEMMA NotificationKeepsConfirmed ==
    ASSUME WorkFollowsHeight, ClientInv, ConfirmedInv, OnNotification
    PROVE  ConfirmedInv'
<1> DEFINE n == Height[Head(stream)] - Depth
<1>1. /\ Head(stream) \in chain.imported /\ Head(stream) \in Hash
      /\ UNCHANGED <<chain, cached, busy, worker, deepest, displaced>>
      /\ handling = None
      /\ \/ UNCHANGED <<handling, confirmed>>
         \/ /\ n \in Nat /\ n <= Height[chain.best]
            /\ handling' \in Chain[chain.best]
            /\ Height[handling'] = n
            /\ confirmed' \in {confirmed, n}
  BY NotificationBlock, Zenon
<1>2. SUFFICES ASSUME deepest <= Depth, SettledInv PROVE SettledInv'
  BY <1>1, Zenon DEF ConfirmedInv
<1>3. CASE UNCHANGED <<handling, confirmed>>
  BY <1>1, <1>2, <1>3, Zenon DEF SettledInv, Settled
<1>4. CASE /\ n \in Nat /\ n <= Height[chain.best]
           /\ handling' \in Chain[chain.best] /\ Height[handling'] = n
           /\ confirmed' \in {confirmed, n}
  <2>1. Height[Head(stream)] <= Height[chain.best]
    BY <1>1, <1>2, NoneHigher, Zenon DEF SettledInv
  <2>2. Height[Head(stream)] \in Nat /\ Height[chain.best] \in Nat
    BY <1>1, BlockTreeAssumption, Zenon DEF ClientInv, TypeOK
  <2>3. n + Depth <= Height[chain.best]
    BY <2>1, <2>2, FinalizerAssumption
  <2>4. Settled(handling)' /\ Settled(cached)' /\ Settled(worker.block)'
    BY <1>1, <1>2, <1>4, <2>3, Zenon DEF SettledInv, Settled
  <2>5. \E b \in {chain.finalized, handling', cached, worker.block} : Height[b] >= confirmed'
    <3>1. PICK b \in {chain.finalized, handling, cached, worker.block} : Height[b] >= confirmed
      BY <1>2, Zenon DEF SettledInv
    <3>2. CASE confirmed' = n
      BY <1>4, <3>2
    <3>3. CASE confirmed' = confirmed /\ b # handling
      BY <3>1, <3>3, Zenon
    <3>4. CASE confirmed' = confirmed /\ b = handling
      <4>1. confirmed \in Nat /\ 0 >= confirmed
        BY <1>1, <3>1, <3>4, BlockTreeAssumption, Zenon DEF None, ClientInv, TypeOK
      <4>2. Height[handling'] >= confirmed'
        BY <1>4, <3>4, <4>1
      <4> QED
        BY <4>2, Zenon
    <3> QED
      BY <1>4, <3>2, <3>3, <3>4, Zenon
  <2> QED
    BY <1>1, <1>2, <2>4, <2>5, Zenon DEF SettledInv
<1> QED
  BY <1>1, <1>3, <1>4, Zenon

\* The worker finalizes a block of the best chain: the best block stays, and what
\* is finalized is at least as high as what the worker held.
LEMMA FinalizeKeepsConfirmed ==
    ASSUME ClientInv, ConfirmedInv, NEW from, NEW to, WorkerFinalizes(from, to)
    PROVE  ConfirmedInv'
<1> DEFINE b == worker.block
<1>1. /\ chain' = DoFinalizeBlock(chain, b)
      /\ displaced' = (displaced \/ chain'.best # chain.best)
      /\ worker' = [pc |-> to, block |-> None]
      /\ UNCHANGED <<handling, cached, deepest, confirmed>>
  BY Zenon DEF WorkerFinalizes
<1>2. SUFFICES ASSUME deepest <= Depth, SettledInv PROVE SettledInv'
  BY <1>1, Zenon DEF ConfirmedInv
<1>3. /\ b \in Hash /\ chain.best \in Hash /\ chain.finalized \in Hash
      /\ Height[b] \in Nat /\ Height[chain.finalized] \in Nat /\ confirmed \in Nat
  BY BlockTreeAssumption, Zenon DEF ClientInv, TypeOK
<1>4. b \in Chain[chain.best] /\ chain.finalized \in Chain[chain.best]
  BY <1>2, <1>3, ChainBasics, Zenon DEF SettledInv, Settled, None, ClientInv
<1>5. Height[b] > Height[chain.finalized] => chain.finalized \in Chain[b]
  BY <1>3, <1>4, ChainOrdered
<1>6. /\ chain'.best = chain.best
      /\ Height[chain'.finalized] >= Height[b]
      /\ Height[chain'.finalized] >= Height[chain.finalized]
      /\ Height[chain'.finalized] \in Nat
  <2>1. \/ chain' = chain /\ (Height[b] <= Height[chain.finalized] \/ chain.finalized \notin Chain[b])
        \/ /\ ~(Height[b] <= Height[chain.finalized])
           /\ chain'.finalized = b
           /\ chain'.best = IF b \in Chain[chain.best] THEN chain.best ELSE b
    <3> DEFINE d == DoFinalizeBlock(chain, b)
    <3>1. ClientShape(chain)
      BY Zenon DEF ClientInv
    <3>2. \/ d = chain /\ (Height[b] <= Height[chain.finalized] \/ chain.finalized \notin Chain[b])
          \/ /\ ~(Height[b] <= Height[chain.finalized])
             /\ d.finalized = b
             /\ d.best = IF b \in Chain[chain.best] THEN chain.best ELSE b
      BY <3>1, FinalizedFields, Zenon
    <3>3. chain' = d
      BY <1>1, Zenon
    <3> HIDE DEF d
    <3> QED
      BY <3>2, <3>3
  <2> QED
    BY <1>3, <1>4, <1>5, <2>1
<1>7. ~displaced' /\ Settled(handling)' /\ Settled(cached)' /\ Settled(worker.block)'
  BY <1>1, <1>2, <1>6, Zenon DEF SettledInv, Settled
<1>8. \E x \in {chain'.finalized, handling, cached} : Height[x] >= confirmed
  <2>1. PICK x \in {chain.finalized, handling, cached, b} : Height[x] >= confirmed
    BY <1>2, Zenon DEF SettledInv
  <2>2. CASE x \in {chain.finalized, b}
    BY <1>3, <1>6, <2>1, <2>2
  <2>3. CASE x \in {handling, cached}
    BY <2>1, <2>3, Zenon
  <2> QED
    BY <2>2, <2>3, Zenon
<1> QED
  BY <1>1, <1>7, <1>8, Zenon DEF SettledInv

\* No step of any task breaks what is known of confirmed blocks.
LEMMA ConfirmedInvNext ==
    ASSUME WorkFollowsHeight, ClientInv, ConfirmedInv, [Next]_vars
    PROVE  ConfirmedInv'
<1>1. ASSUME NEW h \in Hash \ {Genesis}, ImportBlockStep(h) PROVE ConfirmedInv'
  BY <1>1, ImportKeepsConfirmed, Zenon
<1>2. CASE OnNotification
  BY <1>2, NotificationKeepsConfirmed, Zenon
<1>3. CASE Postpone
  <2>1. /\ cached' = IF Height[handling] > Height[cached] THEN handling ELSE cached
        /\ handling' = None
        /\ UNCHANGED <<chain, worker, deepest, displaced, confirmed>>
    BY <1>3, Zenon DEF Postpone, CacheHighest
  <2>2. Height[handling] \in Nat /\ Height[cached] \in Nat /\ confirmed \in Nat
    BY BlockTreeAssumption, Zenon DEF ClientInv, TypeOK
  <2>3. SUFFICES ASSUME deepest <= Depth, SettledInv PROVE SettledInv'
    BY <2>1, Zenon DEF ConfirmedInv
  <2>4. ~displaced' /\ Settled(handling)' /\ Settled(cached)' /\ Settled(worker.block)'
    BY <2>1, <2>3, Zenon DEF SettledInv, Settled
  <2>5. \E b \in {chain.finalized, cached', worker.block} : Height[b] >= confirmed
    <3>1. PICK b \in {chain.finalized, handling, cached, worker.block} : Height[b] >= confirmed
      BY <2>3, Zenon DEF SettledInv
    <3>2. b \in {handling, cached} => Height[cached'] >= confirmed
      BY <2>1, <2>2, <3>1
    <3> QED
      BY <3>1, <3>2, Zenon
  <2> QED
    BY <2>1, <2>4, <2>5, Zenon DEF SettledInv
<1>4. CASE SpawnWorker
  <2>1. /\ worker.block = None /\ worker'.block = handling /\ handling' = None
        /\ UNCHANGED <<chain, cached, deepest, displaced, confirmed>>
    BY <1>4, Zenon DEF SpawnWorker, ClientInv, TasksInv
  <2>2. SUFFICES ASSUME SettledInv PROVE SettledInv'
    BY <2>1, Zenon DEF ConfirmedInv
  <2> QED
    BY <2>1, <2>2, Zenon DEF SettledInv, Settled
<1>5. CASE WorkerFinalizes("First", "Take") \/ WorkerFinalizes("Cached", "Done")
  BY <1>5, FinalizeKeepsConfirmed, Zenon
<1>6. CASE WorkerTakesCached
  <2>1. /\ worker.block = None /\ worker'.block = cached /\ cached' = None
        /\ UNCHANGED <<chain, handling, deepest, displaced, confirmed>>
    BY <1>6, Zenon DEF WorkerTakesCached, ClientInv, TasksInv
  <2>2. SUFFICES ASSUME SettledInv PROVE SettledInv'
    BY <2>1 DEF ConfirmedInv
  <2> QED
    BY <2>1, <2>2, Zenon DEF SettledInv, Settled
<1>7. CASE WorkerDone
  <2>1. /\ worker.block = None /\ worker'.block = None
        /\ UNCHANGED <<chain, handling, cached, deepest, displaced, confirmed>>
    BY <1>7, Zenon DEF WorkerDone, ClientInv, TasksInv
  <2> QED
    BY <2>1, Zenon DEF ConfirmedInv, SettledInv, Settled
<1>8. CASE UNCHANGED vars
  BY <1>8, Zenon DEF vars, ConfirmedInv, SettledInv, Settled
<1> QED
  BY <1>1, <1>2, <1>3, <1>4, <1>5, <1>6, <1>7, <1>8, Zenon DEF Next

\* At the start nothing is confirmed and nobody holds a block.
LEMMA ConfirmedInvInit == Init => ConfirmedInv
<1> SUFFICES ASSUME Init PROVE ConfirmedInv
  OBVIOUS
<1>1. /\ handling = None /\ cached = None /\ worker.block = None /\ ~displaced
      /\ confirmed = 0 /\ Height[handling] >= 0
  BY BlockTreeAssumption DEF Init, None
<1> QED
  BY <1>1, Zenon DEF ConfirmedInv, SettledInv, Settled

\* What is known of confirmed blocks holds throughout.
LEMMA ConfirmedInvariant ==
    ASSUME WorkFollowsHeight
    PROVE  Spec => []IInv
<1>1. Init => IInv
  BY ClientInvInit, ConfirmedInvInit, Zenon DEF IInv
<1>2. IInv /\ [Next]_vars => IInv'
  BY ClientInvNext, ConfirmedInvNext, Zenon DEF IInv
<1> QED
  BY <1>1, <1>2, PTL DEF Spec

\* The finalized block stays on the best chain; and while all branches have one
\* difficulty, finalization moves the best block only after a reorganisation deeper
\* than the confirmation depth, however late the worker finalizes the block it was
\* given and whatever the import worker does meanwhile.
THEOREM FinalizedConfirmedTheorem ==
    ASSUME WorkFollowsHeight
    PROVE  Spec => []FinalizedConfirmed
<1>1. IInv => FinalizedConfirmed
  BY Zenon DEF IInv, ClientInv, ConfirmedInv, SettledInv, FinalizedConfirmed
<1> QED
  BY <1>1, ConfirmedInvariant, PTL

\* The highest confirmed block is finalized, or held by the loop, the shared cell
\* or the worker: the hand-over between the three loses nothing, as long as no
\* reorganisation is deeper than the confirmation depth.
THEOREM NothingForgottenTheorem ==
    ASSUME WorkFollowsHeight
    PROVE  Spec => []NothingForgotten
<1>1. IInv => NothingForgotten
  BY Zenon DEF IInv, ConfirmedInv, SettledInv, NothingForgotten
<1> QED
  BY <1>1, ConfirmedInvariant, PTL

-----------------------------------------------------------------------------
(* The failing expects.                                                     *)

\* The header check never asks for the median time past of the block itself.
BelowCsv == Verification = "None" \/ \A h \in Hash : Height[h] < CsvHeight

PanicInv == IInv /\ (deepest <= Depth => NoPanic)

\* Below the CSV height, and as long as no reorganisation is deeper than the
\* confirmation depth, the finalizer's "Confirmed block must be available; qed"
\* is right: the notified block is no higher than the best one.
THEOREM ConfirmedBlockAvailable ==
    ASSUME WorkFollowsHeight, BelowCsv
    PROVE  Spec => [](deepest <= Depth => NoPanic)
<1>1. Init => PanicInv
  BY ClientInvInit, ConfirmedInvInit, Zenon DEF IInv, PanicInv, NoPanic, Init
<1>2. PanicInv /\ [Next]_vars => PanicInv'
  <2> SUFFICES ASSUME PanicInv, [Next]_vars PROVE PanicInv'
    BY Zenon
  <2>1. IInv /\ ClientInv /\ IInv'
    BY ClientInvNext, ConfirmedInvNext, Zenon DEF IInv, PanicInv
  <2>2. deepest \in Nat /\ Depth \in Nat
    BY <2>1, FinalizerAssumption, Zenon DEF ClientInv, TypeOK
  <2>3. ASSUME NEW h \in Hash \ {Genesis}, ImportBlockStep(h) PROVE PanicInv'
    <3>1. Height[h] \in Nat /\ CsvHeight \in Nat
      BY BlockTreeAssumption, BlockImportAssumption, Zenon
    <3>2. ~ImportPanics(chain, h)
      BY <3>1 DEF BelowCsv, ImportPanics, VerifierPanics
    <3>3. UNCHANGED panicked /\ ~panicked
      BY <2>3, <3>2, Zenon DEF ImportBlockStep
    <3> QED
      BY <2>1, <3>3, Zenon DEF PanicInv, NoPanic
  <2>4. CASE OnNotification
    <3>1. /\ Head(stream) \in chain.imported /\ Head(stream) \in Hash
          /\ UNCHANGED deepest /\ ~panicked
          /\ UNCHANGED panicked \/ Height[Head(stream)] - Depth > Height[chain.best]
      BY <2>1, <2>4, NotificationBlock, Zenon
    <3>2. ASSUME deepest <= Depth PROVE UNCHANGED panicked
      <4>1. Height[Head(stream)] <= Height[chain.best]
        BY <2>1, <3>1, <3>2, NoneHigher, Zenon DEF IInv, ConfirmedInv, SettledInv
      <4>2. Height[Head(stream)] \in Nat /\ Height[chain.best] \in Nat
        BY <2>1, <3>1, BlockTreeAssumption, Zenon DEF ClientInv, TypeOK
      <4> QED
        BY <2>2, <3>1, <4>1, <4>2
    <3> QED
      BY <2>1, <3>1, <3>2 DEF PanicInv, NoPanic
  <2>5. CASE UNCHANGED <<panicked, deepest>>
    BY <2>1, <2>5, Zenon DEF PanicInv, NoPanic
  <2> QED
    BY <2>3, <2>4, <2>5, Zenon DEF Next, vars, Postpone, SpawnWorker, WorkerFinalizes,
                           WorkerTakesCached, WorkerDone
<1>3. PanicInv => (deepest <= Depth => NoPanic)
  BY Zenon DEF PanicInv
<1> QED
  BY <1>1, <1>2, <1>3, PTL DEF Spec
=============================================================================
