------------------------ MODULE DownloadPipelineProofs ------------------------
(***************************************************************************)
(* Proofs about the download pipeline, for every tree of blocks and every   *)
(* bound.                                                                   *)
(***************************************************************************)
EXTENDS DownloadPipeline, FiniteSetTheorems, TLAPS

-----------------------------------------------------------------------------
(* The orphan pool.                                                         *)

\* The walk of remove_blocks_for_parent reaches an orphan only through its
\* parent, which is the block added or an orphan reached before.
LEMMA ConnectedThroughParent ==
    ASSUME NEW pool \in PoolType, PoolConsistent(pool), NEW h \in Hash,
           NEW b \in Connected(pool, h)
    PROVE  Parent[b] = h \/ Parent[b] \in Connected(pool, h)
<1> DEFINE C == Connected(pool, h)
<1> SUFFICES ASSUME Parent[b] # h, Parent[b] \notin C PROVE FALSE
  OBVIOUS
<1>1. C \ {b} \in SUBSET pool.orphans
  BY DEF Connected
<1>2. ClosedUnderChildren(pool, h, C \ {b})
  <2> SUFFICES ASSUME NEW x \in pool.orphans, Parent[x] = h \/ Parent[x] \in C \ {b}
               PROVE  x \in C \ {b}
    BY DEF ClosedUnderChildren
  <2>1. x \in C
    BY DEF Connected, ClosedUnderChildren
  <2> QED
    BY <2>1
<1> QED
  BY <1>1, <1>2 DEF Connected

\* The orphans reached are higher in the tree than the block added.
LEMMA ConnectedHigher ==
    ASSUME NEW pool \in PoolType, PoolConsistent(pool), NEW h \in Hash,
           NEW b \in Connected(pool, h)
    PROVE  Height[b] > Height[h]
<1> DEFINE S == {x \in Connected(pool, h) : Height[x] > Height[h]}
<1>1. S \in SUBSET pool.orphans
  BY DEF Connected
<1>2. ClosedUnderChildren(pool, h, S)
  <2> SUFFICES ASSUME NEW x \in pool.orphans, Parent[x] = h \/ Parent[x] \in S
               PROVE  x \in S
    BY DEF ClosedUnderChildren
  <2>1. x \in Connected(pool, h)
    BY DEF Connected, ClosedUnderChildren
  <2>2. x \in Hash \ {Genesis}
    BY DEF PoolType, PoolConsistent
  <2>3. Height[x] = Height[Parent[x]] + 1 /\ Height[Parent[x]] \in Nat /\ Height[h] \in Nat
    BY <2>2, BlockTreeAssumption
  <2>4. Height[Parent[x]] >= Height[h]
    BY <2>3
  <2> QED
    BY <2>1, <2>3, <2>4
<1> QED
  BY <1>1, <1>2 DEF Connected

\* The walk outputs a parent before its children.
LEMMA WalkParentFirst ==
    ASSUME NEW pool \in PoolType, PoolConsistent(pool), NEW h \in Hash,
           NEW ord \in WalkOrders(pool, h)
    PROVE  /\ Connected(pool, h) \subseteq Hash \ {Genesis}
           /\ h \notin Connected(pool, h)
           /\ ord \in [Connected(pool, h) -> Nat \ {0}]
           /\ \A b \in Connected(pool, h) :
                 Parent[b] # h =>
                     Parent[b] \in Connected(pool, h) /\ ord[Parent[b]] < ord[b]
<1> DEFINE C == Connected(pool, h)
<1>1. C \subseteq Hash \ {Genesis}
  BY DEF Connected, PoolType, PoolConsistent
<1>2. h \notin C
  BY ConnectedHigher, BlockTreeAssumption
<1>3. Cardinality(C) \in Nat
  BY <1>1, FS_Subset, FS_CardinalityType, BlockTreeAssumption
<1>4. ord \in [C -> 1..Cardinality(C)]
  BY DEF WalkOrders
<1>5. ord \in [C -> Nat \ {0}]
  BY <1>3, <1>4
<1>6. ASSUME NEW b \in C, Parent[b] # h
      PROVE  Parent[b] \in C /\ ord[Parent[b]] < ord[b]
  <2>1. Parent[b] \in C
    BY <1>6, ConnectedThroughParent
  <2>2. Height[b] = Height[Parent[b]] + 1 /\ Height[Parent[b]] \in Nat
    BY <1>1, BlockTreeAssumption
  <2>3. Height[Parent[b]] < Height[b] /\ Parent[b] # b
    BY <2>2
  <2> QED
    BY <2>1, <2>3 DEF WalkOrders
<1> QED
  BY <1>1, <1>2, <1>5, <1>6

-----------------------------------------------------------------------------
(* What the methods of the downloader do to the fields the proof is about.  *)

Num(h) == NumberOf(Parent[h]) + 1

Numbers(h, ord) == AssignedNumbers(Num(h), h, ord)

\* add_block on the current downloader.
LEMMA AddedFields ==
    ASSUME TypeOK, Drained, NEW h \in Hash \ {Genesis}, NEW ord
    PROVE  LET A == Added(h, ord)
           IN  /\ DOMAIN A = Fields
               /\ A.peer = d.peer /\ A.missing = d.missing
               /\ A.requested = d.requested \ {h}
               /\ A.downloaded = DOMAIN Numbers(h, ord)
               /\ A.inQueue = d.inQueue
               /\ A.hash2number = Override(d.hash2number, Numbers(h, ord))
               /\ DOMAIN A.number2hash =
                     DOMAIN d.number2hash \cup {Numbers(h, ord)[b] : b \in DOMAIN Numbers(h, ord)}
               /\ A.pool = RemoveBlocksForParent(d.pool, h)
               /\ A.status = d.status /\ A.fresh = FALSE
<1> DEFINE R == OnBlockResponse(d, h)
           N == Numbers(h, ord)
           A == Added(h, ord)
<1>1. /\ DOMAIN R = Fields
      /\ R.requested = d.requested \ {h}
      /\ \A f \in Fields \ {"requested"} : R[f] = d[f]
  BY DEF TypeOK, OnBlockResponse, Fields
<1>2. /\ DOMAIN A = DOMAIN R
      /\ A.downloaded = R.downloaded \cup DOMAIN N
      /\ A.hash2number = Override(R.hash2number, N)
      /\ A.pool = RemoveBlocksForParent(R.pool, h)
      /\ A.fresh = FALSE
      /\ DOMAIN A.number2hash = DOMAIN R.number2hash \cup {N[b] : b \in DOMAIN N}
      /\ \A f \in {"peer", "missing", "requested", "inQueue", "status"} : A[f] = R[f]
  BY <1>1 DEF Added, AddBlock, Numbers, Num, Fields, Override
<1> QED
  BY SMTT(60), <1>1, <1>2 DEF Drained, Fields

\* prepare_blocks_for_import after add_block.
LEMMA PreparedFields ==
    ASSUME NEW A, DOMAIN A = Fields
    PROVE  LET P == PrepareBlocksForImport(A)
           IN  /\ DOMAIN P = Fields
               /\ P.downloaded = {}
               /\ P.inQueue = A.inQueue \cup BlocksToImport(A)
               /\ \A f \in Fields \ {"downloaded", "inQueue", "memory"} : P[f] = A[f]
BY Zenon DEF PrepareBlocksForImport, Fields

\* handle_processed_blocks.
LEMMA ProcessedFields ==
    ASSUME TypeOK, NEW processed
    PROVE  LET P == HandleProcessedBlocks(d, processed)
           IN  /\ DOMAIN P = Fields
               /\ P.inQueue = d.inQueue \ processed
               /\ DOMAIN P.hash2number \subseteq DOMAIN d.hash2number
               /\ P.hash2number = [h \in DOMAIN P.hash2number |-> d.hash2number[h]]
               /\ DOMAIN P.number2hash \subseteq DOMAIN d.number2hash
               /\ P.number2hash = [n \in DOMAIN P.number2hash |-> d.number2hash[n]]
               /\ \A f \in Fields \ {"inQueue", "hash2number", "number2hash"} : P[f] = d[f]
BY Zenon DEF TypeOK, HandleProcessedBlocks, Fields

\* The numbers add_block gives are naturals and order every orphan it
\* connects after its parent.
LEMMA NumbersParentFirst ==
    ASSUME PipelineInv, NEW h \in Hash \ {Genesis}, NEW ord \in WalkOrders(d.pool, h),
           Known(Parent[h])
    PROVE  LET N == Numbers(h, ord)
           IN  /\ h \in DOMAIN N /\ DOMAIN N \subseteq Hash \ {Genesis}
               /\ N \in [DOMAIN N -> Nat]
               /\ N[h] = Num(h) /\ NumberOf(Parent[h]) \in Nat
               /\ \A b \in DOMAIN N \ {h} : Parent[b] \in DOMAIN N /\ N[Parent[b]] < N[b]
<1> DEFINE N == Numbers(h, ord)
           C == Connected(d.pool, h)
<1>1. d.pool \in PoolType /\ PoolConsistent(d.pool)
  BY DEF PipelineInv, TypeOK
<1>2. /\ C \subseteq Hash \ {Genesis}
      /\ h \notin C
      /\ ord \in [C -> Nat \ {0}]
      /\ \A b \in C : Parent[b] # h => Parent[b] \in C /\ ord[Parent[b]] < ord[b]
  BY <1>1, WalkParentFirst
<1>3. NumberOf(Parent[h]) \in Nat
  BY BlockTreeAssumption DEF PipelineInv, TypeOK, PartialMap, NumberOf, IsQueued
<1> HIDE DEF C
<1>4. DOMAIN N = {h} \cup C
  BY <1>2 DEF Numbers, AssignedNumbers
<1>5. N[h] = Num(h)
  BY DEF Numbers, AssignedNumbers
<1>6. \A b \in C : N[b] = Num(h) + ord[b]
  BY <1>2 DEF Numbers, AssignedNumbers
<1>7. Num(h) \in Nat
  BY <1>3 DEF Num
<1>8. \A b \in DOMAIN N : N[b] \in Nat
  BY <1>2, <1>4, <1>5, <1>6, <1>7
<1>9. N \in [DOMAIN N -> Nat]
  BY Zenon, <1>8 DEF Numbers, AssignedNumbers
<1>10. ASSUME NEW b \in C PROVE Parent[b] \in DOMAIN N /\ N[Parent[b]] < N[b]
  <2>1. ord[b] \in Nat \ {0}
    BY <1>2
  <2>2. CASE Parent[b] = h
    BY <1>4, <1>5, <1>6, <1>7, <2>1, <2>2
  <2>3. CASE Parent[b] # h
    <3>1. Parent[b] \in C /\ ord[Parent[b]] < ord[b] /\ ord[Parent[b]] \in Nat
      BY <1>2, <2>3
    <3> QED
      BY <1>4, <1>6, <1>7, <2>1, <3>1
  <2> QED
    BY <2>2, <2>3
<1> QED
  BY <1>2, <1>3, <1>4, <1>5, <1>9, <1>10

-----------------------------------------------------------------------------
(* The import queue.                                                        *)

\* The import channel keeps its type: a queue is a sequence of its batches.
LEMMA SeqOfElements ==
    ASSUME NEW S, NEW s \in Seq(S)
    PROVE  s \in Seq(Elements(s))
BY DEF Elements

\* A batch handed over comes after all the others.
LEMMA AppendBatch ==
    ASSUME TypeOK, NEW T, PartialMap(T, Hash, Nat), queue' = Append(queue, Batch(T))
    PROVE  /\ Len(queue) \in Nat /\ DOMAIN queue = 1..Len(queue)
           /\ DOMAIN queue' = 1..(Len(queue) + 1)
           /\ \A i \in DOMAIN queue : queue'[i] = queue[i]
           /\ queue'[Len(queue) + 1] = Batch(T)
           /\ queue' \in Seq(Elements(queue'))
           /\ \A i \in DOMAIN queue' : BatchOK(queue'[i])
           /\ Waiting' = Waiting \cup DOMAIN T
<1>1. queue \in Seq(Elements(queue)) /\ \A i \in DOMAIN queue : BatchOK(queue[i])
  BY DEF TypeOK
<1>2. Len(queue) \in Nat /\ DOMAIN queue = 1..Len(queue)
  BY <1>1
<1>3. /\ DOMAIN queue' = 1..(Len(queue) + 1)
      /\ \A i \in DOMAIN queue : queue'[i] = queue[i]
      /\ queue'[Len(queue) + 1] = Batch(T)
      /\ Len(queue') = Len(queue) + 1
  BY <1>1, <1>2
<1>4. queue' \in Seq(Elements(queue'))
  <2>1. queue' \in Seq(Elements(queue) \cup {Batch(T)})
    BY <1>1
  <2> QED
    BY Zenon, <2>1, SeqOfElements
<1>5. BatchOK(Batch(T))
  BY DEF BatchOK, Batch
<1>6. \A i \in DOMAIN queue' : BatchOK(queue'[i])
  BY <1>1, <1>2, <1>3, <1>5
<1>7. Waiting' = Waiting \cup DOMAIN T
  <2>1. Batch(T).todo = T
    BY DEF Batch
  <2> QED
    BY <1>2, <1>3, <2>1 DEF Waiting
<1> QED
  BY <1>2, <1>3, <1>4, <1>6, <1>7

\* It keeps ParentFirst when every block of the batch has its parent imported,
\* waiting, or in the batch with a smaller number.
LEMMA AppendKeepsOrder ==
    ASSUME PipelineInv, NEW T, PartialMap(T, Hash, Nat), Genesis \notin DOMAIN T,
           queue' = Append(queue, Batch(T)), imported' = imported, results' = results,
           \A b \in DOMAIN T :
              \/ Parent[b] \in imported \cup Waiting
              \/ Parent[b] \in DOMAIN T /\ T[Parent[b]] < T[b]
    PROVE  ParentFirst' /\ NoRefusal' /\ ImportedClosed'
<1>1. /\ Len(queue) \in Nat /\ DOMAIN queue = 1..Len(queue)
      /\ DOMAIN queue' = 1..(Len(queue) + 1)
      /\ \A i \in DOMAIN queue : queue'[i] = queue[i]
      /\ queue'[Len(queue) + 1] = Batch(T)
  BY AppendBatch DEF PipelineInv
<1>2. Batch(T).todo = T /\ Batch(T).failed = FALSE
  BY DEF Batch
<1>3. ParentFirst'
  <2> SUFFICES ASSUME NEW i \in DOMAIN queue', NEW h \in DOMAIN queue'[i].todo
               PROVE  \/ Parent[h] \in imported
                      \/ \E j \in 1..(i - 1) : Parent[h] \in DOMAIN queue'[j].todo
                      \/ /\ Parent[h] \in DOMAIN queue'[i].todo
                         /\ queue'[i].todo[Parent[h]] < queue'[i].todo[h]
    BY DEF ParentFirst
  <2>1. CASE i \in DOMAIN queue
    <3>1. /\ queue'[i] = queue[i]
          /\ \A j \in 1..(i - 1) : j \in DOMAIN queue /\ queue'[j] = queue[j]
      BY <1>1, <2>1
    <3> QED
      BY <2>1, <3>1 DEF PipelineInv, ParentFirst
  <2>2. CASE i = Len(queue) + 1
    <3>1. queue'[i].todo = T /\ h \in DOMAIN T
      BY <1>1, <1>2, <2>2
    <3>2. CASE Parent[h] \in Waiting
      <4>1. PICK j \in DOMAIN queue : Parent[h] \in DOMAIN queue[j].todo
        BY <3>2 DEF Waiting
      <4> QED
        BY <1>1, <2>2, <4>1
    <3> QED
      BY <3>1, <3>2
  <2> QED
    BY <1>1, <2>1, <2>2
<1>4. NoRefusal'
  BY <1>1, <1>2 DEF PipelineInv, NoRefusal
<1>5. ImportedClosed'
  BY DEF PipelineInv, ImportedClosed
<1> QED
  BY <1>3, <1>4, <1>5

-----------------------------------------------------------------------------
(* Every action keeps the invariant.                                        *)

\* The batch of one iteration: the blocks just added, cut at the sync target.
LEMMA AddedBatch ==
    ASSUME PipelineInv, NEW h \in Hash \ {Genesis}, NEW ord \in WalkOrders(d.pool, h),
           Known(Parent[h])
    PROVE  LET A == Added(h, ord)
               N == Numbers(h, ord)
               T == ImportBatch(A)
           IN  /\ ~CorruptedState(A)
               /\ DOMAIN T = {b \in DOMAIN N : \A target \in SyncTarget : N[b] <= target}
               /\ \A b \in DOMAIN T : T[b] = N[b]
               /\ PartialMap(T, Hash, Nat)
               /\ DOMAIN T = BlocksToImport(A)
<1> DEFINE A == Added(h, ord)
           N == Numbers(h, ord)
           T == ImportBatch(A)
<1>1. /\ DOMAIN N \subseteq Hash /\ N \in [DOMAIN N -> Nat]
  BY NumbersParentFirst
<1>2. /\ A.downloaded = DOMAIN N
      /\ A.hash2number = Override(d.hash2number, N)
      /\ DOMAIN A.number2hash = DOMAIN d.number2hash \cup {N[b] : b \in DOMAIN N}
  BY ZenonT(60), AddedFields DEF PipelineInv
<1> HIDE DEF A, N
<1>3. \A b \in DOMAIN N : b \in DOMAIN A.hash2number /\ A.hash2number[b] = N[b]
  BY <1>2 DEF Override
<1>4. BlocksToImport(A) = {b \in DOMAIN N : \A target \in SyncTarget : N[b] <= target}
  BY <1>2, <1>3 DEF BlocksToImport
<1>5. ~CorruptedState(A)
  BY <1>2, <1>3, <1>4 DEF CorruptedState, IsQueued
<1>6. DOMAIN T = BlocksToImport(A) /\ \A b \in DOMAIN T : T[b] = N[b]
  BY <1>3, <1>4 DEF ImportBatch
<1>7. PartialMap(T, Hash, Nat)
  BY <1>1, <1>3, <1>4 DEF ImportBatch, PartialMap
<1> QED
  BY <1>4, <1>5, <1>6, <1>7 DEF A, N

\* The parent of a block of the batch is imported, waits, or is in the batch.
LEMMA BatchParents ==
    ASSUME PipelineInv, NEW h \in Hash \ {Genesis}, NEW ord \in WalkOrders(d.pool, h),
           Known(Parent[h])
    PROVE  LET T == ImportBatch(Added(h, ord))
           IN  \A b \in DOMAIN T :
                  \/ Parent[b] \in imported \cup Waiting
                  \/ Parent[b] \in DOMAIN T /\ T[Parent[b]] < T[b]
<1> DEFINE N == Numbers(h, ord)
           T == ImportBatch(Added(h, ord))
<1>1. Known(Parent[h])
  OBVIOUS
<1>2. /\ h \in DOMAIN N /\ DOMAIN N \subseteq Hash \ {Genesis} /\ N \in [DOMAIN N -> Nat]
      /\ N[h] = Num(h) /\ NumberOf(Parent[h]) \in Nat
      /\ \A b \in DOMAIN N \ {h} : Parent[b] \in DOMAIN N /\ N[Parent[b]] < N[b]
  BY NumbersParentFirst
<1>3. /\ DOMAIN T = {b \in DOMAIN N : \A target \in SyncTarget : N[b] <= target}
      /\ \A b \in DOMAIN T : T[b] = N[b]
  BY SMTT(60), AddedBatch
<1> HIDE DEF N, T
<1>4. \A b \in DOMAIN T :
         \/ Parent[b] \in imported \cup Waiting
         \/ Parent[b] \in DOMAIN T /\ T[Parent[b]] < T[b]
  <2> TAKE b \in DOMAIN T
  <2>1. b \in DOMAIN N /\ N[b] \in Nat /\ T[b] = N[b]
    BY <1>2, <1>3
  <2>2. CASE b = h
    <3>1. CASE Parent[h] \in imported
      BY <2>2, <3>1
    <3>2. CASE IsQueued(d, Parent[h])
      <4>1. NumberOf(Parent[h]) = d.hash2number[Parent[h]]
        BY <3>2 DEF NumberOf
      <4>2. \A target \in SyncTarget : ~(d.hash2number[Parent[h]] > target)
        BY <1>2, <1>3, <2>2, <4>1, DownloaderAssumption DEF Num
      <4> QED
        BY <2>2, <3>2, <4>2 DEF PipelineInv, QueuedReachImport, IsQueued
    <3> QED
      BY <1>1, <3>1, <3>2 DEF Known
  <2>3. CASE b # h
    <3>1. Parent[b] \in DOMAIN N /\ N[Parent[b]] < N[b] /\ N[Parent[b]] \in Nat
      BY <1>2, <2>1, <2>3
    <3>2. Parent[b] \in DOMAIN T
      BY <1>3, <2>1, <3>1, DownloaderAssumption
    <3> QED
      BY <1>3, <2>1, <3>1, <3>2
  <2> QED
    BY <2>2, <2>3
<1> QED
  BY <1>4 DEF T

\* on_block with a known parent keeps the invariant: the block and the orphans it
\* connects go to the import queue in the order of their numbers.
LEMMA ReceiveBlockStep ==
    ASSUME PipelineInv, NEW h \in Hash \ {Genesis}, NEW ord \in WalkOrders(d.pool, h),
           ReceiveBlock(h, ord)
    PROVE  PipelineInv'
<1> DEFINE A == Added(h, ord)
           N == Numbers(h, ord)
           T == ImportBatch(A)
<1>1. Known(Parent[h]) /\ d' = PrepareBlocksForImport(A) /\ crashed' = CorruptedState(A)
      /\ queue' = Append(queue, Batch(T)) /\ imported' = imported /\ results' = results
  BY DEF ReceiveBlock
<1>2. /\ h \in DOMAIN N /\ DOMAIN N \subseteq Hash \ {Genesis} /\ N \in [DOMAIN N -> Nat]
      /\ N[h] = Num(h) /\ NumberOf(Parent[h]) \in Nat
      /\ \A b \in DOMAIN N \ {h} : Parent[b] \in DOMAIN N /\ N[Parent[b]] < N[b]
  BY SMTT(60), <1>1, NumbersParentFirst
<1>3. /\ ~CorruptedState(A)
      /\ DOMAIN T = {b \in DOMAIN N : \A target \in SyncTarget : N[b] <= target}
      /\ \A b \in DOMAIN T : T[b] = N[b]
      /\ PartialMap(T, Hash, Nat)
      /\ DOMAIN T = BlocksToImport(A)
  BY Zenon, <1>1, AddedBatch
<1>4. /\ DOMAIN A = Fields
      /\ A.peer = d.peer /\ A.missing = d.missing
      /\ A.requested = d.requested \ {h}
      /\ A.inQueue = d.inQueue
      /\ A.hash2number = Override(d.hash2number, N)
      /\ A.pool = RemoveBlocksForParent(d.pool, h)
      /\ A.status = d.status /\ A.fresh = FALSE
  BY ZenonT(60), AddedFields DEF PipelineInv
<1>5. /\ DOMAIN d' = Fields
      /\ d'.downloaded = {}
      /\ d'.inQueue = A.inQueue \cup BlocksToImport(A)
      /\ \A f \in Fields \ {"downloaded", "inQueue", "memory"} : d'[f] = A[f]
  BY <1>1, <1>4, PreparedFields
<1>6. PartialMap(A.number2hash, Nat, Hash)
  <2> DEFINE added == DOMAIN N
             numbers == {N[b] : b \in added}
             byNumber == [n \in numbers |-> CHOOSE b \in added : N[b] = n]
  <2>1. A.number2hash = Override(d.number2hash, byNumber)
    BY DEF PipelineInv, TypeOK, Added, AddBlock, OnBlockResponse, Numbers, Num, Fields
  <2>2. \A n \in numbers : n \in Nat /\ byNumber[n] \in Hash
    BY <1>2
  <2>3. DOMAIN byNumber = numbers
    OBVIOUS
  <2> HIDE DEF byNumber, N
  <2> QED
    BY <2>1, <2>2, <2>3 DEF Override, PartialMap, PipelineInv, TypeOK
<1> HIDE DEF A, N, T
<1>7. PartialMap(A.hash2number, Hash, Nat)
  BY <1>2, <1>4 DEF Override, PartialMap, PipelineInv, TypeOK
<1>8. A.pool \in PoolType /\ PoolConsistent(A.pool)
  BY SMTT(60), <1>4 DEF PipelineInv, TypeOK, PoolType, PoolConsistent, RemoveBlocksForParent
<1>9. \A b \in DOMAIN T :
         \/ Parent[b] \in imported \cup Waiting
         \/ Parent[b] \in DOMAIN T /\ T[Parent[b]] < T[b]
  BY <1>1, BatchParents DEF A, T
<1>10. Genesis \notin DOMAIN T
  BY SMTT(60), <1>2, <1>3
<1>11. ParentFirst' /\ NoRefusal' /\ ImportedClosed'
  BY SMTT(60), <1>1, <1>3, <1>9, <1>10, AppendKeepsOrder
<1>12. /\ queue' \in Seq(Elements(queue'))
       /\ \A i \in DOMAIN queue' : BatchOK(queue'[i])
       /\ Waiting' = Waiting \cup DOMAIN T
  BY SMTT(60), <1>1, <1>3, AppendBatch DEF PipelineInv
<1>13. TypeOK'
  <2>1. /\ d'.peer \in Peer /\ d'.missing \in Seq(Hash) /\ d'.requested \subseteq Hash
        /\ d'.status \in {"Ready", "Saturated"} /\ d'.fresh \in BOOLEAN
        /\ d'.downloaded \subseteq Hash
    BY ZenonT(60), <1>4, <1>5 DEF PipelineInv, TypeOK, Fields
  <2>2. d'.inQueue \subseteq Hash
    BY <1>2, <1>3, <1>4, <1>5 DEF PipelineInv, TypeOK
  <2>3. /\ PartialMap(d'.hash2number, Hash, Nat) /\ PartialMap(d'.number2hash, Nat, Hash)
        /\ d'.pool \in PoolType
    BY <1>5, <1>6, <1>7, <1>8 DEF Fields
  <2>4. crashed' \in BOOLEAN
    BY <1>1 DEF CorruptedState
  <2> QED
    BY SMTT(60), <1>1, <1>5, <1>12, <2>1, <2>2, <2>3, <2>4 DEF PipelineInv, TypeOK
<1>14. QueuedReachImport'
  <2> SUFFICES ASSUME NEW b \in DOMAIN d'.hash2number,
                      \A target \in SyncTarget : ~(d'.hash2number[b] > target)
               PROVE  b \in imported \cup Waiting'
    BY SMTT(60), <1>1 DEF QueuedReachImport
  <2>1. d'.hash2number = Override(d.hash2number, N)
    BY SMTT(60), <1>4, <1>5 DEF Fields
  <2>2. CASE b \in DOMAIN N
    <3>1. d'.hash2number[b] = N[b] /\ N[b] \in Nat
      BY SMTT(60), <1>2, <2>1, <2>2 DEF Override
    <3> QED
      BY SMTT(60), <1>3, <1>12, <2>2, <3>1, DownloaderAssumption
  <2>3. CASE b \notin DOMAIN N
    <3>1. b \in DOMAIN d.hash2number /\ d'.hash2number[b] = d.hash2number[b]
      BY <2>1, <2>3 DEF Override
    <3> QED
      BY SMTT(60), <1>12, <3>1 DEF PipelineInv, QueuedReachImport
  <2> QED
    BY SMTT(60), <2>2, <2>3
<1>15. Genesis \notin DOMAIN d'.hash2number /\ PoolConsistent(d'.pool)
  BY SMTT(60), <1>2, <1>4, <1>5, <1>8 DEF PipelineInv, Override, Fields
<1>16. NoCrash' /\ Drained' /\ Genesis \in imported'
  BY SMTT(60), <1>1, <1>3, <1>5 DEF PipelineInv, NoCrash, Drained
<1> QED
  BY <1>11, <1>13, <1>14, <1>15, <1>16 DEF PipelineInv

\* A downloader without new entries in queued_blocks.
NothingQueued(e) ==
    /\ DOMAIN e = Fields
    /\ e.peer \in Peer
    /\ e.missing \in Seq(Hash)
    /\ e.requested \subseteq Hash
    /\ e.downloaded = {}
    /\ e.inQueue \subseteq Hash
    /\ PartialMap(e.hash2number, Hash, Nat)
    /\ \A h \in DOMAIN e.hash2number :
          h \in DOMAIN d.hash2number /\ e.hash2number[h] = d.hash2number[h]
    /\ PartialMap(e.number2hash, Nat, Hash)
    /\ e.pool \in PoolType /\ PoolConsistent(e.pool)
    /\ e.status \in {"Ready", "Saturated"}
    /\ e.fresh \in BOOLEAN

\* A step that leaves the queued and downloaded blocks and the pool's blocks alone keeps
\* the invariant.
LEMMA DownloaderStep ==
    ASSUME PipelineInv, UNCHANGED <<imported, queue>>, NothingQueued(d'),
           results' \in Seq([done : SUBSET Hash, failed : BOOLEAN]),
           \A i \in DOMAIN results' : ~results'[i].failed,
           crashed' = FALSE
    PROVE  PipelineInv'
<1>1. TypeOK'
  BY Zenon DEF PipelineInv, TypeOK, NothingQueued
<1>2. NoCrash' /\ Drained' /\ Genesis \in imported'
  BY DEF PipelineInv, NoCrash, Drained, NothingQueued
<1>3. ParentFirst' /\ ImportedClosed' /\ NoRefusal'
  BY DEF PipelineInv, ParentFirst, ImportedClosed, NoRefusal
<1>4. Waiting' = Waiting
  BY DEF Waiting
<1>5. QueuedReachImport'
  BY SMTT(60), <1>4 DEF PipelineInv, QueuedReachImport, NothingQueued
<1>6. PoolConsistent(d.pool)' /\ (Genesis \notin DOMAIN d.hash2number)'
  BY SMTT(60) DEF PipelineInv, NothingQueued, PoolConsistent
<1> QED
  BY SMTT(60), <1>1, <1>2, <1>3, <1>5, <1>6 DEF PipelineInv

\* What the invariant says of the downloader in the current state.
LEMMA CurrentDownloader ==
    ASSUME PipelineInv
    PROVE  NothingQueued(d) /\ crashed = FALSE
BY SMTT(60) DEF PipelineInv, TypeOK, NoCrash, Drained, NothingQueued

\* add_orphan_block and add_unknown_block keep the invariant.
LEMMA ReceiveOrphanStep ==
    ASSUME PipelineInv, NEW h \in Hash \ {Genesis}, ReceiveOrphan(h)
    PROVE  PipelineInv'
<1> DEFINE R == OnBlockResponse(d, h)
<1>1. NothingQueued(R)
  BY CurrentDownloader DEF NothingQueued, OnBlockResponse, Fields
<1> HIDE DEF R
<1>2. NothingQueued(AddOrphanBlock(R, h))
  BY Zenon, <1>1 DEF NothingQueued, AddOrphanBlock, InsertOrphanBlock, PoolType, PoolConsistent, Fields
<1>3. NothingQueued(AddUnknownBlock(R, h))
  BY ZenonT(60), <1>1 DEF NothingQueued, AddUnknownBlock, InsertUnknownBlock, InsertOrphanBlock,
              PoolType, PoolConsistent, Fields
<1>4. NothingQueued(d')
  BY <1>2, <1>3 DEF ReceiveOrphan, R
<1> QED
  BY Zenon, <1>4, CurrentDownloader, DownloaderStep DEF ReceiveOrphan, PipelineInv, TypeOK, NoRefusal

\* schedule_next_download_batch keeps the invariant.
LEMMA RequestBlocksStep ==
    ASSUME PipelineInv, RequestBlocks
    PROVE  PipelineInv'
<1> DEFINE k == RequestSize(d)
           batch == NextBatch(d)
<1>1. d.missing \in Seq(Hash)
  BY CurrentDownloader DEF NothingQueued
<1>2. k \in Nat
  BY DownloaderAssumption DEF RequestSize, AtLeastOne
<1> HIDE DEF k
<1>3. batch \in Seq(Hash)
  BY <1>1, <1>2 DEF NextBatch, k
<1>4. Elements(batch) \subseteq Hash /\ Len(batch) \in Nat
  BY <1>3 DEF Elements
<1> HIDE DEF batch
<1>5. SubSeq(d.missing, Len(batch) + 1, Len(d.missing)) \in Seq(Hash)
  BY <1>1, <1>4
<1>6. NothingQueued(d')
  BY <1>4, <1>5, CurrentDownloader
     DEF RequestBlocks, ScheduleNextDownloadBatch, NothingQueued, Fields, batch
<1> QED
  BY Zenon, <1>6, CurrentDownloader, DownloaderStep DEF RequestBlocks, PipelineInv, TypeOK, NoRefusal

\* A downloader just created holds no block.
LEMMA NewDownloaderEmpty ==
    ASSUME NEW p \in Peer, NEW n
    PROVE  NothingQueued(NewDownloader(p, n))
<1> DEFINE e == NewDownloader(p, n)
<1>1. /\ DOMAIN e = Fields
      /\ e.peer = p /\ e.missing = <<>> /\ e.requested = {} /\ e.downloaded = {}
      /\ e.inQueue = {} /\ e.hash2number = EmptyMap /\ e.number2hash = EmptyMap
      /\ e.pool = EmptyPool /\ e.status = "Ready" /\ e.fresh = TRUE
  BY Zenon DEF NewDownloader, Fields
<1>2. DOMAIN EmptyMap = {} /\ \A T : EmptyMap \in [{} -> T]
  BY SMTT(60) DEF EmptyMap
<1>3. EmptyPool \in PoolType /\ PoolConsistent(EmptyPool)
  BY Zenon DEF EmptyPool, PoolType, PoolConsistent
<1>4. <<>> \in Seq(Hash)
  OBVIOUS
<1> HIDE DEF e
<1>5. PartialMap(EmptyMap, Hash, Nat) /\ PartialMap(EmptyMap, Nat, Hash)
  BY SMTT(60), <1>2 DEF PartialMap
<1>6. NothingQueued(e)
  BY Zenon, <1>1, <1>2, <1>3, <1>4, <1>5 DEF NothingQueued
<1> QED
  BY <1>6 DEF e

\* set_missing_blocks, restart and the creation of a strategy keep the invariant.
LEMMA StrategyStep ==
    ASSUME PipelineInv,
           \/ \E missing \in Inventories : FindMissing(missing)
           \/ \E p \in Peer : Restart(p) \/ NewStrategy(p)
    PROVE  PipelineInv'
<1>1. ASSUME NEW missing \in Inventories, FindMissing(missing) PROVE NothingQueued(d')
  BY SMTT(60), <1>1, CurrentDownloader, PipelineAssumption
     DEF FindMissing, SetMissingBlocks, NothingQueued, Fields
<1>2. ASSUME NEW p \in Peer, Restart(p) PROVE NothingQueued(d')
  BY Zenon, <1>2, CurrentDownloader
     DEF Restart, RestartDownloader, NothingQueued, Fields, EmptyPool, PoolType, PoolConsistent
<1>3. ASSUME NEW p \in Peer, NewStrategy(p) PROVE NothingQueued(d')
  BY <1>3, NewDownloaderEmpty DEF NewStrategy
<1>4. NothingQueued(d') /\ UNCHANGED <<imported, queue, results, crashed>>
  BY <1>1, <1>2, <1>3 DEF FindMissing, Restart, NewStrategy
<1> QED
  BY Zenon, <1>4, CurrentDownloader, DownloaderStep DEF PipelineInv, TypeOK, NoRefusal

\* handle_processed_blocks keeps the invariant and does not panic.
LEMMA HandleResultsStep ==
    ASSUME PipelineInv, HandleResults
    PROVE  PipelineInv'
<1>1. results \in Seq([done : SUBSET Hash, failed : BOOLEAN]) /\ results # <<>>
  BY DEF HandleResults, PipelineInv, TypeOK
<1>2. Head(results) = results[1] /\ 1 \in DOMAIN results
  BY <1>1
<1>3. crashed' = FALSE
  BY <1>1, <1>2 DEF HandleResults, PipelineInv, NoRefusal
<1>4. /\ results' \in Seq([done : SUBSET Hash, failed : BOOLEAN])
      /\ \A i \in DOMAIN results' : ~results'[i].failed
  BY SMTT(60), <1>1 DEF HandleResults, PipelineInv, NoRefusal
<1>5. NothingQueued(d')
  <2> DEFINE P == HandleProcessedBlocks(d, Head(results).done)
  <2>1. /\ DOMAIN P = Fields
        /\ P.inQueue = d.inQueue \ Head(results).done
        /\ DOMAIN P.hash2number \subseteq DOMAIN d.hash2number
        /\ P.hash2number = [h \in DOMAIN P.hash2number |-> d.hash2number[h]]
        /\ DOMAIN P.number2hash \subseteq DOMAIN d.number2hash
        /\ P.number2hash = [n \in DOMAIN P.number2hash |-> d.number2hash[n]]
        /\ \A f \in Fields \ {"inQueue", "hash2number", "number2hash"} : P[f] = d[f]
    BY SMTT(60), ProcessedFields DEF PipelineInv
  <2>2. d' = P
    BY SMTT(60) DEF HandleResults
  <2> HIDE DEF P
  <2>3. PartialMap(P.hash2number, Hash, Nat) /\ PartialMap(P.number2hash, Nat, Hash)
    BY SMTT(60), <2>1 DEF PipelineInv, TypeOK, PartialMap
  <2> QED
    BY SMTT(60), <2>1, <2>2, <2>3, CurrentDownloader DEF NothingQueued, Fields
<1> QED
  BY Zenon, <1>3, <1>4, <1>5, DownloaderStep DEF HandleResults

\* The import of an announced block on the best block keeps the invariant.
LEMMA ReceiveAnnouncedStep ==
    ASSUME PipelineInv, NEW h \in Hash \ {Genesis}, ReceiveAnnounced(h)
    PROVE  PipelineInv'
<1> DEFINE T == [b \in {h} |-> Height[h]]
<1>1. PartialMap(T, Hash, Nat) /\ DOMAIN T = {h}
  BY BlockTreeAssumption DEF PartialMap
<1>2. queue' = Append(queue, Batch(T)) /\ UNCHANGED <<d, imported, results, crashed>>
      /\ Parent[h] \in imported
  BY SMTT(60) DEF ReceiveAnnounced
<1> HIDE DEF T
<1>3. ParentFirst' /\ NoRefusal' /\ ImportedClosed'
  BY SMTT(60), <1>1, <1>2, AppendKeepsOrder
<1>4. /\ queue' \in Seq(Elements(queue'))
      /\ \A i \in DOMAIN queue' : BatchOK(queue'[i])
      /\ Waiting' = Waiting \cup DOMAIN T
  BY SMTT(60), <1>1, <1>2, AppendBatch DEF PipelineInv
<1>5. TypeOK'
  BY SMTT(60), <1>2, <1>4 DEF PipelineInv, TypeOK
<1>6. QueuedReachImport'
  BY SMTT(60), <1>2, <1>4 DEF PipelineInv, QueuedReachImport
<1>7. NoCrash' /\ Drained' /\ (Genesis \in imported)' /\ PoolConsistent(d.pool)'
      /\ (Genesis \notin DOMAIN d.hash2number)'
  BY SMTT(60), <1>2 DEF PipelineInv, NoCrash, Drained, PoolConsistent
<1> QED
  BY SMTT(60), <1>3, <1>5, <1>6, <1>7 DEF PipelineInv

\* The import worker never refuses the block it is at.
LEMMA NeverRefused ==
    ASSUME PipelineInv, NEW h \in Hash \ {Genesis}, ImportNext(h)
    PROVE  /\ queue \in Seq(Elements(queue)) /\ Len(queue) \in Nat /\ Len(queue) > 0
           /\ DOMAIN queue = 1..Len(queue) /\ 1 \in DOMAIN queue
           /\ h \in DOMAIN queue[1].todo
           /\ Parent[h] \in imported
           /\ imported' = imported \cup {h}
           /\ queue' = [queue EXCEPT ![1] = [todo |-> Drop(queue[1].todo, h),
                                             done |-> queue[1].done \cup {h},
                                             failed |-> FALSE]]
<1>1. /\ queue \in Seq(Elements(queue)) /\ Len(queue) \in Nat /\ Len(queue) > 0
      /\ DOMAIN queue = 1..Len(queue) /\ 1 \in DOMAIN queue
  BY DEF PipelineInv, TypeOK, ImportNext
<1>2. h \in DOMAIN queue[1].todo /\ First(queue[1].todo, h)
  BY DEF ImportNext
<1>3. \A b \in DOMAIN queue[1].todo : queue[1].todo[b] \in Nat
  BY <1>1 DEF PipelineInv, TypeOK, BatchOK, PartialMap
<1>4. Parent[h] \in imported
  <2>1. \/ Parent[h] \in imported
        \/ \E j \in 1..(1 - 1) : Parent[h] \in DOMAIN queue[j].todo
        \/ /\ Parent[h] \in DOMAIN queue[1].todo
           /\ queue[1].todo[Parent[h]] < queue[1].todo[h]
    BY <1>1, <1>2 DEF PipelineInv, ParentFirst
  <2>2. ~(Parent[h] \in DOMAIN queue[1].todo /\ queue[1].todo[Parent[h]] < queue[1].todo[h])
    BY SMTT(60), <1>2, <1>3 DEF First
  <2> QED
    BY SMTT(60), <2>1, <2>2
<1>5. queue[1].failed = FALSE /\ ~Refused(h)
  BY <1>1, <1>4 DEF PipelineInv, NoRefusal, TypeOK, BatchOK, Refused
<1>6. (queue[1].failed \/ Refused(h)) = FALSE
  BY <1>5
<1> QED
  BY Zenon, <1>1, <1>2, <1>4, <1>6 DEF ImportNext

\* Each import of the worker keeps the invariant.
LEMMA ImportNextStep ==
    ASSUME PipelineInv, NEW h \in Hash \ {Genesis}, ImportNext(h)
    PROVE  PipelineInv' /\ Waiting' \in {Waiting, Waiting \ {h}} /\ h \in Waiting
<1> DEFINE B == [todo |-> Drop(queue[1].todo, h), done |-> queue[1].done \cup {h},
                 failed |-> FALSE]
<1>1. /\ queue \in Seq(Elements(queue)) /\ Len(queue) \in Nat /\ Len(queue) > 0
      /\ DOMAIN queue = 1..Len(queue) /\ 1 \in DOMAIN queue
      /\ h \in DOMAIN queue[1].todo
      /\ Parent[h] \in imported
      /\ imported' = imported \cup {h}
      /\ queue' = [queue EXCEPT ![1] = B]
  BY NeverRefused
<1>2. /\ DOMAIN queue' = DOMAIN queue
      /\ queue'[1] = B
      /\ \A i \in DOMAIN queue \ {1} : queue'[i] = queue[i]
  BY <1>1
<1>3. /\ DOMAIN B.todo = DOMAIN queue[1].todo \ {h}
      /\ \A b \in DOMAIN B.todo : B.todo[b] = queue[1].todo[b]
      /\ B.failed = FALSE
  BY SMTT(60) DEF Drop
<1>4. BatchOK(B)
  BY SMTT(60), <1>1 DEF PipelineInv, TypeOK, BatchOK, PartialMap, Drop
<1> HIDE DEF B
<1>5. queue' \in Seq(Elements(queue'))
  <2>1. queue' \in Seq(Elements(queue) \cup {B})
    BY SMTT(60), <1>1
  <2> QED
    BY <2>1, SeqOfElements
<1>6. TypeOK'
  BY ZenonT(60), <1>1, <1>2, <1>4, <1>5 DEF PipelineInv, TypeOK, ImportNext
<1>7. \A i \in DOMAIN queue : \A b \in DOMAIN queue'[i].todo :
         b \in DOMAIN queue[i].todo /\ queue'[i].todo[b] = queue[i].todo[b]
  BY <1>2, <1>3
<1>8. \A i \in DOMAIN queue : \A b \in DOMAIN queue[i].todo :
         b \in DOMAIN queue'[i].todo \/ b = h
  BY <1>2, <1>3
<1>9. ParentFirst'
  <2> SUFFICES ASSUME NEW i \in DOMAIN queue, NEW b \in DOMAIN queue'[i].todo,
                      Parent[b] \notin imported'
               PROVE  \/ \E j \in 1..(i - 1) : Parent[b] \in DOMAIN queue'[j].todo
                      \/ /\ Parent[b] \in DOMAIN queue'[i].todo
                         /\ queue'[i].todo[Parent[b]] < queue'[i].todo[b]
    BY <1>2 DEF ParentFirst
  <2>1. Parent[b] # h /\ Parent[b] \notin imported
    BY SMTT(60), <1>1
  <2>2. \/ \E j \in 1..(i - 1) : Parent[b] \in DOMAIN queue[j].todo
        \/ /\ Parent[b] \in DOMAIN queue[i].todo
           /\ queue[i].todo[Parent[b]] < queue[i].todo[b]
    BY <1>7, <2>1 DEF PipelineInv, ParentFirst
  <2>3. \A j \in 1..(i - 1) : j \in DOMAIN queue
    BY <1>1
  <2> QED
    BY <1>7, <1>8, <2>1, <2>2, <2>3
<1>10. h \in Waiting /\ Waiting' \subseteq Waiting /\ Waiting \subseteq Waiting' \cup {h}
  BY SMTT(60), <1>1, <1>2, <1>7, <1>8 DEF Waiting
<1>11. QueuedReachImport'
  BY SMTT(60), <1>1, <1>10 DEF PipelineInv, QueuedReachImport, ImportNext
<1>12. ImportedClosed' /\ Genesis \in imported'
  BY SMTT(60), <1>1 DEF PipelineInv, ImportedClosed
<1>13. NoRefusal'
  BY SMTT(60), <1>1, <1>2, <1>3 DEF PipelineInv, NoRefusal, ImportNext
<1>14. NoCrash' /\ Drained' /\ PoolConsistent(d.pool)' /\ (Genesis \notin DOMAIN d.hash2number)'
  BY SMTT(60) DEF PipelineInv, NoCrash, Drained, PoolConsistent, ImportNext
<1> QED
  BY SMTT(60), <1>6, <1>9, <1>10, <1>11, <1>12, <1>13, <1>14 DEF PipelineInv

\* Sending the results of a batch back keeps the invariant.
LEMMA SendResultsStep ==
    ASSUME PipelineInv, SendResults
    PROVE  PipelineInv' /\ Waiting' = Waiting
<1>1. /\ queue \in Seq(Elements(queue)) /\ Len(queue) \in Nat /\ Len(queue) > 0
      /\ DOMAIN queue = 1..Len(queue)
      /\ DOMAIN queue[1].todo = {} /\ queue' = Tail(queue)
      /\ UNCHANGED <<d, imported, crashed>>
  BY DEF PipelineInv, TypeOK, SendResults
<1>2. /\ DOMAIN queue' = 1..(Len(queue) - 1)
      /\ \A i \in 1..(Len(queue) - 1) : queue'[i] = queue[i + 1]
  BY <1>1
<1>3. queue' \in Seq(Elements(queue'))
  <2>1. queue' \in Seq(Elements(queue))
    BY SMTT(60), <1>1
  <2> QED
    BY <2>1, SeqOfElements
<1>4. /\ queue[1].done \subseteq Hash /\ queue[1].failed = FALSE
  BY SMTT(60), <1>1 DEF PipelineInv, TypeOK, BatchOK, NoRefusal
<1>5. /\ results' \in Seq([done : SUBSET Hash, failed : BOOLEAN])
      /\ \A i \in DOMAIN results' : ~results'[i].failed
  <2>1. results \in Seq([done : SUBSET Hash, failed : BOOLEAN])
        /\ \A i \in DOMAIN results : ~results[i].failed
    BY SMTT(60) DEF PipelineInv, TypeOK, NoRefusal
  <2>2. results' = Append(results, [done |-> queue[1].done, failed |-> FALSE])
    BY Zenon, <1>4 DEF SendResults
  <2> QED
    BY SMTT(60), <1>4, <2>1, <2>2
<1>6. TypeOK'
  <2>1. \A i \in DOMAIN queue' : BatchOK(queue'[i])
    BY SMTT(60), <1>1, <1>2 DEF PipelineInv, TypeOK
  <2> QED
    BY SMTT(60), <1>1, <1>3, <1>5, <2>1 DEF PipelineInv, TypeOK
<1>7. ParentFirst'
  <2> SUFFICES ASSUME NEW i \in 1..(Len(queue) - 1), NEW b \in DOMAIN queue'[i].todo,
                      Parent[b] \notin imported
               PROVE  \/ \E j \in 1..(i - 1) : Parent[b] \in DOMAIN queue'[j].todo
                      \/ /\ Parent[b] \in DOMAIN queue'[i].todo
                         /\ queue'[i].todo[Parent[b]] < queue'[i].todo[b]
    BY Zenon, <1>1, <1>2 DEF ParentFirst
  <2>1. i + 1 \in DOMAIN queue /\ queue'[i] = queue[i + 1]
    BY <1>1, <1>2
  <2>2. \/ \E j \in 1..((i + 1) - 1) : Parent[b] \in DOMAIN queue[j].todo
        \/ /\ Parent[b] \in DOMAIN queue[i + 1].todo
           /\ queue[i + 1].todo[Parent[b]] < queue[i + 1].todo[b]
    BY <2>1 DEF PipelineInv, ParentFirst
  <2>3. ASSUME NEW j \in 1..((i + 1) - 1), Parent[b] \in DOMAIN queue[j].todo
        PROVE  \E k \in 1..(i - 1) : Parent[b] \in DOMAIN queue'[k].todo
    <3>1. j # 1
      BY SMTT(60), <1>1, <2>3
    <3>2. j - 1 \in 1..(i - 1) /\ queue'[j - 1] = queue[j]
      BY <1>1, <1>2, <3>1
    <3> QED
      BY <2>3, <3>2
  <2> QED
    BY SMTT(60), <2>1, <2>2, <2>3
<1>8. Waiting' = Waiting
  <2>1. Waiting' \subseteq Waiting
    <3> SUFFICES ASSUME NEW i \in 1..(Len(queue) - 1), NEW b \in DOMAIN queue'[i].todo
                 PROVE  b \in Waiting
      BY <1>2 DEF Waiting
    <3> QED
      BY SMTT(60), <1>1, <1>2 DEF Waiting
  <2>2. Waiting \subseteq Waiting'
    <3> SUFFICES ASSUME NEW i \in DOMAIN queue, NEW b \in DOMAIN queue[i].todo
                 PROVE  \E k \in DOMAIN queue' : b \in DOMAIN queue'[k].todo
      BY DEF Waiting
    <3>1. i # 1
      BY <1>1
    <3>2. i - 1 \in 1..(Len(queue) - 1) /\ queue'[i - 1] = queue[i]
      BY SMTT(60), <1>1, <1>2, <3>1
    <3> QED
      BY <1>2, <3>2
  <2> QED
    BY SMTT(60), <2>1, <2>2
<1>9. QueuedReachImport'
  BY SMTT(60), <1>1, <1>8 DEF PipelineInv, QueuedReachImport
<1>10. NoRefusal'
  BY SMTT(60), <1>1, <1>2, <1>5 DEF PipelineInv, NoRefusal
<1>11. NoCrash' /\ Drained' /\ ImportedClosed' /\ (Genesis \in imported)'
       /\ PoolConsistent(d.pool)' /\ (Genesis \notin DOMAIN d.hash2number)'
  BY SMTT(60), <1>1 DEF PipelineInv, NoCrash, Drained, ImportedClosed, PoolConsistent
<1> QED
  BY SMTT(60), <1>6, <1>7, <1>8, <1>9, <1>10, <1>11 DEF PipelineInv

-----------------------------------------------------------------------------
(* The theorems.                                                            *)

\* The invariant holds when the node starts.
LEMMA InitialInvariant == Init => PipelineInv
<1> SUFFICES ASSUME Init PROVE PipelineInv
  OBVIOUS
<1>1. PICK p \in Peer : d = NewDownloader(p, 0)
  BY DEF Init
<1>2. NothingQueued(d)
  BY SMTT(60), <1>1, NewDownloaderEmpty
<1>3. DOMAIN d.hash2number = {}
  BY <1>1 DEF NewDownloader, EmptyMap
<1>4. /\ imported = {Genesis} /\ queue = <<>> /\ results = <<>> /\ crashed = FALSE
      /\ DOMAIN queue = {} /\ DOMAIN results = {}
  BY DEF Init
<1>5. queue \in Seq(Elements(queue)) /\ results \in Seq([done : SUBSET Hash, failed : BOOLEAN])
  BY SMTT(60), <1>4
<1>6. TypeOK
  BY Zenon, <1>2, <1>4, <1>5, BlockTreeAssumption DEF TypeOK, NothingQueued
<1>7. NoCrash /\ ParentFirst /\ ImportedClosed /\ NoRefusal
  BY Zenon, <1>4 DEF NoCrash, ParentFirst, ImportedClosed, NoRefusal
<1>8. QueuedReachImport /\ Drained
  BY SMTT(60), <1>2, <1>3 DEF QueuedReachImport, Drained, NothingQueued
<1> QED
  BY SMTT(60), <1>2, <1>3, <1>4, <1>6, <1>7, <1>8 DEF PipelineInv, NothingQueued

\* Every iteration of the loop and every step of the worker keeps the invariant.
LEMMA NextKeepsInvariant == PipelineInv /\ [Next]_vars => PipelineInv'
<1> SUFFICES ASSUME PipelineInv, [Next]_vars PROVE PipelineInv'
  OBVIOUS
<1>1. ASSUME NEW h \in Hash \ {Genesis}, NEW ord \in WalkOrders(d.pool, h), ReceiveBlock(h, ord)
      PROVE  PipelineInv'
  BY <1>1, ReceiveBlockStep
<1>2. ASSUME NEW h \in Hash \ {Genesis}, ReceiveOrphan(h) PROVE PipelineInv'
  BY <1>2, ReceiveOrphanStep
<1>3. ASSUME NEW h \in Hash \ {Genesis}, ReceiveAnnounced(h) PROVE PipelineInv'
  BY <1>3, ReceiveAnnouncedStep
<1>4. ASSUME NEW h \in Hash \ {Genesis}, ImportNext(h) PROVE PipelineInv'
  BY <1>4, ImportNextStep
<1>5. CASE \/ \E missing \in Inventories : FindMissing(missing)
           \/ \E p \in Peer : Restart(p) \/ NewStrategy(p)
  BY <1>5, StrategyStep
<1>6. CASE RequestBlocks
  BY <1>6, RequestBlocksStep
<1>7. CASE HandleResults
  BY <1>7, HandleResultsStep
<1>8. CASE SendResults
  BY SMTT(60), <1>8, SendResultsStep
<1>9. CASE UNCHANGED vars
  <2>1. UNCHANGED <<imported, queue>> /\ d' = d /\ results' = results /\ crashed' = crashed
    BY <1>9 DEF vars
  <2> QED
    BY ZenonT(60), <2>1, CurrentDownloader, DownloaderStep DEF PipelineInv, TypeOK, NoRefusal
<1> QED
  BY SMTT(60), <1>1, <1>2, <1>3, <1>4, <1>5, <1>6, <1>7, <1>8, <1>9 DEF Next

\* The types hold and the conjuncts of PipelineInv with them, for every tree
\* of blocks, set of peers, request size and sync target.
THEOREM PipelineInvariant == Spec => []PipelineInv
BY InitialInvariant, NextKeepsInvariant, PTL DEF Spec

\* No panic of the downloader is reachable, whatever the order in which
\* blocks, orphans, announcements, restarts and import results are handled.
THEOREM PipelineNeverCrashes == Spec => []NoCrash
<1>1. PipelineInv => NoCrash
  BY DEF PipelineInv
<1> QED
  BY <1>1, PipelineInvariant, PTL

\* The import worker always finds the parent of a block before the block.
THEOREM PipelineParentFirst == Spec => []ParentFirst
<1>1. PipelineInv => ParentFirst
  BY DEF PipelineInv
<1> QED
  BY <1>1, PipelineInvariant, PTL

-----------------------------------------------------------------------------
(* The refinement.                                                          *)

\* The node starts as an abstract pipeline with nothing pending.
LEMMA InitialRefinement == Init => Abstract!IPInit
BY DEF Init, Waiting, Abstract!IPInit

\* A step that appends one batch to the import queue hands over its blocks, or none.
LEMMA HandOverStep ==
    ASSUME NEW S \in SUBSET (Hash \ {Genesis}), imported' = imported,
           \A b \in S : Parent[b] \in imported \cup Waiting \cup S,
           Waiting' = Waiting \cup S
    PROVE  Abstract!IPNext
BY SMTT(60) DEF Abstract!IPNext, Abstract!HandOver

\* Every step is a step of the abstract pipeline or leaves it unchanged.
LEMMA StepRefinement ==
    PipelineInv /\ [Next]_vars => [Abstract!IPNext]_(Abstract!ipVars)
<1> SUFFICES ASSUME PipelineInv, [Next]_vars
             PROVE  Abstract!IPNext \/ UNCHANGED <<imported, Waiting>>
  BY SMTT(60) DEF Abstract!ipVars
<1>1. ASSUME NEW h \in Hash \ {Genesis}, NEW ord \in WalkOrders(d.pool, h), ReceiveBlock(h, ord)
      PROVE  Abstract!IPNext
  <2> DEFINE T == ImportBatch(Added(h, ord))
  <2>1. Known(Parent[h]) /\ queue' = Append(queue, Batch(T)) /\ imported' = imported
    BY SMTT(60), <1>1 DEF ReceiveBlock
  <2>2. PartialMap(T, Hash, Nat)
    BY ZenonT(60), <2>1, AddedBatch
  <2>3. \A b \in DOMAIN T : Parent[b] \in imported \cup Waiting \cup DOMAIN T
    BY <2>1, BatchParents
  <2>4. DOMAIN T \in SUBSET (Hash \ {Genesis})
    <3>1. DOMAIN Numbers(h, ord) \subseteq Hash \ {Genesis}
      BY SMTT(60), <2>1, NumbersParentFirst
    <3>2. DOMAIN T = {b \in DOMAIN Numbers(h, ord) :
                         \A target \in SyncTarget : Numbers(h, ord)[b] <= target}
      BY ZenonT(60), <2>1, AddedBatch
    <3> HIDE DEF T
    <3> QED
      BY SMTT(60), <3>1, <3>2
  <2> HIDE DEF T
  <2>5. Waiting' = Waiting \cup DOMAIN T
    BY SMTT(60), <2>1, <2>2, AppendBatch DEF PipelineInv
  <2> QED
    BY SMTT(60), <2>1, <2>3, <2>4, <2>5, HandOverStep
<1>2. ASSUME NEW h \in Hash \ {Genesis}, ReceiveAnnounced(h)
      PROVE  Abstract!IPNext
  <2> DEFINE T == [b \in {h} |-> Height[h]]
  <2>1. Parent[h] \in imported /\ queue' = Append(queue, Batch(T)) /\ imported' = imported
    BY <1>2 DEF ReceiveAnnounced
  <2>2. PartialMap(T, Hash, Nat) /\ DOMAIN T = {h}
    BY BlockTreeAssumption DEF PartialMap
  <2> HIDE DEF T
  <2>3. Waiting' = Waiting \cup {h}
    BY <2>1, <2>2, AppendBatch DEF PipelineInv
  <2>4. {h} \in SUBSET (Hash \ {Genesis}) /\ \A b \in {h} : Parent[b] \in imported \cup Waiting \cup {h}
    BY <2>1
  <2> QED
    BY Zenon, <2>1, <2>3, <2>4, HandOverStep
<1>3. ASSUME NEW h \in Hash \ {Genesis}, ImportNext(h)
      PROVE  Abstract!IPNext
  <2>1. Waiting' \in {Waiting, Waiting \ {h}} /\ h \in Waiting
    BY SMTT(60), <1>3, ImportNextStep
  <2>2. Parent[h] \in imported /\ imported' = imported \cup {h}
    BY <1>3, NeverRefused
  <2> QED
    BY <2>1, <2>2 DEF Abstract!IPNext, Abstract!Process
<1>4. CASE SendResults
  BY <1>4, SendResultsStep DEF SendResults
<1>5. ASSUME UNCHANGED <<imported, queue>>
      PROVE  UNCHANGED <<imported, Waiting>>
  BY <1>5 DEF Waiting
<1> QED
  BY SMTT(60), <1>1, <1>2, <1>3, <1>4, <1>5
     DEF Next, vars, ReceiveOrphan, Restart, NewStrategy, FindMissing, RequestBlocks, HandleResults

\* The downloader and the import queue implement the abstract pipeline: only
\* blocks whose parents are imported, waiting or handed over with them reach
\* the import queue, and every one of them is imported in turn.
THEOREM PipelineRefinement == Spec => ImplementsImportPipeline
BY InitialRefinement, StepRefinement, PipelineInvariant, PTL
   DEF Spec, ImplementsImportPipeline, Abstract!IPSpec
=============================================================================
