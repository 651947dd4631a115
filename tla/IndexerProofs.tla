---------------------------- MODULE IndexerProofs ----------------------------
(***************************************************************************)
(* Proofs about the indexer: its tables always agree with each other, and   *)
(* every block up to the best one is indexed once it follows the chain.     *)
(* IndexerStepProofs has the invariants, and the steps of the second one.  *)
(***************************************************************************)
EXTENDS IndexerStepProofs, BlockTreeProofs

-----------------------------------------------------------------------------
(* Heights. *)

\* A nonempty bounded set of naturals has a maximum.
LEMMA MaxOfBounded ==
    ASSUME NEW T \in SUBSET Nat, T # {}, NEW b \in Nat, \A t \in T : t <= b
    PROVE  Max(T) \in T /\ \A t \in T : t <= Max(T)
<1> DEFINE U == {u \in Nat : \A t \in T : t <= u}
<1>1. b \in U /\ U \in SUBSET Nat
  BY Zenon
<1>2. PICK u \in U : \A v \in U : u <= v
  BY <1>1, LeastNatural, Zenon
<1>3. u \in T
  <2> SUFFICES ASSUME u \notin T PROVE FALSE
    BY Zenon
  <2>1. \A t \in T : t \in Nat /\ t < u
    BY <1>2
  <2>2. PICK t \in T : t \in Nat /\ t < u
    BY <2>1, Zenon
  <2>3. u - 1 \in Nat /\ \A v \in T : v <= u - 1
    BY <2>1, <2>2, <1>2
  <2> QED
    BY <1>2, <2>3
<1>4. \E x \in T : \A y \in T : x >= y
  BY <1>2, <1>3, Zenon
<1> QED
  BY <1>4, Zenon DEF Max

\* Top is the height of the highest block.
LEMMA TopHeight ==
    /\ Top \in Nat /\ Heights = 0..Top
    /\ \A h \in Hash : Height[h] \in Nat /\ Height[h] <= Top
<1> DEFINE T == {Height[h] : h \in Hash}
<1>1. T \in SUBSET Nat /\ T # {}
  BY BlockTreeAssumption
<1>2. PICK b \in Nat : \A t \in T : t <= b
  BY HeightBound, Zenon
<1>3. Max(T) \in T /\ \A t \in T : t <= Max(T)
  <2> HIDE DEF T
  <2> QED
    BY <1>2, <1>1, MaxOfBounded, Zenon
<1> QED
  BY <1>1, <1>3, Zenon DEF Top, Heights

\* The client has a canonical block for every height up to its best one.
LEMMA CanonicalHash ==
    ASSUME NEW c, c.best \in Hash, NEW n \in Nat, n <= BestNumber(c)
    PROVE  BlockHash(c, n) \in Hash /\ n \in Heights
BY CanonicalBlock, ChainBasics, TopHeight DEF BestNumber

-----------------------------------------------------------------------------
(* A batch of blocks in one transaction. *)

\* f[i] is the tables after the first i blocks of a batch.
Batched(f, d, c, first, size) ==
    f = [i \in 0..size |->
            IF i = 0 THEN d
            ELSE IndexBlock(f[i - 1], first + i - 1, BlockHash(c, first + i - 1))]

\* The recursion of index_blocks_batch over the blocks of a batch has a solution.
LEMMA BatchRecursion ==
    ASSUME NEW d, NEW c, NEW first \in Nat, NEW size \in Nat
    PROVE  \E f : Batched(f, d, c, first, size) /\ IndexBlocksBatch(d, c, first, size) = f[size]
<1> DEFINE step(x, i) == IndexBlock(x, first + i - 1, BlockHash(c, first + i - 1))
           body(f, k) == [i \in 0..k |-> IF i = 0 THEN d ELSE step(f[i - 1], i)]
           T == {k \in Nat : ~ \E f : f = body(f, k)}
<1>1. T = {}
  <2> SUFFICES ASSUME T # {} PROVE FALSE
    BY Zenon
  <2>1. PICK k \in T : \A j \in T : k <= j
    <3>1. T \in SUBSET Nat
      BY Zenon
    <3> HIDE DEF T
    <3> QED
      BY <3>1, LeastNatural, Zenon
  <2> HIDE DEF step
  <2>2. CASE k = 0
    <3>1. [i \in 0..0 |-> d] = body([i \in 0..0 |-> d], 0)
      OBVIOUS
    <3> QED
      BY <2>1, <2>2, <3>1, Zenon
  <2>3. CASE k # 0
    <3>1. k - 1 \in Nat /\ k - 1 \notin T
      <4>1. k \in Nat /\ k - 1 \in Nat /\ ~(k <= k - 1)
        BY <2>1, <2>3
      <4> HIDE DEF T
      <4> QED
        BY <2>1, <4>1, Zenon
    <3>2. PICK f : f = body(f, k - 1)
      BY <3>1, Zenon
    <3> DEFINE g == [i \in 0..k |-> IF i = k THEN step(f[k - 1], k) ELSE f[i]]
    <3>3. \A i \in 0..(k - 1) : f[i] = IF i = 0 THEN d ELSE step(f[i - 1], i)
      BY <3>2, Zenon
    <3>4. ASSUME NEW i \in 0..k
          PROVE  g[i] = IF i = 0 THEN d ELSE step(g[i - 1], i)
      <4>1. CASE i = k
        <5>1. g[k - 1] = f[k - 1] /\ g[k] = step(f[k - 1], k)
          BY <2>1, <2>3
        <5> QED
          BY <4>1, <5>1, <2>3
      <4>2. CASE i # k
        <5>1. i \in 0..(k - 1) /\ g[i] = f[i] /\ (i # 0 => g[i - 1] = f[i - 1])
          BY <2>1, <4>2
        <5> QED
          BY <3>3, <5>1, Zenon
      <4> QED
        BY <4>1, <4>2, Zenon
    <3>5. g = [i \in 0..k |-> g[i]]
      BY Zenon
    <3> HIDE DEF g
    <3>6. [i \in 0..k |-> g[i]] = body(g, k)
      BY <3>4, Zenon
    <3>7. g = body(g, k)
      BY <3>5, <3>6, Zenon
    <3> QED
      BY <2>1, <3>7, Zenon
  <2> QED
    BY <2>2, <2>3, Zenon
<1>2. \E f : f = body(f, size)
  BY <1>1, Zenon
<1> DEFINE F == CHOOSE f : f = body(f, size)
<1>3. F = body(F, size)
  <2> HIDE DEF body
  <2> QED
    BY <1>2, Zenon
<1>4. IndexBlocksBatch(d, c, first, size) = F[size]
  BY Zenon DEF IndexBlocksBatch
<1>5. Batched(F, d, c, first, size)
  <2> HIDE DEF F
  <2> QED
    BY <1>3, Zenon DEF Batched
<1> QED
  <2> HIDE DEF F
  <2> QED
    BY <1>4, <1>5, Zenon

\* A batch of canonical blocks adds their rows, and keeps the tables in order.
LEMMA BatchKeepsTables ==
    ASSUME NEW d, Tables(d), NEW c, c.best \in Hash, NEW first \in Nat, NEW size \in Nat,
           first + size - 1 <= BestNumber(c)
    PROVE  LET e == IndexBlocksBatch(d, c, first, size)
               new == first..(first + size - 1)
           IN /\ Tables(e)
              /\ DOMAIN e.blocks = DOMAIN d.blocks \cup new
              /\ \A m \in DOMAIN e.blocks :
                     e.blocks[m] = IF m \in new THEN BlockHash(c, m) ELSE d.blocks[m]
<1>0. PICK f : Batched(f, d, c, first, size) /\ IndexBlocksBatch(d, c, first, size) = f[size]
  BY BatchRecursion, Zenon
<1>1. \A i \in 0..size :
          f[i] = IF i = 0 THEN d
                 ELSE IndexBlock(f[i - 1], first + i - 1, BlockHash(c, first + i - 1))
  BY <1>0, Zenon DEF Batched
<1> DEFINE new(i) == first..(first + i - 1)
           Q(i) == /\ Tables(f[i])
                   /\ DOMAIN f[i].blocks = DOMAIN d.blocks \cup new(i)
                   /\ \A m \in DOMAIN f[i].blocks :
                          f[i].blocks[m] = IF m \in new(i) THEN BlockHash(c, m) ELSE d.blocks[m]
           T == {i \in 0..size : ~Q(i)}
<1>2. T = {}
  <2> SUFFICES ASSUME T # {} PROVE FALSE
    BY Zenon
  <2>1. PICK i \in T : \A j \in T : i <= j
    <3>1. T \in SUBSET Nat
      OBVIOUS
    <3> HIDE DEF T
    <3> QED
      BY <3>1, LeastNatural, Zenon
  <2>2. CASE i = 0
    <3>1. f[0] = d
      BY <1>1, <2>1, <2>2, Zenon
    <3>2. new(0) = {}
      OBVIOUS
    <3>3. Q(0)
      BY <3>1, <3>2, Zenon
    <3> QED
      BY <2>1, <2>2, <3>3, Zenon
  <2>3. CASE i # 0
    <3> DEFINE n == first + i - 1
    <3>1. i - 1 \in 0..size /\ i \in 0..size /\ n \in Nat /\ n <= BestNumber(c)
      BY <2>1, <2>3, BlockTreeAssumption DEF BestNumber
    <3>2. Q(i - 1)
      <4>1. ~(i <= i - 1)
        BY <2>1, <2>3
      <4>2. i - 1 \notin T
        <5> HIDE DEF T
        <5> QED
          BY <2>1, <4>1, Zenon
      <4> QED
        BY <3>1, <4>2, Zenon
    <3>3. f[i] = IndexBlock(f[i - 1], n, BlockHash(c, n))
      BY <1>1, <2>3, <3>1, Zenon
    <3>4. BlockHash(c, n) \in Hash /\ n \in Heights
      BY <3>1, CanonicalHash, Zenon
    <3>5. new(i) = new(i - 1) \cup {n} /\ n \notin new(i - 1)
      BY <3>1
    <3> DEFINE e == f[i - 1]
               h == BlockHash(c, n)
    <3>6. /\ Tables(f[i])
          /\ f[i].blocks = [k \in DOMAIN e.blocks \cup {n} |-> IF k = n THEN h ELSE e.blocks[k]]
      <4>1. Tables(e) /\ n \in Heights /\ h \in Hash /\ f[i] = IndexBlock(e, n, h)
        BY <3>2, <3>3, <3>4, Zenon
      <4> HIDE DEF n, h, e
      <4>2. Tables(IndexBlock(e, n, h)) /\ IndexBlock(e, n, h).blocks
                = [k \in DOMAIN e.blocks \cup {n} |-> IF k = n THEN h ELSE e.blocks[k]]
        BY <4>1, IndexKeepsTables
      <4> QED
        BY <4>1, <4>2, Zenon
    <3>7. Q(i)
      <4> HIDE DEF n, new
      <4>1. DOMAIN f[i].blocks = DOMAIN d.blocks \cup new(i)
        BY <3>2, <3>5, <3>6, Zenon
      <4>2. ASSUME NEW m \in DOMAIN f[i].blocks
            PROVE  f[i].blocks[m] = IF m \in new(i) THEN BlockHash(c, m) ELSE d.blocks[m]
        <5>1. CASE m = n
          BY <3>5, <3>6, <5>1
        <5>2. CASE m # n
          BY <3>2, <3>5, <3>6, <5>2
        <5> QED
          BY <5>1, <5>2, Zenon
      <4> QED
        BY <3>6, <4>1, <4>2, Zenon
    <3> QED
      BY <2>1, <3>7, Zenon
  <2> QED
    BY <2>2, <2>3, Zenon
<1>3. Q(size)
  BY <1>2
<1> QED
  BY <1>0, <1>3, Zenon

-----------------------------------------------------------------------------
(* Imports and their notifications. *)

\* The import of a block: what it does to the best chain.
LEMMA ImportFacts ==
    ASSUME NEW c \in ClientType, NEW h \in Hash \ {Genesis}
    PROVE  LET d == ImportBlock(c, h)
           IN /\ d \in ClientType /\ c.best \in Hash /\ d.best \in Hash
              /\ d.best = h \/ d.best = c.best
              /\ ChainWork[c.best] <= ChainWork[d.best] /\ ChainWork[h] <= ChainWork[d.best]
              /\ d.best = h => h \notin Chain[c.best] \/ h = c.best
              /\ BestNumber(c) \in Nat /\ BestNumber(d) \in Nat
<1> DEFINE d == ImportBlock(c, h)
<1>1. c.best \in Hash /\ c.imported \in SUBSET Hash
  BY Zenon DEF ClientType
<1>2. /\ d \in ClientType
      /\ d.best = IF ChainWork[h] > ChainWork[c.best] THEN h ELSE c.best
  BY <1>1, Zenon DEF ImportBlock, ClientType
<1> HIDE DEF d
<1>3. ChainWork[h] \in Nat /\ ChainWork[c.best] \in Nat
  BY <1>1, WorkAssumption, Zenon
<1>4. d.best = h => h \notin Chain[c.best] \/ h = c.best
  BY <1>1, <1>2, <1>3, ChainWorkGrows
<1> QED
  BY <1>1, <1>2, <1>3, <1>4, BlockTreeAssumption DEF BestNumber, d

\* The client notifies of an import with its route.
LEMMA NotificationFacts ==
    ASSUME NEW c \in ClientType, NEW h \in Hash \ {Genesis},
           NEW d, d = ImportBlock(c, h), NEW n, n = Notification(c, d, h)
    PROVE  Notifies(n, c, d, h)
<1> DEFINE common == Chain[c.best] \cap Chain[d.best]
           T == {Height[x] : x \in common}
           fork == Max(T)
           reorg == d.best = h /\ Parent[h] # c.best
<1>1. /\ n.number = Height[h] /\ n.lowest = fork + 1 /\ n.reorg = reorg
      /\ n.enacted = IF reorg THEN [i \in 1..(Height[h] - fork) |-> fork + i] ELSE <<>>
      /\ n = [number |-> Height[h], reorg |-> reorg, lowest |-> fork + 1, enacted |-> n.enacted]
  BY Zenon DEF Notification
<1>2. c.best \in Hash /\ d.best \in Hash /\ (d.best = h => h \notin Chain[c.best] \/ h = c.best)
  BY ImportFacts, Zenon
<1>3. /\ T \in SUBSET Nat /\ T # {}
      /\ \A t \in T : t <= Height[c.best] /\ t <= Height[d.best]
  <2>1. Chain[c.best] \in SUBSET Hash /\ Genesis \in Chain[c.best] /\ Genesis \in Chain[d.best]
    BY <1>2, ChainBasics, Zenon
  <2>2. \A x \in common : Height[x] \in Nat /\ Height[x] <= Height[c.best] /\ Height[x] <= Height[d.best]
    BY <1>2, <2>1, ChainBasics, BlockTreeAssumption
  <2> QED
    BY <2>1, <2>2, Zenon
<1>4. Height[c.best] \in Nat /\ Height[d.best] \in Nat /\ Height[c.best] <= Top /\ Height[d.best] <= Top
      /\ Height[h] \in Nat /\ Height[h] <= Top /\ Top \in Nat /\ Heights = 0..Top
  BY <1>2, TopHeight, Zenon
<1>5. fork \in T
  <2> HIDE DEF T
  <2> QED
    BY <1>3, <1>4, MaxOfBounded, Zenon
<1>6. /\ fork \in Nat /\ fork <= Height[c.best] /\ fork <= Height[d.best]
      /\ \E x \in Chain[c.best] : x \in Chain[d.best] /\ Height[x] = fork
  BY <1>3, <1>5, Zenon
<1>7. reorg /\ c.best # h => fork < Height[h]
  <2> SUFFICES ASSUME reorg, c.best # h PROVE fork < Height[h]
    BY Zenon
  <2>1. d.best = h /\ h \notin Chain[c.best]
    BY <1>2, Zenon
  <2>2. PICK x \in Chain[c.best] : x \in Chain[d.best] /\ Height[x] = fork
    BY <1>6, Zenon
  <2> QED
    BY <1>2, <2>1, <2>2, ChainBasics
<1>8. n.enacted \in Seq(Nat)
  <2>1. CASE reorg
    <3>1. fork <= Height[h]
      BY <1>6, <2>1, Zenon
    <3> HIDE DEF fork, reorg
    <3>2. n.enacted = [i \in 1..(Height[h] - fork) |-> fork + i]
      BY <1>1, <2>1, Zenon
    <3>3. Height[h] - fork \in Nat /\ \A i \in 1..(Height[h] - fork) : fork + i \in Nat
      BY <1>4, <1>6, <3>1
    <3> QED
      BY <3>2, <3>3
  <2>2. CASE ~reorg
    BY <1>1, <2>2
  <2> QED
    BY <2>1, <2>2, Zenon
<1> HIDE DEF fork
<1>9. n \in NotificationType
  <2>1. Height[h] \in Heights /\ fork + 1 \in 1..(Top + 1) /\ reorg \in BOOLEAN
    BY <1>4, <1>6
  <2> HIDE DEF reorg
  <2> QED
    BY <1>1, <1>8, <2>1, Zenon DEF NotificationType
<1>10. n.reorg /\ c.best # h =>
          /\ n.lowest <= n.number
          /\ n.enacted = [i \in 1..(n.number - n.lowest + 1) |-> n.lowest + i - 1]
  <2> SUFFICES ASSUME n.reorg, c.best # h
               PROVE  /\ n.lowest <= n.number
                      /\ n.enacted = [i \in 1..(n.number - n.lowest + 1) |-> n.lowest + i - 1]
    BY Zenon
  <2>1. reorg
    BY <1>1, Zenon
  <2>2. n.enacted = [i \in 1..(Height[h] - fork) |-> fork + i]
    BY <1>1, <2>1, Zenon
  <2>3. n.number - n.lowest + 1 = Height[h] - fork /\ \A i \in Nat : n.lowest + i - 1 = fork + i
    <3> HIDE DEF reorg
    <3>1. n.number = Height[h] /\ n.lowest = fork + 1 /\ fork \in Nat /\ Height[h] \in Nat
      BY <1>1, <1>4, <1>6, Zenon
    <3>2. \A a, b \in Nat : b - (a + 1) + 1 = b - a /\ \A i \in Nat : a + 1 + i - 1 = a + i
      OBVIOUS
    <3> HIDE DEF common, T
    <3> QED
      BY <3>1, <3>2
  <2>4. n.lowest <= n.number
    BY <1>1, <1>4, <1>6, <1>7, <2>1
  <2> HIDE DEF reorg
  <2> QED
    BY <2>2, <2>3, <2>4
<1>11. n.lowest \in Nat /\ n.lowest - 1 = fork
  BY <1>1, <1>6
<1>12. n.reorg <=> (d.best = h /\ Parent[h] # c.best)
  BY <1>1, Zenon
<1> QED
  BY <1>1, <1>6, <1>9, <1>10, <1>11, <1>12 DEF Notifies, BestNumber

\* The import of a new block keeps the canonical chain below the fork.
LEMMA ImportCanonical ==
    ASSUME WorkFollowsHeight, NEW c \in ClientType, NEW h \in Hash \ {Genesis},
           h \notin c.imported, c.best \in c.imported,
           NEW d, d = ImportBlock(c, h), NEW n, n = Notification(c, d, h)
    PROVE  Imports(n, c, d, h)
<1>1. /\ c.best \in Hash /\ d.best \in Hash /\ (d.best = h \/ d.best = c.best)
      /\ ChainWork[c.best] <= ChainWork[d.best] /\ ChainWork[h] <= ChainWork[d.best]
      /\ BestNumber(c) \in Nat /\ BestNumber(d) \in Nat /\ c.best # h
  BY ImportFacts, Zenon
<1>2. BestNumber(c) <= BestNumber(d) /\ Height[h] <= BestNumber(d)
  BY <1>1, Zenon DEF WorkFollowsHeight, BestNumber
<1>3. /\ n.reorg <=> (d.best = h /\ Parent[h] # c.best)
      /\ n.lowest \in Nat
      /\ \E x \in Chain[c.best] : x \in Chain[d.best] /\ Height[x] = n.lowest - 1
  <2>1. Notifies(n, c, d, h)
    BY NotificationFacts, Zenon
  <2> QED
    BY <2>1, Zenon DEF Notifies
<1>4. (d.best # h => BestNumber(d) = BestNumber(c)) /\ (d.best = h => Height[h] = BestNumber(d))
  BY <1>1, Zenon DEF BestNumber
<1>5. d.best = h /\ ~n.reorg => Height[h] = BestNumber(c) + 1
  BY <1>3, BlockTreeAssumption, Zenon DEF BestNumber
<1>6. ASSUME ~n.reorg, NEW m \in 0..BestNumber(c) PROVE BlockHash(d, m) = BlockHash(c, m)
  <2>1. CASE d.best = h
    <3>1. Parent[h] = c.best
      BY <1>3, <1>6, <2>1, Zenon
    <3>2. c.best \in Chain[c.best] /\ c.best \in Chain[d.best]
      BY <1>1, <2>1, <3>1, ChainRecursion, ChainBasics, Zenon
    <3> QED
      BY <1>1, <3>2, SharedCanonical DEF BestNumber
  <2>2. CASE d.best # h
    BY <1>1, <2>2, Zenon DEF BlockHash
  <2> QED
    BY <2>1, <2>2, Zenon
<1>7. ASSUME NEW m \in 0..(n.lowest - 1) PROVE BlockHash(d, m) = BlockHash(c, m)
  <2>1. PICK x \in Chain[c.best] : x \in Chain[d.best] /\ Height[x] = n.lowest - 1
    BY <1>3, Zenon
  <2>2. m \in Nat /\ m <= Height[x]
    BY <1>3, <2>1
  <2> QED
    BY <1>1, <2>1, <2>2, SharedCanonical
<1> QED
  BY <1>1, <1>2, <1>3, <1>4, <1>5, <1>6, <1>7, Zenon DEF Imports

-----------------------------------------------------------------------------
(* The tables agree. *)

\* The tables start empty.
LEMMA TablesInit == Init => TablesInv
<1> SUFFICES ASSUME Init PROVE TablesInv
  BY Zenon
<1>1. Tables(db)
  BY Zenon DEF Init, EmptyDb, EmptyMap, Tables
<1>2. client \in ClientType /\ client.best \in client.imported
  BY BlockTreeAssumption, Zenon DEF Init, GenesisClient, ClientType
<1>3. 0 \in Heights /\ Top \in Nat
  BY TopHeight
<1>4. saved \in [kind : {"None", "HistoricalIndexing", "Active"}, target : Nat, at : Heights]
      /\ saved.kind = "None"
  BY <1>3, Zenon DEF Init, NoState
<1>5. stream \in Seq(NotificationType) /\ todo \in Seq(Nat)
  BY DEF Init
<1> QED
  BY <1>1, <1>2, <1>3, <1>4, <1>5, Zenon DEF Init, TablesInv, Locals

\* What TablesInv says of the best block and of the heights.
LEMMA BestHeight ==
    ASSUME TablesInv
    PROVE  /\ client.best \in Hash /\ Best \in Nat /\ Best <= Top /\ Top \in Nat
           /\ Best = BestNumber(client) /\ Best \in Heights /\ Heights = 0..Top
           /\ Best + 1 \in 1..(Top + 1)
BY TopHeight DEF TablesInv, Locals, ClientType, Best, BestNumber

\* An import only adds a notification.
LEMMA ImportTables ==
    ASSUME TablesInv, NEW h \in Hash \ {Genesis}, Import(h)
    PROVE  TablesInv'
<1> DEFINE n == Notification(client, client', h)
<1>1. client \in ClientType /\ client' = ImportBlock(client, h) /\ client' \in ClientType
      /\ client.best \in client.imported
  BY ImportFacts, Zenon DEF TablesInv, Locals, Import
<1>2. client'.best \in client'.imported
  BY <1>1, Zenon DEF ImportBlock
<1>3. n \in NotificationType
  <2>1. Notifies(n, client, client', h)
    BY <1>1, NotificationFacts, Zenon
  <2> QED
    BY <2>1, Zenon DEF Notifies
<1>4. stream' \in Seq(NotificationType)
  <2>1. stream \in Seq(NotificationType) /\ (stream' = Append(stream, n) \/ stream' = stream)
    BY Zenon DEF TablesInv, Locals, Import
  <2> HIDE DEF n
  <2> QED
    BY <1>3, <2>1
<1>5. lapses' \subseteq {"missed", "stale", "rewound", "resumed", "failed"}
  BY Zenon DEF TablesInv, Locals, Import
<1> QED
  BY <1>1, <1>2, <1>4, <1>5, Zenon DEF TablesInv, Locals, Import

\* index_block_range reads the canonical blocks of a batch and commits them.
LEMMA BatchFacts ==
    ASSUME TablesInv, IndexBatch
    PROVE  BatchIndexed \/ (pc' = "Stopped" /\ db' = db /\ range' = range)
<1>1. /\ Best = BestNumber(client) /\ Best \in Nat /\ client.best \in Hash
  BY BestHeight, Zenon
<1>2. /\ range.next \in Nat /\ range.end \in Nat /\ range.next < range.end /\ pc = "Range"
      /\ DOMAIN range = {"next", "end", "processed", "batch"}
  BY BestHeight DEF TablesInv, Locals, IndexBatch
<1> DEFINE stop == Min({range.next + BatchSize, range.end})
           size == stop - range.next
<1>3. stop \in Nat /\ range.next < stop /\ stop <= range.end
  <2>1. BatchSize \in Nat \ {0} /\ range.next + BatchSize \in Nat
    BY <1>2, IndexerAssumption
  <2>2. \E x \in {range.next + BatchSize, range.end} :
            \A y \in {range.next + BatchSize, range.end} : x <= y
    BY <1>2, <2>1
  <2>3. /\ stop \in {range.next + BatchSize, range.end}
        /\ \A y \in {range.next + BatchSize, range.end} : stop <= y
    BY <2>2, Zenon DEF Min
  <2> HIDE DEF stop
  <2> QED
    BY <1>2, <2>1, <2>3
<1>4. CASE ~(stop - 1 <= BestNumber(client))
  BY <1>4, Zenon DEF IndexBatch
<1>5. CASE stop - 1 <= BestNumber(client)
  <2>1. /\ db' = IndexBlocksBatch(db, client, range.next, size) /\ pc' = "Save"
        /\ range' = [range EXCEPT !.next = stop, !.batch = size, !.processed = @ + size]
    BY <1>5, Zenon DEF IndexBatch
  <2>2. size \in Nat /\ range.next + size - 1 = stop - 1
    <3> HIDE DEF stop
    <3> QED
      BY <1>2, <1>3
  <2> HIDE DEF stop, size
  <2>3. DOMAIN range' = {"next", "end", "processed", "batch"} /\ range'.next = stop /\ range'.end = range.end
    BY <1>2, <2>1, Zenon
  <2>4. /\ Tables(db')
        /\ DOMAIN db'.blocks = Indexed \cup range.next..(stop - 1)
        /\ \A m \in DOMAIN db'.blocks :
               db'.blocks[m] = IF m \in range.next..(stop - 1) THEN BlockHash(client, m) ELSE db.blocks[m]
    <3>1. Tables(db)
      BY Zenon DEF TablesInv
    <3>2. range.next + size - 1 <= BestNumber(client)
      BY <1>5, <2>2
    <3> QED
      BY <1>1, <1>2, <2>1, <2>2, <3>1, <3>2, BatchKeepsTables DEF Indexed
  <2> QED
    BY <1>1, <1>2, <1>3, <1>5, <2>1, <2>3, <2>4 DEF BatchIndexed
<1> QED
  BY <1>4, <1>5, Zenon

\* A batch keeps the tables in order.
LEMMA BatchTables ==
    ASSUME TablesInv, IndexBatch
    PROVE  TablesInv'
<1>1. CASE BatchIndexed
  BY <1>1, Zenon DEF BatchIndexed, TablesInv, Locals, IndexBatch
<1>2. CASE pc' = "Stopped" /\ db' = db /\ range' = range
  BY <1>2, Zenon DEF TablesInv, Locals, IndexBatch
<1> QED
  BY <1>1, <1>2, BatchFacts

\* index_block commits the canonical block at a height.
LEMMA RowFacts ==
    ASSUME TablesInv, NEW n \in Nat, n <= BestNumber(client),
           db' = IndexBlock(db, n, BlockHash(client, n))
    PROVE  RowAdded(n)
<1>1. Best = BestNumber(client) /\ client.best \in Hash
  BY BestHeight, Zenon
<1>2. BlockHash(client, n) \in Hash /\ n \in Heights
  BY <1>1, CanonicalHash, Zenon
<1>3. Tables(db)
  BY Zenon DEF TablesInv
<1>4. /\ Tables(db')
      /\ db'.blocks = [k \in Indexed \cup {n} |-> IF k = n THEN BlockHash(client, n) ELSE db.blocks[k]]
  BY <1>2, <1>3, IndexKeepsTables DEF Indexed
<1>5. /\ DOMAIN db'.blocks = Indexed \cup {n}
      /\ \A m \in DOMAIN db'.blocks :
             db'.blocks[m] = IF m = n THEN BlockHash(client, n) ELSE db.blocks[m]
  BY <1>4, Zenon
<1> QED
  BY <1>1, <1>2, <1>4, <1>5 DEF RowAdded

\* A block of a notification is indexed.
LEMMA ImportedTables ==
    ASSUME TablesInv, OnImported
    PROVE  TablesInv'
<1>1. /\ stream \in Seq(NotificationType) /\ stream # <<>> /\ stream' = Tail(stream)
  BY Zenon DEF TablesInv, Locals, OnImported
<1>2. stream' \in Seq(NotificationType) /\ Head(stream) \in NotificationType
  BY <1>1, TailFacts
<1> DEFINE n == Head(stream).number
<1>3. n \in Nat
  BY <1>2, TopHeight DEF NotificationType
<1>4. CASE n <= BestNumber(client)
  <2>1. RowAdded(n)
    BY <1>3, <1>4, RowFacts, Zenon DEF OnImported
  <2>2. last' = n /\ pc' = "SaveLive"
    BY <1>4, Zenon DEF OnImported
  <2> QED
    BY <1>2, <2>1, <2>2, Zenon DEF RowAdded, TablesInv, Locals, OnImported
<1>5. CASE ~(n <= BestNumber(client))
  BY <1>2, <1>5 DEF TablesInv, Locals, OnImported
<1> QED
  BY <1>4, <1>5

\* Retracted blocks are reverted.
LEMMA ReorgTables ==
    ASSUME TablesInv, OnReorg
    PROVE  /\ TablesInv'
           /\ DOMAIN db'.blocks = {m \in Indexed : m <= Head(stream).lowest - 1}
           /\ \A m \in DOMAIN db'.blocks : db'.blocks[m] = db.blocks[m]
<1>1. /\ stream \in Seq(NotificationType) /\ stream # <<>> /\ stream' = Tail(stream)
  BY DEF TablesInv, Locals, OnReorg
<1>2. stream' \in Seq(NotificationType) /\ Head(stream) \in NotificationType
  BY <1>1, TailFacts
<1> DEFINE n == Head(stream).lowest - 1
<1>3. n \in Nat /\ n \in Heights /\ Head(stream).enacted \in Seq(Nat)
  BY <1>2, TopHeight DEF NotificationType
<1>4. db' = RevertToHeight(db, n) /\ Tables(db)
  BY Zenon DEF OnReorg, TablesInv
<1> HIDE DEF n
<1>5. Tables(db') /\ db'.blocks = [k \in {j \in DOMAIN db.blocks : j <= n} |-> db.blocks[k]]
  BY <1>3, <1>4, TopHeight, RevertKeepsTables
<1>6. DOMAIN db'.blocks = {m \in Indexed : m <= n} /\ \A m \in DOMAIN db'.blocks : db'.blocks[m] = db.blocks[m]
  BY <1>5, Zenon DEF Indexed
<1>7. TablesInv'
  BY <1>2, <1>3, <1>5 DEF n, TablesInv, Locals, OnReorg
<1> QED
  BY <1>6, <1>7, Zenon DEF n

\* A block of the new branch is indexed.
LEMMA EnactedTables ==
    ASSUME TablesInv, IndexEnacted
    PROVE  TablesInv'
<1>1. todo \in Seq(Nat) /\ todo # <<>> /\ todo' = Tail(todo)
  BY Zenon DEF TablesInv, Locals, IndexEnacted
<1>2. todo' \in Seq(Nat) /\ Head(todo) \in Nat
  BY <1>1, TailFacts
<1>3. CASE Head(todo) <= BestNumber(client)
  <2>1. RowAdded(Head(todo))
    BY <1>2, <1>3, RowFacts DEF IndexEnacted
  <2>2. last' = Head(todo)
    BY <1>3, Zenon DEF IndexEnacted
  <2> QED
    BY <1>2, <2>1, <2>2, Zenon DEF RowAdded, TablesInv, Locals, IndexEnacted
<1>4. CASE ~(Head(todo) <= BestNumber(client))
  BY <1>2, <1>4 DEF TablesInv, Locals, IndexEnacted
<1> QED
  BY <1>3, <1>4, Zenon

\* Every step keeps the tables in order.
LEMMA TablesStep == TablesInv /\ [Next]_vars => TablesInv'
BY BestHeight, ImportTables, GapTables, BatchTables, ImportedTables, ReorgTables, EnactedTables,
   FailureTables, Zenon DEF Next, Step

\* So they are in order in every state, after any error or restart.
LEMMA TablesAlways == Spec => []TablesInv
BY TablesInit, TablesStep, PTL DEF Spec

\* The tables agree whichever transaction the node stopped at and whatever the
\* indexer missed: a transaction, output or spent mark never refers to a height
\* the blocks table does not have, and a spent mark has its history row
\* (index_blocks_batch, revert_to_height).
THEOREM TablesAgreeTheorem == Spec => []TablesAgree
<1>1. TablesInv => TablesAgree
  <2> SUFFICES ASSUME TablesInv PROVE TablesAgree
    BY Zenon
  <2>1. Tables(db) /\ Locals
    BY Zenon DEF TablesInv
  <2>2. Range(db.blocks) \subseteq Hash /\ Range(db.txs) \subseteq Heights
    BY <2>1 DEF Tables, Range
  <2>3. TypeOK
    BY <2>1, <2>2, Zenon DEF Tables, Locals, TypeOK
  <2> QED
    BY <2>1, <2>3 DEF Tables, TablesAgree
<1> QED
  BY <1>1, TablesAlways, PTL

\* Every step keeps the heights covered.
LEMMA CoveredStep ==
    ASSUME WorkFollowsHeight, TablesInv, CoveredInv, [Next]_vars
    PROVE  CoveredInv'
<1>1. CASE ~Sound'
  BY <1>1, Zenon DEF CoveredInv
<1>2. CASE Sound'
  <2>1. ASSUME NEW h \in Hash \ {Genesis}, Import(h) PROVE CoveredInv'
    <3>1. PICK n : n = Notification(client, client', h)
      BY Zenon
    <3>2. /\ client \in ClientType /\ client.best \in client.imported
          /\ client' = ImportBlock(client, h) /\ h \notin client.imported
      BY <2>1, Zenon DEF Import, TablesInv, Locals
    <3>3. Notifies(n, client, client', h)
      BY <3>1, <3>2, NotificationFacts, Zenon
    <3>4. Imports(n, client, client', h)
      BY <3>1, <3>2, ImportCanonical, Zenon
    <3>5. CASE pc \in Following
      BY <1>2, <2>1, <3>1, <3>3, <3>4, <3>5, FollowedImportCovered, Zenon
    <3>6. CASE pc \notin Following
      BY <1>2, <2>1, <3>1, <3>3, <3>4, <3>6, QuietImportCovered, Zenon
    <3> QED
      BY <3>5, <3>6, Zenon
  <2>2. ASSUME Step PROVE CoveredInv'
    <3>1. RowFollows
      BY RowFacts, Zenon DEF RowFollows
    <3>2. CASE OnImported \/ IndexEnacted
      BY <1>2, <3>1, <3>2, ImportedCovered, EnactedCovered, Zenon
    <3>3. CASE OnReorg
      <4>1. RowsReverted
        BY <3>3, ReorgTables, Zenon DEF RowsReverted
      <4> QED
        BY <1>2, <3>3, <4>1, ReorgCovered, Zenon
    <3>4. CASE IndexBatch
      BY <1>2, <3>4, BatchFacts, BatchCovered, Zenon
    <3> QED
      BY <1>2, <2>2, <3>2, <3>3, <3>4, GapCovered, ProgressCovered, CaughtUpCovered,
         SaveLiveCovered, Zenon DEF Step
  <2>3. CASE UNCHANGED vars
    <3>1. /\ Indexed' = Indexed /\ Best' = Best /\ SavedTo' = SavedTo /\ ToEnact' = ToEnact /\ Sound' = Sound
          /\ UNCHANGED <<client, db, pc, before, range, stream, todo, last>>
      BY <2>3, Zenon DEF vars, Indexed, Best, BestNumber, SavedTo, ToEnact, Sound
    <3>2. BlocksInv /\ CatchUpInv /\ StreamInv /\ FollowInv
      BY <1>2, <3>1 DEF CoveredInv
    <3>3. BlocksInv' /\ CatchUpInv' /\ StreamInv'
      BY <3>1, <3>2 DEF BlocksInv, CatchUpInv, StreamInv, BlockHash
    <3>4. FollowInv'
      BY <3>1, <3>2 DEF FollowInv, Bound, Reached
    <3> QED
      BY <3>3, <3>4 DEF CoveredInv
  <2> QED
    BY <1>2, <2>1, <2>2, <2>3, ErrorCovered, CrashCovered, Zenon DEF Next
<1> QED
  BY <1>1, <1>2, Zenon

\* When more work means more height, and whatever the batches, restarts,
\* reorganisations and side branches: once the indexer follows the chain with no
\* notification left, and no lapse but a rewound side block occurred, the blocks
\* table is exactly the canonical chain (run, handle_index_gap, index_block_range).
THEOREM BlocksCoveredTheorem ==
    ASSUME WorkFollowsHeight
    PROVE  Spec => []BlocksCovered
<1>1. Init => TablesInv /\ CoveredInv
  BY TablesInit, CoveredInit, Zenon
<1>2. TablesInv /\ CoveredInv /\ [Next]_vars => (TablesInv /\ CoveredInv)'
  BY TablesStep, CoveredStep, Zenon
<1>3. TablesInv /\ CoveredInv => BlocksCovered
  <2> SUFFICES ASSUME TablesInv, CoveredInv, Sound, pc = "Live", stream = <<>>
               PROVE  BlocksExact(Best)
    BY Zenon DEF BlocksCovered, UpToDate, Sound, Best
  <2>1. BlocksInv /\ FollowInv /\ todo = <<>>
    BY Zenon DEF CoveredInv, BlocksInv
  <2>2. DOMAIN stream = {} /\ ToEnact = {} /\ Len(stream) = 0 /\ Best \in Nat /\ Indexed \subseteq Nat
    BY <2>1, FollowTypes DEF ToEnact
  <2>3. ASSUME NEW m \in 1..Best PROVE m \in Indexed
    <3>1. Bound(1) = Best + 1
      BY <2>2 DEF Bound
    <3>2. m \in Indexed \cup ToEnact \/ Reached(1, 1, m)
      BY <2>1, <2>2, <3>1 DEF FollowInv, Following
    <3>3. ~Reached(1, 1, m)
      BY DEF Reached
    <3> QED
      BY <2>2, <3>2, <3>3
  <2>4. ASSUME NEW m \in Indexed \ {0} PROVE m \in 1..Best /\ db.blocks[m] = BlockHash(client, m)
    BY <2>1, <2>2 DEF BlocksInv
  <2> QED
    BY <2>2, <2>3, <2>4 DEF BlocksExact, Indexed
<1> QED
  BY <1>1, <1>2, <1>3, PTL DEF Spec
=============================================================================
