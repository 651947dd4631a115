--------------------------- MODULE BlockTreeProofs ---------------------------
(***************************************************************************)
(* Facts about the tree of blocks: what the chain of ancestors of a block   *)
(* is, that it has exactly one block of every height up to the block's own, *)
(* and which blocks two chains share.  Chain is a recursive function, so    *)
(* its equation is proved first, from a function that is not recursive; the *)
(* facts that need an induction go by the lowest block that breaks them.    *)
(***************************************************************************)
EXTENDS BlockTree, Sequences, WellFoundedInduction, TLAPS

\* Every nonempty set of naturals has a least element: the induction on heights
\* that the facts about ancestors need.
LEMMA LeastNatural ==
    ASSUME NEW T \in SUBSET Nat, T # {}
    PROVE  \E n \in T : \A m \in T : n <= m
<1> DEFINE R == {p \in Nat \X Nat : p[1] < p[2]}
<1>1. IsWellFoundedOn(R, Nat)
  BY NatLessThanWellFounded, Zenon DEF OpToRel
<1>2. \E n \in T : \A m \in T : ~ (<<m, n>> \in R)
  <2> HIDE DEF R
  <2> QED
    BY <1>1, WFMin
<1>3. ASSUME NEW n \in T, NEW m \in T, ~ (<<m, n>> \in R)
      PROVE  n <= m
  <2>1. m \in Nat /\ n \in Nat /\ ~ (m < n)
    BY <1>3
  <2> QED
    BY <2>1
<1> QED
  <2> HIDE DEF R
  <2> QED
    BY <1>2, <1>3

\* A set of blocks has a lowest one.
LEMMA LowestBlock ==
    ASSUME NEW T \in SUBSET Hash, T # {}
    PROVE  \E h \in T : \A x \in T : Height[h] <= Height[x]
<1> DEFINE N == {Height[x] : x \in T}
<1>1. N \in SUBSET Nat /\ N # {}
  BY BlockTreeAssumption
<1>2. PICK n \in N : \A m \in N : n <= m
  BY <1>1, LeastNatural
<1> QED
  BY <1>2

-----------------------------------------------------------------------------
(* The equation of Chain.                                                   *)

\* The sets of blocks that contain the parent of each of their blocks.
Closed(S) == \A x \in S \ {Genesis} : Parent[x] \in S

Ancestors(h) == {b \in Hash : \A S \in SUBSET Hash : h \in S /\ Closed(S) => b \in S}

\* The ancestors of a block are closed under taking parents.
LEMMA AncestorsClosed ==
    ASSUME NEW h \in Hash
    PROVE  Closed(Ancestors(h)) /\ h \in Ancestors(h) /\ Ancestors(h) \in SUBSET Hash
BY BlockTreeAssumption DEF Closed, Ancestors

\* What the recursion of Chain asks for has a solution.
LEMMA AncestorsRecursion ==
    ASSUME NEW h \in Hash
    PROVE  Ancestors(h) = IF h = Genesis THEN {h} ELSE Ancestors(Parent[h]) \cup {h}
<1>1. CASE h = Genesis
  <2>1. {h} \in SUBSET Hash /\ Closed({h})
    BY <1>1 DEF Closed
  <2>2. Ancestors(h) \subseteq {h}
    BY <2>1 DEF Ancestors
  <2> QED
    BY <1>1, <2>2, AncestorsClosed
<1>2. CASE h # Genesis
  <2> DEFINE p == Parent[h]
  <2>1. p \in Hash
    BY <1>2, BlockTreeAssumption
  <2>2. Closed(Ancestors(p) \cup {h}) /\ Ancestors(p) \cup {h} \in SUBSET Hash
    BY <2>1, AncestorsClosed DEF Closed
  <2>3. Ancestors(h) \subseteq Ancestors(p) \cup {h}
    BY <2>2 DEF Ancestors
  <2>4. Ancestors(p) \subseteq Ancestors(h)
    BY <1>2, <2>1 DEF Ancestors, Closed
  <2> QED
    BY <1>2, <2>3, <2>4, AncestorsClosed
<1> QED
  BY <1>1, <1>2

\* The chain of a block is that of its parent and the block.
LEMMA ChainRecursion ==
    ASSUME NEW h \in Hash
    PROVE  Chain[h] = IF h = Genesis THEN {h} ELSE Chain[Parent[h]] \cup {h}
<1> DEFINE F == [x \in Hash |-> Ancestors(x)]
           G(f) == [x \in Hash |-> IF x = Genesis THEN {x} ELSE f[Parent[x]] \cup {x}]
<1>1. F = G(F)
  BY AncestorsRecursion, BlockTreeAssumption
<1>2. Chain = CHOOSE f : f = G(f)
  BY DEF Chain
<1>3. Chain = G(Chain)
  <2> HIDE DEF F, G
  <2> QED
    BY <1>1, <1>2
<1> QED
  BY <1>3

-----------------------------------------------------------------------------
(* Ancestors and their heights.                                             *)

\* The parent of a block other than the genesis is a block, one lower.
LEMMA ParentLower ==
    ASSUME NEW h \in Hash, h # Genesis
    PROVE  Parent[h] \in Hash /\ Height[h] = Height[Parent[h]] + 1 /\ Height[Parent[h]] \in Nat
BY BlockTreeAssumption

\* Induction along the chain: a set of blocks that contains the genesis, and
\* every block whose parent it contains, contains every block.
LEMMA BlockInduction ==
    ASSUME NEW P \in SUBSET Hash, Genesis \in P,
           \A h \in Hash \ {Genesis} : Parent[h] \in P => h \in P
    PROVE  P = Hash
<1>1. SUFFICES ASSUME Hash \ P # {} PROVE FALSE
  OBVIOUS
<1>2. PICK h \in Hash \ P : \A x \in Hash \ P : Height[h] <= Height[x]
  BY <1>1, LowestBlock
<1>3. h # Genesis
  OBVIOUS
<1>4. Parent[h] \in Hash \ P
  BY <1>3, ParentLower
<1> QED
  BY <1>2, <1>3, <1>4, ParentLower

\* The chain of a block consists of blocks, the block itself and the genesis
\* among them, none of them higher than the block.
LEMMA ChainBasics ==
    ASSUME NEW h \in Hash
    PROVE  /\ Chain[h] \in SUBSET Hash /\ h \in Chain[h] /\ Genesis \in Chain[h]
           /\ \A b \in Chain[h] : b = h \/ Height[b] < Height[h]
<1> DEFINE Q(x) == /\ Chain[x] \in SUBSET Hash /\ x \in Chain[x] /\ Genesis \in Chain[x]
                   /\ \A b \in Chain[x] : b = x \/ Height[b] < Height[x]
           P == {x \in Hash : Q(x)}
<1>1. Genesis \in P
  BY ChainRecursion, BlockTreeAssumption
<1>2. ASSUME NEW x \in Hash \ {Genesis}, Parent[x] \in P
      PROVE  x \in P
  <2>1. Chain[x] = Chain[Parent[x]] \cup {x}
    BY ChainRecursion
  <2>2. /\ Chain[Parent[x]] \in SUBSET Hash /\ Genesis \in Chain[Parent[x]]
        /\ \A b \in Chain[Parent[x]] : b = Parent[x] \/ Height[b] < Height[Parent[x]]
    BY <1>2
  <2>3. \A b \in Chain[x] : b = x \/ Height[b] < Height[x]
    BY <2>1, <2>2, ParentLower, BlockTreeAssumption
  <2> QED
    BY <2>1, <2>2, <2>3
<1>3. P = Hash
  <2> HIDE DEF Q
  <2> QED
    BY <1>1, <1>2, BlockInduction
<1> QED
  BY <1>3

\* The chain of an ancestor is part of the chain.
LEMMA ChainTransitive ==
    ASSUME NEW h \in Hash, NEW b \in Chain[h]
    PROVE  Chain[b] \subseteq Chain[h]
<1> DEFINE P == {x \in Hash : \A a \in Chain[x] : Chain[a] \subseteq Chain[x]}
<1>1. Genesis \in P
  BY ChainRecursion, BlockTreeAssumption
<1>2. ASSUME NEW x \in Hash \ {Genesis}, Parent[x] \in P
      PROVE  x \in P
  <2>1. Chain[x] = Chain[Parent[x]] \cup {x}
    BY ChainRecursion
  <2>2. \A a \in Chain[Parent[x]] : Chain[a] \subseteq Chain[Parent[x]]
    BY <1>2
  <2> QED
    BY <2>1, <2>2
<1>3. P = Hash
  <2> HIDE DEF P
  <2>1. P \in SUBSET Hash
    BY DEF P
  <2> QED
    BY <1>1, <1>2, <2>1, BlockInduction
<1> QED
  BY <1>3

\* A chain has at most one block of a height.
LEMMA ChainUnique ==
    ASSUME NEW h \in Hash, NEW a \in Chain[h], NEW b \in Chain[h], Height[a] = Height[b]
    PROVE  a = b
<1> DEFINE P == {x \in Hash : \A c, d \in Chain[x] : Height[c] = Height[d] => c = d}
<1>1. Genesis \in P
  BY ChainRecursion, BlockTreeAssumption
<1>2. ASSUME NEW x \in Hash \ {Genesis}, Parent[x] \in P
      PROVE  x \in P
  <2>1. Chain[x] = Chain[Parent[x]] \cup {x} /\ Parent[x] \in Hash
    BY ChainRecursion, ParentLower
  <2>2. \A c \in Chain[Parent[x]] : Height[c] < Height[x]
    BY <2>1, ChainBasics, ParentLower, BlockTreeAssumption
  <2>3. \A c \in Chain[Parent[x]] : Height[c] # Height[x]
    BY <2>1, <2>2, ChainBasics, BlockTreeAssumption
  <2> QED
    BY <1>2, <2>1, <2>3
<1>3. P = Hash
  <2> HIDE DEF P
  <2>1. P \in SUBSET Hash
    BY DEF P
  <2> QED
    BY <1>1, <1>2, <2>1, BlockInduction
<1> QED
  BY <1>3

\* A chain has a block of every height up to its own.
LEMMA ChainComplete ==
    ASSUME NEW h \in Hash, NEW n \in Nat, n <= Height[h]
    PROVE  \E b \in Chain[h] : Height[b] = n
<1> DEFINE P == {x \in Hash : \A k \in 0..Height[x] : \E b \in Chain[x] : Height[b] = k}
<1>1. Genesis \in P
  <2>1. Chain[Genesis] = {Genesis} /\ Genesis \in Hash /\ Height[Genesis] = 0
    BY ChainRecursion, BlockTreeAssumption
  <2>2. \A k \in 0..0 : \E b \in {Genesis} : Height[b] = k
    BY <2>1
  <2> QED
    BY <2>1, <2>2
<1>2. ASSUME NEW x \in Hash \ {Genesis}, Parent[x] \in P
      PROVE  x \in P
  <2>1. Chain[x] = Chain[Parent[x]] \cup {x}
    BY ChainRecursion
  <2>2. ASSUME NEW k \in 0..Height[x] PROVE \E b \in Chain[x] : Height[b] = k
    <3>1. k = Height[x] \/ k \in 0..Height[Parent[x]]
      BY ParentLower
    <3> QED
      BY <1>2, <2>1, <3>1
  <2> QED
    BY <2>2
<1>3. P = Hash
  <2> HIDE DEF P
  <2>1. P \in SUBSET Hash
    BY DEF P
  <2> QED
    BY <1>1, <1>2, <2>1, BlockInduction
<1> QED
  BY <1>3, BlockTreeAssumption

\* Of two blocks of a chain, the lower one is an ancestor of the higher one.
LEMMA ChainOrdered ==
    ASSUME NEW h \in Hash, NEW a \in Chain[h], NEW b \in Chain[h], Height[a] <= Height[b]
    PROVE  a \in Chain[b]
<1>1. a \in Hash /\ b \in Hash /\ Chain[b] \subseteq Chain[h]
  BY ChainBasics, ChainTransitive
<1>2. PICK c \in Chain[b] : Height[c] = Height[a]
  BY <1>1, ChainComplete, BlockTreeAssumption
<1> QED
  BY <1>1, <1>2, ChainUnique

\* The block the client returns for a height up to the best one's is the block
\* of that height on the best chain.
LEMMA CanonicalBlock ==
    ASSUME NEW c, c.best \in Hash, NEW n \in Nat, n <= Height[c.best]
    PROVE  BlockHash(c, n) \in Chain[c.best] /\ Height[BlockHash(c, n)] = n
BY ChainComplete DEF BlockHash

\* The work of a chain is at least that of its ancestors.
LEMMA ChainWorkGrows ==
    ASSUME NEW h \in Hash, NEW b \in Chain[h]
    PROVE  ChainWork[b] <= ChainWork[h]
<1> DEFINE P == {x \in Hash : \A a \in Chain[x] : ChainWork[a] <= ChainWork[x]}
<1>1. Genesis \in P
  <2>1. Chain[Genesis] = {Genesis} /\ Genesis \in Hash /\ ChainWork[Genesis] \in Nat
    BY ChainRecursion, BlockTreeAssumption, WorkAssumption
  <2> QED
    BY <2>1
<1>2. ASSUME NEW x \in Hash \ {Genesis}, Parent[x] \in P
      PROVE  x \in P
  <2>1. Chain[x] = Chain[Parent[x]] \cup {x} /\ Parent[x] \in Hash
    BY ChainRecursion, ParentLower
  <2>2. ChainWork[Parent[x]] < ChainWork[x]
    BY WorkAssumption
  <2> QED
    BY <1>2, <2>1, <2>2, ChainBasics, WorkAssumption
<1>3. P = Hash
  <2> HIDE DEF P
  <2>1. P \in SUBSET Hash
    BY DEF P
  <2> QED
    BY <1>1, <1>2, <2>1, BlockInduction
<1> QED
  BY <1>3

Bounded(g, n) == \E b \in Nat : \A i \in 1..n : g[i] <= b

\* Finitely many naturals are bounded.
LEMMA FinitelyManyBounded ==
    ASSUME NEW n \in Nat, NEW g, \A i \in 1..n : g[i] \in Nat
    PROVE  Bounded(g, n)
<1> DEFINE T == {k \in 0..n : ~Bounded(g, k)}
<1> SUFFICES ASSUME n \in T PROVE FALSE
  OBVIOUS
<1>1. PICK k \in T : \A m \in T : k <= m
  <2>1. T \in SUBSET Nat /\ T # {}
    OBVIOUS
  <2> HIDE DEF T
  <2> QED
    BY <2>1, LeastNatural
<1>2. Bounded(g, 0)
  BY DEF Bounded
<1>3. k \in 1..n /\ ~Bounded(g, k)
  BY <1>2
<1>4. Bounded(g, k - 1)
  BY <1>1, <1>3
<1>5. PICK b \in Nat : \A i \in 1..(k - 1) : g[i] <= b
  BY <1>4 DEF Bounded
<1>6. b + g[k] \in Nat /\ \A i \in 1..k : g[i] <= b + g[k]
  <2>1. g[k] \in Nat /\ \A i \in 1..k : g[i] \in Nat /\ (i = k \/ i \in 1..(k - 1))
    BY <1>3
  <2> HIDE DEF T
  <2> QED
    BY <1>5, <2>1
<1> QED
  BY <1>3, <1>6 DEF Bounded

\* The heights of the blocks are bounded: a tree has finitely many blocks.
LEMMA HeightBound ==
    \E b \in Nat : \A h \in Hash : Height[h] <= b
<1>1. PICK s \in Seq(Hash) : \A h \in Hash : \E i \in 1..Len(s) : s[i] = h
  BY BlockTreeAssumption DEF IsFiniteSet
<1>2. PICK n \in Nat : n = Len(s)
  BY <1>1
<1> DEFINE g == [i \in 1..n |-> Height[s[i]]]
<1>3. \A i \in 1..n : s[i] \in Hash
  BY <1>2
<1>4. \A i \in 1..n : g[i] \in Nat
  BY <1>3, BlockTreeAssumption
<1>5. PICK b \in Nat : \A i \in 1..n : g[i] <= b
  <2> HIDE DEF g
  <2> QED
    BY <1>4, FinitelyManyBounded DEF Bounded
<1> QED
  BY <1>1, <1>2, <1>5

\* Two clients whose best chains share a block have the same canonical blocks up
\* to its height.
LEMMA SharedCanonical ==
    ASSUME NEW c, NEW d, c.best \in Hash, d.best \in Hash,
           NEW x \in Chain[c.best], x \in Chain[d.best],
           NEW n \in Nat, n <= Height[x]
    PROVE  BlockHash(c, n) = BlockHash(d, n)
<1>1. x \in Hash /\ Height[x] \in Nat /\ Height[c.best] \in Nat /\ Height[d.best] \in Nat
      /\ Height[x] <= Height[c.best] /\ Height[x] <= Height[d.best]
  BY ChainBasics, BlockTreeAssumption
<1>2. BlockHash(c, n) \in Chain[c.best] /\ Height[BlockHash(c, n)] = n
  BY <1>1, CanonicalBlock
<1>3. BlockHash(d, n) \in Chain[d.best] /\ Height[BlockHash(d, n)] = n
  BY <1>1, CanonicalBlock
<1>4. BlockHash(c, n) \in Chain[x]
  BY <1>1, <1>2, ChainOrdered
<1>5. BlockHash(c, n) \in Chain[d.best]
  BY <1>4, ChainTransitive
<1> QED
  BY <1>2, <1>3, <1>5, ChainUnique

-----------------------------------------------------------------------------
\* Of two blocks the one with more work is not the lower one: the case while the
\* difficulty of all the branches is the same.  The best block is chosen by work,
\* and the finalizer and the indexer compare heights, so some of what is said of
\* them rests on it.
WorkFollowsHeight ==
    \A a, b \in Hash : ChainWork[a] <= ChainWork[b] => Height[a] <= Height[b]
=============================================================================
