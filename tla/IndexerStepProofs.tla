--------------------------- MODULE IndexerStepProofs --------------------------
(***************************************************************************)
(* The invariants of the indexer, and its steps that need nothing of the    *)
(* block tree.  The steps keep the invariant of the blocks table: every     *)
(* height up to the best one is indexed or will be.  What an import does to  *)
(* the chain and an operation to that table are hypotheses here (Notifies,  *)
(* Imports, BatchIndexed, RowAdded, RowsReverted): IndexerProofs proves them *)
(* and puts the steps together.                                             *)
(***************************************************************************)
EXTENDS Indexer, TLAPS

-----------------------------------------------------------------------------
(* The inductive invariant. *)

Top == Max({Height[h] : h \in Hash})

SpentType == {Unspent} \cup [tx : Tx, height : Heights]

\* The tables have their types, and refer to heights the blocks table has.
Tables(d) ==
    /\ DOMAIN d = {"blocks", "txs", "outs", "history"}
    /\ DOMAIN d.blocks \subseteq Heights /\ \A n \in DOMAIN d.blocks : d.blocks[n] \in Hash
    /\ DOMAIN d.txs \subseteq Tx /\ \A t \in DOMAIN d.txs : d.txs[t] \in DOMAIN d.blocks
    /\ DOMAIN d.history \subseteq Tx \X Heights
    /\ DOMAIN d.outs \subseteq Output
    /\ \A o \in DOMAIN d.outs :
           /\ d.outs[o] \in [height : Heights, spent : SpentType]
           /\ d.outs[o].height \in DOMAIN d.blocks
           /\ d.outs[o].spent # Unspent =>
                  /\ d.outs[o].spent.height \in DOMAIN d.blocks
                  /\ <<d.outs[o].spent.tx, d.outs[o].spent.height>> \in DOMAIN d.history

NotificationType ==
    [number : Heights, reorg : BOOLEAN, lowest : 1..(Top + 1), enacted : Seq(Nat)]

\* The tree has a highest block; the local variables and the saved state.
Locals ==
    /\ Top \in Nat
    /\ client \in ClientType /\ client.best \in client.imported
    /\ saved \in [kind : {"None", "HistoricalIndexing", "Active"}, target : Nat, at : Heights]
    /\ saved.kind = "HistoricalIndexing" => saved.target <= Top + 1 /\ saved.at < saved.target
    /\ pc \in {"Down", "Loop", "Gap", "Range", "Save", "Check", "Subscribe", "Live",
               "Enacted", "SaveLive", "Stopped"}
    /\ last \in Heights /\ before \in Heights
    /\ DOMAIN range = {"next", "end", "processed", "batch"}
    /\ pc \in {"Range", "Save"} =>
           range.next \in Nat /\ range.end \in 1..(Top + 1) /\ range.next <= range.end
    /\ stream \in Seq(NotificationType)
    /\ todo \in Seq(Nat)
    /\ lapses \subseteq {"missed", "stale", "rewound", "resumed", "failed"}

TablesInv == Tables(db) /\ Locals

Best == BestNumber(client)

Indexed == DOMAIN db.blocks

ToEnact == {todo[p] : p \in DOMAIN todo}

\* The heights that handling a notification indexes, and the first of them.
Covers(n, m) == IF n.reorg THEN m \in n.lowest..n.number ELSE m = n.number
First(n) == IF n.reorg THEN n.lowest ELSE n.number

\* One of the notifications from i on and before j indexes height m.
Reached(i, j, m) == \E l \in i..(j - 1) : Covers(stream[l], m)

\* The heights below this are dealt with once the notifications before j are.
Bound(j) == IF j = Len(stream) + 1 THEN Best + 1 ELSE First(stream[j])

SavedTo == IF saved.kind = "HistoricalIndexing" THEN saved.at - 1 ELSE saved.at

\* The blocks table is a prefix of a chain, canonical except where a
\* reorganisation is still to be handled, and has what the saved state says.
BlocksInv ==
    /\ \A m \in Indexed \ {0} : m <= Best /\ 1..m \subseteq Indexed
    /\ \A m \in Indexed \ {0} :
           \/ db.blocks[m] = BlockHash(client, m)
           \/ \E i \in DOMAIN stream : stream[i].reorg /\ stream[i].lowest <= m
    /\ 1..SavedTo \subseteq Indexed \cup ToEnact
    /\ pc # "Enacted" => todo = <<>>

\* Catching up.
CatchUpInv ==
    /\ pc \notin Following => stream = <<>>
    /\ pc \in {"Range", "Save"} => 1..(range.next - 1) \subseteq Indexed /\ range.end > before
    /\ pc \in {"Gap", "Range", "Save", "Check"} => before <= Best
    /\ pc = "Check" => 1..before \subseteq Indexed
    /\ pc = "Subscribe" => 1..Best \subseteq Indexed

\* Notifications: what each one indexes, and in what order.
StreamInv ==
    /\ \A j \in DOMAIN stream : stream[j].number <= Best
    /\ \A j \in DOMAIN stream :
           stream[j].reorg =>
               /\ stream[j].enacted =
                      [i \in 1..(stream[j].number - stream[j].lowest + 1) |-> stream[j].lowest + i - 1]
               /\ stream[j].lowest <= stream[j].number
               /\ \A i \in 1..(j - 1) : stream[i].number <= stream[j].number
               /\ last <= stream[j].number /\ SavedTo <= stream[j].number
               /\ \A p \in DOMAIN todo : todo[p] <= stream[j].number
    /\ \A p \in DOMAIN todo :
           /\ todo[p] \in 1..Best
           /\ \A m \in 1..(todo[p] - 1) : m \in Indexed \/ \E q \in 1..(p - 1) : todo[q] = m

\* Following the chain: every height is indexed or will be by a notification,
\* and a reorganisation indexes again all that it reverts.
FollowInv ==
    pc \in Following =>
        /\ 1..last \subseteq Indexed
        /\ \A j \in 1..(Len(stream) + 1) : \A m \in 1..(Bound(j) - 1) :
               m \in Indexed \cup ToEnact \/ Reached(1, j, m)
        /\ \A i \in DOMAIN stream : stream[i].reorg =>
               \A j \in (i + 1)..(Len(stream) + 1) : \A m \in stream[i].lowest..(Bound(j) - 1) :
                   Reached(i, j, m)

Sound == lapses \subseteq {"rewound"}

CoveredInv == Sound => BlocksInv /\ CatchUpInv /\ StreamInv /\ FollowInv

-----------------------------------------------------------------------------
(* What a step does to the tables, and an import to the chain. *)

\* A batch: the canonical blocks from next up to the new next, or the end of
\* indexing when the client does not have them.
BatchIndexed ==
    /\ pc = "Range" /\ pc' = "Save"
    /\ range.next \in Nat /\ range'.next \in Nat /\ range'.end = range.end
    /\ range.next < range'.next /\ range'.next <= range.end /\ range'.next - 1 <= Best
    /\ DOMAIN range' = {"next", "end", "processed", "batch"}
    /\ Tables(db')
    /\ DOMAIN db'.blocks = Indexed \cup range.next..(range'.next - 1)
    /\ \A m \in DOMAIN db'.blocks :
           db'.blocks[m] = IF m \in range.next..(range'.next - 1) THEN BlockHash(client, m)
                           ELSE db.blocks[m]

\* One block indexed while following the chain.
RowAdded(n) ==
    /\ n \in Heights /\ n <= Best
    /\ Tables(db')
    /\ DOMAIN db'.blocks = Indexed \cup {n}
    /\ \A m \in DOMAIN db'.blocks :
           db'.blocks[m] = IF m = n THEN BlockHash(client, n) ELSE db.blocks[m]

\* Whenever index_block commits a canonical block, it adds its row.
RowFollows ==
    \A n \in Nat :
        n <= BestNumber(client) /\ db' = IndexBlock(db, n, BlockHash(client, n)) => RowAdded(n)

\* revert_to_height keeps the rows below the lowest block of the route.
RowsReverted ==
    /\ DOMAIN db'.blocks = {m \in Indexed : m <= Head(stream).lowest - 1}
    /\ \A m \in DOMAIN db'.blocks : db'.blocks[m] = db.blocks[m]

\* What the notification of the import of h says.  The route of a
\* reorganisation starts above a block both chains have, and ends with h.
Notifies(n, c, d, h) ==
    /\ n \in NotificationType
    /\ n.number = Height[h]
    /\ n.reorg <=> (d.best = h /\ Parent[h] # c.best)
    /\ n.lowest \in Nat /\ n.lowest - 1 <= BestNumber(c)
    /\ \E x \in Chain[c.best] : x \in Chain[d.best] /\ Height[x] = n.lowest - 1
    /\ n.reorg /\ c.best # h =>
           /\ n.lowest <= n.number
           /\ n.enacted = [i \in 1..(n.number - n.lowest + 1) |-> n.lowest + i - 1]

\* The client after the import of h, when more work means more height: the
\* best number is not lower, and the canonical chain has changed only above the
\* fork of a reorganisation.
Imports(n, c, d, h) ==
    /\ BestNumber(c) \in Nat /\ BestNumber(d) \in Nat /\ BestNumber(c) <= BestNumber(d)
    /\ Height[h] <= BestNumber(d)
    /\ d.best = h \/ d.best = c.best
    /\ d.best # h => BestNumber(d) = BestNumber(c)
    /\ d.best = h => Height[h] = BestNumber(d)
    /\ d.best = h /\ ~n.reorg => Height[h] = BestNumber(c) + 1
    /\ n.reorg => d.best = h
    /\ ~n.reorg => \A m \in 0..BestNumber(c) : BlockHash(d, m) = BlockHash(c, m)
    /\ n.reorg => \A m \in 0..(n.lowest - 1) : BlockHash(d, m) = BlockHash(c, m)

-----------------------------------------------------------------------------
(* Types. *)

\* Taking the first element of a sequence.
LEMMA TailFacts ==
    ASSUME NEW S, NEW s \in Seq(S), s # <<>>
    PROVE  /\ Len(s) \in Nat \ {0} /\ DOMAIN s = 1..Len(s)
           /\ Head(s) = s[1] /\ s[1] \in S
           /\ Tail(s) \in Seq(S) /\ Len(Tail(s)) = Len(s) - 1
           /\ DOMAIN Tail(s) = 1..(Len(s) - 1)
           /\ \A i \in 1..(Len(s) - 1) : Tail(s)[i] = s[i + 1]
           /\ Tail(s) # s
OBVIOUS

\* A natural number is in the interval up to one that is no smaller.
LEMMA UpTo == \A a, b \in Nat : a <= b => a \in 0..b
OBVIOUS

\* What TablesInv says of the best block and of the heights.
LEMMA BestFacts ==
    ASSUME TablesInv
    PROVE  /\ client.best \in Hash /\ Best \in Nat /\ Top \in Nat
           /\ Best = BestNumber(client) /\ Heights = 0..Top
<1>1. client.best \in Hash /\ Top \in Nat /\ Heights = 0..Top
  BY Zenon DEF TablesInv, Locals, ClientType, Heights, Top
<1> QED
  BY <1>1, BlockTreeAssumption, Zenon DEF Best, BestNumber

-----------------------------------------------------------------------------
(* The tables. *)

\* index_block: the rows of a block are added together.
LEMMA IndexKeepsTables ==
    ASSUME NEW d, Tables(d), NEW n \in Heights, NEW h \in Hash
    PROVE  LET e == IndexBlock(d, n, h)
           IN /\ Tables(e)
              /\ e.blocks = [k \in DOMAIN d.blocks \cup {n} |-> IF k = n THEN h ELSE d.blocks[k]]
<1> DEFINE e == IndexBlock(d, n, h)
           txs == TxsOf[h]
           created == UNION {Outputs[t] : t \in txs}
           known == (DOMAIN d.outs \cup created) \cap Addressed
           spender(o) == CHOOSE t \in txs : o \in Inputs[t]
           marked == {o \in known : \E t \in txs : o \in Inputs[t]}
           fresh == [o \in created |-> [height |-> n, spent |-> Unspent]]
           outs == Replace(d.outs, fresh)
<1>1. txs \in SUBSET Tx /\ created \in SUBSET Output
  BY IndexerAssumption, Zenon
<1>2. /\ DOMAIN e = {"blocks", "txs", "outs", "history"}
      /\ e.blocks = Replace(d.blocks, [k \in {n} |-> h])
      /\ e.txs = Replace(d.txs, [t \in txs |-> n])
      /\ e.outs = [o \in DOMAIN outs |->
                      IF o \in marked THEN [outs[o] EXCEPT !.spent = [tx |-> spender(o), height |-> n]]
                      ELSE outs[o]]
      /\ e.history = Replace(d.history, [r \in txs \X {n} |-> Inputs[r[1]] \cap known])
  BY Zenon DEF IndexBlock
<1> HIDE DEF e
<1>3. e.blocks = [k \in DOMAIN d.blocks \cup {n} |-> IF k = n THEN h ELSE d.blocks[k]]
  BY <1>2, Zenon DEF Replace
<1>4. DOMAIN e.blocks = DOMAIN d.blocks \cup {n}
      /\ DOMAIN e.blocks \subseteq Heights /\ \A k \in DOMAIN e.blocks : e.blocks[k] \in Hash
  BY <1>3, Zenon DEF Tables
<1>5. /\ DOMAIN e.txs = DOMAIN d.txs \cup txs
      /\ \A t \in DOMAIN e.txs : e.txs[t] = IF t \in txs THEN n ELSE d.txs[t]
  <2>1. e.txs = [t \in DOMAIN d.txs \cup txs |-> IF t \in txs THEN n ELSE d.txs[t]]
    <3> HIDE DEF txs, outs, marked, spender
    <3>1. \A t \in txs : [u \in txs |-> n][t] = n
      BY Zenon
    <3> QED
      BY <1>2, <3>1, Zenon DEF Replace
  <2> HIDE DEF txs, outs, marked, spender
  <2> QED
    BY <2>1, Zenon
<1>6. DOMAIN e.txs \subseteq Tx /\ \A t \in DOMAIN e.txs : e.txs[t] \in DOMAIN e.blocks
  BY <1>1, <1>4, <1>5, Zenon DEF Tables
<1>7. DOMAIN e.history = DOMAIN d.history \cup (txs \X {n})
  BY <1>2, Zenon DEF Replace
<1>8. DOMAIN e.history \subseteq Tx \X Heights
  BY <1>1, <1>7, Zenon DEF Tables
<1>9. /\ DOMAIN outs = DOMAIN d.outs \cup created
      /\ \A o \in DOMAIN outs : outs[o] = IF o \in created THEN [height |-> n, spent |-> Unspent] ELSE d.outs[o]
  BY Zenon DEF Replace
<1> HIDE DEF outs
<1>10. DOMAIN e.outs = DOMAIN outs /\ DOMAIN e.outs \subseteq Output
  BY <1>1, <1>2, <1>9 DEF Tables
<1>11. ASSUME NEW o \in DOMAIN e.outs
       PROVE  /\ e.outs[o] \in [height : Heights, spent : SpentType]
              /\ e.outs[o].height \in DOMAIN e.blocks
              /\ e.outs[o].spent # Unspent =>
                     /\ e.outs[o].spent.height \in DOMAIN e.blocks
                     /\ <<e.outs[o].spent.tx, e.outs[o].spent.height>> \in DOMAIN e.history
  <2>1. /\ outs[o] \in [height : Heights, spent : SpentType]
        /\ outs[o].height \in DOMAIN e.blocks
        /\ outs[o].spent # Unspent =>
               /\ outs[o].spent.height \in DOMAIN e.blocks
               /\ <<outs[o].spent.tx, outs[o].spent.height>> \in DOMAIN e.history
    <3>1. CASE o \in created
      <4>1. outs[o] = [height |-> n, spent |-> Unspent]
        BY <1>9, <1>10, <3>1, Zenon
      <4> QED
        BY <1>4, <4>1 DEF SpentType
    <3>2. CASE o \notin created
      <4>1. o \in DOMAIN d.outs /\ outs[o] = d.outs[o]
        BY <1>9, <1>10, <3>2
      <4> QED
        BY <1>4, <1>7, <4>1, Zenon DEF Tables
    <3> QED
      BY <3>1, <3>2, Zenon
  <2>2. CASE o \in marked
    <3>1. spender(o) \in txs
      BY <2>2, Zenon
    <3> DEFINE s == [tx |-> spender(o), height |-> n]
    <3>2. s \in SpentType /\ s.tx = spender(o) /\ s.height = n
      BY <1>1, <3>1, Zenon DEF SpentType
    <3> HIDE DEF s, spender, marked
    <3>3. e.outs[o] = [outs[o] EXCEPT !.spent = s]
      BY <1>2, <1>10, <2>2, Zenon DEF s
    <3>4. e.outs[o] \in [height : Heights, spent : SpentType] /\ e.outs[o].height = outs[o].height /\ e.outs[o].spent = s
      BY <2>1, <3>2, <3>3
    <3>5. <<s.tx, s.height>> \in DOMAIN e.history
      BY <1>7, <3>1, <3>2
    <3> QED
      BY <1>4, <2>1, <3>2, <3>4, <3>5
  <2>3. CASE o \notin marked
    <3> HIDE DEF marked
    <3>1. e.outs[o] = outs[o]
      BY <1>2, <1>10, <2>3
    <3> QED
      BY <2>1, <3>1, Zenon
  <2> QED
    BY <2>2, <2>3, Zenon
<1> QED
  BY <1>2, <1>3, <1>4, <1>6, <1>8, <1>10, <1>11, Zenon DEF Tables, e

\* revert_to_height: what refers to a deleted block goes with it.
LEMMA RevertKeepsTables ==
    ASSUME Top \in Nat, NEW d, Tables(d), NEW n \in Nat
    PROVE  LET e == RevertToHeight(d, n)
           IN Tables(e) /\ e.blocks = [k \in {j \in DOMAIN d.blocks : j <= n} |-> d.blocks[k]]
<1> DEFINE e == RevertToHeight(d, n)
           kept == {o \in DOMAIN d.outs : d.outs[o].height <= n}
<1>1. /\ DOMAIN e = {"blocks", "txs", "outs", "history"}
      /\ e.blocks = [k \in {j \in DOMAIN d.blocks : j <= n} |-> d.blocks[k]]
      /\ e.txs = [t \in {u \in DOMAIN d.txs : d.txs[u] <= n} |-> d.txs[t]]
      /\ e.outs = [o \in kept |-> IF d.outs[o].spent.height > n THEN [d.outs[o] EXCEPT !.spent = Unspent]
                                  ELSE d.outs[o]]
      /\ e.history = [r \in {q \in DOMAIN d.history : q[2] <= n} |-> d.history[r]]
  BY Zenon DEF RevertToHeight, Restrict
<1> HIDE DEF e
<1>2. DOMAIN e.blocks \subseteq Heights /\ \A k \in DOMAIN e.blocks : e.blocks[k] \in Hash
  BY <1>1, Zenon DEF Tables
<1>3. DOMAIN e.txs \subseteq Tx /\ \A t \in DOMAIN e.txs : e.txs[t] \in DOMAIN e.blocks
  BY <1>1, Zenon DEF Tables
<1>4. DOMAIN e.history \subseteq Tx \X Heights /\ DOMAIN e.outs \subseteq Output
  BY <1>1, Zenon DEF Tables
<1>5. ASSUME NEW o \in DOMAIN e.outs
      PROVE  /\ e.outs[o] \in [height : Heights, spent : SpentType]
             /\ e.outs[o].height \in DOMAIN e.blocks
             /\ e.outs[o].spent # Unspent =>
                    /\ e.outs[o].spent.height \in DOMAIN e.blocks
                    /\ <<e.outs[o].spent.tx, e.outs[o].spent.height>> \in DOMAIN e.history
  <2>1. o \in DOMAIN d.outs /\ d.outs[o].height <= n
    BY <1>1, Zenon
  <2>2. /\ d.outs[o] \in [height : Heights, spent : SpentType]
        /\ d.outs[o].height \in DOMAIN d.blocks
        /\ d.outs[o].spent # Unspent =>
               /\ d.outs[o].spent.height \in DOMAIN d.blocks
               /\ <<d.outs[o].spent.tx, d.outs[o].spent.height>> \in DOMAIN d.history
    BY <2>1, Zenon DEF Tables
  <2>3. CASE d.outs[o].spent.height > n
    <3>1. e.outs[o] = [d.outs[o] EXCEPT !.spent = Unspent]
      BY <1>1, <2>1, <2>3, Zenon
    <3>2. e.outs[o] \in [height : Heights, spent : SpentType] /\ e.outs[o].height = d.outs[o].height
          /\ e.outs[o].spent = Unspent
      BY <2>2, <3>1, Zenon DEF SpentType
    <3> QED
      BY <1>1, <2>1, <2>2, <3>2, Zenon
  <2>4. CASE ~(d.outs[o].spent.height > n)
    <3>1. e.outs[o] = d.outs[o]
      BY <1>1, <2>1, <2>4, Zenon
    <3>2. d.outs[o].spent.height \in Nat /\ d.outs[o].spent.height <= n
      <4>1. Heights = 0..Top
        BY Zenon DEF Heights, Top
      <4> QED
        BY <2>2, <2>4, <4>1 DEF SpentType, Unspent
    <3> QED
      BY <1>1, <2>1, <2>2, <3>1, <3>2, Zenon
  <2> QED
    BY <2>3, <2>4, Zenon
<1> QED
  BY <1>1, <1>2, <1>3, <1>4, <1>5, Zenon DEF Tables, e

\* Catching up: the gap is worked out and progress saved.
LEMMA GapTables ==
    ASSUME TablesInv, Best <= Top,
           Loop \/ ResumeHistorical \/ CatchUp \/ FreshStart \/ SaveProgress
             \/ CheckCaughtUp \/ Subscribe \/ SaveLive
    PROVE  TablesInv'
<1>1. /\ Best = BestNumber(client) /\ Best \in Nat /\ Best <= Top /\ Top \in Nat
      /\ Heights = 0..Top
  BY BestFacts, Zenon
<1>2. CASE Loop
  BY <1>1, <1>2 DEF TablesInv, Locals, Loop
<1>3. CASE ResumeHistorical
  <2>1. saved.at \in Nat /\ saved.target \in 1..(Top + 1) /\ saved.at <= saved.target
    BY <1>1, <1>3 DEF TablesInv, Locals, ResumeHistorical
  <2>2. /\ DOMAIN range' = {"next", "end", "processed", "batch"}
        /\ range'.next = saved.at /\ range'.end = saved.target
    BY <1>3, Zenon DEF ResumeHistorical, StartRange
  <2>3. lapses' \subseteq {"missed", "stale", "rewound", "resumed", "failed"}
    BY <1>3, Zenon DEF TablesInv, Locals, ResumeHistorical
  <2> QED
    BY <1>3, <2>1, <2>2, <2>3, Zenon DEF TablesInv, Locals, ResumeHistorical, StartRange
<1>4. CASE CatchUp
  <2>1. CASE saved.at < BestNumber(client)
    <3>1. /\ DOMAIN range' = {"next", "end", "processed", "batch"}
          /\ range'.next = saved.at + 1 /\ range'.end = Best + 1 /\ pc' = "Range"
      BY <1>1, <1>4, <2>1 DEF CatchUp, StartRange
    <3>2. saved.at \in Nat
      BY <1>1 DEF TablesInv, Locals
    <3> QED
      BY <1>1, <1>4, <2>1, <3>1, <3>2 DEF TablesInv, Locals, CatchUp
  <2>2. CASE ~(saved.at < BestNumber(client))
    BY <1>4, <2>2, Zenon DEF TablesInv, Locals, CatchUp
  <2> QED
    BY <2>1, <2>2, Zenon
<1>5. CASE FreshStart
  <2>1. CASE BestNumber(client) > 0
    <3>1. /\ DOMAIN range' = {"next", "end", "processed", "batch"}
          /\ range'.next = 0 /\ range'.end = Best + 1 /\ pc' = "Range"
          /\ saved' = Historical(Best + 1, 0)
      BY <1>1, <1>5, <2>1 DEF FreshStart, StartRange
    <3>2. /\ saved' \in [kind : {"None", "HistoricalIndexing", "Active"}, target : Nat, at : Heights]
          /\ saved'.target <= Top + 1 /\ saved'.at < saved'.target
      BY <1>1, <3>1 DEF Historical
    <3> QED
      BY <1>1, <1>5, <3>1, <3>2 DEF TablesInv, Locals, FreshStart
  <2>2. CASE ~(BestNumber(client) > 0)
    <3>1. /\ saved' \in [kind : {"None", "HistoricalIndexing", "Active"}, target : Nat, at : Heights]
          /\ saved'.kind = "Active" /\ pc' = "Check" /\ range' = range
      BY <1>1, <1>5, <2>2 DEF FreshStart, Active
    <3> QED
      BY <1>5, <3>1, Zenon DEF TablesInv, Locals, FreshStart
  <2> QED
    BY <2>1, <2>2
<1>6. CASE SaveProgress
  <2>1. /\ range.next \in Nat /\ range.end \in 1..(Top + 1) /\ range.next <= range.end
    BY <1>6, Zenon DEF TablesInv, Locals, SaveProgress
  <2>2. CASE range.next >= range.end
    <3>1. saved' = Active(range.end - 1) /\ pc' = "Check"
      BY <1>6, <2>2, Zenon DEF SaveProgress
    <3>2. /\ saved' \in [kind : {"None", "HistoricalIndexing", "Active"}, target : Nat, at : Heights]
          /\ saved'.kind = "Active"
      BY <1>1, <2>1, <3>1 DEF Active
    <3> QED
      BY <1>6, <3>1, <3>2 DEF TablesInv, Locals, SaveProgress
  <2>3. CASE ~(range.next >= range.end)
    <3>1. (saved' = Historical(range.end, range.next) \/ saved' = saved) /\ pc' = "Range"
      BY <1>6, <2>3, Zenon DEF SaveProgress
    <3>2. /\ saved' \in [kind : {"None", "HistoricalIndexing", "Active"}, target : Nat, at : Heights]
          /\ saved'.kind = "HistoricalIndexing" => saved'.target <= Top + 1 /\ saved'.at < saved'.target
      <4>1. CASE saved' = Historical(range.end, range.next)
        BY <1>1, <2>1, <2>3, <4>1 DEF Historical
      <4>2. CASE saved' = saved
        BY <4>2, Zenon DEF TablesInv, Locals
      <4> QED
        BY <3>1, <4>1, <4>2
    <3> QED
      BY <1>6, <2>1, <3>1, <3>2 DEF TablesInv, Locals, SaveProgress
  <2> QED
    BY <2>2, <2>3
<1>7. CASE CheckCaughtUp
  BY <1>7, Zenon DEF TablesInv, Locals, CheckCaughtUp
<1>8. CASE Subscribe
  <2>1. last' \in Heights
    BY <1>1, <1>8 DEF TablesInv, Locals, Subscribe
  <2> QED
    BY <1>8, <2>1 DEF TablesInv, Locals, Subscribe
<1>9. CASE SaveLive
  <2>1. /\ saved' \in [kind : {"None", "HistoricalIndexing", "Active"}, target : Nat, at : Heights]
        /\ saved'.kind = "Active"
    BY <1>9, Zenon DEF TablesInv, Locals, SaveLive, Active
  <2> QED
    BY <1>9, <2>1, Zenon DEF TablesInv, Locals, SaveLive
<1> QED
  BY <1>2, <1>3, <1>4, <1>5, <1>6, <1>7, <1>8, <1>9

\* Errors and restarts do not change the tables.
LEMMA FailureTables ==
    ASSUME TablesInv, DatabaseError \/ Crash \/ UNCHANGED vars
    PROVE  TablesInv'
<1>1. CASE DatabaseError
  <2>1. stream \in Seq(NotificationType) /\ todo \in Seq(Nat) /\ 0 \in Heights
    BY BestFacts DEF TablesInv, Locals
  <2>2. stream' \in Seq(NotificationType) /\ todo' \in Seq(Nat) /\ last' \in Heights
    <3>1. stream' = stream \/ (stream # <<>> /\ stream' = Tail(stream))
      BY <1>1, Zenon DEF DatabaseError
    <3>2. todo' = todo \/ (todo # <<>> /\ todo' = Tail(todo))
      BY <1>1, Zenon DEF DatabaseError
    <3>3. last' = last \/ last' = 0
      BY <1>1, Zenon DEF DatabaseError
    <3>4. stream' \in Seq(NotificationType)
      <4>1. stream # <<>> => Tail(stream) \in Seq(NotificationType)
        BY <2>1, TailFacts, Zenon
      <4> QED
        BY <2>1, <3>1, <4>1, Zenon
    <3>5. todo' \in Seq(Nat)
      <4>1. todo # <<>> => Tail(todo) \in Seq(Nat)
        BY <2>1, TailFacts
      <4> QED
        BY <2>1, <3>2, <4>1, Zenon
    <3>6. last' \in Heights
      BY <2>1, <3>3 DEF TablesInv, Locals
    <3> QED
      BY <3>4, <3>5, <3>6, Zenon
  <2>3. lapses' \subseteq {"missed", "stale", "rewound", "resumed", "failed"}
    BY <1>1, Zenon DEF TablesInv, Locals, DatabaseError
  <2>4. pc' \in {"Stopped", "Live", pc} /\ (pc' = pc => pc \in {"Live", "Enacted"})
    BY <1>1, Zenon DEF DatabaseError
  <2>5. UNCHANGED <<client, db, saved, before, range>>
    BY <1>1, Zenon DEF DatabaseError
  <2> QED
    BY <2>2, <2>3, <2>4, <2>5 DEF TablesInv, Locals
<1>2. CASE Crash
  <2>1. stream' \in Seq(NotificationType) /\ todo' \in Seq(Nat) /\ pc' = "Down"
    BY <1>2 DEF Crash
  <2>2. lapses' \subseteq {"missed", "stale", "rewound", "resumed", "failed"}
    BY <1>2, Zenon DEF TablesInv, Locals, Crash
  <2>3. UNCHANGED <<client, db, saved, before, range, last>>
    BY <1>2, Zenon DEF Crash
  <2> QED
    BY <2>1, <2>2, <2>3 DEF TablesInv, Locals
<1>3. CASE UNCHANGED vars
  BY <1>3, Zenon DEF TablesInv, Locals, vars
<1> QED
  BY <1>1, <1>2, <1>3

-----------------------------------------------------------------------------
(* The blocks table while the indexer catches up. *)

\* The blocks table is a prefix of the canonical chain.
CanonicalRows ==
    \A m \in Indexed \ {0} :
        m <= Best /\ 1..m \subseteq Indexed /\ db.blocks[m] = BlockHash(client, m)

\* Lapses are never forgotten.
LEMMA LapsesGrow == [Next]_vars => lapses \subseteq lapses'
BY Zenon DEF Next, Step, vars, Import, Loop, ResumeHistorical, CatchUp, FreshStart, IndexBatch,
       SaveProgress, CheckCaughtUp, Subscribe, OnImported, OnReorg, IndexEnacted, SaveLive,
       DatabaseError, Crash

\* Without notifications to handle the invariant says that the table is a prefix
\* of the canonical chain that reaches the saved height.
LEMMA QuietFacts ==
    ASSUME TablesInv, CoveredInv, Sound, pc \notin Following
    PROVE  /\ stream = <<>> /\ todo = <<>> /\ CanonicalRows
           /\ 1..SavedTo \subseteq Indexed /\ CatchUpInv
<1>1. BlocksInv /\ CatchUpInv
  BY Zenon DEF CoveredInv
<1>2. stream = <<>> /\ todo = <<>>
  BY <1>1, Zenon DEF CatchUpInv, BlocksInv, Following
<1>3. DOMAIN stream = {} /\ ToEnact = {}
  BY <1>2 DEF ToEnact
<1> QED
  BY <1>1, <1>2, <1>3, Zenon DEF BlocksInv, CanonicalRows

\* And conversely.
LEMMA QuietInv ==
    ASSUME stream' = <<>>, todo' = <<>>, pc' \notin Following,
           CanonicalRows', 1..SavedTo' \subseteq Indexed', CatchUpInv'
    PROVE  CoveredInv'
<1>1. DOMAIN stream' = {} /\ DOMAIN todo' = {}
  OBVIOUS
<1>2. BlocksInv'
  BY Zenon DEF BlocksInv, CanonicalRows
<1>3. StreamInv'
  BY <1>1, Zenon DEF StreamInv
<1>4. FollowInv'
  BY Zenon DEF FollowInv
<1> QED
  BY <1>2, <1>3, <1>4, Zenon DEF CoveredInv

\* Steps that leave the blocks table and the client alone keep its rows.
LEMMA SameRows ==
    ASSUME CanonicalRows, UNCHANGED <<client, db>>
    PROVE  CanonicalRows' /\ Indexed' = Indexed /\ Best' = Best
BY DEF CanonicalRows, Indexed, Best, BestNumber, BlockHash

\* The gap between the saved height and the best one.
LEMMA GapCovered ==
    ASSUME TablesInv, CoveredInv, Sound', Loop \/ ResumeHistorical \/ CatchUp \/ FreshStart
    PROVE  CoveredInv'
<1>1. Sound /\ pc \notin Following /\ pc' \notin Following
  BY Zenon DEF Sound, Following, Loop, ResumeHistorical, CatchUp, FreshStart, StartRange
<1>2. /\ stream = <<>> /\ todo = <<>> /\ CanonicalRows
      /\ 1..SavedTo \subseteq Indexed /\ CatchUpInv
  BY <1>1, QuietFacts, Zenon
<1>3. UNCHANGED <<client, db, stream, todo>>
  BY Zenon DEF Loop, ResumeHistorical, CatchUp, FreshStart
<1>4. CanonicalRows' /\ Indexed' = Indexed /\ Best' = Best
  BY <1>2, <1>3, SameRows, Zenon
<1>5. Best = BestNumber(client) /\ Best \in Nat /\ before \in Nat /\ saved.at \in Nat /\ saved.target \in Nat
  BY BestFacts DEF TablesInv, Locals
<1>6. SUFFICES 1..SavedTo' \subseteq Indexed' /\ CatchUpInv'
  BY <1>1, <1>2, <1>3, <1>4, QuietInv, Zenon
<1>7. CASE Loop
  <2>1. pc' = "Gap" /\ before' = Best /\ SavedTo' = SavedTo
    BY <1>5, <1>7, Zenon DEF Loop, SavedTo
  <2> QED
    BY <1>2, <1>3, <1>4, <1>5, <2>1 DEF CatchUpInv
<1>8. CASE ResumeHistorical
  <2>1. /\ pc = "Gap" /\ pc' = "Range" /\ before' = before /\ SavedTo' = SavedTo
        /\ range'.next = saved.at /\ range'.end = saved.target /\ SavedTo = saved.at - 1
    BY <1>8, Zenon DEF ResumeHistorical, StartRange, SavedTo
  <2>2. saved.target > before
    BY <1>5, <1>8 DEF ResumeHistorical, Sound
  <2> QED
    BY <1>2, <1>3, <1>4, <1>5, <2>1, <2>2, Zenon DEF CatchUpInv
<1>9. CASE CatchUp
  <2>1. /\ pc = "Gap" /\ before' = before /\ SavedTo' = SavedTo /\ SavedTo = saved.at
    BY <1>9, Zenon DEF CatchUp, SavedTo
  <2>2. CASE saved.at < BestNumber(client)
    <3>1. pc' = "Range" /\ range'.next = saved.at + 1 /\ range'.end = Best + 1
      BY <1>5, <1>9, <2>2 DEF CatchUp, StartRange
    <3> QED
      BY <1>2, <1>3, <1>4, <1>5, <2>1, <3>1 DEF CatchUpInv
  <2>3. CASE ~(saved.at < BestNumber(client))
    <3>1. pc' = "Check"
      BY <1>9, <2>3, Zenon DEF CatchUp
    <3> QED
      BY <1>2, <1>3, <1>4, <1>5, <2>1, <2>3, <3>1 DEF CatchUpInv
  <2> QED
    BY <2>2, <2>3, Zenon
<1>10. CASE FreshStart
  <2>1. pc = "Gap" /\ before' = before
    BY <1>10, Zenon DEF FreshStart
  <2>2. CASE BestNumber(client) > 0
    <3>1. pc' = "Range" /\ range'.next = 0 /\ range'.end = Best + 1 /\ SavedTo' = 0 - 1
      BY <1>5, <1>10, <2>2 DEF FreshStart, StartRange, Historical, SavedTo
    <3> QED
      BY <1>2, <1>3, <1>4, <1>5, <2>1, <3>1 DEF CatchUpInv
  <2>3. CASE ~(BestNumber(client) > 0)
    <3>1. pc' = "Check" /\ SavedTo' = 0
      BY <1>10, <2>3 DEF FreshStart, Active, SavedTo
    <3> QED
      BY <1>2, <1>3, <1>4, <1>5, <2>1, <2>3, <3>1 DEF CatchUpInv
  <2> QED
    BY <2>2, <2>3, Zenon
<1> QED
  BY <1>7, <1>8, <1>9, <1>10, Zenon

\* A batch extends the prefix.
LEMMA BatchCovered ==
    ASSUME TablesInv, CoveredInv, Sound', IndexBatch,
           BatchIndexed \/ (pc' = "Stopped" /\ db' = db /\ range' = range)
    PROVE  CoveredInv'
<1>1. Sound /\ pc = "Range" /\ pc \notin Following /\ pc' \notin Following
  BY Zenon DEF Sound, Following, IndexBatch
<1>2. /\ stream = <<>> /\ todo = <<>> /\ CanonicalRows
      /\ 1..SavedTo \subseteq Indexed /\ CatchUpInv
  BY <1>1, QuietFacts, Zenon
<1>3. UNCHANGED <<client, stream, todo, saved, before>> /\ SavedTo' = SavedTo /\ Best' = Best
  BY Zenon DEF IndexBatch, SavedTo, Best, BestNumber
<1>4. Best \in Nat /\ before \in Nat
  BY BestFacts DEF TablesInv, Locals
<1>5. CASE pc' = "Stopped" /\ db' = db /\ range' = range
  <2>1. CanonicalRows' /\ Indexed' = Indexed /\ Best' = Best
    BY <1>2, <1>3, <1>5, SameRows, Zenon
  <2>2. CatchUpInv'
    BY <1>2, <1>3, <1>5, Zenon DEF CatchUpInv
  <2> QED
    BY <1>1, <1>2, <1>3, <2>1, <2>2, QuietInv, Zenon
<1>6. CASE BatchIndexed
  <2> DEFINE a == range.next
             b == range'.next
  <2>1. a \in Nat /\ b \in Nat /\ a < b /\ b - 1 <= Best /\ 1..(a - 1) \subseteq Indexed /\ range.end > before
    BY <1>1, <1>2, <1>6, Zenon DEF BatchIndexed, CatchUpInv
  <2>2. /\ Indexed' = Indexed \cup a..(b - 1) /\ pc' = "Save" /\ range'.end = range.end
        /\ \A m \in Indexed' : db'.blocks[m] = IF m \in a..(b - 1) THEN BlockHash(client, m) ELSE db.blocks[m]
    BY <1>6, Zenon DEF BatchIndexed, Indexed
  <2> HIDE DEF a, b
  <2>3. 1..(b - 1) \subseteq Indexed'
    BY <2>1, <2>2
  <2>4. CanonicalRows'
    <3> SUFFICES ASSUME NEW m \in Indexed' \ {0}
                 PROVE  m <= Best /\ 1..m \subseteq Indexed' /\ db'.blocks[m] = BlockHash(client, m)
      BY <1>3, Zenon DEF CanonicalRows, BlockHash
    <3>1. CASE m \in a..(b - 1)
      <4>1. m <= Best /\ \A k \in 1..m : k \in 1..(b - 1)
        BY <1>4, <2>1, <3>1
      <4>2. db'.blocks[m] = BlockHash(client, m)
        BY <2>2, <3>1, Zenon
      <4> QED
        BY <2>3, <4>1, <4>2, Zenon
    <3>2. CASE m \notin a..(b - 1)
      BY <1>2, <2>2, <3>2, Zenon DEF CanonicalRows
    <3> QED
      BY <3>1, <3>2, Zenon
  <2>5. 1..SavedTo' \subseteq Indexed'
    BY <1>2, <1>3, <2>2, Zenon
  <2>6. CatchUpInv'
    BY <1>1, <1>2, <1>3, <1>4, <2>1, <2>2, <2>3, Zenon DEF CatchUpInv, b
  <2> QED
    BY <1>1, <1>2, <1>3, <2>4, <2>5, <2>6, QuietInv, Zenon
<1> QED
  BY <1>5, <1>6, Zenon

\* Progress is saved no further than the table goes.
LEMMA ProgressCovered ==
    ASSUME TablesInv, CoveredInv, Sound', SaveProgress
    PROVE  CoveredInv'
<1>1. Sound /\ pc \in {"Save", "Range"} /\ pc \notin Following /\ pc' \notin Following
  BY Zenon DEF Sound, Following, SaveProgress
<1>2. /\ stream = <<>> /\ todo = <<>> /\ CanonicalRows
      /\ 1..SavedTo \subseteq Indexed /\ CatchUpInv
  BY <1>1, QuietFacts, Zenon
<1>3. UNCHANGED <<client, db, stream, todo, before, range>>
  BY Zenon DEF SaveProgress
<1>4. CanonicalRows' /\ Indexed' = Indexed /\ Best' = Best
  BY <1>2, <1>3, SameRows, Zenon
<1>5. Best \in Nat /\ before \in Nat /\ range.next \in Nat /\ range.end \in Nat /\ range.next <= range.end
  <2>1. Best \in Nat /\ Top \in Nat /\ Heights = 0..Top
    BY BestFacts, Zenon
  <2>2. /\ before \in Heights /\ range.next \in Nat
        /\ range.end \in 1..(Top + 1) /\ range.next <= range.end
    BY <1>1, Zenon DEF TablesInv, Locals
  <2> QED
    BY <2>1, <2>2
<1>6. 1..(range.next - 1) \subseteq Indexed /\ range.end > before /\ before <= Best
  BY <1>1, <1>2, Zenon DEF CatchUpInv
<1>7. CASE range.next >= range.end
  <2>1. pc' = "Check" /\ SavedTo' = range.end - 1
    BY <1>7 DEF SaveProgress, Active, SavedTo
  <2>2. 1..SavedTo' \subseteq Indexed' /\ 1..before \subseteq Indexed'
    BY <1>4, <1>5, <1>6, <1>7, <2>1
  <2>3. CatchUpInv'
    BY <1>2, <1>3, <1>4, <1>6, <2>1, <2>2, Zenon DEF CatchUpInv
  <2> QED
    BY <1>1, <1>2, <1>3, <1>4, <2>2, <2>3, QuietInv, Zenon
<1>8. CASE ~(range.next >= range.end)
  <2>1. pc' = "Range" /\ (saved' = saved \/ saved' = Historical(range.end, range.next))
    BY <1>8, Zenon DEF SaveProgress
  <2>2. SavedTo' = SavedTo \/ SavedTo' = range.next - 1
    BY <2>1 DEF SavedTo, Historical
  <2>3. CatchUpInv'
    BY <1>2, <1>3, <1>4, <1>6, <2>1, Zenon DEF CatchUpInv
  <2> QED
    BY <1>1, <1>2, <1>3, <1>4, <1>6, <2>2, <2>3, QuietInv, Zenon
<1> QED
  BY <1>7, <1>8, Zenon

\* The loop ends when nothing was imported meanwhile, and the subscription
\* starts with the whole chain indexed.
LEMMA CaughtUpCovered ==
    ASSUME TablesInv, CoveredInv, Sound', CheckCaughtUp \/ Subscribe
    PROVE  CoveredInv'
<1>1. Sound /\ pc \notin Following
  BY Zenon DEF Sound, Following, CheckCaughtUp, Subscribe
<1>2. /\ stream = <<>> /\ todo = <<>> /\ CanonicalRows
      /\ 1..SavedTo \subseteq Indexed /\ CatchUpInv
  BY <1>1, QuietFacts, Zenon
<1>3. UNCHANGED <<client, db, stream, todo, before, range, saved>> /\ SavedTo' = SavedTo
  BY Zenon DEF CheckCaughtUp, Subscribe, SavedTo
<1>4. CanonicalRows' /\ Indexed' = Indexed /\ Best' = Best
  BY <1>2, <1>3, SameRows, Zenon
<1>5. Best = BestNumber(client) /\ Best \in Nat
  BY BestFacts, Zenon
<1>6. CASE CheckCaughtUp
  <2>1. pc = "Check" /\ pc' = IF Best = before THEN "Subscribe" ELSE "Loop"
    BY <1>5, <1>6, Zenon DEF CheckCaughtUp
  <2>2. CatchUpInv' /\ pc' \notin Following
    BY <1>2, <1>3, <1>4, <2>1, Zenon DEF CatchUpInv, Following
  <2> QED
    BY <1>2, <1>3, <1>4, <2>2, QuietInv, Zenon
<1>7. CASE Subscribe
  <2>1. pc = "Subscribe" /\ pc' = "Live" /\ (last' = SavedTo \/ last' = 0)
    BY <1>7, Zenon DEF Subscribe, SavedTo
  <2>2. 1..Best \subseteq Indexed
    BY <1>2, <2>1, Zenon DEF CatchUpInv
  <2>3. DOMAIN stream' = {} /\ DOMAIN todo' = {} /\ Len(stream') = 0
    BY <1>2, <1>3
  <2>4. BlocksInv'
    BY <1>2, <1>3, <1>4, Zenon DEF BlocksInv, CanonicalRows
  <2>5. CatchUpInv'
    BY <2>1, Zenon DEF CatchUpInv, Following
  <2>6. StreamInv'
    BY <2>3, Zenon DEF StreamInv
  <2>7. FollowInv'
    <3>1. 1..last' \subseteq Indexed'
      BY <1>2, <1>4, <2>1
    <3>2. ASSUME NEW j \in 1..(Len(stream') + 1), NEW m \in 1..(Bound(j)' - 1)
          PROVE  m \in Indexed'
      <4>1. j = Len(stream') + 1
        BY <2>3
      <4>2. Bound(j)' = Best + 1
        BY <1>4, <4>1, Zenon DEF Bound
      <4> QED
        BY <1>4, <1>5, <2>2, <4>2
    <3> QED
      BY <2>3, <3>1, <3>2, Zenon DEF FollowInv
  <2> QED
    BY <2>4, <2>5, <2>6, <2>7, Zenon DEF CoveredInv
<1> QED
  BY <1>6, <1>7, Zenon

-----------------------------------------------------------------------------
(* The blocks table while the indexer follows the chain. *)

\* What TablesInv says of the notifications and of the heights to enact.
LEMMA FollowTypes ==
    ASSUME TablesInv
    PROVE  /\ Best \in Nat /\ Len(stream) \in Nat /\ DOMAIN stream = 1..Len(stream)
           /\ Len(todo) \in Nat /\ DOMAIN todo = 1..Len(todo)
           /\ last \in Nat /\ SavedTo \in Int /\ Indexed \subseteq Nat
           /\ \A j \in DOMAIN stream :
                  stream[j] \in NotificationType /\ stream[j].number \in Nat /\ stream[j].lowest \in Nat \ {0}
           /\ \A p \in DOMAIN todo : todo[p] \in Nat
<1>1. Best \in Nat /\ Top \in Nat /\ Heights = 0..Top
  BY BestFacts, Zenon
<1>2. stream \in Seq(NotificationType) /\ todo \in Seq(Nat) /\ last \in Heights /\ saved.at \in Heights
      /\ DOMAIN db.blocks \subseteq Heights
  BY Zenon DEF TablesInv, Locals, Tables
<1>3. SavedTo \in Int
  BY <1>1, <1>2 DEF SavedTo
<1>4. \A n \in NotificationType : n.number \in Nat /\ n.lowest \in Nat \ {0}
  BY <1>1 DEF NotificationType
<1>5. \A j \in DOMAIN stream : stream[j] \in NotificationType
  BY <1>2
<1>6. Len(stream) \in Nat /\ DOMAIN stream = 1..Len(stream)
  BY <1>2
<1>7. Len(todo) \in Nat /\ DOMAIN todo = 1..Len(todo) /\ \A p \in DOMAIN todo : todo[p] \in Nat
  BY <1>2
<1> QED
  BY <1>1, <1>2, <1>3, <1>4, <1>5, <1>6, <1>7 DEF Indexed

\* All that is saved, indexed or still to be indexed is at most the best number.
LEMMA AllBelowBest ==
    ASSUME TablesInv, BlocksInv, StreamInv, FollowInv, pc \in Following
    PROVE  last <= Best /\ SavedTo <= Best
<1>1. /\ Best \in Nat /\ last \in Nat /\ SavedTo \in Int
  BY FollowTypes, Zenon
<1>2. last <= Best
  <2>1. CASE last = 0
    BY <1>1, <2>1
  <2>2. CASE last # 0
    <3>1. last \in 1..last
      BY <1>1, <2>2
    <3>2. last \in Indexed \ {0}
      BY <2>2, <3>1, Zenon DEF FollowInv
    <3> QED
      BY <3>2, Zenon DEF BlocksInv
  <2> QED
    BY <2>1, <2>2, Zenon
<1>3. SavedTo <= Best
  <2>1. CASE SavedTo < 1
    BY <1>1, <2>1
  <2>2. CASE ~(SavedTo < 1)
    <3>1. SavedTo \in 1..SavedTo /\ SavedTo # 0
      BY <1>1, <2>2
    <3>2. SavedTo \in Indexed \/ SavedTo \in ToEnact
      BY <3>1, Zenon DEF BlocksInv
    <3>3. SavedTo \in ToEnact => SavedTo <= Best
      BY <1>1 DEF ToEnact, StreamInv
    <3> QED
      BY <3>1, <3>2, <3>3, Zenon DEF BlocksInv
  <2> QED
    BY <2>1, <2>2, Zenon
<1> QED
  BY <1>2, <1>3, Zenon

\* An import while the indexer does not follow: only a block that extends the
\* best chain or stays beside it is not a lapse.
LEMMA QuietImportCovered ==
    ASSUME TablesInv, CoveredInv, Sound',
           NEW h \in Hash \ {Genesis}, Import(h), pc \notin Following,
           NEW n, n = Notification(client, client', h),
           Imports(n, client, client', h), Notifies(n, client, client', h)
    PROVE  CoveredInv'
<1>1. Sound /\ pc # "Subscribe" /\ ~Reorganises(h) /\ pc' = pc /\ stream' = stream
  BY Zenon DEF Sound, Import
<1>2. /\ stream = <<>> /\ todo = <<>> /\ CanonicalRows
      /\ 1..SavedTo \subseteq Indexed /\ CatchUpInv
  BY <1>1, QuietFacts, Zenon
<1>3. /\ client' = ImportBlock(client, h) /\ h \notin client.imported
      /\ client \in ClientType /\ client.best \in client.imported
      /\ UNCHANGED <<db, saved, before, range, todo>>
  BY Zenon DEF Import, TablesInv, Locals
<1>5. ~n.reorg
  BY <1>1, <1>3, Zenon DEF Notifies, Reorganises
<1>6. Best <= Best' /\ \A m \in 0..Best : BlockHash(client', m) = BlockHash(client, m)
  BY <1>5, Zenon DEF Imports, Best
<1>7. Best \in Nat /\ before \in Nat /\ Best' \in Nat
  BY BestFacts DEF TablesInv, Locals, Best, Imports
<1>8. Indexed' = Indexed /\ SavedTo' = SavedTo /\ Indexed \subseteq Nat
  BY <1>3, FollowTypes, Zenon DEF Indexed, SavedTo
<1>9. CanonicalRows'
  <2> SUFFICES ASSUME NEW m \in Indexed \ {0}
               PROVE  m <= Best' /\ 1..m \subseteq Indexed /\ db.blocks[m] = BlockHash(client', m)
    BY <1>3, <1>8, Zenon DEF CanonicalRows, BlockHash
  <2>1. m \in Nat /\ m <= Best /\ 1..m \subseteq Indexed /\ db.blocks[m] = BlockHash(client, m)
    BY <1>2, <1>8, Zenon DEF CanonicalRows
  <2>2. m \in 0..Best
    BY <1>7, <2>1, UpTo, Zenon
  <2> QED
    BY <1>6, <1>7, <2>1, <2>2
<1>10. CatchUpInv'
  BY <1>1, <1>2, <1>3, <1>6, <1>7, <1>8 DEF CatchUpInv
<1> QED
  BY <1>1, <1>2, <1>3, <1>8, <1>9, <1>10, QuietInv, Zenon

\* The node stops: without a reorganisation half handled the table is a prefix
\* of the canonical chain.
LEMMA CrashCovered ==
    ASSUME TablesInv, CoveredInv, Sound', Crash
    PROVE  CoveredInv'
<1>1. /\ Sound /\ pc # "Enacted" /\ (\A i \in DOMAIN stream : ~stream[i].reorg)
      /\ stream' = <<>> /\ todo' = <<>> /\ pc' = "Down" /\ UNCHANGED <<client, db, saved>>
  BY Zenon DEF Sound, Crash
<1>2. BlocksInv
  BY <1>1, Zenon DEF CoveredInv
<1>3. ToEnact = {}
  BY <1>1, <1>2 DEF BlocksInv, ToEnact
<1>4. CanonicalRows /\ 1..SavedTo \subseteq Indexed
  BY <1>1, <1>2, <1>3, Zenon DEF BlocksInv, CanonicalRows
<1>5. CanonicalRows' /\ Indexed' = Indexed
  BY <1>1, <1>4, SameRows, Zenon
<1>6. SavedTo' = SavedTo
  BY <1>1, Zenon DEF SavedTo
<1>7. CatchUpInv'
  BY <1>1, Zenon DEF CatchUpInv
<1> QED
  BY <1>1, <1>4, <1>5, <1>6, <1>7, QuietInv, Zenon DEF Following

\* A database error: one that drops a notification or a height is a lapse.
LEMMA ErrorCovered ==
    ASSUME TablesInv, CoveredInv, Sound', DatabaseError
    PROVE  CoveredInv'
<1>1. Sound /\ pc # "Subscribe" /\ todo' = todo /\ stream' = stream
      /\ UNCHANGED <<client, db, saved, before, range>>
  BY Zenon DEF Sound, DatabaseError
<1>2. stream \in Seq(NotificationType) /\ todo \in Seq(Nat)
  BY Zenon DEF TablesInv, Locals
<1>3. /\ (stream # <<>> => Tail(stream) # stream) /\ (todo # <<>> => Tail(todo) # todo)
  BY <1>2, TailFacts, Zenon
<1>4. \/ pc \in {"Gap", "Range", "Save"} /\ pc' = "Stopped"
      \/ (pc = "SaveLive" \/ (pc = "Enacted" /\ todo = <<>>)) /\ pc' = "Live" /\ last' = last
  BY <1>1, <1>3, Zenon DEF DatabaseError
<1>5. CASE pc \in {"Gap", "Range", "Save"} /\ pc' = "Stopped"
  <2>1. /\ stream = <<>> /\ todo = <<>> /\ CanonicalRows
        /\ 1..SavedTo \subseteq Indexed
    BY <1>1, <1>5, QuietFacts, Zenon DEF Following
  <2>2. CanonicalRows' /\ Indexed' = Indexed /\ SavedTo' = SavedTo
    BY <1>1, <2>1, SameRows, Zenon DEF SavedTo
  <2>3. CatchUpInv'
    BY <1>1, <1>5, <2>1, Zenon DEF CatchUpInv
  <2> QED
    BY <1>1, <1>5, <2>1, <2>2, <2>3, QuietInv, Zenon DEF Following
<1>6. CASE (pc = "SaveLive" \/ (pc = "Enacted" /\ todo = <<>>)) /\ pc' = "Live" /\ last' = last
  <2>1. BlocksInv /\ StreamInv /\ FollowInv /\ todo = <<>>
    BY <1>1, <1>6, Zenon DEF CoveredInv, BlocksInv
  <2>2. Indexed' = Indexed /\ SavedTo' = SavedTo /\ ToEnact' = ToEnact /\ Best' = Best
    BY <1>1, Zenon DEF Indexed, SavedTo, ToEnact, Best
  <2>3. BlocksInv'
    BY <1>1, <2>1, <2>2, Zenon DEF BlocksInv, BlockHash
  <2>4. CatchUpInv'
    BY <1>6, Zenon DEF CatchUpInv, Following
  <2>5. StreamInv'
    BY <1>1, <1>6, <2>1, <2>2 DEF StreamInv
  <2>6. FollowInv'
    BY <1>1, <1>6, <2>1, <2>2, Zenon DEF FollowInv, Following, Bound, Reached
  <2> QED
    BY <2>3, <2>4, <2>5, <2>6, Zenon DEF CoveredInv
<1> QED
  BY <1>4, <1>5, <1>6, Zenon

\* Live indexing saves the height it has indexed last.
LEMMA SaveLiveCovered ==
    ASSUME TablesInv, CoveredInv, Sound', SaveLive
    PROVE  CoveredInv'
<1>1. /\ Sound /\ pc \in Following /\ pc' = "Live" /\ (pc = "Enacted" => todo = <<>>)
      /\ UNCHANGED <<client, db, stream, todo, last>> /\ SavedTo' = last
  BY Zenon DEF Sound, SaveLive, Following, Active, SavedTo
<1>2. BlocksInv /\ StreamInv /\ FollowInv /\ todo = <<>>
  BY <1>1, Zenon DEF CoveredInv, BlocksInv
<1>3. Indexed' = Indexed /\ ToEnact' = ToEnact /\ Best' = Best /\ 1..last \subseteq Indexed
  BY <1>1, <1>2, Zenon DEF Indexed, ToEnact, Best, FollowInv
<1>4. BlocksInv'
  BY <1>1, <1>2, <1>3, Zenon DEF BlocksInv, BlockHash
<1>5. CatchUpInv'
  BY <1>1, Zenon DEF CatchUpInv, Following
<1>6. StreamInv'
  BY <1>1, <1>2, <1>3 DEF StreamInv
<1>7. FollowInv'
  BY <1>1, <1>2, <1>3, Zenon DEF FollowInv, Following, Bound, Reached
<1> QED
  BY <1>4, <1>5, <1>6, <1>7 DEF CoveredInv

\* One notification more, the last one.
Appended(n, L) ==
    /\ L \in Nat /\ Len(stream) = L /\ DOMAIN stream = 1..L
    /\ Len(stream') = L + 1 /\ DOMAIN stream' = 1..(L + 1)
    /\ stream'[L + 1] = n /\ \A j \in 1..L : stream'[j] = stream[j]

\* It ends no higher than the new best number, and starts no higher than the
\* height after the old one.
Extends(n) ==
    /\ Best \in Nat /\ Best' \in Nat /\ Best <= Best'
    /\ n.number \in Nat /\ n.number <= Best' /\ n.lowest \in Nat
    /\ n.reorg => n.number = Best' /\ n.lowest <= n.number
    /\ First(n) \in Nat /\ First(n) <= Best + 1 /\ \A m \in (Best + 1)..Best' : Covers(n, m)

\* What the notification of a block imported while the indexer follows says.
LEMMA FollowedFacts ==
    ASSUME TablesInv, NEW h \in Hash \ {Genesis}, Import(h), pc \in Following,
           NEW n, n = Notification(client, client', h),
           Imports(n, client, client', h), Notifies(n, client, client', h)
    PROVE  Appended(n, Len(stream)) /\ Extends(n)
<1>1. stream' = Append(stream, n) /\ stream \in Seq(NotificationType)
  BY Zenon DEF Import, TablesInv, Locals
<1>2. Appended(n, Len(stream))
  BY <1>1 DEF Appended
<1>3. client.best # h /\ Height[h] \in Nat
  BY BlockTreeAssumption, Zenon DEF Import, TablesInv, Locals
<1>4. /\ Best \in Nat /\ Best' \in Nat /\ Best <= Best'
      /\ n.number = Height[h] /\ n.number <= Best' /\ n.lowest \in Nat /\ n.lowest - 1 <= Best
      /\ n.reorg => n.number = Best' /\ n.lowest <= n.number
      /\ n.reorg \/ (n.number = Best + 1 /\ n.number = Best') \/ (n.number <= Best /\ Best' = Best)
  BY <1>3, Zenon DEF Imports, Notifies, Best
<1> QED
  BY <1>2, <1>3, <1>4 DEF Extends, First, Covers

\* The rows stay canonical, except those a reorganisation is to revert.
LEMMA AppendKeepsBlocks ==
    ASSUME NEW n, NEW L, Appended(n, L), Extends(n), BlocksInv, Indexed \subseteq Nat,
           ~n.reorg => \A m \in 0..Best : BlockHash(client', m) = BlockHash(client, m),
           n.reorg => \A m \in 0..(n.lowest - 1) : BlockHash(client', m) = BlockHash(client, m),
           UNCHANGED <<db, saved, todo, pc>>
    PROVE  BlocksInv'
<1>1. ASSUME NEW m \in Indexed \ {0}
      PROVE  /\ m <= Best'
             /\ \/ db.blocks[m] = BlockHash(client', m)
                \/ \E i \in DOMAIN stream' : stream'[i].reorg /\ stream'[i].lowest <= m
  <2>1. m \in Nat /\ m <= Best /\ m <= Best'
    <3>1. m \in Nat /\ m <= Best
      BY Zenon DEF BlocksInv
    <3> QED
      BY <3>1 DEF Extends
  <2>2. CASE n.reorg /\ n.lowest <= m
    BY <2>1, <2>2 DEF Appended
  <2>3. CASE ~(n.reorg /\ n.lowest <= m)
    <3>1. BlockHash(client', m) = BlockHash(client, m)
      BY <2>1, <2>3 DEF Extends
    <3>2. CASE db.blocks[m] # BlockHash(client, m)
      <4>1. PICK i \in DOMAIN stream : stream[i].reorg /\ stream[i].lowest <= m
        BY <3>2, Zenon DEF BlocksInv
      <4> QED
        BY <2>1, <4>1 DEF Appended
    <3> QED
      BY <2>1, <3>1, <3>2, Zenon
  <2> QED
    BY <2>2, <2>3, Zenon
<1>2. Indexed' = Indexed /\ SavedTo' = SavedTo /\ ToEnact' = ToEnact
  BY Zenon DEF Indexed, SavedTo, ToEnact
<1> QED
  BY <1>1, <1>2, Zenon DEF BlocksInv

\* The new notification comes after all that is at most the old best number.
LEMMA AppendKeepsStream ==
    ASSUME NEW n, NEW L, Appended(n, L), Extends(n), StreamInv,
           last \in Nat, SavedTo \in Int, last <= Best, SavedTo <= Best,
           \A j \in DOMAIN stream : stream[j].number \in Nat,
           n.reorg => n.enacted = [i \in 1..(n.number - n.lowest + 1) |-> n.lowest + i - 1],
           UNCHANGED <<db, saved, todo, last>>
    PROVE  StreamInv'
<1>1. /\ Indexed' = Indexed /\ SavedTo' = SavedTo /\ Best \in Nat /\ Best' \in Nat /\ Best <= Best'
      /\ \A j \in DOMAIN stream' : j = L + 1 \/ j \in DOMAIN stream
      /\ \A j \in DOMAIN stream : stream'[j] = stream[j] /\ stream[j].number <= Best'
  <2>1. /\ Best \in Nat /\ Best' \in Nat /\ Best <= Best'
        /\ \A j \in DOMAIN stream : stream[j].number \in Nat /\ stream[j].number <= Best
    BY Zenon DEF Extends, StreamInv
  <2>2. Indexed' = Indexed /\ SavedTo' = SavedTo
    BY Zenon DEF Indexed, SavedTo
  <2>3. /\ \A j \in DOMAIN stream' : j = L + 1 \/ j \in DOMAIN stream
        /\ \A j \in DOMAIN stream : stream'[j] = stream[j]
    <3>1. \A j \in 1..(L + 1) : j = L + 1 \/ j \in 1..L
      <4>1. L \in Nat
        BY Zenon DEF Appended
      <4> QED
        BY <4>1
    <3> QED
      BY <3>1, Zenon DEF Appended
  <2> QED
    BY <2>1, <2>2, <2>3
<1>2. \A j \in DOMAIN stream' : stream'[j].number <= Best'
  BY <1>1, Zenon DEF Appended, Extends
<1>3. ASSUME NEW p \in DOMAIN todo PROVE todo[p] \in 1..Best' /\ todo[p] <= Best'
  <2>1. todo[p] \in 1..Best
    BY Zenon DEF StreamInv
  <2> QED
    BY <1>1, <2>1
<1>4. ASSUME NEW j \in DOMAIN stream', stream'[j].reorg
      PROVE  /\ stream'[j].enacted =
                    [i \in 1..(stream'[j].number - stream'[j].lowest + 1) |-> stream'[j].lowest + i - 1]
             /\ stream'[j].lowest <= stream'[j].number
             /\ \A i \in 1..(j - 1) : stream'[i].number <= stream'[j].number
             /\ last <= stream'[j].number /\ SavedTo <= stream'[j].number
             /\ \A p \in DOMAIN todo : todo[p] <= stream'[j].number
  <2>1. CASE j = L + 1
    <3>1. stream'[j] = n /\ n.number = Best' /\ n.lowest <= n.number
      BY <1>4, <2>1, Zenon DEF Appended, Extends
    <3>2. \A i \in 1..(j - 1) : stream'[i].number <= Best'
      BY <1>1, <2>1 DEF Appended
    <3>3. last <= Best' /\ SavedTo <= Best'
      BY <1>1
    <3> QED
      BY <1>3, <1>4, <3>1, <3>2, <3>3, Zenon
  <2>2. CASE j # L + 1
    <3>1. j \in DOMAIN stream /\ stream'[j] = stream[j] /\ \A i \in 1..(j - 1) : stream'[i] = stream[i]
      BY <2>2 DEF Appended
    <3> QED
      BY <1>4, <3>1 DEF StreamInv
  <2> QED
    BY <2>1, <2>2, Zenon
<1> QED
  BY <1>1, <1>2, <1>3, <1>4 DEF StreamInv

\* What is reached stays reached, and the bounds do not grow but the last one.
LEMMA AppendFacts ==
    ASSUME NEW n, NEW L, Appended(n, L), Extends(n),
           \A j \in DOMAIN stream : stream[j].number \in Nat /\ stream[j].lowest \in Nat
    PROVE  /\ \A i, j, m : i \in Nat \ {0} /\ j \in 1..(L + 1) /\ Reached(i, j, m) =>
                  Reached(i, j, m)' /\ Reached(i, L + 2, m)'
           /\ \A j \in 1..(L + 1) : Bound(j) \in Int /\ Bound(j)' \in Int /\ Bound(j)' <= Bound(j)
           /\ Bound(L + 1) = Best + 1 /\ Bound(L + 2)' = Best' + 1
           /\ \A i \in 1..(L + 1) : \A m \in (Best + 1)..Best' : Reached(i, L + 2, m)'
<1>1. ASSUME NEW i \in Nat \ {0}, NEW j \in 1..(L + 1), NEW m, Reached(i, j, m)
      PROVE  Reached(i, j, m)' /\ Reached(i, L + 2, m)'
  <2>1. PICK l \in i..(j - 1) : Covers(stream[l], m)
    BY <1>1, Zenon DEF Reached
  <2>2. stream'[l] = stream[l] /\ l \in i..((L + 2) - 1)
    BY DEF Appended
  <2>3. Covers(stream'[l], m)
    BY <2>1, <2>2, Zenon
  <2> QED
    BY <2>2, <2>3, Zenon DEF Reached
<1>2. Bound(L + 1) = Best + 1 /\ Bound(L + 2)' = Best' + 1 /\ Bound(L + 1)' = First(n)
  BY DEF Bound, Appended, First
<1>3. ASSUME NEW j \in 1..L
      PROVE  Bound(j) \in Int /\ Bound(j)' = Bound(j)
  <2>1. j # L + 1 /\ j # L + 2 /\ j \in DOMAIN stream /\ stream'[j] = stream[j]
    BY DEF Appended
  <2>2. Bound(j) = First(stream[j]) /\ Bound(j)' = First(stream[j])
    BY <2>1 DEF Bound, Appended, First
  <2> QED
    BY <2>1, <2>2 DEF First
<1>4. ASSUME NEW i \in 1..(L + 1), NEW m \in (Best + 1)..Best' PROVE Reached(i, L + 2, m)'
  <2>1. L + 1 \in i..((L + 2) - 1) /\ Covers(stream'[L + 1], m)
    BY DEF Appended, Extends
  <2> QED
    BY <2>1, Zenon DEF Reached
<1>5. ASSUME NEW j \in 1..(L + 1)
      PROVE  Bound(j) \in Int /\ Bound(j)' \in Int /\ Bound(j)' <= Bound(j)
  <2>1. j = L + 1 \/ j \in 1..L
    BY DEF Appended
  <2> QED
    BY <1>2, <1>3, <2>1 DEF Extends
<1> QED
  BY <1>1, <1>2, <1>4, <1>5, Zenon

\* Every height up to the new best number is indexed or will be.
LEMMA AppendKeepsFollow ==
    ASSUME NEW n, NEW L, Appended(n, L), Extends(n), FollowInv, pc \in Following,
           \A j \in DOMAIN stream : stream[j].number \in Nat /\ stream[j].lowest \in Nat,
           UNCHANGED <<db, todo, last>>
    PROVE  FollowInv'
<1>1. \A i, j, m : i \in Nat \ {0} /\ j \in 1..(L + 1) /\ Reached(i, j, m) =>
          Reached(i, j, m)' /\ Reached(i, L + 2, m)'
  BY AppendFacts, Zenon
<1>2. /\ L \in Nat /\ Len(stream) = L /\ Len(stream') = L + 1 /\ DOMAIN stream' = 1..(L + 1)
      /\ Best \in Nat /\ Best' \in Nat /\ Bound(L + 1) = Best + 1 /\ Bound(L + 2)' = Best' + 1
  BY AppendFacts, Zenon DEF Appended, Extends
<1>7. \A j \in 1..(L + 1) : Bound(j) \in Int /\ Bound(j)' \in Int /\ Bound(j)' <= Bound(j)
  BY AppendFacts, Zenon
<1>8. \A i \in 1..(L + 1) : \A m \in (Best + 1)..Best' : Reached(i, L + 2, m)'
  BY AppendFacts, Zenon
<1>3. ASSUME NEW j \in 1..(L + 1), NEW m \in 1..(Bound(j) - 1)
      PROVE  m \in Indexed \cup ToEnact \/ Reached(1, j, m)
  BY <1>2, Zenon DEF FollowInv
<1>4. ASSUME NEW j \in 1..(L + 2), NEW m \in 1..(Bound(j)' - 1)
      PROVE  m \in Indexed \cup ToEnact \/ Reached(1, j, m)'
  <2>1. CASE j \in 1..(L + 1)
    <3>1. m \in 1..(Bound(j) - 1)
      BY <1>7, <2>1
    <3> QED
      BY <1>1, <1>3, <2>1, <3>1
  <2>2. CASE j = L + 2 /\ m \in (Best + 1)..Best'
    BY <1>2, <1>8, <2>2
  <2>3. CASE j = L + 2 /\ m \in 1..Best
    <3>1. m \in 1..(Bound(L + 1) - 1) /\ L + 1 \in 1..(L + 1) /\ 1 \in Nat \ {0}
      BY <1>2, <2>3
    <3>2. m \in Indexed \cup ToEnact \/ Reached(1, L + 1, m)
      BY <1>3, <3>1, Zenon
    <3> QED
      BY <1>1, <2>3, <3>1, <3>2, Zenon
  <2> QED
    BY <1>2, <2>1, <2>2, <2>3
<1>5. ASSUME NEW i \in DOMAIN stream', stream'[i].reorg,
             NEW j \in (i + 1)..(L + 2), NEW m \in stream'[i].lowest..(Bound(j)' - 1)
      PROVE  Reached(i, j, m)'
  <2>1. CASE i = L + 1
    <3>1. j = L + 2 /\ L + 1 \in i..(j - 1) /\ Covers(stream'[L + 1], m)
      BY <1>2, <1>5, <2>1 DEF Appended, Extends, Covers
    <3> QED
      BY <3>1, Zenon DEF Reached
  <2>2. CASE i \in 1..L
    <3>1. /\ i \in DOMAIN stream /\ stream'[i] = stream[i] /\ i \in 1..(L + 1) /\ i \in Nat \ {0}
          /\ stream[i].lowest \in Nat /\ stream[i].reorg
      BY <1>5, <2>2 DEF Appended
    <3>2. ASSUME NEW k \in (i + 1)..(L + 1), m \in stream[i].lowest..(Bound(k) - 1)
          PROVE  Reached(i, k, m)
      BY <1>2, <3>1, <3>2, Zenon DEF FollowInv
    <3>3. CASE j \in (i + 1)..(L + 1)
      <4>1. j \in 1..(L + 1) /\ Bound(j) \in Int /\ Bound(j)' \in Int /\ Bound(j)' <= Bound(j)
        BY <1>7, <3>1, <3>3
      <4>2. m \in stream[i].lowest..(Bound(j) - 1)
        BY <3>1, <4>1
      <4> QED
        BY <1>1, <3>1, <3>2, <3>3, <4>1, <4>2, Zenon
    <3>4. CASE j = L + 2 /\ m \in (Best + 1)..Best'
      BY <1>8, <3>1, <3>4, Zenon
    <3>5. CASE j = L + 2 /\ m \in stream[i].lowest..Best
      <4>1. L + 1 \in (i + 1)..(L + 1) /\ m \in stream[i].lowest..(Bound(L + 1) - 1)
        BY <1>2, <2>2, <3>5
      <4>2. Reached(i, L + 1, m) /\ L + 1 \in 1..(L + 1)
        BY <1>2, <3>2, <4>1
      <4> QED
        BY <1>1, <3>1, <3>5, <4>2, Zenon
    <3>6. j = L + 2 => m \in stream[i].lowest..Best \/ m \in (Best + 1)..Best'
      BY <1>2, <3>1
    <3>7. j = L + 2 \/ j \in (i + 1)..(L + 1)
      BY <1>2, <3>1
    <3> QED
      BY <3>3, <3>4, <3>5, <3>6, <3>7, Zenon
  <2> QED
    BY <1>2, <2>1, <2>2
<1>6. Indexed' = Indexed /\ ToEnact' = ToEnact /\ Len(stream') + 1 = L + 2
  BY <1>2 DEF Indexed, ToEnact
<1> QED
  BY <1>4, <1>5, <1>6, Zenon DEF FollowInv

\* An import while the indexer follows: its notification comes last, starts no
\* higher than the next height, and ends with the new best number.
LEMMA FollowedImportCovered ==
    ASSUME TablesInv, CoveredInv, Sound',
           NEW h \in Hash \ {Genesis}, Import(h), pc \in Following,
           NEW n, n = Notification(client, client', h),
           Imports(n, client, client', h), Notifies(n, client, client', h)
    PROVE  CoveredInv'
<1>1. Sound /\ UNCHANGED <<db, saved, todo, last, pc>>
  BY Zenon DEF Sound, Import
<1>2. BlocksInv /\ StreamInv /\ FollowInv
  BY <1>1, Zenon DEF CoveredInv
<1>3. Appended(n, Len(stream)) /\ Extends(n)
  BY FollowedFacts, Zenon
<1>4. /\ last \in Nat /\ SavedTo \in Int /\ Indexed \subseteq Nat /\ last <= Best /\ SavedTo <= Best
      /\ \A j \in DOMAIN stream : stream[j].number \in Nat /\ stream[j].lowest \in Nat
  BY <1>2, FollowTypes, AllBelowBest, Zenon
<1>5. BlocksInv'
  BY <1>1, <1>2, <1>3, <1>4, AppendKeepsBlocks, Zenon DEF Imports, Best
<1>6. n.reorg => n.enacted = [i \in 1..(n.number - n.lowest + 1) |-> n.lowest + i - 1]
  BY Zenon DEF Import, TablesInv, Locals, Imports, Notifies
<1>7. StreamInv'
  BY <1>1, <1>2, <1>3, <1>4, <1>6, AppendKeepsStream, Zenon
<1>8. FollowInv'
  BY <1>1, <1>2, <1>3, <1>4, AppendKeepsFollow, Zenon
<1>9. CatchUpInv'
  BY <1>1, Zenon DEF CatchUpInv, Following
<1> QED
  BY <1>5, <1>7, <1>8, <1>9, Zenon DEF CoveredInv

\* The first of L notifications is taken: the others move one place ahead.
Shifted(L) ==
    /\ L \in Nat \ {0} /\ Len(stream) = L /\ DOMAIN stream = 1..L
    /\ Len(stream') = L - 1 /\ DOMAIN stream' = 1..(L - 1)
    /\ \A j \in 1..(L - 1) : stream'[j] = stream[j + 1]
    /\ client' = client /\ Best' = Best /\ Best \in Nat
    /\ \A j \in 1..L : stream[j].number \in Nat /\ stream[j].lowest \in Nat \ {0}

\* Taking a notification shifts the stream.
LEMMA ShiftFacts ==
    ASSUME TablesInv, stream # <<>>, stream' = Tail(stream), client' = client
    PROVE  Shifted(Len(stream)) /\ Head(stream) = stream[1]
<1>1. stream \in Seq(NotificationType)
  BY Zenon DEF TablesInv, Locals
<1>2. Len(stream) \in Nat \ {0} /\ DOMAIN stream = 1..Len(stream) /\ Head(stream) = stream[1]
  BY <1>1, TailFacts, Zenon
<1>3. Len(stream') = Len(stream) - 1 /\ DOMAIN stream' = 1..(Len(stream) - 1)
      /\ \A j \in 1..(Len(stream) - 1) : stream'[j] = stream[j + 1]
  BY <1>1, TailFacts, Zenon
<1>4. /\ Best' = Best /\ Best \in Nat
      /\ \A j \in DOMAIN stream : stream[j].number \in Nat /\ stream[j].lowest \in Nat \ {0}
  BY FollowTypes, Zenon DEF Best
<1> QED
  BY <1>2, <1>3, <1>4, Zenon DEF Shifted

\* The bounds move with the notifications.
LEMMA ShiftBounds ==
    ASSUME NEW L, Shifted(L), NEW j \in 1..L
    PROVE  Bound(j)' = Bound(j + 1)
<1>1. CASE j = L
  BY <1>1 DEF Bound, Shifted
<1>2. CASE j # L
  <2>1. j \in 1..(L - 1) /\ j + 1 # Len(stream) + 1 /\ j # Len(stream') + 1 /\ stream'[j] = stream[j + 1]
    BY <1>2 DEF Shifted
  <2>2. Bound(j + 1) = First(stream[j + 1])
    BY <2>1, Zenon DEF Bound
  <2>3. Bound(j)' = First(stream[j + 1])
    BY <2>1, Zenon DEF Bound, First
  <2> QED
    BY <2>2, <2>3, Zenon
<1> QED
  BY <1>1, <1>2, Zenon

\* What a notification that stays indexes is still reached.
LEMMA ShiftReached ==
    ASSUME NEW L, Shifted(L), NEW i \in 0..(L - 1), NEW j \in 1..L, NEW m,
           Reached(i + 1, j + 1, m), i = 0 => ~Covers(stream[1], m)
    PROVE  Reached(i, j, m)' /\ (i = 0 => Reached(1, j, m)')
<1>1. PICK l \in (i + 1)..((j + 1) - 1) : Covers(stream[l], m)
  BY Zenon DEF Reached
<1>2. L \in Nat /\ l \in Nat /\ l # 0 /\ l <= L /\ (i = 0 => l # 1)
  BY <1>1 DEF Shifted
<1>3. l - 1 \in i..(j - 1) /\ (i = 0 => l - 1 \in 1..(j - 1)) /\ l - 1 \in 1..(L - 1) /\ (l - 1) + 1 = l
  BY <1>2
<1>4. Covers(stream'[l - 1], m)
  BY <1>1, <1>3, Zenon DEF Shifted
<1> QED
  BY <1>3, <1>4, Zenon DEF Reached

\* The notifications that remain keep what StreamInv says of them.
LEMMA ShiftKeepsStream ==
    ASSUME NEW L, Shifted(L), StreamInv, NEW j \in DOMAIN stream'
    PROVE  /\ stream'[j].number <= Best /\ stream'[j].number \in Nat /\ stream'[j].lowest \in Nat
           /\ stream'[j].reorg =>
                  /\ stream'[j].enacted =
                         [i \in 1..(stream'[j].number - stream'[j].lowest + 1) |-> stream'[j].lowest + i - 1]
                  /\ stream'[j].lowest <= stream'[j].number
                  /\ \A i \in 1..(j - 1) : stream'[i].number <= stream'[j].number
                  /\ stream[1].number <= stream'[j].number
                  /\ last <= stream'[j].number /\ SavedTo <= stream'[j].number
<1>1. /\ j + 1 \in DOMAIN stream /\ stream'[j] = stream[j + 1] /\ 1 \in 1..((j + 1) - 1)
      /\ \A i \in 1..(j - 1) : stream'[i] = stream[i + 1] /\ i + 1 \in 1..((j + 1) - 1)
      /\ stream'[j].number \in Nat /\ stream'[j].lowest \in Nat
  BY DEF Shifted
<1>2. stream'[j].reorg => \A i \in 1..(j - 1) : stream'[i].number <= stream'[j].number
  BY <1>1, Zenon DEF StreamInv
<1>3. stream'[j].reorg => stream[1].number <= stream'[j].number
  BY <1>1, Zenon DEF StreamInv
<1>4. stream'[j].number <= Best
  BY <1>1, Zenon DEF StreamInv
<1>5. ASSUME NEW x, x = j + 1, x \in DOMAIN stream, stream[x].reorg
      PROVE  /\ stream[x].enacted =
                    [i \in 1..(stream[x].number - stream[x].lowest + 1) |-> stream[x].lowest + i - 1]
             /\ stream[x].lowest <= stream[x].number
             /\ last <= stream[x].number /\ SavedTo <= stream[x].number
  BY <1>5, Zenon DEF StreamInv
<1> QED
  BY <1>1, <1>2, <1>3, <1>4, <1>5

\* A reorganisation still to be handled, other than the one taken, remains.
LEMMA ShiftReorgs ==
    ASSUME NEW L, Shifted(L), NEW m, ~(stream[1].reorg /\ stream[1].lowest <= m),
           \E i \in DOMAIN stream : stream[i].reorg /\ stream[i].lowest <= m
    PROVE  \E i \in DOMAIN stream' : stream'[i].reorg /\ stream'[i].lowest <= m
<1>1. PICK i \in DOMAIN stream : stream[i].reorg /\ stream[i].lowest <= m
  BY Zenon
<1>2. i - 1 \in DOMAIN stream' /\ stream'[i - 1] = stream[i]
  <2>1. i # 1
    BY <1>1, Zenon
  <2>2. i - 1 \in 1..(L - 1) /\ (i - 1) + 1 = i /\ DOMAIN stream' = 1..(L - 1)
    BY <2>1 DEF Shifted
  <2> QED
    BY <2>2, Zenon DEF Shifted
<1> QED
  BY <1>1, <1>2, Zenon

\* What FollowInv says of the reorganisations that remain.
LEMMA ShiftKeepsFollow ==
    ASSUME NEW L, Shifted(L), FollowInv, pc \in Following,
           NEW i \in DOMAIN stream', stream'[i].reorg,
           NEW j \in (i + 1)..(Len(stream') + 1), NEW m \in stream'[i].lowest..(Bound(j)' - 1)
    PROVE  Reached(i, j, m)'
<1>1. /\ i + 1 \in DOMAIN stream /\ stream'[i] = stream[i + 1] /\ j \in 1..L /\ i \in 0..(L - 1) /\ i # 0
      /\ j + 1 \in ((i + 1) + 1)..(Len(stream) + 1)
  BY DEF Shifted
<1>2. Bound(j)' = Bound(j + 1)
  BY <1>1, ShiftBounds, Zenon
<1>3. Reached(i + 1, j + 1, m)
  BY <1>1, <1>2, Zenon DEF FollowInv
<1> QED
  BY <1>1, <1>3, ShiftReached, Zenon

\* The heights before the first notification are indexed.
LEMMA BeforeFirst ==
    ASSUME NEW L, Shifted(L), FollowInv, pc \in Following, ToEnact = {},
           NEW m \in 1..(First(stream[1]) - 1)
    PROVE  m \in Indexed
<1>1. Bound(1) = First(stream[1]) /\ 1 \in 1..(Len(stream) + 1)
  BY DEF Bound, Shifted
<1>2. ~Reached(1, 1, m)
  BY DEF Reached
<1> QED
  BY <1>1, <1>2, Zenon DEF FollowInv

\* Height k is indexed, all heights below it being indexed already.
Added(k) ==
    /\ k \in Nat /\ k <= Best /\ Best \in Nat /\ last' = k /\ Indexed \subseteq Nat
    /\ Indexed' = Indexed \cup {k} /\ 1..k \subseteq Indexed'
    /\ db'.blocks[k] = BlockHash(client, k)
    /\ \A m \in Indexed : m # k => db'.blocks[m] = db.blocks[m]
    /\ Best' = Best /\ SavedTo' = SavedTo /\ client' = client

\* What index_block commits.
LEMMA AddedFacts ==
    ASSUME TablesInv, NEW k \in Nat, k <= Best, RowFollows, 1..(k - 1) \subseteq Indexed,
           db' = IndexBlock(db, k, BlockHash(client, k)), last' = k, UNCHANGED <<client, saved>>
    PROVE  Added(k)
<1>1. RowAdded(k)
  BY Zenon DEF RowFollows, Best
<1>2. Indexed' = Indexed \cup {k} /\ db'.blocks[k] = BlockHash(client, k)
      /\ \A m \in Indexed : m # k => db'.blocks[m] = db.blocks[m]
  BY <1>1, Zenon DEF RowAdded, Indexed
<1>3. 1..k \subseteq Indexed'
  <2>1. \A m \in 1..k : m = k \/ m \in 1..(k - 1)
    OBVIOUS
  <2> QED
    BY <1>2, <2>1, Zenon
<1>4. Best' = Best /\ SavedTo' = SavedTo /\ Best \in Nat /\ Indexed \subseteq Nat
  BY FollowTypes, Zenon DEF Best, SavedTo
<1> QED
  BY <1>2, <1>3, <1>4, Zenon DEF Added

\* The rows with height k among them.
LEMMA AddedRows ==
    ASSUME NEW k, Added(k), BlocksInv, NEW m \in Indexed' \ {0}
    PROVE  /\ m <= Best /\ 1..m \subseteq Indexed'
           /\ \/ db'.blocks[m] = BlockHash(client, m)
              \/ \E i \in DOMAIN stream : stream[i].reorg /\ stream[i].lowest <= m
<1>1. CASE m = k
  BY <1>1, Zenon DEF Added
<1>2. CASE m # k
  <2>1. m \in Indexed \ {0} /\ db'.blocks[m] = db.blocks[m] /\ Indexed \subseteq Indexed'
    BY <1>2, Zenon DEF Added
  <2> QED
    BY <2>1, Zenon DEF BlocksInv
<1> QED
  BY <1>1, <1>2, Zenon

\* A notification without a route: the heights before it are indexed.
LEMMA ImportedCovered ==
    ASSUME TablesInv, CoveredInv, Sound', OnImported, RowFollows
    PROVE  CoveredInv'
<1>1. /\ Sound /\ pc = "Live" /\ pc \in Following /\ stream # <<>> /\ ~Head(stream).reorg
      /\ stream' = Tail(stream) /\ UNCHANGED <<client, saved, todo>>
  BY Zenon DEF Sound, OnImported, Following
<1>2. BlocksInv /\ StreamInv /\ FollowInv /\ todo = <<>> /\ ToEnact = {} /\ ToEnact' = {}
  BY <1>1 DEF CoveredInv, BlocksInv, ToEnact
<1>3. PICK L : Shifted(L) /\ Head(stream) = stream[1]
  BY <1>1, ShiftFacts, Zenon
<1>4. PICK k : k = stream[1].number
  BY Zenon
<1>5. k \in Nat /\ k <= Best
  <2>1. 1 \in DOMAIN stream /\ k \in Nat
    BY <1>3, <1>4 DEF Shifted
  <2> QED
    BY <1>2, <1>4, <2>1, Zenon DEF StreamInv
<1>6. 1..(k - 1) \subseteq Indexed
  BY <1>1, <1>2, <1>3, <1>4, BeforeFirst, Zenon DEF First
<1>7. db' = IndexBlock(db, k, BlockHash(client, k)) /\ last' = k /\ pc' = "SaveLive"
  BY <1>3, <1>4, <1>5, Zenon DEF OnImported, Best
<1>8. Added(k)
  BY <1>1, <1>5, <1>6, <1>7, AddedFacts, Zenon
<1>9. BlocksInv'
  <2>1. ASSUME NEW m \in Indexed' \ {0}
        PROVE  /\ m <= Best' /\ 1..m \subseteq Indexed'
               /\ \/ db'.blocks[m] = BlockHash(client', m)
                  \/ \E i \in DOMAIN stream' : stream'[i].reorg /\ stream'[i].lowest <= m
    BY <1>1, <1>2, <1>3, <1>8, AddedRows, ShiftReorgs, Zenon DEF Added
  <2>2. 1..SavedTo' \subseteq Indexed' \cup ToEnact'
    BY <1>2, <1>8, Zenon DEF BlocksInv, Added
  <2> QED
    BY <1>1, <1>2, <2>1, <2>2, Zenon DEF BlocksInv
<1>10. CatchUpInv'
  BY <1>7, Zenon DEF CatchUpInv, Following
<1>11. StreamInv'
  <2>1. DOMAIN todo' = {}
    BY <1>1, <1>2
  <2> QED
    BY <1>2, <1>3, <1>4, <1>8, <2>1, ShiftKeepsStream, Zenon DEF StreamInv, Added
<1>12. FollowInv'
  <2>1. ASSUME NEW j \in 1..(Len(stream') + 1), NEW m \in 1..(Bound(j)' - 1)
        PROVE  m \in Indexed' \/ Reached(1, j, m)'
    <3>1. j \in 1..L /\ j + 1 \in 1..(Len(stream) + 1) /\ 0 \in 0..(L - 1) /\ 0 + 1 = 1
      BY <1>3 DEF Shifted
    <3>2. Bound(j)' = Bound(j + 1)
      BY <1>3, <3>1, ShiftBounds, Zenon
    <3>3. m \in Indexed \/ Reached(0 + 1, j + 1, m)
      BY <1>1, <1>2, <3>1, <3>2, Zenon DEF FollowInv
    <3>4. Covers(stream[1], m) => m = k
      BY <1>1, <1>3, <1>4, Zenon DEF Covers
    <3>5. m \in Indexed \cup {k} \/ Reached(1, j, m)'
      BY <1>3, <3>1, <3>3, <3>4, ShiftReached, Zenon
    <3> QED
      BY <1>8, <3>5, Zenon DEF Added
  <2>2. 1..last' \subseteq Indexed'
    BY <1>8, Zenon DEF Added
  <2> QED
    BY <1>1, <1>2, <1>3, <2>1, <2>2, ShiftKeepsFollow, Zenon DEF FollowInv
<1> QED
  BY <1>9, <1>10, <1>11, <1>12, Zenon DEF CoveredInv

\* The rows from lo on are reverted, and the heights from lo to N are to be
\* enacted: the route of the first notification.
Reverted(lo, N) ==
    /\ lo \in Nat \ {0} /\ N \in Nat /\ lo <= N /\ N <= Best /\ Best \in Nat
    /\ stream[1].reorg /\ stream[1].lowest = lo /\ stream[1].number = N
    /\ SavedTo \in Int /\ SavedTo <= N /\ last' = lo - 1 /\ Indexed \subseteq Nat
    /\ Indexed' = {m \in Indexed : m <= lo - 1} /\ 1..(lo - 1) \subseteq Indexed'
    /\ \A m \in Indexed' : db'.blocks[m] = db.blocks[m]
    /\ DOMAIN todo' = 1..(N - lo + 1) /\ \A p \in 1..(N - lo + 1) : todo'[p] = lo + p - 1
    /\ Best' = Best /\ SavedTo' = SavedTo /\ client' = client

\* What a reorganisation does.
LEMMA ReorgFacts ==
    ASSUME TablesInv, OnReorg, RowsReverted, StreamInv, FollowInv, pc \in Following, ToEnact = {}
    PROVE  \E L, lo, N : Shifted(L) /\ Reverted(lo, N)
<1>1. /\ stream # <<>> /\ Head(stream).reorg /\ stream' = Tail(stream) /\ UNCHANGED <<client, saved>>
      /\ todo' = Head(stream).enacted /\ last' = Head(stream).lowest - 1
  BY Zenon DEF OnReorg
<1>2. PICK L : Shifted(L) /\ Head(stream) = stream[1]
  BY <1>1, ShiftFacts, Zenon
<1>3. PICK lo, N : lo = stream[1].lowest /\ N = stream[1].number
  BY Zenon
<1>4. lo \in Nat \ {0} /\ N \in Nat /\ 1 \in DOMAIN stream /\ Best \in Nat
  BY <1>2, <1>3 DEF Shifted
<1>5. lo <= N /\ N <= Best /\ SavedTo <= N /\ todo' = [i \in 1..(N - lo + 1) |-> lo + i - 1]
  BY <1>1, <1>2, <1>3, <1>4 DEF StreamInv
<1>6. DOMAIN todo' = 1..(N - lo + 1) /\ \A p \in 1..(N - lo + 1) : todo'[p] = lo + p - 1
  BY <1>5, Zenon
<1>7. /\ Indexed' = {m \in Indexed : m <= lo - 1}
      /\ \A m \in Indexed' : db'.blocks[m] = db.blocks[m]
  BY <1>2, <1>3, Zenon DEF RowsReverted, Indexed
<1>8. \A m \in 1..(lo - 1) : m \in Indexed
  BY <1>1, <1>2, <1>3, BeforeFirst, Zenon DEF First
<1>9. 1..(lo - 1) \subseteq Indexed'
  BY <1>4, <1>7, <1>8
<1>10. Best' = Best /\ SavedTo' = SavedTo /\ SavedTo \in Int /\ Indexed \subseteq Nat
  BY <1>1, FollowTypes, Zenon DEF Best, SavedTo
<1>11. Reverted(lo, N)
  BY <1>1, <1>2, <1>3, <1>4, <1>5, <1>6, <1>7, <1>9, <1>10, Zenon DEF Reverted
<1> QED
  BY <1>2, <1>11, Zenon

\* The heights to be enacted are those of the route.
LEMMA ReorgEnacts ==
    ASSUME NEW lo, NEW N, Reverted(lo, N)
    PROVE  ToEnact' = lo..N
<1>1. ASSUME NEW m \in lo..N PROVE m \in ToEnact'
  <2>1. m - lo + 1 \in 1..(N - lo + 1) /\ lo + (m - lo + 1) - 1 = m
    BY DEF Reverted
  <2>2. todo'[m - lo + 1] = m /\ m - lo + 1 \in DOMAIN todo'
    BY <2>1, Zenon DEF Reverted
  <2> QED
    BY <2>2, Zenon DEF ToEnact
<1>2. ASSUME NEW m \in ToEnact' PROVE m \in lo..N
  <2>1. PICK p \in DOMAIN todo' : m = todo'[p]
    BY Zenon DEF ToEnact
  <2> QED
    BY <2>1 DEF Reverted
<1> QED
  BY <1>1, <1>2, Zenon

\* The rows below the route stay; those from it on are to be enacted.
LEMMA ReorgBlocks ==
    ASSUME NEW L, Shifted(L), NEW lo, NEW N, Reverted(lo, N), BlocksInv, pc' = "Enacted"
    PROVE  BlocksInv'
<1>1. ASSUME NEW m \in Indexed' \ {0}
      PROVE  /\ m <= Best /\ 1..m \subseteq Indexed'
             /\ \/ db'.blocks[m] = BlockHash(client, m)
                \/ \E i \in DOMAIN stream' : stream'[i].reorg /\ stream'[i].lowest <= m
  <2>1. /\ m \in Indexed \ {0} /\ m \in Nat /\ m <= lo - 1 /\ db'.blocks[m] = db.blocks[m]
    BY Zenon DEF Reverted
  <2>2. ~(stream[1].lowest <= m) /\ \A x \in 1..m : x \in 1..(lo - 1)
    BY <2>1 DEF Reverted
  <2>3. 1..m \subseteq Indexed' /\ m <= Best
    BY <2>1, <2>2, Zenon DEF Reverted, BlocksInv
  <2> QED
    BY <2>1, <2>2, <2>3, ShiftReorgs, Zenon DEF BlocksInv
<1>2. ASSUME NEW m \in 1..SavedTo PROVE m \in Indexed' \cup ToEnact'
  <2>1. m \in 1..(lo - 1) \/ m \in lo..N
    BY DEF Reverted
  <2>2. ToEnact' = lo..N
    BY ReorgEnacts, Zenon
  <2>3. 1..(lo - 1) \subseteq Indexed'
    BY Zenon DEF Reverted
  <2> QED
    BY <2>1, <2>2, <2>3, Zenon
<1> QED
  BY <1>1, <1>2, Zenon DEF BlocksInv, Reverted

\* The route is at most the number of every later reorganisation.
LEMMA ReorgStream ==
    ASSUME NEW L, Shifted(L), NEW lo, NEW N, Reverted(lo, N), StreamInv
    PROVE  StreamInv'
<1>1. ASSUME NEW j \in DOMAIN stream', stream'[j].reorg
      PROVE  last' <= stream'[j].number /\ \A p \in DOMAIN todo' : todo'[p] <= stream'[j].number
  <2>1. N <= stream'[j].number /\ stream'[j].number \in Nat
    BY <1>1, ShiftKeepsStream, Zenon DEF Reverted
  <2> QED
    BY <2>1 DEF Reverted
<1>2. ASSUME NEW p \in DOMAIN todo'
      PROVE  /\ todo'[p] \in 1..Best
             /\ \A m \in 1..(todo'[p] - 1) : m \in Indexed' \/ \E q \in 1..(p - 1) : todo'[q] = m
  <2>1. todo'[p] = lo + p - 1 /\ p \in 1..(N - lo + 1) /\ todo'[p] \in 1..Best
    BY DEF Reverted
  <2>2. ASSUME NEW m \in 1..(todo'[p] - 1), m \notin 1..(lo - 1)
        PROVE  \E q \in 1..(p - 1) : todo'[q] = m
    <3>1. m - lo + 1 \in 1..(p - 1) /\ m - lo + 1 \in 1..(N - lo + 1) /\ lo + (m - lo + 1) - 1 = m
      <4>1. lo \in Nat \ {0} /\ N \in Nat
        BY Zenon DEF Reverted
      <4> QED
        BY <2>1, <2>2, <4>1
    <3>2. todo'[m - lo + 1] = m
      BY <3>1, Zenon DEF Reverted
    <3> QED
      BY <3>1, <3>2, Zenon
  <2> QED
    BY <2>1, <2>2, Zenon DEF Reverted
<1>3. Best' = Best /\ SavedTo' = SavedTo
  BY Zenon DEF Reverted
<1> QED
  BY <1>1, <1>2, <1>3, ShiftKeepsStream, Zenon DEF StreamInv

\* What is reverted is to be enacted, or covered by a later notification.
LEMMA ReorgFollow ==
    ASSUME NEW L, Shifted(L), NEW lo, NEW N, Reverted(lo, N), FollowInv, pc \in Following
    PROVE  FollowInv'
<1>1. ASSUME NEW j \in 1..(Len(stream') + 1), NEW m \in 1..(Bound(j)' - 1)
      PROVE  m \in Indexed' \cup ToEnact' \/ Reached(1, j, m)'
  <2>1. CASE m \in 1..(lo - 1)
    BY <2>1, Zenon DEF Reverted
  <2>2. CASE m \notin 1..(lo - 1)
    <3>1. /\ j \in 1..L /\ j + 1 \in (1 + 1)..(Len(stream) + 1) /\ 0 \in 0..(L - 1) /\ 0 + 1 = 1
          /\ 1 \in DOMAIN stream
      BY DEF Shifted
    <3>2. Bound(j)' = Bound(j + 1)
      BY <3>1, ShiftBounds, Zenon
    <3>3. m \in stream[1].lowest..(Bound(j + 1) - 1)
      BY <2>2, <3>2 DEF Reverted
    <3>4. Reached(0 + 1, j + 1, m)
      BY <3>1, <3>3, Zenon DEF FollowInv, Reverted
    <3>5. Covers(stream[1], m) => m \in ToEnact'
      <4>1. ToEnact' = lo..N
        BY ReorgEnacts, Zenon
      <4> QED
        BY <4>1, Zenon DEF Covers, Reverted
    <3> QED
      BY <3>1, <3>4, <3>5, ShiftReached, Zenon
  <2> QED
    BY <2>1, <2>2, Zenon
<1>2. 1..last' \subseteq Indexed'
  BY Zenon DEF Reverted
<1> QED
  BY <1>1, <1>2, ShiftKeepsFollow, Zenon DEF FollowInv

\* A notification with a route: what is reverted is to be enacted, or covered by
\* a later notification.
LEMMA ReorgCovered ==
    ASSUME TablesInv, CoveredInv, Sound', OnReorg, RowsReverted
    PROVE  CoveredInv'
<1>1. Sound /\ pc = "Live" /\ pc \in Following /\ pc' = "Enacted"
  BY Zenon DEF Sound, OnReorg, Following
<1>2. BlocksInv /\ StreamInv /\ FollowInv /\ ToEnact = {}
  BY <1>1 DEF CoveredInv, BlocksInv, ToEnact
<1>3. PICK L, lo, N : Shifted(L) /\ Reverted(lo, N)
  BY <1>1, <1>2, ReorgFacts, Zenon
<1>4. BlocksInv' /\ StreamInv' /\ FollowInv'
  BY <1>1, <1>2, <1>3, ReorgBlocks, ReorgStream, ReorgFollow, Zenon
<1>5. CatchUpInv'
  BY <1>1, Zenon DEF CatchUpInv, Following
<1> QED
  BY <1>4, <1>5, Zenon DEF CoveredInv

\* The heights still to be enacted, without the first one.
Popped(L) ==
    /\ L \in Nat \ {0} /\ DOMAIN todo = 1..L
    /\ DOMAIN todo' = 1..(L - 1) /\ \A p \in 1..(L - 1) : todo'[p] = todo[p + 1]

\* The heights that remain, and what StreamInv says of them.
LEMMA PoppedKeeps ==
    ASSUME NEW L, Popped(L), Added(todo[1]), StreamInv, stream' = stream
    PROVE  ToEnact \subseteq ToEnact' \cup {todo[1]} /\ StreamInv'
<1>1. ASSUME NEW m \in ToEnact, m # todo[1] PROVE m \in ToEnact'
  <2>1. PICK p \in DOMAIN todo : m = todo[p]
    BY Zenon DEF ToEnact
  <2>2. p - 1 \in 1..(L - 1) /\ (p - 1) + 1 = p
    BY <1>1, <2>1 DEF Popped
  <2>3. p - 1 \in DOMAIN todo' /\ todo'[p - 1] = m
    BY <2>1, <2>2, Zenon DEF Popped
  <2> QED
    BY <2>3, Zenon DEF ToEnact
<1>2. \A p \in DOMAIN todo' : p + 1 \in DOMAIN todo /\ todo'[p] = todo[p + 1]
  BY DEF Popped
<1>3. ASSUME NEW j \in DOMAIN stream, stream[j].reorg
      PROVE  last' <= stream[j].number /\ \A p \in DOMAIN todo' : todo'[p] <= stream[j].number
  <2>1. \A p \in DOMAIN todo : todo[p] <= stream[j].number
    BY <1>3, Zenon DEF StreamInv
  <2>2. 1 \in DOMAIN todo /\ last' = todo[1]
    BY DEF Popped, Added
  <2> QED
    BY <1>2, <2>1, <2>2, Zenon
<1>4. ASSUME NEW p \in DOMAIN todo', NEW m \in 1..(todo'[p] - 1), m \notin Indexed'
      PROVE  \E q \in 1..(p - 1) : todo'[q] = m
  <2>1. m \notin Indexed /\ m # todo[1]
    BY <1>4, Zenon DEF Added
  <2>2. PICK q \in 1..((p + 1) - 1) : todo[q] = m
    BY <1>2, <2>1, Zenon DEF StreamInv
  <2>3. q - 1 \in 1..(p - 1) /\ q - 1 \in 1..(L - 1) /\ (q - 1) + 1 = q
    BY <2>1, <2>2 DEF Popped
  <2> QED
    BY <2>2, <2>3, Zenon DEF Popped
<1>5. \A p \in DOMAIN todo' : todo'[p] \in 1..Best
  BY <1>2, Zenon DEF StreamInv
<1>6. SavedTo' = SavedTo /\ Best' = Best
  BY Zenon DEF Added
<1>7. StreamInv'
  <2>1. ASSUME NEW p \in DOMAIN todo', NEW m \in 1..(todo'[p] - 1)
        PROVE  m \in Indexed' \/ \E q \in 1..(p - 1) : todo'[q] = m
    BY <1>4, Zenon
  <2> QED
    BY <1>3, <1>5, <1>6, <2>1 DEF StreamInv
<1> QED
  BY <1>1, <1>7, Zenon

\* The heights of the new branch are indexed from the lowest on.
LEMMA EnactedCovered ==
    ASSUME TablesInv, CoveredInv, Sound', IndexEnacted, RowFollows
    PROVE  CoveredInv'
<1>1. /\ Sound /\ pc = "Enacted" /\ pc' = pc /\ pc \in Following /\ todo # <<>> /\ todo' = Tail(todo)
      /\ UNCHANGED <<client, saved, stream>>
  BY Zenon DEF Sound, IndexEnacted, Following
<1>2. BlocksInv /\ StreamInv /\ FollowInv
  BY <1>1, Zenon DEF CoveredInv
<1>3. todo \in Seq(Nat) /\ Best \in Nat
  BY FollowTypes, Zenon DEF TablesInv, Locals
<1>4. Popped(Len(todo)) /\ Head(todo) = todo[1]
  BY <1>1, <1>3, TailFacts, Zenon DEF Popped
<1>5. PICK k : k = todo[1]
  BY Zenon
<1>6. k \in Nat /\ k <= Best /\ 1..(k - 1) \subseteq Indexed
  <2>1. k \in 1..Best /\ \A m \in 1..(k - 1) : m \in Indexed \/ \E q \in 1..(1 - 1) : todo[q] = m
    BY <1>2, <1>4, <1>5 DEF StreamInv, Popped
  <2> QED
    BY <1>3, <2>1
<1>7. db' = IndexBlock(db, k, BlockHash(client, k)) /\ last' = k
  BY <1>4, <1>5, <1>6, Zenon DEF IndexEnacted, Best
<1>8. Added(k)
  BY <1>1, <1>6, <1>7, AddedFacts, Zenon
<1>9. ToEnact \subseteq ToEnact' \cup {k} /\ StreamInv'
  BY <1>1, <1>2, <1>4, <1>5, <1>8, PoppedKeeps, Zenon
<1>10. Indexed \cup ToEnact \subseteq Indexed' \cup ToEnact'
  BY <1>8, <1>9, Zenon DEF Added
<1>11. BlocksInv'
  <2>1. ASSUME NEW m \in Indexed' \ {0}
        PROVE  /\ m <= Best' /\ 1..m \subseteq Indexed'
               /\ \/ db'.blocks[m] = BlockHash(client', m)
                  \/ \E i \in DOMAIN stream' : stream'[i].reorg /\ stream'[i].lowest <= m
    BY <1>1, <1>2, <1>8, AddedRows, Zenon DEF Added
  <2>2. 1..SavedTo' \subseteq Indexed' \cup ToEnact'
    BY <1>2, <1>8, <1>10, Zenon DEF BlocksInv, Added
  <2> QED
    BY <1>1, <2>1, <2>2, Zenon DEF BlocksInv
<1>12. CatchUpInv'
  BY <1>1, Zenon DEF CatchUpInv, Following
<1>13. FollowInv'
  <2>1. \A j : Bound(j)' = Bound(j)
    BY <1>1, <1>8, Zenon DEF Bound, Added
  <2>2. \A i, j, m : Reached(i, j, m)' = Reached(i, j, m)
    BY <1>1, Zenon DEF Reached
  <2>3. \A j \in 1..(Len(stream) + 1) : \A m \in 1..(Bound(j) - 1) :
            m \in Indexed' \cup ToEnact' \/ Reached(1, j, m)
    BY <1>1, <1>2, <1>10, Zenon DEF FollowInv
  <2>4. 1..last' \subseteq Indexed'
    BY <1>8, Zenon DEF Added
  <2> QED
    BY <1>1, <1>2, <2>1, <2>2, <2>3, <2>4, Zenon DEF FollowInv
<1> QED
  BY <1>9, <1>11, <1>12, <1>13, Zenon DEF CoveredInv

\* Nothing is indexed and nothing saved at the start.
LEMMA CoveredInit == Init => CoveredInv
<1> SUFFICES ASSUME Init PROVE CoveredInv
  BY Zenon
<1>1. /\ stream = <<>> /\ todo = <<>> /\ pc = "Down" /\ Indexed = {} /\ SavedTo = 0
      /\ DOMAIN stream = {} /\ DOMAIN todo = {}
  BY DEF Init, EmptyDb, EmptyMap, NoState, Indexed, SavedTo
<1> QED
  BY <1>1 DEF CoveredInv, BlocksInv, CatchUpInv, StreamInv, FollowInv, Following
=============================================================================
