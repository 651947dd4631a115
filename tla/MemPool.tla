------------------------------- MODULE MemPool -------------------------------
(***************************************************************************)
(* The transaction pool: the arena of entries with its cached ancestor and  *)
(* descendant totals and its eviction index, the map of spent outputs, the  *)
(* overlay of unconfirmed coins, and the operations that change them.       *)
(* Every operation holds the pool's write lock, so it is one step.  The     *)
(* client's chain grows and reorganises on its own; the pool learns of it   *)
(* from the notifications.  Amounts, sizes and heights are small numbers,   *)
(* entry times are the order of entry, and scripts, standardness, sigops    *)
(* and nLockTime are reduced to the first check a transaction fails.        *)
(***************************************************************************)
EXTENDS Integers, Sequences, SequencesExt, FiniteSetsExt, Functions

CONSTANTS
    Tx,             \* [ins, values (of the outputs), vsize, rbf, fault, lock (BIP68)]
    BaseCoins,      \* confirmed coins: outpoint -> [value, height, coinbase]
    BaseHeight,     \* height of the chain the node starts with
    Packages,       \* the packages submitted: sets of transactions
    MinRelay,       \* min_relay_feerate, per 1000 virtual bytes
    MaxAncestors, MaxAncestorSize, MaxDescendants, MaxDescendantSize,
    MaxReplacements, MaxSize,
    Maturity,       \* 100, the age of a spendable coinbase
    Half,           \* 2^31: the first u32 that is negative as an i32
    Mined,          \* the blocks that may be mined: sets of transactions
    MaxEntries, MaxBlocks, MaxPending, MaxReorgs        \* bounds of the model

Txid == DOMAIN Tx
MEMPOOL_HEIGHT == Half - 1
None == "none"
EmptyMap == [x \in {} |-> x]

ASSUME MemPoolAssumption ==
    /\ {BaseHeight, MinRelay, MaxAncestors, MaxAncestorSize, MaxDescendants,
        MaxDescendantSize, MaxReplacements, MaxSize, Maturity, Half, MaxEntries, MaxBlocks, MaxPending, MaxReorgs} \subseteq Nat
    /\ Half > BaseHeight + MaxBlocks + Maturity
    /\ \A s \in Packages \cup Mined : s \subseteq Txid
    /\ \A t \in Txid : Tx[t].vsize > 0

VARIABLES
    pool,       \* MemPoolInner and CoinsViewCache
    chain,      \* blocks of the client above BaseHeight: sets of transactions
    events,     \* notifications about the chain that the pool has not handled
    reorgs,     \* number of reorganisations so far
    poisoned,   \* an operation panicked holding the locks
    lapses      \* history: which operations that leave traces have happened

vars == <<pool, chain, events, reorgs, poisoned, lapses>>

-----------------------------------------------------------------------------
(* The chain and the coins.                                                 *)

OutPoints(t) == {<<t, i>> : i \in DOMAIN Tx[t].values}

Confirmed(blocks) == UNION Range(blocks)

HeightOf(blocks) == BaseHeight + Len(blocks)

\* The UTXO set after the blocks.
Unspent(blocks) ==
    (DOMAIN BaseCoins \cup UNION {OutPoints(t) : t \in Confirmed(blocks)})
        \ UNION {Tx[t].ins : t \in Confirmed(blocks)}

ConfirmedCoin(blocks, o) ==
    IF o \in DOMAIN BaseCoins THEN BaseCoins[o]
    ELSE [value |-> Tx[o[1]].values[o[2]],
          height |-> BaseHeight + (CHOOSE n \in DOMAIN blocks : o[1] \in blocks[n]),
          coinbase |-> FALSE]

\* CoinsViewCache::get_coin.  The base cache only holds answers of the runtime at
\* best_block and is cleared whenever best_block changes; mempool_spends stays empty.
HaveCoin(p, o) == o \in p.overlay \cup Unspent(p.view)

GetCoin(p, o) ==
    IF o \in p.overlay
    THEN [value |-> Tx[o[1]].values[o[2]], height |-> MEMPOOL_HEIGHT, coinbase |-> FALSE]
    ELSE ConfirmedCoin(p.view, o)

-----------------------------------------------------------------------------
(* The arena.                                                               *)

Live(p) == DOMAIN p.entries

IdsOf(p, txids) == {i \in Live(p) : p.entries[i].tx \in txids}

Vsize(p, i) == Tx[p.entries[i].tx].vsize

Feerate(fee, size) == (fee * 1000000) \div size

\* compute_descendant_key, with the entry's handle as the final tie-breaker.
ComputeDescendantKey(e, i) ==
    LET own  == Feerate(e.modified_fee, Tx[e.tx].vsize)
        desc == Feerate(e.fees_with_descendants, e.size_with_descendants)
    IN <<-(IF own > desc THEN own ELSE desc), e.size_with_descendants, e.time, i>>

KeyLess(k, l) ==
    \E n \in 1..4 : k[n] < l[n] /\ \A m \in 1..(n - 1) : k[m] = l[m]

Keyed(e, i) == [e EXCEPT !.key = ComputeDescendantKey(e, i)]

ArenaInsert(p, i, e) ==
    [p EXCEPT !.entries = (i :> Keyed(e, i)) @@ @,
              !.index = @ \cup {ComputeDescendantKey(e, i)}]

\* Mutant: the entry is removed under its new key.
ReindexUnderNewKey(p, i, e) ==
    [p EXCEPT !.entries[i] = Keyed(e, i),
              !.index = (@ \ {ComputeDescendantKey(e, i)}) \cup {ComputeDescendantKey(e, i)}]

\* Change an entry: remove it under the key cached in it, insert it under the
\* new one.
Reindex(p, i, e) ==
    [p EXCEPT !.entries[i] = Keyed(e, i),
              !.index = (@ \ {p.entries[i].key}) \cup {ComputeDescendantKey(e, i)}]

UpdateAncestorState(p, i, size, fee, count) ==
    Reindex(p, i, [p.entries[i] EXCEPT !.size_with_ancestors = @ + size,
                                       !.fees_with_ancestors = @ + fee,
                                       !.count_with_ancestors = @ + count])

UpdateDescendantState(p, i, size, fee, count) ==
    Reindex(p, i, [p.entries[i] EXCEPT !.size_with_descendants = @ + size,
                                       !.fees_with_descendants = @ + fee,
                                       !.count_with_descendants = @ + count])

\* Handles reachable from a set by a link; handles of removed entries are
\* included but have no links any more.
Closure(p, ids, link(_)) ==
    FoldLeft(LAMBDA found, n : found \cup UNION {link(p.entries[i]) : i \in found \cap Live(p)},
             ids, [n \in 1..Cardinality(Live(p)) |-> n])

CalculateDescendants(p, ids) == Closure(p, ids, LAMBDA e : e.children)

CalculateAncestors(p, ids) == Closure(p, ids, LAMBDA e : e.parents)

\* remove_staged.  Links and totals of the entries that stay keep what they were:
\* update_descendants only concerns children that stay, and the one caller that
\* asks for it removes every child of what it removes.
RemoveStaged(p, ids) ==
    LET gone == ids \cap Live(p)
        spent == UNION {Tx[p.entries[i].tx].ins : i \in gone}
    IN [p EXCEPT
          !.entries = Restrict(@, Live(p) \ gone),
          !.index = @ \ {p.entries[i].key : i \in gone},
          !.next_tx = Restrict(@, DOMAIN @ \ spent),
          !.unbroadcast = @ \ {p.entries[i].tx : i \in gone},
          !.total_tx_size = @ - MapThenSumSet(LAMBDA i : 4 * Vsize(p, i), gone),
          !.total_fee = @ - MapThenSumSet(LAMBDA i : p.entries[i].fee, gone)]

\* Mutant: the ancestors do not learn of their new child.
LinkChildOneWay(p, anc, id) == p

\* The new entry becomes a child of all its ancestors.
LinkChild(p, anc, id) ==
    [p EXCEPT !.entries = [i \in DOMAIN @ |->
        IF i \in anc THEN [@[i] EXCEPT !.children = @ \cup {id}] ELSE @[i]]]

\* The end of finalize_tx: the maps and statistics that concern the whole pool.
Account(p, t, fee) ==
    [p EXCEPT
       !.next_id = @ + 1,
       !.next_tx = [o \in Tx[t].ins |-> t] @@ @,
       !.overlay = @ \cup OutPoints(t),
       !.total_tx_size = @ + 4 * Tx[t].vsize,
       !.total_fee = @ + fee,
       !.unbroadcast = @ \cup {t}]

\* The entry finalize_tx creates, given its parents and its ancestors.
NewEntry(p, ws, up, anc) ==
    LET size == Tx[ws.tx].vsize
    IN [tx |-> ws.tx, fee |-> ws.fee, modified_fee |-> ws.fee, time |-> p.next_id, key |-> None,
        entry_height |-> ws.height, spends_coinbase |-> ws.coinbase, lock |-> ws.lock,
        count_with_ancestors |-> 1 + Cardinality(anc),
        size_with_ancestors |-> size + MapThenSumSet(LAMBDA i : Vsize(p, i), anc),
        fees_with_ancestors |->
            ws.fee + MapThenSumSet(LAMBDA i : p.entries[i].modified_fee, anc),
        count_with_descendants |-> 1, size_with_descendants |-> size,
        fees_with_descendants |-> ws.fee, parents |-> up, children |-> {}]

\* Both totals of every ancestor count the new transaction.
UpdateAncestors(p, anc, size, fee) ==
    FoldSet(LAMBDA i, q : UpdateDescendantState(
                             UpdateAncestorState(q, i, size, fee, 1), i, size, fee, 1),
            p, anc)

AddEntry(p, ws, up, anc) ==
    LET linked == LinkChild(ArenaInsert(p, p.next_id, NewEntry(p, ws, up, anc)), anc, p.next_id)
    IN Account(UpdateAncestors(linked, anc, Tx[ws.tx].vsize, ws.fee), ws.tx, ws.fee)

\* The parents are looked up, and their ancestors, in the pool without conflicts.
EnterPool(p, ws, up) == AddEntry(p, ws, up, CalculateAncestors(p, up))

WithoutConflicts(p, ws) ==
    [RemoveStaged(p, ws.conflicts) EXCEPT
       !.overlay = @ \ UNION {OutPoints(p.entries[c].tx) : c \in ws.conflicts \cap Live(p)}]

\* finalize_tx of the workspace ws: conflicts out, the entry in, every ancestor's
\* links and totals (the ancestor totals too) adjusted.
FinalizeTx(p, ws) ==
    LET q == WithoutConflicts(p, ws)
    IN EnterPool(q, ws, IdsOf(q, {o[1] : o \in Tx[ws.tx].ins}))

-----------------------------------------------------------------------------
(* Validation.                                                              *)

GetFee(size) == (MinRelay * size) \div 1000

ValueOut(t) == FoldLeft(LAMBDA sum, v : sum + v, 0, Tx[t].values)

ValueIn(p, t) == MapThenSumSet(LAMBDA o : GetCoin(p, o).value, Tx[t].ins)

FirstFailure(checks) ==
    LET n == SelectInSeq(checks, LAMBDA c : c[1])
    IN IF n = 0 THEN None ELSE checks[n][2]

\* The rules of check_rbf_policy for the conflicts of t, direct and all of them.
RbfRefusal(p, t, fee, direct, all, known) ==
    LET replaced == MapThenSumSet(LAMBDA i : p.entries[i].modified_fee, known)
        size     == MapThenSumSet(LAMBDA i : Vsize(p, i), known)
        parents  == IdsOf(p, {o[1] : o \in Tx[t].ins})
    IN FirstFailure(<<
            <<direct = {}, "NoConflictToReplace">>,
            <<Cardinality(all) > MaxReplacements, "TooManyReplacements">>,
            <<\E i \in direct : ~Tx[p.entries[i].tx].rbf, "TxNotReplaceable">>,
            <<all # known, "MissingConflict">>,
            <<~(parents \subseteq all), "NewUnconfirmedInput">>,
            <<\/ fee <= replaced
              \/ fee - replaced < GetFee(Tx[t].vsize)
              \/ fee - replaced < GetFee(size), "InsufficientFee">> >>)

RbfVerdict(p, t, fee, direct, all) ==
    [all |-> all, why |-> RbfRefusal(p, t, fee, direct, all, all \cap Live(p))]

\* check_rbf_policy, given the fee the workspace holds when it is called.
CheckRbfPolicy(p, t, fee) ==
    LET direct == IdsOf(p, {p.next_tx[o] : o \in Tx[t].ins \cap DOMAIN p.next_tx})
    IN RbfVerdict(p, t, fee, direct, CalculateDescendants(p, direct))

ToI32(n) == IF n >= Half THEN n - 2 * Half ELSE n

\* calculate_lock_points_at_tip: the height from which BIP68 lets t be mined.
LockHeight(p, t) ==
    Max({-1} \cup {ToI32(GetCoin(p, o).height + Tx[t].lock + 1) :
                        o \in {o \in Tx[t].ins : Tx[t].lock >= 0}})

\* The checks of pre_checks in their order, given what the lookups found.
PreCheckRefusal(p, t, h, rbf, found, coins, fee, lock) ==
    FirstFailure(<<
        <<Tx[t].fault \in {"TxError", "Coinbase", "NotStandard"}, Tx[t].fault>>,
        <<IdsOf(p, {t}) # {}, "AlreadyInMempool">>,
        <<rbf.why # None, rbf.why>>,
        <<~found, "MissingInputs">>,
        <<\E c \in coins : c.coinbase /\ h - c.height < Maturity, "NonFinal">>,
        <<fee < 0, "NegativeFee">>,
        <<fee < GetFee(Tx[t].vsize), "FeeTooLow">>,
        <<Tx[t].fault \in {"NonFinal", "TooManySigops"}, Tx[t].fault>>,
        <<\E c \in coins : c.coinbase /\ Tx[t].lock >= 0, "NonBIP68Final">>,
        <<lock > 0 /\ h < lock, "NonBIP68Final">> >>)

\* The computed values are stored when every check has passed.
Workspace(t, h, why, conflicts, coins, fee, lock) ==
    [tx |-> t, why |-> why, height |-> h, conflicts |-> conflicts,
     fee |-> IF why = None THEN fee ELSE 0,
     lock |-> IF why = None THEN lock ELSE 0,
     coinbase |-> why = None /\ \E c \in coins : c.coinbase]

Checked(p, t, h, rbf, found, coins, fee, lock) ==
    Workspace(t, h, PreCheckRefusal(p, t, h, rbf, found, coins, fee, lock), rbf.all, coins, fee, lock)

\* pre_checks at height h.  The replacement rules are checked first, with the fee
\* of a fresh workspace; a transaction below the fee floor keeps that workspace.
PreChecks(p, t, h) ==
    LET clash == Tx[t].ins \cap DOMAIN p.next_tx # {}
        found == \A o \in Tx[t].ins : HaveCoin(p, o)
    IN Checked(p, t, h,
               IF clash THEN CheckRbfPolicy(p, t, 0) ELSE [all |-> {}, why |-> None],
               found,
               IF found THEN {GetCoin(p, o) : o \in Tx[t].ins} ELSE {},
               IF found THEN ValueIn(p, t) - ValueOut(t) ELSE 0,
               IF found THEN LockHeight(p, t) ELSE -1)

\* What one more transaction of the size would make an ancestor exceed.
DescendantsExceeded(e, size) ==
    \/ e.count_with_descendants + 1 > MaxDescendants
    \/ e.size_with_descendants + size > MaxDescendantSize

\* Mutant: only the parents count as ancestors.
CheckPackageLimitsOfParents(p, t) ==
    LET anc == IdsOf(p, {o[1] : o \in Tx[t].ins})
        size == Tx[t].vsize + MapThenSumSet(LAMBDA i : Vsize(p, i), anc \cap Live(p))
    IN IF Cardinality(anc) + 1 > MaxAncestors THEN {"TooManyAncestors"}
       ELSE IF size > MaxAncestorSize THEN {"AncestorSizeTooLarge"}
       ELSE {"TooManyDescendants" : i \in {i \in anc \cap Live(p) :
                  DescendantsExceeded(p.entries[i], Tx[t].vsize)}}
            \cup {"Panic" : i \in anc \ Live(p)}

\* check_package_limits: the refusals it may answer with (the ancestors are
\* visited in no particular order), none if the transaction is within the limits.
\* A handle of a removed entry among the ancestors makes it panic.
CheckPackageLimits(p, t) ==
    LET anc == CalculateAncestors(p, IdsOf(p, {o[1] : o \in Tx[t].ins}))
        size == Tx[t].vsize + MapThenSumSet(LAMBDA i : Vsize(p, i), anc \cap Live(p))
    IN IF Cardinality(anc) + 1 > MaxAncestors THEN {"TooManyAncestors"}
       ELSE IF size > MaxAncestorSize THEN {"AncestorSizeTooLarge"}
       ELSE {"TooManyDescendants" : i \in {i \in anc \cap Live(p) :
                  DescendantsExceeded(p.entries[i], Tx[t].vsize)}}
            \cup {"Panic" : i \in anc \ Live(p)}

\* The possible refusals of t, with the workspace that would be finalized.
\* In a package that pays the floor as a whole, a low fee is forgiven.
Verdict(t, ws, limits, sponsored) ==
    [ws |-> ws,
     refusals |-> IF ws.why # None /\ ~(sponsored /\ ws.why = "FeeTooLow") THEN {ws.why}
                  ELSE IF limits # {} THEN limits
                  ELSE IF Tx[t].fault = "Script" THEN {"ScriptValidationFailed"} ELSE {}]

Validate(p, t, h, sponsored) ==
    Verdict(t, PreChecks(p, t, h), CheckPackageLimits(p, t), sponsored)

-----------------------------------------------------------------------------
Init ==
    /\ pool = [entries |-> EmptyMap, index |-> {}, next_tx |-> EmptyMap, unbroadcast |-> {},
               total_tx_size |-> 0, total_fee |-> 0, overlay |-> {}, next_id |-> 1,
               view |-> <<>>]
    /\ chain = <<>> /\ events = <<>> /\ reorgs = 0
    /\ poisoned = FALSE /\ lapses = {}

Operation == ~poisoned

Unmoved == UNCHANGED <<chain, events, reorgs>>

\* A refusal leaves the pool as it is; a panic poisons the locks it is holding.
Refuse(why) ==
    /\ poisoned' = (why = "Panic")
    /\ UNCHANGED <<pool, lapses>>

AcceptSingleTransaction(t) ==
    /\ Operation /\ Unmoved
    /\ pool.next_id <= MaxEntries
    /\ LET v == Validate(pool, t, HeightOf(chain), FALSE)
       IN \/ \E why \in v.refusals : Refuse(why)
          \/ /\ v.refusals = {}
             /\ pool' = FinalizeTx(pool, v.ws)
             /\ UNCHANGED <<poisoned, lapses>>

\* topological_sort_package: parents before children, otherwise in any order.
TopologicalOrders(pkg) ==
    {s \in SetToSeqs(pkg) : \A i, j \in DOMAIN s :
        (\E o \in Tx[s[j]].ins : o[1] = s[i]) => i < j}

\* calculate_package_feerate, as the refusal it leads to.
PackageFeeRefusal(p, pkg) ==
    LET known  == p.overlay \cup Unspent(p.view)
                    \cup UNION {OutPoints(t) : t \in pkg \cup {p.entries[i].tx : i \in Live(p)}}
        value(o) == IF o \in DOMAIN BaseCoins THEN BaseCoins[o].value ELSE Tx[o[1]].values[o[2]]
        fee(t) == MapThenSumSet(value, Tx[t].ins) - ValueOut(t)
    IN FirstFailure(<<
         <<~(UNION {Tx[t].ins : t \in pkg} \subseteq known), "MissingInputs">>,
         <<\E t \in pkg : fee(t) < 0, "NegativeFee">>,
         <<(MapThenSumSet(fee, pkg) * 1000) \div MapThenSumSet(LAMBDA t : Tx[t].vsize, pkg) < MinRelay,
           "PackageFeeTooLow">> >>)

\* Phase 1 of validate_package: each transaction is validated against the pool as
\* it was, with the coins of the earlier ones in the overlay.
PreValidatePackage(p, order, h) ==
    FoldLeft(LAMBDA s, t :
               LET v == Validate(s.pool, t, h, TRUE)
               IN IF s.refusals # {} THEN s
                  ELSE IF v.refusals # {} THEN [s EXCEPT !.refusals = v.refusals]
                  ELSE [s EXCEPT !.pool.overlay = @ \cup OutPoints(t), !.ws = Append(@, v.ws)],
             [pool |-> p, ws |-> <<>>, refusals |-> {}], order)

AcceptPackage(pkg) ==
    /\ Operation /\ Unmoved
    /\ pool.next_id + Cardinality(pkg) - 1 <= MaxEntries
    /\ \/ /\ PackageFeeRefusal(pool, pkg) # None
          /\ Refuse(PackageFeeRefusal(pool, pkg))
       \/ /\ PackageFeeRefusal(pool, pkg) = None
          /\ \E order \in TopologicalOrders(pkg) :
               LET s == PreValidatePackage(pool, order, HeightOf(chain))
                   validated == UNION {OutPoints(w.tx) : w \in Range(s.ws)}
               IN \/ \E why \in s.refusals :
                        /\ pool' = [s.pool EXCEPT !.overlay = IF why = "Panic" THEN @ ELSE @ \ validated]
                        /\ poisoned' = (why = "Panic")
                        /\ UNCHANGED lapses
                  \/ /\ s.refusals = {}
                     /\ pool' = FoldLeft(FinalizeTx, s.pool, s.ws)
                     /\ lapses' = lapses
                          \cup {"clash" : t \in {t \in pkg : \E u \in pkg \ {t} :
                                                     Tx[t].ins \cap Tx[u].ins # {}}}
                          \cup {"chained" : t \in {t \in pkg : \E o \in Tx[t].ins : o[1] \in pkg}}
                     /\ UNCHANGED poisoned

-----------------------------------------------------------------------------
(* Removals.  The chain's own operations also drop the overlay's coins.     *)

\* Mutant: the coins of removed transactions stay in the overlay.
DropFromPoolKeepingCoins(p, ids) == RemoveStaged(p, ids)

DropFromPool(p, ids) ==
    [RemoveStaged(p, ids) EXCEPT
       !.overlay = @ \ UNION {OutPoints(p.entries[i].tx) : i \in ids \cap Live(p)}]

CollectConflicts(p, txs) ==
    IdsOf(p, {p.next_tx[o] : o \in UNION {Tx[t].ins : t \in txs} \cap DOMAIN p.next_tx})

\* Mutant: the descendants of conflicts stay.
RemoveForBlockWithoutDescendants(p, event) ==
    [DropFromPool(p, IdsOf(p, event.txs) \cup CollectConflicts(p, event.txs))
       EXCEPT !.view = event.view]

\* Confirmed transactions, what conflicts with them, and all that descends from either.
RemoveForBlock(p, event) ==
    [DropFromPool(p, CalculateDescendants(p, IdsOf(p, event.txs) \cup CollectConflicts(p, event.txs)))
       EXCEPT !.view = event.view]

\* Mutant: lock points are not looked at after a reorganisation.
RemoveForReorgIgnoringLocks(p, event) ==
    LET tip == HeightOf(event.view)
        invalid == {i \in Live(p) :
                      p.entries[i].spends_coinbase /\ tip < p.entries[i].entry_height + Maturity}
    IN [DropFromPool(p, CalculateDescendants(p, invalid)) EXCEPT !.view = event.view]

\* Entries whose lock points or coinbase inputs the new tip no longer satisfies;
\* max_input_block is never set.
RemoveForReorg(p, event) ==
    LET tip == HeightOf(event.view)
        invalid == {i \in Live(p) :
                      \/ p.entries[i].lock > 0 /\ p.entries[i].lock > tip
                      \/ p.entries[i].spends_coinbase /\ tip < p.entries[i].entry_height + Maturity}
    IN [DropFromPool(p, CalculateDescendants(p, invalid)) EXCEPT !.view = event.view]

\* The pool's owner passes on the oldest notification.
Notify ==
    /\ Operation /\ events # <<>>
    /\ events' = Tail(events)
    /\ pool' = IF Head(events).kind = "block" THEN RemoveForBlock(pool, Head(events))
               ELSE RemoveForReorg(pool, Head(events))
    /\ UNCHANGED <<chain, reorgs, poisoned, lapses>>

RemoveConflicts(t) ==
    /\ Operation /\ Unmoved
    /\ CollectConflicts(pool, {t}) # {}
    /\ pool' = DropFromPool(pool, CalculateDescendants(pool, CollectConflicts(pool, {t})))
    /\ UNCHANGED <<poisoned, lapses>>

\* Mutant: a transaction is evicted without its descendants.
TrimToSizeAlone ==
    /\ Operation /\ Unmoved
    /\ pool.total_tx_size > MaxSize
    /\ pool' = FoldLeft(LAMBDA p, n :
                  IF p.total_tx_size <= MaxSize THEN p
                  ELSE LET first == CHOOSE k \in p.index : \A l \in p.index \ {k} : KeyLess(k, l)
                       IN RemoveStaged(p, {first[4]}),
                  pool, [n \in 1..Cardinality(Live(pool)) |-> n])
    /\ lapses' = lapses \cup {"trimmed"}
    /\ UNCHANGED poisoned

\* While the pool is too large, the first cluster of the eviction index goes.
TrimToSize ==
    /\ Operation /\ Unmoved
    /\ pool.total_tx_size > MaxSize
    /\ pool' = FoldLeft(LAMBDA p, n :
                  IF p.total_tx_size <= MaxSize THEN p
                  ELSE LET first == CHOOSE k \in p.index : \A l \in p.index \ {k} : KeyLess(k, l)
                       IN RemoveStaged(p, CalculateDescendants(p, {first[4]})),
                  pool, [n \in 1..Cardinality(Live(pool)) |-> n])
    /\ lapses' = lapses \cup {"trimmed"}
    /\ UNCHANGED poisoned

\* The entries older than a cutoff go, and only they.
Expire(cutoff) ==
    /\ Operation /\ Unmoved
    /\ \E i \in Live(pool) : pool.entries[i].time < cutoff
    /\ pool' = RemoveStaged(pool, {i \in Live(pool) : pool.entries[i].time < cutoff})
    /\ lapses' = lapses \cup {"expired"}
    /\ UNCHANGED poisoned

\* The relay has announced every pending transaction.
MarkBroadcast ==
    /\ Operation /\ Unmoved
    /\ pool.unbroadcast # {}
    /\ pool' = [pool EXCEPT !.unbroadcast = {}]
    /\ UNCHANGED <<poisoned, lapses>>

-----------------------------------------------------------------------------
(* The client's chain.                                                      *)

\* What can be the next block after the blocks.
NextBlocks(blocks) ==
    {b \in Mined :
        /\ b \cap Confirmed(blocks) = {}
        /\ \A t \in b : Tx[t].ins \subseteq Unspent(blocks) \cup UNION {OutPoints(u) : u \in b}
        /\ \A t, u \in b : t # u => Tx[t].ins \cap Tx[u].ins = {}}

BlockEvent(blocks) == [kind |-> "block", txs |-> Last(blocks), view |-> blocks]

ConnectBlock ==
    /\ Operation /\ Len(chain) < MaxBlocks /\ Len(events) < MaxPending
    /\ \E b \in NextBlocks(chain) : chain' = Append(chain, b)
    /\ events' = Append(events, BlockEvent(chain'))
    /\ UNCHANGED <<pool, reorgs, poisoned, lapses>>

\* A branch of one block replaces one or more blocks.
Reorganise ==
    /\ Operation /\ Len(events) < MaxPending
    /\ reorgs < MaxReorgs /\ reorgs' = reorgs + 1
    /\ \E n \in 1..Len(chain) : \E b \in NextBlocks(SubSeq(chain, 1, n - 1)) \ {chain[n]} :
          chain' = Append(SubSeq(chain, 1, n - 1), b)
    /\ events' = events \o <<BlockEvent(chain'), [kind |-> "reorg", txs |-> {}, view |-> chain']>>
    /\ lapses' = lapses \cup {"reorged"}
    /\ UNCHANGED <<pool, poisoned>>

Next ==
    \/ \E t \in Txid : AcceptSingleTransaction(t)
    \/ \E pkg \in Packages : AcceptPackage(pkg)
    \/ Notify
    \/ \E t \in Txid : RemoveConflicts(t)
    \/ TrimToSize
    \/ \E cutoff \in 2..pool.next_id : Expire(cutoff)
    \/ MarkBroadcast
    \/ ConnectBlock
    \/ Reorganise

Spec == Init /\ [][Next]_vars

-----------------------------------------------------------------------------
\* The variables have their types: heights, sizes and fees are numbers, keys of
\* the maps are the handles and outpoints they should be.
TypeOK ==
    /\ pool.next_id \in 1..(MaxEntries + 1) /\ Live(pool) \subseteq 1..(pool.next_id - 1)
    /\ \A i \in Live(pool) :
          LET e == pool.entries[i]
          IN /\ e.tx \in Txid /\ {e.fee, e.modified_fee} \subseteq Nat
             /\ e.parents \cup e.children \subseteq 1..(pool.next_id - 1)
             /\ {e.count_with_ancestors, e.count_with_descendants} \subseteq 1..(2 * MaxEntries)
    /\ Range(pool.next_tx) \cup pool.unbroadcast \subseteq Txid
    /\ {pool.total_tx_size, pool.total_fee} \subseteq Nat
    /\ pool.overlay \subseteq UNION {OutPoints(t) : t \in Txid}
    /\ Len(chain) <= MaxBlocks /\ reorgs \in 0..MaxReorgs /\ poisoned \in BOOLEAN
    /\ lapses \subseteq {"clash", "chained", "trimmed", "expired", "reorged"}

\* The eviction index holds each entry of the arena exactly once, under the key
\* its present totals give, although every change of the totals moves it; and the
\* statistics kept by adding and subtracting are the sums over the entries.
AccountsExact ==
    /\ TypeOK
    /\ pool.index = {ComputeDescendantKey(pool.entries[i], i) : i \in Live(pool)}
    /\ pool.total_tx_size = MapThenSumSet(LAMBDA i : 4 * Vsize(pool, i), Live(pool))
    /\ pool.total_fee = MapThenSumSet(LAMBDA i : pool.entries[i].fee, Live(pool))

\* Transactions of the pool that spend an output of one of txids.
Spenders(txids) == {pool.entries[i].tx : i \in {i \in Live(pool) :
                       \E o \in Tx[pool.entries[i].tx].ins : o[1] \in txids}}

\* Following the children links from an entry finds every transaction of the pool
\* that depends on it, and its descendant count is never below their number: what
\* a removal or the limits rest on.  Trimming and expiry break the links, and a
\* parent that re-enters after a reorganisation is not linked to its children.
DescendantsKnown ==
    lapses \cap {"trimmed", "expired", "reorged"} = {} =>
        \A i \in Live(pool) :
            LET below == IdsOf(pool, Spenders({pool.entries[i].tx}))
            IN /\ below \subseteq CalculateDescendants(pool, {i})
               /\ pool.entries[i].count_with_descendants
                     >= Cardinality(CalculateDescendants(pool, {i}) \cap Live(pool))

\* Chains of unconfirmed transactions stay within the limits as long as they
\* enter one by one and no handle is stale.
LimitsHold ==
    lapses \cap {"chained", "trimmed", "expired", "reorged"} = {} =>
        \A i \in Live(pool) :
            LET above == CalculateAncestors(pool, {i})
                below == CalculateDescendants(pool, {i}) \cap Live(pool)
            IN /\ Cardinality(above) <= MaxAncestors
               /\ MapThenSumSet(LAMBDA j : Vsize(pool, j), above \cap Live(pool)) <= MaxAncestorSize
               /\ Cardinality(below) <= MaxDescendants
               /\ MapThenSumSet(LAMBDA j : Vsize(pool, j), below) <= MaxDescendantSize

\* Every input of a transaction of the pool is an output of another one or an
\* unspent coin of the chain the pool has been told of, whatever was confirmed,
\* replaced or refused meanwhile; no two spend the same output, and map_next_tx
\* names the spender of each: otherwise conflict detection would miss one.  A
\* package that conflicts with itself, and stale handles, are the exceptions.
InputsTracked ==
    "clash" \notin lapses =>
        /\ DOMAIN pool.next_tx = UNION {Tx[pool.entries[i].tx].ins : i \in Live(pool)}
        /\ \A i \in Live(pool) :
              LET ins == Tx[pool.entries[i].tx].ins
              IN /\ \A o \in ins : pool.next_tx[o] = pool.entries[i].tx
                 /\ lapses \cap {"trimmed", "expired", "reorged"} = {} =>
                       ins \subseteq Unspent(pool.view)
                          \cup UNION {OutPoints(pool.entries[j].tx) : j \in Live(pool)}

\* The overlay holds the coins of the transactions of the pool and no others,
\* refused packages included.
OverlayExact ==
    lapses \cap {"trimmed", "expired"} = {} /\ ~poisoned =>
        pool.overlay = UNION {OutPoints(pool.entries[i].tx) : i \in Live(pool)}

\* Once the pool has handled every notification, each transaction that spends
\* confirmed coins could be in the next block: relative locks have passed and
\* coinbases are mature, reorganisations to a lower tip included.
StillFinal ==
    (events = <<>> /\ pool.view = chain) =>
        \A i \in Live(pool) : \A o \in Tx[pool.entries[i].tx].ins \cap Unspent(chain) :
            LET coin == ConfirmedCoin(chain, o)
                tx   == Tx[pool.entries[i].tx]
            IN /\ tx.lock >= 0 => coin.height + tx.lock + 1 <= HeightOf(chain)
               /\ coin.coinbase => HeightOf(chain) - coin.height >= Maturity

\* BIP125 as check_rbf_policy lists it: a replacement is refused for its fee only
\* if its fee does not exceed what it replaces and pay for the bandwidth.
ReplacementJudgedByFee ==
    \A t \in Txid :
        (/\ Tx[t].ins \subseteq Unspent(pool.view)
         /\ Validate(pool, t, HeightOf(chain), FALSE).refusals = {"InsufficientFee"})
            => CheckRbfPolicy(pool, t, ValueIn(pool, t) - ValueOut(t)).why = "InsufficientFee"

\* The expect of check_package_limits, "Ancestor entry must exist", cannot fail as
\* long as no transaction has expired: confirmed, conflicting, trimmed and
\* reorganised transactions leave with all that is linked below them.
NoPanic == "expired" \notin lapses => ~poisoned
=============================================================================
