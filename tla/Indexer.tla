------------------------------- MODULE Indexer -------------------------------
(***************************************************************************)
(* The blockchain indexer: a thread of its own that first fills the gap     *)
(* between its SQLite tables and the client in batches, then follows the    *)
(* client's import notifications, reverting what a reorganisation retracts. *)
(* Every database transaction is one step, so that the node can stop        *)
(* between any two of them; blocks are imported at any time by other tasks. *)
(* `lapses' is a history variable: which of the situations the indexer does *)
(* not handle have occurred.                                                *)
(***************************************************************************)
EXTENDS BlockTree, Sequences, FiniteSetsExt, Functions

CONSTANTS
    Tx, Output,             \* transactions and transaction outputs
    TxsOf,                  \* the transactions of a block
    Inputs, Outputs,        \* the outputs a transaction spends and creates
    Addressed,              \* the outputs whose script has an address
    BatchSize,              \* BATCH_SIZE
    SaveInterval,           \* PROGRESS_SAVE_INTERVAL
    MaxCrashes,             \* bound on restarts
    MaxFailures             \* bound on database errors

ASSUME IndexerAssumption ==
    /\ TxsOf \in [Hash -> SUBSET Tx]
    /\ Inputs \in [Tx -> SUBSET Output] /\ Outputs \in [Tx -> SUBSET Output]
    /\ Addressed \subseteq Output
    /\ BatchSize \in Nat \ {0} /\ SaveInterval \in Nat \ {0}
    /\ MaxCrashes \in Nat /\ MaxFailures \in Nat

VARIABLES
    client,     \* the client: imported blocks and the best one
    db,         \* the tables
    saved,      \* the row of the state table
    pc,         \* what the indexer does next
    before,     \* best_before
    range,      \* the loop of index_block_range
    stream,     \* import notifications not yet received
    todo,       \* heights of the notification being handled
    last,       \* last_indexed
    lapses,     \* situations that have occurred, see above
    budget      \* restarts and database errors left

indexer == <<pc, before, range, stream, todo, last>>
vars == <<client, db, saved, pc, before, range, stream, todo, last, lapses, budget>>

-----------------------------------------------------------------------------
(* The tables.  A spent output keeps the transaction and height spending it. *)

Unspent == [tx |-> "NULL", height |-> 0]

EmptyDb == [blocks |-> EmptyMap, txs |-> EmptyMap, outs |-> EmptyMap, history |-> EmptyMap]

NoState == [kind |-> "None", target |-> 0, at |-> 0]
Historical(target, current) == [kind |-> "HistoricalIndexing", target |-> target, at |-> current]
Active(n) == [kind |-> "Active", target |-> 0, at |-> n]

\* INSERT OR REPLACE: the rows of g win.
Replace(f, g) == [k \in DOMAIN f \cup DOMAIN g |-> IF k \in DOMAIN g THEN g[k] ELSE f[k]]

\* index_block on one block: rows for the block, its transactions and their
\* outputs, which lose any spent mark; then the inputs whose output the
\* database or this block knows with an address are marked.
IndexBlock(d, n, h) ==
    LET txs     == TxsOf[h]
        created == UNION {Outputs[t] : t \in txs}
        known   == (DOMAIN d.outs \cup created) \cap Addressed
        spender(o) == CHOOSE t \in txs : o \in Inputs[t]
        marked  == {o \in known : \E t \in txs : o \in Inputs[t]}
        fresh   == [o \in created |-> [height |-> n, spent |-> Unspent]]
        outs    == Replace(d.outs, fresh)
    IN [blocks  |-> Replace(d.blocks, [m \in {n} |-> h]),
        txs     |-> Replace(d.txs, [t \in txs |-> n]),
        outs    |-> [o \in DOMAIN outs |->
                        IF o \in marked
                          THEN [outs[o] EXCEPT !.spent = [tx |-> spender(o), height |-> n]]
                          ELSE outs[o]],
        history |-> Replace(d.history, [r \in txs \X {n} |-> Inputs[r[1]] \cap known])]

\* The canonical blocks of size heights from first on, in order, in one
\* transaction.
IndexBlocksBatch(d, c, first, size) ==
    LET indexed[i \in 0..size] ==
            IF i = 0 THEN d
            ELSE IndexBlock(indexed[i - 1], first + i - 1, BlockHash(c, first + i - 1))
    IN indexed[size]

\* Mutant: the address history of retracted blocks is not deleted.
RevertToHeightKeepsHistory(d, n) ==
    LET kept == {o \in DOMAIN d.outs : d.outs[o].height <= n}
    IN [blocks  |-> Restrict(d.blocks, {m \in DOMAIN d.blocks : m <= n}),
        txs     |-> Restrict(d.txs, {t \in DOMAIN d.txs : d.txs[t] <= n}),
        outs    |-> [o \in kept |->
                       IF d.outs[o].spent.height > n
                         THEN [d.outs[o] EXCEPT !.spent = Unspent]
                         ELSE d.outs[o]],
        history |-> d.history]

\* Mutant: spent marks set by retracted blocks are not cleared.
RevertToHeightKeepsSpent(d, n) ==
    [blocks  |-> Restrict(d.blocks, {m \in DOMAIN d.blocks : m <= n}),
     txs     |-> Restrict(d.txs, {t \in DOMAIN d.txs : d.txs[t] <= n}),
     outs    |-> Restrict(d.outs, {o \in DOMAIN d.outs : d.outs[o].height <= n}),
     history |-> Restrict(d.history, {r \in DOMAIN d.history : r[2] <= n})]

\* In one transaction: marks set above the height are cleared, rows above it
\* deleted.
RevertToHeight(d, n) ==
    LET kept == {o \in DOMAIN d.outs : d.outs[o].height <= n}
    IN [blocks  |-> Restrict(d.blocks, {m \in DOMAIN d.blocks : m <= n}),
        txs     |-> Restrict(d.txs, {t \in DOMAIN d.txs : d.txs[t] <= n}),
        outs    |-> [o \in kept |->
                       IF d.outs[o].spent.height > n
                         THEN [d.outs[o] EXCEPT !.spent = Unspent]
                         ELSE d.outs[o]],
        history |-> Restrict(d.history, {r \in DOMAIN d.history : r[2] <= n})]

-----------------------------------------------------------------------------
Init ==
    /\ client = GenesisClient
    /\ db = EmptyDb
    /\ saved = NoState
    /\ pc = "Down"
    /\ before = 0
    /\ range = [next |-> 0, end |-> 0, processed |-> 0, batch |-> 0]
    /\ stream = <<>>
    /\ todo = <<>>
    /\ last = 0
    /\ lapses = {}
    /\ budget = [crashes |-> MaxCrashes, failures |-> MaxFailures]

\* The notification of an imported block.  The route is there when the new
\* best block does not extend the old one: lowest is the first block retracted,
\* enacted the heights of the blocks of the new branch, as the indexer reads it.
Notification(old, new, h) ==
    LET common  == Chain[old.best] \cap Chain[new.best]
        fork    == Max({Height[x] : x \in common})
        reorg   == new.best = h /\ Parent[h] # old.best
    IN [number  |-> Height[h],
        reorg   |-> reorg,
        lowest  |-> fork + 1,
        enacted |-> IF reorg THEN [i \in 1..(Height[h] - fork) |-> fork + i] ELSE <<>>]

Reorganises(h) == ImportBlock(client, h).best = h /\ Parent[h] # client.best

\* The indexer has subscribed to the notifications.
Following == {"Live", "Enacted", "SaveLive"}

\* Another task imports a block.  A subscribed indexer is notified.
Import(h) ==
    /\ h \notin client.imported /\ Parent[h] \in client.imported
    /\ client' = ImportBlock(client, h)
    /\ stream' = IF pc \in Following
                   THEN Append(stream, Notification(client, client', h))
                   ELSE stream
    /\ lapses' = lapses
         \cup (IF pc = "Subscribe" THEN {"missed"} ELSE {})
         \cup (IF Reorganises(h) /\ pc \notin Following THEN {"stale"} ELSE {})
         \cup (IF pc \in Following /\ client'.best # h /\ Height[h] < BestNumber(client)
                 THEN {"rewound"} ELSE {})
    /\ UNCHANGED <<db, saved, pc, before, range, todo, last, budget>>

\* run: an iteration of the catch-up loop reads the best number ...
Loop ==
    /\ pc \in {"Down", "Loop"}
    /\ before' = BestNumber(client)
    /\ pc' = "Gap"
    /\ UNCHANGED <<client, db, saved, range, stream, todo, last, lapses, budget>>

StartRange(start, end) ==
    /\ range' = [next |-> start, end |-> end, processed |-> 0, batch |-> 0]
    /\ pc' = "Range"

\* ... handle_index_gap looks at the saved state ...
ResumeHistorical ==
    /\ pc = "Gap" /\ saved.kind = "HistoricalIndexing"
    /\ StartRange(saved.at, saved.target)
    /\ lapses' = IF saved.target <= before THEN lapses \cup {"resumed"} ELSE lapses
    /\ UNCHANGED <<client, db, saved, before, stream, todo, last, budget>>

\* Mutant: the end of the range is taken to be inclusive.
CatchUpShort ==
    /\ pc = "Gap" /\ saved.kind = "Active"
    /\ IF saved.at < BestNumber(client)
         THEN StartRange(saved.at + 1, BestNumber(client))
         ELSE pc' = "Check" /\ UNCHANGED range
    /\ UNCHANGED <<client, db, saved, before, stream, todo, last, lapses, budget>>

CatchUp ==
    /\ pc = "Gap" /\ saved.kind = "Active"
    /\ IF saved.at < BestNumber(client)
         THEN StartRange(saved.at + 1, BestNumber(client) + 1)
         ELSE pc' = "Check" /\ UNCHANGED range
    /\ UNCHANGED <<client, db, saved, before, stream, todo, last, lapses, budget>>

FreshStart ==
    /\ pc = "Gap" /\ saved.kind = "None"
    /\ IF BestNumber(client) > 0
         THEN /\ saved' = Historical(BestNumber(client) + 1, 0)
              /\ StartRange(0, BestNumber(client) + 1)
         ELSE /\ saved' = Active(0)
              /\ pc' = "Check" /\ UNCHANGED range
    /\ UNCHANGED <<client, db, before, stream, todo, last, lapses, budget>>

\* ... index_block_range commits a batch, reading the canonical blocks; a
\* height above the best block is an error, and the indexer will not run.
IndexBatch ==
    /\ pc = "Range" /\ range.next < range.end
    /\ LET stop == Min({range.next + BatchSize, range.end})
           size == stop - range.next
       IN IF stop - 1 <= BestNumber(client)
            THEN /\ db' = IndexBlocksBatch(db, client, range.next, size)
                 /\ range' = [range EXCEPT !.next = stop, !.batch = size,
                                           !.processed = @ + size]
                 /\ pc' = "Save"
            ELSE /\ pc' = "Stopped"
                 /\ UNCHANGED <<db, range>>
    /\ UNCHANGED <<client, saved, before, stream, todo, last, lapses, budget>>

\* Progress is saved after the first batch and at every SaveInterval; after
\* the last batch the state becomes Active.
SaveProgress ==
    /\ pc = "Save" \/ (pc = "Range" /\ range.next >= range.end)
    /\ IF range.next >= range.end
         THEN saved' = Active(range.end - 1) /\ pc' = "Check"
         ELSE /\ saved' = IF range.processed % SaveInterval = 0 \/ range.processed = range.batch
                            THEN Historical(range.end, range.next)
                            ELSE saved
              /\ pc' = "Range"
    /\ UNCHANGED <<client, db, before, range, stream, todo, last, lapses, budget>>

\* Mutant: the best number is compared with what live indexing saw last.
CheckCaughtUpWithLast ==
    /\ pc = "Check"
    /\ pc' = IF BestNumber(client) = last THEN "Subscribe" ELSE "Loop"
    /\ UNCHANGED <<client, db, saved, before, range, stream, todo, last, lapses, budget>>

\* ... and the loop ends when the best number is what it was.
CheckCaughtUp ==
    /\ pc = "Check"
    /\ pc' = IF BestNumber(client) = before THEN "Subscribe" ELSE "Loop"
    /\ UNCHANGED <<client, db, saved, before, range, stream, todo, last, lapses, budget>>

Subscribe ==
    /\ pc = "Subscribe"
    /\ pc' = "Live"
    /\ last' = IF saved.kind = "Active" THEN saved.at ELSE 0
    /\ UNCHANGED <<client, db, saved, before, range, stream, todo, lapses, budget>>

\* A notification without a route: the canonical block at its number is
\* indexed, whichever block was imported.
OnImported ==
    /\ pc = "Live" /\ stream # <<>> /\ ~Head(stream).reorg
    /\ stream' = Tail(stream)
    /\ LET n == Head(stream).number
       IN IF n <= BestNumber(client)
            THEN /\ db' = IndexBlock(db, n, BlockHash(client, n))
                 /\ last' = n
                 /\ pc' = "SaveLive"
            ELSE UNCHANGED <<db, last, pc>>
    /\ UNCHANGED <<client, saved, before, range, todo, lapses, budget>>

\* A notification with a route: retracted blocks are reverted ...
OnReorg ==
    /\ pc = "Live" /\ stream # <<>> /\ Head(stream).reorg
    /\ stream' = Tail(stream)
    /\ db' = RevertToHeight(db, Head(stream).lowest - 1)
    /\ last' = Head(stream).lowest - 1
    /\ todo' = Head(stream).enacted
    /\ pc' = "Enacted"
    /\ UNCHANGED <<client, saved, before, range, lapses, budget>>

\* ... and the enacted heights indexed one by one.
IndexEnacted ==
    /\ pc = "Enacted" /\ todo # <<>>
    /\ todo' = Tail(todo)
    /\ IF Head(todo) <= BestNumber(client)
         THEN /\ db' = IndexBlock(db, Head(todo), BlockHash(client, Head(todo)))
              /\ last' = Head(todo)
         ELSE UNCHANGED <<db, last>>
    /\ UNCHANGED <<client, saved, pc, before, range, stream, lapses, budget>>

SaveLive ==
    /\ pc = "SaveLive" \/ (pc = "Enacted" /\ todo = <<>>)
    /\ saved' = Active(last)
    /\ pc' = "Live"
    /\ UNCHANGED <<client, db, before, range, stream, todo, last, lapses, budget>>

\* A database error: live indexing logs it and goes on with what comes next,
\* catching up gives up for good.
DatabaseError ==
    /\ budget.failures > 0
    /\ budget' = [budget EXCEPT !.failures = @ - 1]
    /\ \/ /\ pc \in {"Gap", "Range", "Save"}
          /\ pc' = "Stopped" /\ UNCHANGED <<stream, todo, last>>
       \/ /\ pc = "Subscribe"
          /\ pc' = "Live" /\ last' = 0 /\ UNCHANGED <<stream, todo>>
       \/ /\ pc = "Live" /\ stream # <<>>
          /\ stream' = Tail(stream) /\ UNCHANGED <<pc, todo, last>>
       \/ /\ pc = "Enacted" /\ todo # <<>>
          /\ todo' = Tail(todo) /\ UNCHANGED <<pc, stream, last>>
       \/ /\ pc = "SaveLive" \/ (pc = "Enacted" /\ todo = <<>>)
          /\ pc' = "Live" /\ UNCHANGED <<stream, todo, last>>
    /\ lapses' = IF pc = "Subscribe" \/ todo' # todo \/ stream' # stream
                   THEN lapses \cup {"failed"} ELSE lapses
    /\ UNCHANGED <<client, db, saved, before, range>>

\* The node stops and starts again: the tables and the client survive.
Crash ==
    /\ pc # "Down" /\ budget.crashes > 0
    /\ budget' = [budget EXCEPT !.crashes = @ - 1]
    /\ pc' = "Down"
    /\ stream' = <<>> /\ todo' = <<>>
    /\ lapses' = IF pc = "Enacted" \/ \E i \in DOMAIN stream : stream[i].reorg
                   THEN lapses \cup {"stale"} ELSE lapses
    /\ UNCHANGED <<client, db, saved, before, range, last>>

Step ==
    \/ Loop \/ ResumeHistorical \/ CatchUp \/ FreshStart
    \/ IndexBatch \/ SaveProgress \/ CheckCaughtUp \/ Subscribe
    \/ OnImported \/ OnReorg \/ IndexEnacted \/ SaveLive

Next ==
    \/ \E h \in Hash \ {Genesis} : Import(h)
    \/ Step
    \/ DatabaseError
    \/ Crash

Spec == Init /\ [][Next]_vars /\ WF_vars(Step)

-----------------------------------------------------------------------------
(* What the tables should hold for the canonical chain up to a height.      *)

Heights == 0..Max({Height[h] : h \in Hash})

\* The tables, the saved state and the local variables of the indexer have
\* their types; saved heights never exceed those of blocks that exist.
TypeOK ==
    /\ client \in ClientType
    /\ DOMAIN db.blocks \subseteq Heights /\ Range(db.blocks) \subseteq Hash
    /\ DOMAIN db.txs \subseteq Tx /\ Range(db.txs) \subseteq Heights
    /\ DOMAIN db.outs \subseteq Output
    /\ DOMAIN db.history \subseteq Tx \X Heights
    /\ saved \in [kind : {"None", "HistoricalIndexing", "Active"}, target : Nat, at : Heights]
    /\ pc \in {"Down", "Loop", "Gap", "Range", "Save", "Check", "Subscribe", "Live",
               "Enacted", "SaveLive", "Stopped"}
    /\ last \in Heights /\ before \in Heights
    /\ lapses \subseteq {"missed", "stale", "rewound", "resumed", "failed"}

CanonicalTxs(n) == UNION {TxsOf[BlockHash(client, m)] : m \in 1..n}

HeightOf(t, n) == CHOOSE m \in 1..n : t \in TxsOf[BlockHash(client, m)]

\* The unspent mark or the canonical transaction spending an output.
SpentMark(o, n) ==
    IF o \in Addressed /\ \E t \in CanonicalTxs(n) : o \in Inputs[t]
      THEN LET t == CHOOSE t \in CanonicalTxs(n) : o \in Inputs[t]
           IN [tx |-> t, height |-> HeightOf(t, n)]
      ELSE Unspent

BlocksExact(n) ==
    /\ DOMAIN db.blocks \ {0} = 1..n
    /\ \A m \in 1..n : db.blocks[m] = BlockHash(client, m)

OutputsExact(n) ==
    /\ DOMAIN db.outs = UNION {Outputs[t] : t \in CanonicalTxs(n)}
    /\ \A t \in CanonicalTxs(n) : \A o \in Outputs[t] :
          db.outs[o] = [height |-> HeightOf(t, n), spent |-> SpentMark(o, n)]

HistoryExact(n) ==
    /\ DOMAIN db.txs = CanonicalTxs(n)
    /\ \A t \in CanonicalTxs(n) : db.txs[t] = HeightOf(t, n)
    /\ DOMAIN db.history = {<<t, HeightOf(t, n)>> : t \in CanonicalTxs(n)}
    /\ \A r \in DOMAIN db.history : db.history[r] = Inputs[r[1]] \cap Addressed

UpToDate == pc = "Live" /\ stream = <<>>

\* Whatever the batches, progress saves, restarts and reorganisations between
\* them: once the indexer follows the chain and has handled every notification,
\* and none of the lapses occurred, each table holds exactly what the canonical
\* chain says, spent marks and re-mined transactions included (run and
\* index_blocks_batch, revert_to_height).
IndexExact ==
    lapses = {} /\ UpToDate =>
        LET n == BestNumber(client)
        IN last = n /\ BlocksExact(n) /\ OutputsExact(n) /\ HistoryExact(n)

\* A side branch block imported below the tip makes the indexer index an old
\* canonical block again, but no block of the chain gets lost by it: the blocks
\* table is still exactly the canonical chain (the branch of run without route).
BlocksCovered ==
    lapses \subseteq {"rewound"} /\ UpToDate => BlocksExact(BestNumber(client))

\* Even when lapses occurred and whichever transaction the node stopped at: a
\* transaction, output or spent mark never refers to a height the blocks table
\* does not have, and a spent mark always has its address history row (the
\* tables change in one database transaction in index_blocks_batch and
\* revert_to_height).
TablesAgree ==
    /\ TypeOK
    /\ \A t \in DOMAIN db.txs : db.txs[t] \in DOMAIN db.blocks
    /\ \A o \in DOMAIN db.outs :
         /\ db.outs[o].height \in DOMAIN db.blocks
         /\ db.outs[o].spent # Unspent =>
              /\ db.outs[o].spent.height \in DOMAIN db.blocks
              /\ <<db.outs[o].spent.tx, db.outs[o].spent.height>> \in DOMAIN db.history

\* The catch-up loop of run ends and the notifications are drained: with finitely
\* many blocks and restarts the indexer is eventually following the chain with
\* nothing left to do, or has reported that it will not run.
CatchesUp == <>[](pc \in {"Live", "Stopped"} /\ stream = <<>>)
=============================================================================
