--------------------------- MODULE DownloadPipeline ---------------------------
(***************************************************************************)
(* The block downloader between whatever strategy drives it and the import  *)
(* queue worker.  A strategy may add a block whose parent it knows, keep an *)
(* orphan, request, restart, or be replaced by a new one with an empty      *)
(* downloader, in any order; block announcements go to the import queue     *)
(* past the downloader.  The results of the import queue come back later.   *)
(* One action is one iteration of the network processor's loop, so that the *)
(* blocks added are handed to the import queue in the same step.            *)
(***************************************************************************)
EXTENDS BlockDownloader

CONSTANTS
    Inventories,    \* the lists of missing blocks a strategy can come up with
    MaxBatches      \* bound on the batches and results under way

ASSUME PipelineAssumption == Inventories \subseteq Seq(Hash) /\ MaxBatches \in Nat

VARIABLES
    d,          \* the downloader
    imported,   \* blocks the client has imported
    queue,      \* batches of the import queue, the first being processed
    results,    \* results sent back and not yet handled
    crashed     \* a panic of the network processor was reached

vars == <<d, imported, queue, results, crashed>>

Batch(todo) == [todo |-> todo, done |-> {}, failed |-> FALSE]

Init ==
    /\ \E p \in Peer : d = NewDownloader(p, 0)
    /\ imported = {Genesis}
    /\ queue = <<>>
    /\ results = <<>>
    /\ crashed = FALSE

-----------------------------------------------------------------------------
(* Iterations of the network processor.                                     *)

\* Mutant: every parent passes for a known one.
KnownAlways(h) == TRUE

Known(h) == IsQueued(d, h) \/ h \in imported

NumberOf(h) == IF IsQueued(d, h) THEN d.hash2number[h] ELSE Height[h]

Room == Len(queue) + Len(results) < MaxBatches

\* add_block, then import_pending_blocks at the end of the iteration.
Added(h, ord) == AddBlock(OnBlockResponse(d, h), NumberOf(Parent[h]) + 1, h, ord)

ReceiveBlock(h, ord) ==
    /\ ~crashed /\ Room
    /\ Known(Parent[h])
    /\ crashed' = CorruptedState(Added(h, ord))
    /\ d' = PrepareBlocksForImport(Added(h, ord))
    /\ queue' = Append(queue, Batch(ImportBatch(Added(h, ord))))
    /\ UNCHANGED <<imported, results>>

ReceiveOrphan(h) ==
    /\ ~crashed
    /\ ~Known(Parent[h])
    /\ d' \in {AddOrphanBlock(OnBlockResponse(d, h), h), AddUnknownBlock(OnBlockResponse(d, h), h)}
    /\ UNCHANGED <<imported, queue, results, crashed>>

\* Mutant: an announced block is imported without looking at its parent.
ReceiveAnnouncedAnyParent(h) ==
    /\ ~crashed /\ Room
    /\ queue' = Append(queue, Batch([b \in {h} |-> Height[h]]))
    /\ UNCHANGED <<d, imported, results, crashed>>

\* An announced block that extends the best one, which is imported.
ReceiveAnnounced(h) ==
    /\ ~crashed /\ Room
    /\ Parent[h] \in imported
    /\ queue' = Append(queue, Batch([b \in {h} |-> Height[h]]))
    /\ UNCHANGED <<d, imported, results, crashed>>

RequestBlocks ==
    /\ ~crashed
    /\ d' = ScheduleNextDownloadBatch(d)
    /\ UNCHANGED <<imported, queue, results, crashed>>

FindMissing(missing) ==
    /\ ~crashed
    /\ d' = SetMissingBlocks(d, missing)
    /\ UNCHANGED <<imported, queue, results, crashed>>

Restart(p) ==
    /\ ~crashed
    /\ d' = RestartDownloader(d, p)
    /\ UNCHANGED <<imported, queue, results, crashed>>

NewStrategy(p) ==
    /\ ~crashed
    /\ \E h \in imported : d' = NewDownloader(p, Height[h])
    /\ UNCHANGED <<imported, queue, results, crashed>>

\* A result other than imported or already known panics.
HandleResults ==
    /\ ~crashed
    /\ results # <<>>
    /\ d' = HandleProcessedBlocks(d, Head(results).done)
    /\ crashed' = Head(results).failed
    /\ results' = Tail(results)
    /\ UNCHANGED <<imported, queue>>

-----------------------------------------------------------------------------
(* The import queue worker.                                                 *)

First(todo, h) == \A b \in DOMAIN todo : todo[h] <= todo[b]

\* import_block refuses a block whose parent is not imported.
Refused(h) == h \notin imported /\ Parent[h] \notin imported

ImportNext(h) ==
    /\ queue # <<>>
    /\ h \in DOMAIN queue[1].todo
    /\ First(queue[1].todo, h)
    /\ LET failed == queue[1].failed \/ Refused(h)
       IN  /\ queue' = [queue EXCEPT ![1] =
                          [todo |-> Drop(@.todo, h), done |-> @.done \cup {h}, failed |-> failed]]
           /\ imported' = IF failed THEN imported ELSE imported \cup {h}
    /\ UNCHANGED <<d, results, crashed>>

SendResults ==
    /\ queue # <<>>
    /\ DOMAIN queue[1].todo = {}
    /\ results' = Append(results, [done |-> queue[1].done, failed |-> queue[1].failed])
    /\ queue' = Tail(queue)
    /\ UNCHANGED <<d, imported, crashed>>

Next ==
    \/ \E h \in Hash \ {Genesis} :
          \/ \E ord \in WalkOrders(d.pool, h) : ReceiveBlock(h, ord)
          \/ ReceiveOrphan(h) \/ ReceiveAnnounced(h) \/ ImportNext(h)
    \/ \E p \in Peer : Restart(p) \/ NewStrategy(p)
    \/ \E missing \in Inventories : FindMissing(missing)
    \/ RequestBlocks \/ HandleResults \/ SendResults

Spec == Init /\ [][Next]_vars

-----------------------------------------------------------------------------
(* Properties.                                                              *)

Fields == {"peer", "missing", "requested", "downloaded", "inQueue", "hash2number",
           "number2hash", "bestQueued", "pool", "status", "fresh", "memory", "lastBatch"}

PartialMap(f, S, T) == DOMAIN f \subseteq S /\ f \in [DOMAIN f -> T]

BatchOK(b) ==
    /\ b = [todo |-> b.todo, done |-> b.done, failed |-> b.failed]
    /\ PartialMap(b.todo, Hash, Nat)
    /\ b.done \subseteq Hash
    /\ b.failed \in BOOLEAN

\* Type invariant, of everything but the downloader's counters.
TypeOK ==
    /\ DOMAIN d = Fields
    /\ d.peer \in Peer
    /\ d.missing \in Seq(Hash)
    /\ d.requested \subseteq Hash
    /\ d.downloaded \subseteq Hash
    /\ d.inQueue \subseteq Hash
    /\ PartialMap(d.hash2number, Hash, Nat)
    /\ PartialMap(d.number2hash, Nat, Hash)
    /\ d.pool \in PoolType
    /\ d.status \in {"Ready", "Saturated"}
    /\ d.fresh \in BOOLEAN
    /\ imported \subseteq Hash
    /\ queue \in Seq(Elements(queue))
    /\ \A i \in DOMAIN queue : BatchOK(queue[i])
    /\ results \in Seq([done : SUBSET Hash, failed : BOOLEAN])
    /\ crashed \in BOOLEAN

\* No panic is reached: neither "Unknown parent" nor "Failed to import block"
\* of handle_processed_blocks, nor the "Corrupted state" lookups of
\* prepare_blocks_for_import, however blocks, restarts, announcements and the
\* results of the import worker interleave.
NoCrash == ~crashed

Waiting == UNION {DOMAIN queue[i].todo : i \in DOMAIN queue}

\* The parent of a block in the import queue is imported or ahead of it.
ParentFirst ==
    \A i \in DOMAIN queue : \A h \in DOMAIN queue[i].todo :
        \/ Parent[h] \in imported
        \/ \E j \in 1..(i - 1) : Parent[h] \in DOMAIN queue[j].todo
        \/ /\ Parent[h] \in DOMAIN queue[i].todo
           /\ queue[i].todo[Parent[h]] < queue[i].todo[h]

\* A block queued_blocks lists is imported, waits in the import queue, or was
\* cut off by the sync target; so a child of it may be queued as well.
QueuedReachImport ==
    \A h \in DOMAIN d.hash2number :
        \/ h \in imported \cup Waiting
        \/ \E target \in SyncTarget : d.hash2number[h] > target

\* Between two iterations nothing is left in downloaded_blocks.
Drained == d.downloaded = {}

\* The imported blocks form a tree rooted in the genesis block.
ImportedClosed == \A h \in imported \ {Genesis} : Parent[h] \in imported

\* What holds of the import queue as long as no block is refused.
NoRefusal ==
    /\ \A i \in DOMAIN queue : ~queue[i].failed
    /\ \A i \in DOMAIN results : ~results[i].failed
    /\ \A i \in DOMAIN queue : Genesis \notin DOMAIN queue[i].todo

\* The inductive invariant behind NoCrash and ParentFirst.
PipelineInv ==
    /\ TypeOK /\ NoCrash /\ ParentFirst /\ QueuedReachImport /\ Drained
    /\ ImportedClosed /\ Genesis \in imported /\ NoRefusal
    /\ PoolConsistent(d.pool) /\ Genesis \notin DOMAIN d.hash2number

\* The pipeline implements the abstract import pipeline.
Abstract == INSTANCE ImportPipeline WITH pending <- Waiting

ImplementsImportPipeline == Abstract!IPSpec
=============================================================================
