--------------------------- MODULE BlockDownloader ---------------------------
(***************************************************************************)
(* The block downloader shared by the two sync strategies.  Its state is a  *)
(* record and every method is an operator from a record to a record, since  *)
(* one handler of a strategy calls several methods in a row.                *)
(*   peer        the peer blocks are requested from                         *)
(*   missing     blocks still to be requested, in order                     *)
(*   requested   blocks requested and not received                          *)
(*   downloaded  blocks received and not yet handed to the import queue     *)
(*   inQueue     blocks handed to the import queue (blocks_in_queue)        *)
(*   hash2number, number2hash   the two maps of queued_blocks               *)
(*   bestQueued  highest number queued so far                               *)
(*   pool        the orphan pool                                            *)
(*   status      last evaluated status of the import queue                  *)
(*   fresh       downloaded_blocks_count is zero for the current peer       *)
(*   memory      downloaded_blocks_memory                                   *)
(*   lastBatch   size of the last batch requested                           *)
(***************************************************************************)
EXTENDS OrphanBlocksPool, Sequences, FiniteSetsExt

CONSTANTS
    Peer,
    MaxRequestSize,     \* blocks per getdata at the heights of the instance
    MaxQueuedBlocks,    \* queued blocks that saturate the import queue
    MaxMemory,          \* max_downloaded_blocks_memory
    MaxBlocksInMemory,  \* max_blocks_in_memory
    SyncTarget          \* the optional target block: {} or {number}

ASSUME DownloaderAssumption ==
    /\ MaxRequestSize \in Nat \ {0}
    /\ MaxQueuedBlocks \in Nat
    /\ MaxMemory \in Nat \ {0}
    /\ MaxBlocksInMemory \in Nat \ {0}
    /\ SyncTarget \in SUBSET Nat

NewDownloader(p, bestNumber) ==
    [peer |-> p, missing |-> <<>>, requested |-> {}, downloaded |-> {},
     inQueue |-> {}, hash2number |-> EmptyMap, number2hash |-> EmptyMap,
     bestQueued |-> bestNumber, pool |-> EmptyPool, status |-> "Ready",
     fresh |-> TRUE, memory |-> 0, lastBatch |-> 0]

IsQueued(d, h) == h \in DOMAIN d.hash2number

IsUnknownBlock(d, h) ==
    ~IsQueued(d, h) /\ h \notin d.requested /\ h \notin d.pool.blocks

SizeOf(S) == MapThenSumSet(LAMBDA h : Size[h], S)

ExceedsMemoryLimits(d) ==
    d.memory > MaxMemory \/ Cardinality(d.downloaded) > MaxBlocksInMemory

ShouldPipeline(d) ==
    LET waiting  == Cardinality(d.requested)
        received == IF waiting > d.lastBatch THEN 0 ELSE d.lastBatch - waiting
    IN  /\ d.missing # <<>>
        /\ d.lastBatch # 0
        /\ received >= d.lastBatch \div 2
        /\ d.requested # {}

\* Mutant: a received block stays requested.
OnBlockResponseKept(d, h) == d

OnBlockResponse(d, h) == [d EXCEPT !.requested = @ \ {h}]

SetMissingBlocks(d, hs) == [d EXCEPT !.missing = hs]

EvaluateQueueStatus(d, bestNumber) ==
    [d EXCEPT !.status =
        IF d.bestQueued > bestNumber + MaxQueuedBlocks \/ ExceedsMemoryLimits(d)
        THEN "Saturated" ELSE "Ready"]

-----------------------------------------------------------------------------
(* Requests: the batch shrinks under memory pressure, above 80% and 60% of  *)
(* either limit.                                                            *)

PressureAbove(d, tenths) ==
    \/ 10 * d.memory > tenths * MaxMemory
    \/ 10 * Cardinality(d.downloaded) > tenths * MaxBlocksInMemory

AtLeastOne(n) == IF n = 0 THEN 1 ELSE n

RequestSize(d) ==
    CASE PressureAbove(d, 8) -> AtLeastOne(MaxRequestSize \div 4)
      [] PressureAbove(d, 6) /\ ~PressureAbove(d, 8) -> AtLeastOne(MaxRequestSize \div 2)
      [] OTHER -> MaxRequestSize

\* The blocks of the next getdata request.
NextBatch(d) ==
    SubSeq(d.missing, 1, IF Len(d.missing) > RequestSize(d)
                         THEN RequestSize(d) ELSE Len(d.missing))

Elements(s) == {s[i] : i \in DOMAIN s}

ScheduleNextDownloadBatch(d) ==
    LET batch == NextBatch(d)
    IN  [d EXCEPT !.missing = SubSeq(@, Len(batch) + 1, Len(@)),
                  !.lastBatch = Len(batch),
                  !.requested = @ \cup Elements(batch)]

RestartDownloader(d, p) ==
    [d EXCEPT !.peer = p, !.fresh = TRUE, !.requested = {},
              !.pool = EmptyPool, !.status = "Ready"]

-----------------------------------------------------------------------------
(* Blocks on their way to the import queue.                                 *)

Override(f, g) ==
    [x \in DOMAIN f \cup DOMAIN g |-> IF x \in DOMAIN g THEN g[x] ELSE f[x]]

\* Mutant: the first orphan gets the number of the block itself.
AssignedNumbersOffByOne(number, h, ord) ==
    [b \in {h} \cup DOMAIN ord |-> IF b = h THEN number ELSE number + ord[b] - 1]

\* The numbers add_block gives: the block itself, then every orphan it
\* connects, numbered by its position in the walk.
AssignedNumbers(number, h, ord) ==
    [b \in {h} \cup DOMAIN ord |-> IF b = h THEN number ELSE number + ord[b]]

AddBlock(d, number, h, ord) ==
    LET assigned == AssignedNumbers(number, h, ord)
        added    == DOMAIN assigned
        numbers  == {assigned[b] : b \in added}
        byNumber == [n \in numbers |-> CHOOSE b \in added : assigned[b] = n]
    IN  [d EXCEPT !.memory = @ + SizeOf(added),
                  !.downloaded = @ \cup added,
                  !.hash2number = Override(@, assigned),
                  !.number2hash = Override(@, byNumber),
                  !.bestQueued = Max(numbers \cup {@}),
                  !.pool = RemoveBlocksForParent(@, h),
                  !.fresh = FALSE]

AddOrphanBlock(d, h) == [d EXCEPT !.pool = InsertOrphanBlock(@, h)]

AddUnknownBlock(d, h) == [d EXCEPT !.pool = InsertUnknownBlock(@, h)]

\* The downloaded blocks that are not above the sync target.
BlocksToImport(d) ==
    {h \in d.downloaded : \A target \in SyncTarget : d.hash2number[h] <= target}

\* The batch handed to the import queue: its blocks with the numbers that
\* order them.
ImportBatch(d) == [h \in BlocksToImport(d) |-> d.hash2number[h]]

\* Both lookups of prepare_blocks_for_import panic on a missing entry.
CorruptedState(d) ==
    \/ \E h \in d.downloaded : ~IsQueued(d, h)
    \/ \E h \in BlocksToImport(d) : d.hash2number[h] \notin DOMAIN d.number2hash

\* Mutant: the blocks are counted after they were drained.
PrepareBlocksKeepMemory(d) ==
    [d EXCEPT !.downloaded = {}, !.inQueue = @ \cup BlocksToImport(d)]

\* Mutant: the downloaded blocks are not drained.
PrepareBlocksNoDrain(d) ==
    [d EXCEPT !.inQueue = @ \cup BlocksToImport(d)]

PrepareBlocksForImport(d) ==
    LET freed == SizeOf(d.downloaded)
    IN  [d EXCEPT !.downloaded = {},
                  !.inQueue = @ \cup BlocksToImport(d),
                  !.memory = IF freed > @ THEN 0 ELSE @ - freed]

\* Mutant: processed blocks stay in queued_blocks.
HandleProcessedKeepsQueued(d, processed) == [d EXCEPT !.inQueue = @ \ processed]

\* The results of a batch: its blocks leave the queue and both maps.
HandleProcessedBlocks(d, processed) ==
    LET known   == processed \cap DOMAIN d.hash2number
        numbers == {d.hash2number[h] : h \in known}
    IN  [d EXCEPT !.inQueue = @ \ processed,
                  !.hash2number = [h \in DOMAIN @ \ known |-> @[h]],
                  !.number2hash = [n \in DOMAIN @ \ numbers |-> @[n]]]
=============================================================================
