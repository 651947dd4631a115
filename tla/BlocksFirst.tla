------------------------------ MODULE BlocksFirst ------------------------------
(***************************************************************************)
(* The blocks-first strategy: ask the sync peer for inventories (getblocks) *)
(* and download the blocks they name, until the target is reached.          *)
(*   state, end  the State enum; `end` is the exclusive end of its range    *)
(*   peer, target                                                           *)
(*   inv         the inventory requester: peer, target, last request start  *)
(*   d           the block downloader                                       *)
(***************************************************************************)
EXTENDS SyncAction

CONSTANT MaxGetBlocksResponse   \* MAX_GET_BLOCKS_RESPONSE

ASSUME BlocksFirstAssumption == MaxGetBlocksResponse \in Nat \ {0}

BFStates == {"Idle", "Restarting", "Disconnecting", "FetchingInventory",
             "FetchingBlockData", "Completed"}

\* A new getblocks request, unless it would start where the last one did.
InventoryRequestAction(s, c) ==
    LET from  == Max({BestNumber(c), s.d.bestQueued})
        limit == Min({s.inv.target, from + MaxGetBlocksResponse})
    IN  IF from > 0 /\ s.inv.last = from
        THEN Outcome(s, NoAction)
        ELSE Outcome([s EXCEPT !.inv.last = from,
                               !.state = "FetchingInventory",
                               !.end = limit + 1],
                     GetBlocks(BlockLocator(c, from, s.d.number2hash), s.inv.peer))

NewBlocksFirst(c, p, target) ==
    InventoryRequestAction(
        [kind |-> "BlocksFirst", state |-> "Idle", end |-> 0, peer |-> p,
         target |-> target, inv |-> [peer |-> p, target |-> target, last |-> 0],
         d |-> NewDownloader(p, BestNumber(c))], c)

BFSwapSyncPeer(s, p, target) ==
    [s EXCEPT !.peer = p, !.target = target, !.d.peer = p, !.d.fresh = TRUE]

\* Mutant: the start of the last inventory request is not reset.
BFRestartKeepsLast(s, p, target) ==
    [s EXCEPT !.state = "Restarting", !.peer = p, !.target = target,
              !.d = RestartDownloader(@, p), !.inv.peer = p]

BFRestart(s, p, target) ==
    [s EXCEPT !.state = "Restarting", !.peer = p, !.target = target,
              !.d = RestartDownloader(@, p), !.inv.peer = p, !.inv.last = 0]

\* The second half of on_tick, reached when the queue is not saturated.
BFTickReady(s, c, stalled) ==
    IF stalled
    THEN Outcome(s, RestartSyncWithStalledPeer(s.d.peer))
    ELSE IF s.state # "FetchingBlockData"
    THEN Outcome(s, NoAction)
    ELSE LET e == Evaluated(s, c)
         IN  IF Saturated(e) \/ s.d.requested # {} THEN Outcome(e, NoAction)
             ELSE IF s.d.missing = <<>> THEN InventoryRequestAction(e, c)
             ELSE DownloadNextBatch(e)

\* stalled: no progress within the stall timeout.
BFOnTick(s, c, stalled) ==
    LET e == Evaluated(s, c)
    IN  CASE s.state = "Restarting" -> InventoryRequestAction(s, c)
          [] s.state # "Restarting" /\ BestNumber(c) = s.target ->
                Outcome([s EXCEPT !.state = "Completed"], SetIdle)
          [] s.state # "Restarting" /\ BestNumber(c) # s.target ->
                IF ~Saturated(s) THEN BFTickReady(s, c, stalled)
                ELSE IF Saturated(e) THEN Outcome(e, NoAction)
                ELSE IF s.state # "FetchingBlockData" \/ s.d.missing = <<>>
                THEN InventoryRequestAction(e, c)
                ELSE IF s.d.requested = {} THEN DownloadNextBatch(e)
                ELSE BFTickReady(e, c, stalled)

\* A reply to getblocks; inv is the sequence of block hashes it lists.
BFOnInv(s, c, inv, from) ==
    LET Wanted(h) == ~BlockExists(c, h) /\ IsUnknownBlock(s.d, h)
        wanted    == SelectSeq(inv, Wanted)
    IN  IF from # s.peer THEN Outcome(s, NoAction)
        ELSE IF Len(inv) > MaxGetBlocksResponse
        THEN Outcome([s EXCEPT !.state = "Disconnecting"], DisconnectPeer(s.peer))
        ELSE IF s.state # "FetchingInventory" THEN Outcome(s, NoAction)
        ELSE IF wanted = <<>> THEN InventoryRequestAction(s, c)
        ELSE DownloadNextBatch([s EXCEPT !.state = "FetchingBlockData",
                                         !.d = SetMissingBlocks(@, wanted)])

\* After block `number` was added: more blocks, more inventories, or done.
BFScheduleBlockDownload(s, c, number) ==
    LET e == Evaluated(s, c)
    IN  CASE number < s.end - 1 -> Outcome(s, NoAction)
          [] number > s.end - 1 ->
                IF number >= s.target
                THEN Outcome([s EXCEPT !.state = "Completed"], SetIdle)
                ELSE Outcome(s, NoAction)
          [] number = s.end - 1 ->
                IF Saturated(e) THEN Outcome(e, NoAction)
                ELSE IF s.d.missing = <<>> THEN InventoryRequestAction(e, c)
                ELSE DownloadNextBatch(e)

BFOnOrphan(s, c, h, requested) ==
    LET e == Evaluated([s EXCEPT !.d = AddUnknownBlock(@, h)], c)
    IN  IF h \in s.d.pool.unknown THEN Outcome(s, NoAction)
        ELSE IF requested THEN Outcome([s EXCEPT !.d = AddOrphanBlock(@, h)], NoAction)
        ELSE IF Saturated(e) THEN Outcome(e, NoAction)
        ELSE InventoryRequestAction(e, c)

\* Mutant: a block is queued whether its parent is known or not.
BFOnBlockAnyParent(s, c, h, from) ==
    LET s1     == [s EXCEPT !.d = OnBlockResponse(@, h)]
        number == ParentNumber(s, h) + 1
    IN  IF from # s.peer \/ s.state # "FetchingBlockData" \/ IsQueued(s.d, h)
        THEN {Outcome(s, NoAction)}
        ELSE {BFScheduleBlockDownload([s1 EXCEPT !.d = AddBlock(@, number, h, ord)],
                                      c, number) : ord \in WalkOrders(s.d.pool, h)}

\* The outcomes of on_block: one for every order in which the walk of the
\* orphan pool can output the blocks it connects.
BFOnBlock(s, c, h, from) ==
    LET s1     == [s EXCEPT !.d = OnBlockResponse(@, h)]
        number == ParentNumber(s, h) + 1
    IN  IF from # s.peer \/ s.state # "FetchingBlockData" \/ IsQueued(s.d, h)
        THEN {Outcome(s, NoAction)}
        ELSE IF ~ParentKnown(s, c, h)
        THEN {BFOnOrphan(s1, c, h, h \in s.d.requested)}
        ELSE {BFScheduleBlockDownload([s1 EXCEPT !.d = AddBlock(@, number, h, ord)],
                                      c, number) : ord \in WalkOrders(s.d.pool, h)}
=============================================================================
