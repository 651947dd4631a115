----------------------------- MODULE HeadersFirst -----------------------------
(***************************************************************************)
(* The headers-first strategy: download the headers up to the next          *)
(* checkpoint, then the blocks they announce, while the headers up to the   *)
(* checkpoint after it are prefetched.                                      *)
(*   state        the State enum; start and end are its range (start, end]  *)
(*   all, paused  the BlockDownload of FetchingBlockData                    *)
(*   hdr          the header requester: peer, headers (hash to number),     *)
(*                the completed range if any, start of the last request     *)
(*   prefetch     the header prefetch pipeline                              *)
(***************************************************************************)
EXTENDS SyncAction, SequencesExt

CONSTANTS
    Checkpoints,      \* hashes of the checkpoint blocks
    MaxHeadersSize,   \* MAX_HEADERS_SIZE
    LocalPeers,       \* peers at a local address: all blocks in one request
    InvalidWork       \* headers whose proof of work does not check

ASSUME HeadersFirstAssumption ==
    /\ Checkpoints \subseteq Hash \ {Genesis} /\ Checkpoints # {}
    /\ MaxHeadersSize \in Nat \ {0}
    /\ LocalPeers \subseteq Peer
    /\ InvalidWork \subseteq Hash \ {Genesis}

HFStates == {"Idle", "RestartingHeaders", "RestartingBlocks", "Disconnecting",
             "FetchingHeaders", "FetchingBlockData", "Completed"}

PrefetchStates == {"None", "Initiated", "Fetching", "Ready"}

IndexedBlock(number, h) == [number |-> number, hash |-> h]

NoPrefetch == [state |-> "None"]

\* binary_search_by_key: nothing when the number itself is a checkpoint, else
\* the first checkpoint above it.  The result is a set of at most one block.
NextCheckpoint(number) ==
    IF \E h \in Checkpoints : Height[h] = number THEN {}
    ELSE {IndexedBlock(Height[h], h) :
             h \in {k \in Checkpoints :
                        /\ Height[k] > number
                        /\ \A j \in Checkpoints : Height[j] > number => Height[k] <= Height[j]}}

LastCheckpointHeight == Max({Height[h] : h \in Checkpoints})

\* The downloaded headers searched by height when a locator is built.
ByNumber(headers) ==
    [n \in {headers[h] : h \in DOMAIN headers} |->
        CHOOSE h \in DOMAIN headers : headers[h] = n]

-----------------------------------------------------------------------------
(* Requests for headers.                                                    *)

HeaderRequestAt(s, c, number, h) ==
    LET next == NextCheckpoint(number + 1)
        end  == CHOOSE e \in next : TRUE
    IN  IF next = {}
        THEN Outcome([s EXCEPT !.state = "Completed"], SwitchToBlocksFirstSync)
        ELSE IF number > 0 /\ number = s.hdr.last
        THEN Outcome(s, NoAction)
        ELSE Outcome([s EXCEPT !.state = "FetchingHeaders",
                               !.start = IndexedBlock(number, h), !.end = end,
                               !.hdr.last = number, !.hdr.headers = EmptyMap,
                               !.hdr.completed = {}],
                     GetHeaders(BlockLocator(c, number, EmptyMap), end.hash, s.hdr.peer))

HeaderRequestAction(s, c) ==
    HeaderRequestAt(s, c, BestNumber(c), BlockHash(c, BestNumber(c)))

NewHeadersFirst(c, p, target) ==
    HeaderRequestAction(
        [kind |-> "HeadersFirst", state |-> "Idle",
         start |-> IndexedBlock(0, Genesis), end |-> IndexedBlock(0, Genesis),
         all |-> FALSE, paused |-> FALSE, peer |-> p, target |-> target,
         hdr |-> [peer |-> p, headers |-> EmptyMap, completed |-> {}, last |-> 0],
         prefetch |-> NoPrefetch, d |-> NewDownloader(p, BestNumber(c))], c)

HFSwapSyncPeer(s, p, target) ==
    [s EXCEPT !.peer = p, !.target = target, !.d.peer = p, !.d.fresh = TRUE,
              !.hdr.peer = p, !.prefetch = NoPrefetch]

HFRestart(s, p, target) ==
    LET moved == [s EXCEPT !.peer = p, !.target = target,
                           !.d = RestartDownloader(@, p),
                           !.hdr.peer = p, !.hdr.last = 0,
                           !.prefetch = NoPrefetch]
    IN  IF s.hdr.completed = {}
        THEN [moved EXCEPT !.state = "RestartingHeaders", !.hdr.headers = EmptyMap]
        ELSE LET range == CHOOSE r \in s.hdr.completed : TRUE
             IN  [moved EXCEPT !.state = "RestartingBlocks",
                               !.start = range[1], !.end = range[2]]

-----------------------------------------------------------------------------
(* The header prefetch.                                                     *)

TryInitiatePrefetch(s, end) ==
    LET next == NextCheckpoint(end.number + 1)
    IN  IF s.prefetch.state # "None" \/ next = {} THEN s
        ELSE [s EXCEPT !.prefetch =
                 [state |-> "Initiated", checkpoint |-> CHOOSE e \in next : TRUE,
                  anchor |-> end, headers |-> EmptyMap]]

SendPrefetchGetHeaders(s, c) ==
    Outcome([s EXCEPT !.prefetch.state = "Fetching"],
            GetHeaders(BlockLocator(c, s.prefetch.anchor.number, ByNumber(s.hdr.headers)),
                       s.prefetch.checkpoint.hash, s.peer))

-----------------------------------------------------------------------------
(* Blocks of the headers downloaded.                                        *)

ComputeMissingBlocks(s, c) ==
    LET headers == s.hdr.headers
        missing == {h \in DOMAIN headers :
                       headers[h] > BestNumber(c) \/ ~BlockExists(c, h)}
    IN  SetToSortSeq(missing, LAMBDA a, b : headers[a] < headers[b])

StartBlockDownload(s, c, start, end) ==
    LET missing == ComputeMissingBlocks(s, c)
        all     == s.peer \in LocalPeers
        begun   == [s EXCEPT !.state = "FetchingBlockData", !.all = all,
                             !.paused = FALSE, !.start = start, !.end = end]
    IN  IF missing = <<>> THEN HeaderRequestAction(s, c)
        ELSE IF all
        THEN Outcome(TryInitiatePrefetch(begun, end), GetData(Elements(missing), s.peer))
        ELSE DownloadNextBatch(
                TryInitiatePrefetch([begun EXCEPT !.d = SetMissingBlocks(@, missing)], end))

\* The prefetched headers take over from the ones just used up.
UsePrefetchedHeaders(s, c) ==
    LET p   == s.prefetch
        out == StartBlockDownload(
                 [s EXCEPT !.hdr.headers = p.headers,
                           !.hdr.completed = {<<p.anchor, p.checkpoint>>},
                           !.prefetch = NoPrefetch], c, p.anchor, p.checkpoint)
    IN  [out EXCEPT !.strategy = TryInitiatePrefetch(@, p.checkpoint)]

RequestMoreHeaders(s, c, number, h) ==
    LET e == Evaluated(s, c)
    IN  IF Saturated(e) THEN Outcome(e, NoAction)
        ELSE IF e.prefetch.state = "Ready" /\ e.prefetch.anchor.hash = h
        THEN UsePrefetchedHeaders(e, c)
        ELSE HeaderRequestAt(
                [e EXCEPT !.prefetch = IF @.state = "Ready" THEN NoPrefetch ELSE @],
                c, number, h)

HFScheduleBlockDownload(s, c, number, h) ==
    LET e == Evaluated(s, c)
    IN  IF s.all
        THEN IF s.end.hash = h THEN RequestMoreHeaders(s, c, number, h)
             ELSE Outcome(s, NoAction)
        ELSE IF ShouldPipeline(s.d)
        THEN IF Saturated(e) THEN Outcome(e, NoAction) ELSE DownloadNextBatch(e)
        ELSE IF s.d.requested # {} THEN Outcome(s, NoAction)
        ELSE IF s.d.missing = <<>> THEN RequestMoreHeaders(s, c, number, h)
        ELSE IF Saturated(e) THEN Outcome([e EXCEPT !.paused = TRUE], NoAction)
        ELSE DownloadNextBatch(e)

\* Mutant: a block is queued whether its parent is known or not.
HFOnBlockAnyParent(s, c, h, from) ==
    LET s1     == [s EXCEPT !.d = OnBlockResponse(@, h)]
        number == ParentNumber(s, h) + 1
    IN  IF s.state # "FetchingBlockData" THEN {Outcome(s, NoAction)}
        ELSE {HFScheduleBlockDownload([s1 EXCEPT !.d = AddBlock(@, number, h, ord)],
                                      c, number, h) : ord \in WalkOrders(s.d.pool, h)}

\* Neither the sender nor an earlier copy of the block is looked at.
HFOnBlock(s, c, h, from) ==
    LET s1     == [s EXCEPT !.d = OnBlockResponse(@, h)]
        number == ParentNumber(s, h) + 1
    IN  IF s.state # "FetchingBlockData" THEN {Outcome(s, NoAction)}
        ELSE IF ParentKnown(s, c, h)
        THEN {HFScheduleBlockDownload([s1 EXCEPT !.d = AddBlock(@, number, h, ord)],
                                      c, number, h) : ord \in WalkOrders(s.d.pool, h)}
        ELSE IF h \in s.d.requested
        THEN {Outcome([s1 EXCEPT !.d = AddOrphanBlock(@, h)], NoAction)}
        ELSE {Outcome(s1, NoAction)}

-----------------------------------------------------------------------------
(* Headers messages: hs is the sequence of headers.                         *)

\* How many headers pass validate_and_store_headers before the first error.
ValidPrefix(hs) ==
    Max({k \in 0..Len(hs) :
            \A i \in 1..k : /\ hs[i] \notin InvalidWork
                            /\ i > 1 => Parent[hs[i]] = hs[i - 1]})

\* Mutant: the headers are numbered from their parent's number itself.
StoreHeadersOffByOne(map, hs, prevNumber) ==
    LET k == ValidPrefix(hs)
    IN  Override(map, [h \in {hs[i] : i \in 1..k} |->
                          prevNumber + (CHOOSE i \in 1..k : hs[i] = h) - 1])

StoreHeaders(map, hs, prevNumber) ==
    LET k == ValidPrefix(hs)
    IN  Override(map, [h \in {hs[i] : i \in 1..k} |->
                          prevNumber + (CHOOSE i \in 1..k : hs[i] = h)])

\* The number of the parent of the first header, in the order the maps are
\* searched; an empty set when no map has it.
KnownNumber(c, h, maps) ==
    LET found == {i \in DOMAIN maps : h \in DOMAIN maps[i]}
    IN  IF found # {} THEN {maps[Min(found)][h]}
        ELSE IF BlockExists(c, h) THEN {Height[h]} ELSE {}

HFOnPrefetchHeaders(s, c, hs) ==
    LET p     == s.prefetch
        known == KnownNumber(c, Parent[hs[1]], <<p.headers, s.hdr.headers>>)
        prev  == CHOOSE n \in known : TRUE
        map   == StoreHeaders(p.headers, hs, prev)
        last  == prev + Len(hs)
    IN  IF known = {} \/ ValidPrefix(hs) < Len(hs)
        THEN Outcome([s EXCEPT !.prefetch = NoPrefetch], NoAction)
        ELSE IF last = p.checkpoint.number
        THEN Outcome([s EXCEPT !.prefetch =
                         [state |-> "Ready", headers |-> map, anchor |-> p.anchor,
                          checkpoint |-> IndexedBlock(last, hs[Len(hs)])]], NoAction)
        ELSE Outcome([s EXCEPT !.prefetch.headers = map],
                     GetHeaders(BlockLocator(c, last, ByNumber(map)),
                                p.checkpoint.hash, s.peer))

HFOnHeaders(s, c, hs, from) ==
    LET start == [h \in {s.start.hash} |-> s.start.number]
        known == KnownNumber(c, Parent[hs[1]], <<start, s.hdr.headers>>)
        prev  == CHOOSE n \in known : TRUE
        s1    == [s EXCEPT !.hdr.headers = StoreHeaders(@, hs, prev)]
        bad   == [s EXCEPT !.state = "Disconnecting"]
    IN  IF Len(hs) > MaxHeadersSize THEN Outcome(s, DisconnectPeer(from))
        ELSE IF hs = <<>> THEN Outcome(s, NoAction)
        ELSE IF s.state = "FetchingBlockData" /\ s.prefetch.state = "Fetching"
        THEN HFOnPrefetchHeaders(s, c, hs)
        ELSE IF s.state # "FetchingHeaders" THEN Outcome(s, NoAction)
        ELSE IF known = {} THEN Outcome(bad, DisconnectPeer(s.peer))
        ELSE IF ValidPrefix(hs) < Len(hs)
        THEN Outcome([s1 EXCEPT !.state = "Disconnecting"], DisconnectPeer(from))
        ELSE IF prev + Len(hs) = s.end.number
        THEN StartBlockDownload([s1 EXCEPT !.hdr.completed = {<<s.start, s.end>>}],
                                c, s.start, s.end)
        ELSE Outcome(s1, GetHeaders({hs[Len(hs)]}, s.end.hash, s.peer))

HFOnTick(s, c, stalled) ==
    LET e == Evaluated(s, c)
    IN  CASE s.state = "RestartingHeaders" -> HeaderRequestAction(s, c)
          [] s.state = "RestartingBlocks" -> StartBlockDownload(s, c, s.start, s.end)
          [] s.state \notin {"RestartingHeaders", "RestartingBlocks"} ->
                IF BestNumber(c) = s.target
                THEN Outcome([s EXCEPT !.state = "Completed"], SetIdle)
                ELSE IF s.state = "FetchingBlockData" /\ s.prefetch.state = "Initiated"
                THEN SendPrefetchGetHeaders(s, c)
                ELSE IF ~Saturated(s)
                THEN IF stalled THEN Outcome(s, RestartSyncWithStalledPeer(s.d.peer))
                     ELSE Outcome(s, NoAction)
                ELSE IF Saturated(e) THEN Outcome(e, NoAction)
                ELSE IF s.state = "FetchingBlockData" /\ ~s.all /\ s.paused
                THEN LET resumed == [e EXCEPT !.paused = FALSE]
                     IN  IF s.d.missing # <<>> THEN DownloadNextBatch(resumed)
                         ELSE HeaderRequestAction(resumed, c)
                ELSE HeaderRequestAction(e, c)
=============================================================================
