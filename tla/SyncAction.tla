------------------------------ MODULE SyncAction ------------------------------
(***************************************************************************)
(* What a handler of a sync strategy returns: the strategy after the call   *)
(* and the action the network processor is to carry out.                    *)
(***************************************************************************)
EXTENDS BlockDownloader

NoAction == [type |-> "None"]

SetIdle == [type |-> "SetIdle"]

SwitchToBlocksFirstSync == [type |-> "SwitchToBlocksFirstSync"]

RestartSyncWithStalledPeer(p) == [type |-> "RestartSyncWithStalledPeer", peer |-> p]

DisconnectPeer(p) == [type |-> "DisconnectPeer", peer |-> p]

Request(to, req) == [type |-> "Request", peer |-> to, req |-> req]

GetBlocks(locator, to) == Request(to, [kind |-> "getblocks", locator |-> locator])

GetHeaders(locator, stop, to) ==
    Request(to, [kind |-> "getheaders", locator |-> locator, stop |-> stop])

\* An empty getdata is never sent.
GetData(blocks, to) ==
    IF blocks = {} THEN NoAction
    ELSE Request(to, [kind |-> "getdata", blocks |-> blocks])

Outcome(strategy, action) == [strategy |-> strategy, action |-> action]

\* The block of the batch just scheduled are requested from the downloader's peer.
DownloadNextBatch(s) ==
    Outcome([s EXCEPT !.d = ScheduleNextDownloadBatch(@)],
            GetData(Elements(NextBatch(s.d)), s.d.peer))

\* The strategy after the status of the import queue was evaluated again.
Evaluated(s, c) == [s EXCEPT !.d = EvaluateQueueStatus(@, BestNumber(c))]

Saturated(s) == s.d.status = "Saturated"

\* The number of a block the downloader or the client knows.
ParentKnown(s, c, h) ==
    IsQueued(s.d, Parent[h]) \/ BlockExists(c, Parent[h])

ParentNumber(s, h) ==
    IF IsQueued(s.d, Parent[h]) THEN s.d.hash2number[Parent[h]] ELSE Height[Parent[h]]
=============================================================================
