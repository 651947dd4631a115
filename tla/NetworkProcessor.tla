--------------------------- MODULE NetworkProcessor ---------------------------
(***************************************************************************)
(* The network processor: one task that handles import results, messages of *)
(* peers and timer ticks one at a time, and after each of them hands the    *)
(* downloaded blocks to the import queue.  The import queue worker is       *)
(* another task, and the peers are Bitcoin nodes that answer requests in    *)
(* order, the blocks of one getdata in any order, or not at all.            *)
(***************************************************************************)
EXTENDS ChainSync

CONSTANTS
    Latencies,              \* average ping latencies a peer can have
    LatencyThreshold,       \* PEER_LATENCY_THRESHOLD
    LatencyThresholdSync,   \* PEER_LATENCY_THRESHOLD_INITIAL_SYNC
    StartEnabled,           \* initial values of enable_block_sync
    OrderedDelivery,        \* whether peers send the blocks of a getdata in order
    InitialTips,            \* the tips peers have when the node starts
    MaxDisturbances         \* bound on what peers and the clock do unprompted

ASSUME NetworkProcessorAssumption ==
    /\ Latencies \subseteq Nat
    /\ LatencyThreshold \in Nat /\ LatencyThresholdSync \in Nat
    /\ StartEnabled \subseteq BOOLEAN
    /\ OrderedDelivery \in BOOLEAN
    /\ InitialTips \subseteq [Peer -> Hash]
    /\ MaxDisturbances \in Nat

VARIABLES
    node,       \* the state of the network processor, see ChainSync
    client,     \* the blocks imported
    results,    \* import results sent and not yet handled
    tip,        \* the tip of each peer's chain
    budget      \* disturbances left

vars == <<node, client, results, tip, budget>>

-----------------------------------------------------------------------------
(* Handlers: from a node to the possible pairs of a node and a sync action. *)

IsActiveSyncPeer(n, p) ==
    p \in DOMAIN n.peers /\ n.peers[p].state = "DownloadingNew"

Quietly(nodes) == {Then(n, NoAction) : n \in nodes}

ProcessPong(n, c, p, latency) ==
    LET threshold == IF n.syncing = Idle THEN LatencyThreshold ELSE LatencyThresholdSync
    IN  IF latency > threshold
        THEN Quietly(IF IsActiveSyncPeer(n, p) THEN {n} ELSE DropPeer(n, c, p))
        ELSE IF p \in DOMAIN n.peers
        THEN Quietly(UpdateSyncPeerOnLowerLatency([n EXCEPT !.peers[p].latency = latency], c))
        ELSE AddNewPeer(n, c, p, n.connected[p], latency)

\* The strategy's outcome, put back into the node.
Apply(n, out) == Then([n EXCEPT !.syncing = out.strategy], out.action)

\* An inv of a single block is taken for an announcement.
ProcessInv(n, c, p, inv) ==
    IF inv = <<>> THEN Then(n, NoAction)
    ELSE IF Len(inv) = 1
    THEN IF BlockExists(c, inv[1]) \/ inv[1] \in n.announced[p] THEN Then(n, NoAction)
         ELSE Then([n EXCEPT !.announced[p] = @ \cup {inv[1]}], GetData({inv[1]}, p))
    ELSE IF n.syncing.kind = "BlocksFirst" THEN Apply(n, BFOnInv(n.syncing, c, inv, p))
    ELSE Then(n, NoAction)

\* Mutant: an announced block is imported without looking at its parent.
ProcessAnnouncedAnyParent(n, c, p, h) ==
    LET seen == UpdatePeerBest([n EXCEPT !.announced[p] = @ \ {h}], p, Height[h])
    IN  IF BlockExists(c, h) THEN seen
        ELSE EnqueueImport(seen, [b \in {h} |-> Height[h]])

ProcessAnnouncedBlock(n, c, p, h) ==
    LET seen == UpdatePeerBest([n EXCEPT !.announced[p] = @ \ {h}], p, Height[h])
    IN  IF BlockExists(c, h) \/ Parent[h] # c.best THEN seen
        ELSE EnqueueImport(seen, [b \in {h} |-> Height[h]])

ProcessBlock(n, c, p, h) ==
    IF h \in n.announced[p] THEN {Then(ProcessAnnouncedBlock(n, c, p, h), NoAction)}
    ELSE CASE n.syncing.kind = "Idle" -> {Then(n, NoAction)}
           [] n.syncing.kind = "BlocksFirst" ->
                {Apply(n, out) : out \in BFOnBlock(n.syncing, c, h, p)}
           [] n.syncing.kind = "HeadersFirst" ->
                {Apply(n, out) : out \in HFOnBlock(n.syncing, c, h, p)}

\* When idle, headers that extend the tip announce blocks.
ProcessHeaders(n, c, p, hs) ==
    IF hs = <<>> THEN Then(n, NoAction)
    ELSE IF n.syncing = Idle /\ Parent[hs[1]] = c.best
    THEN IF Elements(hs) \cap InvalidWork # {} THEN Then(n, DisconnectPeer(p))
         ELSE Then([n EXCEPT !.announced[p] = @ \cup Elements(hs)], GetData(Elements(hs), p))
    ELSE IF n.syncing.kind = "HeadersFirst" THEN Apply(n, HFOnHeaders(n.syncing, c, hs, p))
    ELSE Then(n, NoAction)

OnTick(n, c, stalled) ==
    CASE n.syncing.kind = "Idle"         -> Then(n, NoAction)
      [] n.syncing.kind = "BlocksFirst"  -> Apply(n, BFOnTick(n.syncing, c, stalled))
      [] n.syncing.kind = "HeadersFirst" -> Apply(n, HFOnTick(n.syncing, c, stalled))

\* A result other than imported or already known panics; while no sync runs
\* the results are dropped.
OnBlocksProcessed(n, result) ==
    IF n.syncing = Idle THEN n
    ELSE [n EXCEPT !.syncing.d = HandleProcessedBlocks(@, result.done),
                   !.crashed = result.failed]

DoRequest(n, action) ==
    IF action.type = "Request" THEN Send(n, action.peer, action.req) ELSE n

DoSyncAction(n, c, action) ==
    CASE action.type \in {"None", "Request"} -> {DoRequest(n, action)}
      [] action.type = "SwitchToBlocksFirstSync" ->
            {DoRequest(out.node, out.action) : out \in StartBlocksFirstSync(n, c)}
      [] action.type = "SetIdle" -> {[ImportPendingBlocks(n) EXCEPT !.syncing = Idle]}
      [] action.type = "RestartSyncWithStalledPeer" -> RestartSync(n, c, action.peer, "Stalled")
      [] action.type = "DisconnectPeer" -> DropPeer(n, c, action.peer)

\* One iteration of the loop: the handler, its sync action, and the import of
\* what is pending.
Iterate(outs) ==
    /\ ~node.crashed
    /\ \E out \in outs : \E n \in DoSyncAction(out.node, client, out.action) :
          node' = ImportPendingBlocks(n)

-----------------------------------------------------------------------------
(* The peers: replies of a node whose best chain ends in t.                 *)

\* The blocks after the highest block of the locator on the peer's chain, in
\* the order of their heights.
BlocksAfter(t, locator) ==
    LET common == Max({Height[h] : h \in Chain[t] \cap (locator \cup {Genesis})})
    IN  [i \in 1..Height[t] - common |-> CHOOSE h \in Chain[t] : Height[h] = common + i]

AtMost(s, k) == SubSeq(s, 1, IF Len(s) > k THEN k ELSE Len(s))

InvReply(t, req) == AtMost(BlocksAfter(t, req.locator), MaxGetBlocksResponse)

HeadersReply(t, req) ==
    LET after == BlocksAfter(t, req.locator)
        stop  == {i \in DOMAIN after : after[i] = req.stop}
    IN  AtMost(after, Min({MaxHeadersSize} \cup stop))

-----------------------------------------------------------------------------
(* The actions.                                                             *)

Init ==
    /\ tip \in InitialTips
    /\ node \in [connected : {EmptyMap}, peers : {EmptyMap}, syncing : {Idle},
                 queue : {<<>>}, reqs : {[p \in Peer |-> <<>>]},
                 announced : {[p \in Peer |-> {}]},
                 enabled : StartEnabled, crashed : {FALSE}]
    /\ client = GenesisClient
    /\ results = <<>>
    /\ budget = MaxDisturbances

Disturb == budget > 0 /\ budget' = budget - 1

\* The version handshake completes; the first pong follows.
Connect(p) ==
    /\ ~node.crashed
    /\ p \notin DOMAIN node.connected
    /\ node' = [node EXCEPT !.connected = Put(@, p, Height[tip[p]])]
    /\ UNCHANGED <<client, results, tip, budget>>

\* The first pong adds the peer to chain sync and may start the sync.
FirstPong(p) ==
    /\ p \in DOMAIN node.connected \ DOMAIN node.peers
    /\ \E latency \in Latencies : Iterate(ProcessPong(node, client, p, latency))
    /\ UNCHANGED <<client, results, tip, budget>>

LaterPong(p) ==
    /\ p \in DOMAIN node.connected \cap DOMAIN node.peers
    /\ \E latency \in Latencies : Iterate(ProcessPong(node, client, p, latency))
    /\ Disturb
    /\ UNCHANGED <<client, results, tip>>

PeerDisconnected(p) ==
    /\ p \in DOMAIN node.connected \ PersistentPeers
    /\ Iterate(Quietly(DropPeer(node, client, p)))
    /\ Disturb
    /\ UNCHANGED <<client, results, tip>>

StartBlockSync ==
    /\ ~node.enabled
    /\ Iterate(AttemptSyncStart([node EXCEPT !.enabled = TRUE], client))
    /\ UNCHANGED <<client, results, tip, budget>>

\* The peer answers its oldest request.
Pending(p, kind) ==
    /\ p \in DOMAIN node.connected
    /\ node.reqs[p] # <<>>
    /\ Head(node.reqs[p]).kind = kind

Answered(p) == [node EXCEPT !.reqs[p] = Tail(@)]

DeliverInv(p) ==
    /\ Pending(p, "getblocks")
    /\ Iterate({ProcessInv(Answered(p), client, p, InvReply(tip[p], Head(node.reqs[p])))})
    /\ UNCHANGED <<client, results, tip, budget>>

DeliverHeaders(p) ==
    /\ Pending(p, "getheaders")
    /\ Iterate({ProcessHeaders(Answered(p), client, p, HeadersReply(tip[p], Head(node.reqs[p])))})
    /\ UNCHANGED <<client, results, tip, budget>>

NextBlocks(S) ==
    IF OrderedDelivery THEN {h \in S : \A b \in S : Height[h] <= Height[b]} ELSE S

\* One of the blocks asked for arrives; one the peer does not have is dropped
\* (notfound is ignored).
DeliverBlock(p) ==
    /\ Pending(p, "getdata")
    /\ \E h \in NextBlocks(Head(node.reqs[p]).blocks) :
          LET left == Head(node.reqs[p]).blocks \ {h}
              n    == IF left = {} THEN Answered(p)
                      ELSE [node EXCEPT !.reqs[p][1].blocks = left]
          IN  Iterate(IF h \in Chain[tip[p]] THEN ProcessBlock(n, client, p, h)
                      ELSE {Then(n, NoAction)})
    /\ UNCHANGED <<client, results, tip, budget>>

\* The peer never answers a request.
PeerIgnores(p) ==
    /\ p \in DOMAIN node.connected
    /\ node.reqs[p] # <<>>
    /\ node' = Answered(p)
    /\ Disturb
    /\ UNCHANGED <<client, results, tip>>

\* A peer's chain grows, or it switches to one with more work, and the peer
\* announces the new tip by inv or by headers.
Announce(p, outs(_, _)) ==
    /\ p \in DOMAIN node.connected
    /\ \E h \in Hash :
          /\ ChainWork[h] > ChainWork[tip[p]]
          /\ tip' = [tip EXCEPT ![p] = h]
          /\ Iterate(outs(p, h))
    /\ Disturb
    /\ UNCHANGED <<client, results>>

AnnounceByInv(p) ==
    Announce(p, LAMBDA q, h : {ProcessInv(node, client, q, <<h>>)})

AnnounceByHeaders(p) ==
    Announce(p, LAMBDA q, h :
        {ProcessHeaders(node, client, q, BlocksAfter(h, Chain[tip[q]]))})

\* The periodic task.  A peer that stalled too often is dropped; at most one
\* can be in that state, since one tick counts one stall.
PeriodicTasks(stalled) ==
    LET out     == OnTick(node, client, stalled)
        bad(n)  == {p \in DOMAIN n.peers : PermanentlyDeprioritized(n.peers[p])}
        rest(n) == IF bad(n) = {} THEN {n}
                   ELSE UNION {DropPeer(n, client, p) : p \in bad(n)}
    IN  UNION {rest(n) : n \in DoSyncAction(out.node, client, out.action)}

Tick ==
    /\ Iterate(Quietly(PeriodicTasks(FALSE)))
    /\ UNCHANGED <<client, results, tip, budget>>

\* No progress for the stall timeout although answers are still to come.
SlowTick ==
    /\ node.syncing # Idle
    /\ Iterate(Quietly(PeriodicTasks(TRUE)))
    /\ Disturb
    /\ UNCHANGED <<client, results, tip>>

\* Nothing is under way that could make progress, so the timeout passes.
NothingUnderWay ==
    /\ node.syncing # Idle
    /\ node.reqs[node.syncing.d.peer] = <<>>
    /\ node.queue = <<>> /\ results = <<>>

StalledTick ==
    /\ NothingUnderWay
    /\ Iterate(Quietly(PeriodicTasks(TRUE)))
    /\ UNCHANGED <<client, results, tip, budget>>

HandleResults ==
    /\ results # <<>>
    /\ Iterate({Then(OnBlocksProcessed(node, Head(results)), NoAction)})
    /\ results' = Tail(results)
    /\ UNCHANGED <<client, tip, budget>>

-----------------------------------------------------------------------------
(* The import queue worker: the blocks of a batch in the order of their     *)
(* numbers, all the others cancelled after the first error.                 *)

Processed(batch, h) ==
    [batch EXCEPT !.todo = Drop(@, h), !.done = @ \cup {h}]

ImportNext ==
    /\ node.queue # <<>>
    /\ LET batch == Head(node.queue)
       IN  \E h \in DOMAIN batch.todo :
             /\ \A b \in DOMAIN batch.todo : batch.todo[h] <= batch.todo[b]
             /\ LET known == BlockExists(client, h)
                    fails == batch.failed \/ (~known /\ ~BlockExists(client, Parent[h]))
                IN  /\ node' = [node EXCEPT !.queue[1] =
                                   [Processed(@, h) EXCEPT !.failed = fails]]
                    /\ client' = IF fails \/ known THEN client
                                 ELSE ImportBlock(client, h)
    /\ UNCHANGED <<results, tip, budget>>

SendResults ==
    /\ node.queue # <<>>
    /\ Head(node.queue).todo = EmptyMap
    /\ results' = Append(results, [done   |-> Head(node.queue).done,
                                   failed |-> Head(node.queue).failed])
    /\ node' = [node EXCEPT !.queue = Tail(@)]
    /\ UNCHANGED <<client, tip, budget>>

Next ==
    \/ \E p \in Peer :
          \/ Connect(p) \/ FirstPong(p) \/ LaterPong(p) \/ PeerDisconnected(p)
          \/ DeliverInv(p) \/ DeliverHeaders(p) \/ DeliverBlock(p)
          \/ PeerIgnores(p) \/ AnnounceByInv(p) \/ AnnounceByHeaders(p)
    \/ StartBlockSync \/ Tick \/ SlowTick \/ StalledTick
    \/ HandleResults \/ ImportNext \/ SendResults

Spec == Init /\ [][Next]_vars

\* Peers keep connecting and answer, timers fire, tasks run.
Joins(p) == Connect(p) \/ FirstPong(p)

Delivers(p) == DeliverInv(p) \/ DeliverHeaders(p) \/ DeliverBlock(p)

Imports == ImportNext \/ SendResults

Fairness ==
    /\ \A p \in Peer :
          /\ []<>(node.crashed \/ p \in DOMAIN node.peers) \/ []<><<Joins(p)>>_vars
          /\ []<>(node.crashed \/ node.reqs[p] = <<>>) \/ []<><<Delivers(p)>>_vars
    /\ []<>(node.crashed \/ PeriodicTasks(FALSE) = {node}) \/ []<><<Tick>>_vars
    /\ \/ []<>(node.crashed \/ ~NothingUnderWay \/ PeriodicTasks(TRUE) = {node})
       \/ []<><<StalledTick>>_vars
    /\ []<>(node.crashed \/ results = <<>>) \/ []<><<HandleResults>>_vars
    /\ []<>(node.queue = <<>>) \/ []<><<Imports>>_vars

FairSpec == Spec /\ Fairness

-----------------------------------------------------------------------------
(* Properties.                                                              *)

Syncing == node.syncing # Idle

\* The blocks of the import queue and of results not handled yet.
InFlight ==
    UNION {DOMAIN node.queue[i].todo \cup node.queue[i].done : i \in DOMAIN node.queue}
      \cup UNION {results[i].done : i \in DOMAIN results}

BatchOK(b) ==
    /\ DOMAIN b.todo \subseteq Hash /\ \A h \in DOMAIN b.todo : b.todo[h] \in Nat
    /\ b.done \subseteq Hash
    /\ b.failed \in BOOLEAN

\* Type invariant of the composed system.
TypeOK ==
    /\ DOMAIN node.connected \subseteq Peer
    /\ DOMAIN node.peers \subseteq Peer
    /\ \A p \in DOMAIN node.peers :
          /\ node.peers[p].best \in Nat /\ node.peers[p].latency \in Latencies
          /\ node.peers[p].state \in {"Available", "Deprioritized", "DownloadingNew"}
          /\ node.peers[p].stalls \in Nat
    /\ node.syncing.kind \in {"Idle", "BlocksFirst", "HeadersFirst"}
    /\ node.syncing.kind = "BlocksFirst" => node.syncing.state \in BFStates
    /\ node.syncing.kind = "HeadersFirst" =>
          node.syncing.state \in HFStates /\ node.syncing.prefetch.state \in PrefetchStates
    /\ Syncing => node.syncing.d.pool \in PoolType
    /\ \A i \in DOMAIN node.queue : BatchOK(node.queue[i])
    /\ client \in ClientType
    /\ tip \in [Peer -> Hash]
    /\ budget \in 0..MaxDisturbances

\* No panic of the sync code is reached: neither "Unknown parent" nor
\* "Failed to import block" of handle_processed_blocks, nor the "Corrupted
\* state" lookups of prepare_blocks_for_import, whatever the interleaving of
\* the network task with the import worker.
NoCrash == ~node.crashed

Waiting == UNION {DOMAIN node.queue[i].todo : i \in DOMAIN node.queue}

Pipeline == INSTANCE ImportPipeline WITH imported <- client.imported, pending <- Waiting

\* Whatever the strategies, the announcements and the peers do, blocks reach
\* the import queue with their parents imported, waiting or handed over with
\* them, and the worker imports every one of them.
ImplementsImportPipeline == Pipeline!IPSpec

\* queued_blocks does not leak and is numbered rightly: a block it lists is still
\* on its way through the import queue, or was cut off by the sync target, and
\* its number is its height.  A leaked entry would make the downloader refuse
\* that block for ever, a wrong number would put it before its parent.
QueuedBlocksExact ==
    Syncing => \A h \in DOMAIN node.syncing.d.hash2number :
        /\ node.syncing.d.hash2number[h] = Height[h]
        /\ h \in InFlight \/ \E target \in SyncTarget : Height[h] > target

\* What the downloader holds is accounted for between two iterations of the
\* loop: the memory counter is the size of the blocks downloaded and not handed
\* over, and the three collections of the orphan pool agree.
DownloadsAccounted ==
    /\ TypeOK
    /\ Syncing => /\ node.syncing.d.memory = SizeOf(node.syncing.d.downloaded)
                  /\ PoolConsistent(node.syncing.d.pool)

\* A blocks-first sync never has a block requested that it already holds, queued
\* for import or in the orphan pool; and as long as no request was left
\* unanswered, a block counted as requested is really being asked for.  Otherwise
\* it would be downloaded twice, or block its own download.
RequestsAwaited ==
    Syncing => \A h \in node.syncing.d.requested :
        /\ node.syncing.kind = "BlocksFirst" =>
              ~IsQueued(node.syncing.d, h) /\ h \notin node.syncing.d.pool.blocks
        /\ budget = MaxDisturbances =>
              \E p \in Peer : \E i \in DOMAIN node.reqs[p] :
                  node.reqs[p][i].kind = "getdata" /\ h \in node.reqs[p][i].blocks

\* The headers downloaded and prefetched carry their heights, however the
\* replies to several getheaders are mixed up.
HeadersNumbered ==
    node.syncing.kind = "HeadersFirst" =>
        \A headers \in {node.syncing.hdr.headers}
              \cup (IF node.syncing.prefetch.state = "None" THEN {}
                   ELSE {node.syncing.prefetch.headers}) :
            \A h \in DOMAIN headers : headers[h] = Height[h]

\* Once block sync is enabled the node catches up with the best of its peers.
EventuallySynced ==
    [](node.enabled => <>(\A p \in Peer : ChainWork[client.best] >= ChainWork[tip[p]]))
=============================================================================
