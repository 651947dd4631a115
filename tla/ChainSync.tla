------------------------------- MODULE ChainSync -------------------------------
(***************************************************************************)
(* ChainSync: the peers known to the sync code, the strategy in use and the *)
(* choice of the peer to sync from.  The state the network processor owns   *)
(* is one record, the node:                                                 *)
(*   connected  peers with an open connection, and the best number each    *)
(*              advertised in the version handshake                         *)
(*   peers      the PeerSync of the peers added to chain sync               *)
(*   syncing    the running strategy, or Idle                               *)
(*   queue      batches handed to the import queue                          *)
(*   reqs       requests sent to a peer and not answered, oldest first      *)
(*   announced  requested_block_announce                                    *)
(*   enabled    enable_block_sync                                           *)
(*   crashed    a panic or a failed assertion of the code was reached       *)
(* Ties between peers are broken by the iteration order of a HashMap, so an *)
(* operator that picks a peer yields the set of its possible results.       *)
(***************************************************************************)
EXTENDS BlocksFirst, HeadersFirst

CONSTANTS
    MajorSyncGap,       \* MAJOR_SYNC_GAP
    MaxStalls,          \* MAX_STALLS
    MinSyncPeers,       \* min_sync_peer_threshold
    SyncStrategy,       \* "BlocksFirst" or "HeadersFirst"
    PersistentPeers     \* peers the peer manager never disconnects

ASSUME ChainSyncAssumption ==
    /\ MajorSyncGap \in Nat /\ MaxStalls \in Nat /\ MinSyncPeers \in Nat
    /\ SyncStrategy \in {"BlocksFirst", "HeadersFirst"}
    /\ PersistentPeers \subseteq Peer

Idle == [kind |-> "Idle"]

PeerSync(best, latency) ==
    [best |-> best, latency |-> latency, state |-> "Available", stalls |-> 0]

\* stalls is the count of Deprioritized, and zero in the other two states.
DownloadingNew(peer) == [peer EXCEPT !.state = "DownloadingNew", !.stalls = 0]

Available(peer) == [peer EXCEPT !.state = "Available", !.stalls = 0]

Deprioritized(peer) == [peer EXCEPT !.state = "Deprioritized", !.stalls = @ + 1]

PermanentlyDeprioritized(peer) ==
    peer.state = "Deprioritized" /\ peer.stalls > MaxStalls

\* Ten times the score: latency weighs 0.7, a base of 100 plus 20 a stall 0.3.
PeerScore(peer) == 7 * peer.latency + 3 * (100 + 20 * peer.stalls)

BestScores(peers, S) ==
    {p \in S : \A q \in S : PeerScore(peers[p]) <= PeerScore(peers[q])}

\* The available peers ahead of us, and among them the ones with the best score.
AheadOf(peers, number) == {p \in DOMAIN peers : peers[p].best > number}

BestAvailable(peers, number, excluded) ==
    BestScores(peers, {p \in AheadOf(peers, number) \ excluded :
                          peers[p].state = "Available"})

SelectNextPeerForSync(peers, ourBest, excluded) ==
    LET available == BestAvailable(peers, ourBest, {excluded})
    IN  IF available # {} THEN available
        ELSE BestScores(peers, {p \in AheadOf(peers, ourBest) \ {excluded} :
                                   ~PermanentlyDeprioritized(peers[p])})

TargetBlockNumber(peerBest) == Min(SyncTarget \cup {peerBest})

\* select_nth_unstable(len / 2) of the numbers the peers advertise.
MedianSeen(peers) ==
    LET middle   == Cardinality(DOMAIN peers) \div 2
        below(v) == {p \in DOMAIN peers : peers[p].best < v}
        upto(v)  == {p \in DOMAIN peers : peers[p].best <= v}
    IN  CHOOSE v \in {peers[p].best : p \in DOMAIN peers} :
            Cardinality(below(v)) <= middle /\ middle < Cardinality(upto(v))

-----------------------------------------------------------------------------
(* Effects on the node.                                                     *)

\* A request to a peer that is no longer connected fails and is dropped.
Send(n, to, req) ==
    IF to \in DOMAIN n.connected THEN [n EXCEPT !.reqs[to] = Append(@, req)] ELSE n

\* A batch of the import queue: blocks still to import with the numbers that
\* order them, blocks processed, and whether one failed.
Batch(todo) == [todo |-> todo, done |-> {}, failed |-> FALSE]

EnqueueImport(n, todo) == [n EXCEPT !.queue = Append(@, Batch(todo))]

ImportPendingBlocks(n) ==
    IF n.syncing = Idle THEN n
    ELSE IF n.syncing.d.downloaded = {} THEN n
    ELSE IF CorruptedState(n.syncing.d) THEN [n EXCEPT !.crashed = TRUE]
    ELSE EnqueueImport([n EXCEPT !.syncing.d = PrepareBlocksForImport(@)],
                       ImportBatch(n.syncing.d))

StrategyRestart(s, p, target) ==
    CASE s.kind = "BlocksFirst"  -> BFRestart(s, p, target)
      [] s.kind = "HeadersFirst" -> HFRestart(s, p, target)
      [] s.kind = "Idle"         -> s

RestartSync(n, c, prior, reason) ==
    LET ourBest  == BestNumber(c)
        next     == SelectNextPeerForSync(n.peers, ourBest, prior)
        With(p)  == [n EXCEPT !.peers[p] = DownloadingNew(@),
                              !.syncing = StrategyRestart(@, p, TargetBlockNumber(n.peers[p].best))]
        Blame(m) == IF reason = "Stalled" /\ prior \in DOMAIN m.peers
                    THEN [m EXCEPT !.peers[prior] = Deprioritized(@)] ELSE m
    IN  IF next # {} THEN {Blame(With(p)) : p \in next}
        ELSE IF n.peers # EmptyMap /\ MedianSeen(n.peers) <= ourBest
        THEN {[n EXCEPT !.syncing = Idle]}
        ELSE {n}

ChainSyncDisconnect(n, c, p) ==
    LET removed == [n EXCEPT !.peers = Drop(@, p)]
    IN  IF p \notin DOMAIN n.peers THEN {n}
        ELSE IF n.peers[p].state = "DownloadingNew"
        THEN RestartSync(removed, c, p, "Disconnected")
        ELSE {removed}

\* peer_manager.disconnect spares the persistent peers, chain sync does not.
DropPeer(n, c, p) ==
    LET closed == IF p \in PersistentPeers THEN n
                  ELSE [n EXCEPT !.connected = Drop(@, p), !.reqs[p] = <<>>]
    IN  ChainSyncDisconnect(closed, c, p)

UpdatePeerBest(n, p, best) ==
    LET updated == [n EXCEPT !.peers[p].best = best]
    IN  IF p \notin DOMAIN n.peers THEN n
        ELSE IF best <= n.peers[p].best THEN n
        ELSE IF n.syncing = Idle THEN updated
        ELSE IF n.syncing.peer # p THEN updated
        ELSE [updated EXCEPT !.syncing.target = best]

StrategySwap(s, p, target) ==
    IF s.kind = "BlocksFirst" THEN BFSwapSyncPeer(s, p, target)
    ELSE HFSwapSyncPeer(s, p, target)

\* A peer whose score is better by more than 20% takes over, as long as no
\* block came from the current one.
UpdateSyncPeerOnLowerLatency(n, c) ==
    LET current == n.syncing.peer
        better  == {p \in BestAvailable(n.peers, BestNumber(c), {current}) :
                       10 * PeerScore(n.peers[current]) > 12 * PeerScore(n.peers[p])}
        Swap(p) == [n EXCEPT !.syncing = StrategySwap(@, p, TargetBlockNumber(n.peers[p].best)),
                             !.peers[current] = Available(@),
                             !.peers[p] = DownloadingNew(@)]
    IN  IF n.syncing = Idle THEN {n}
        ELSE IF ~n.syncing.d.fresh \/ current \notin DOMAIN n.peers \/ better = {}
        THEN {n}
        ELSE {Swap(p) : p \in better}

-----------------------------------------------------------------------------
(* Starting a sync.  The results are pairs of a node and a sync action.     *)

Then(n, action) == [node |-> n, action |-> action]

BestDeprioritized(peers, number) ==
    LET S == {p \in AheadOf(peers, number) :
                 peers[p].state = "Deprioritized" /\ peers[p].stalls <= MaxStalls}
        NotWorse(p, q) ==
            \/ peers[p].stalls < peers[q].stalls
            \/ peers[p].stalls = peers[q].stalls /\ peers[p].latency <= peers[q].latency
    IN  {p \in S : \A q \in S : NotWorse(p, q)}

NewStrategy(c, p, peerBest) ==
    LET ourBest == BestNumber(c)
        target  == TargetBlockNumber(peerBest)
        headersFirst == /\ peerBest - ourBest > MajorSyncGap
                        /\ ourBest < LastCheckpointHeight
                        /\ SyncStrategy = "HeadersFirst"
    IN  IF headersFirst THEN NewHeadersFirst(c, p, target) ELSE NewBlocksFirst(c, p, target)

AttemptSyncStart(n, c) ==
    LET ourBest   == BestNumber(c)
        available == BestAvailable(n.peers, ourBest, {})
        next      == IF available # {} THEN available
                     ELSE BestDeprioritized(n.peers, ourBest)
        Start(p)  == LET out == NewStrategy(c, p, n.peers[p].best)
                     IN  Then([n EXCEPT !.peers[p] = DownloadingNew(@),
                                        !.syncing = out.strategy], out.action)
    IN  IF \/ n.syncing # Idle
           \/ Cardinality(DOMAIN n.peers) < MinSyncPeers
           \/ \E target \in SyncTarget : ourBest >= target
           \/ next = {}
        THEN {Then(n, NoAction)}
        ELSE {Start(p) : p \in next}

AddNewPeer(n, c, p, best, latency) ==
    LET added == [n EXCEPT !.peers = Put(@, p, PeerSync(best, latency))]
    IN  IF n.enabled THEN AttemptSyncStart(added, c) ELSE {Then(added, NoAction)}

\* After the last checkpoint: a blocks-first sync from the best available peer.
StartBlocksFirstSync(n, c) ==
    LET flushed  == ImportPendingBlocks(n)
        best     == BestAvailable(n.peers, BestNumber(c), {})
        Start(p) == LET out == NewBlocksFirst(c, p, n.peers[p].best)
                    IN  Then([flushed EXCEPT !.syncing = out.strategy], out.action)
    IN  IF n.syncing.kind = "BlocksFirst" THEN {Then(n, NoAction)}
        ELSE IF best = {} THEN {Then([flushed EXCEPT !.syncing = Idle], NoAction)}
        ELSE {Start(p) : p \in best}
=============================================================================
