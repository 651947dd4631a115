------------------------------- MODULE Snapcake -------------------------------
(***************************************************************************)
(* Snapcake: a tool that downloads the state of a Subcoin block from its    *)
(* peers and writes the coins it finds there as a UTXO snapshot.  Modelled  *)
(* are the syncing strategy (how a target block is agreed on, and the       *)
(* requests this takes), the wrapper that picks the coins out of the state  *)
(* responses, and the snapshot manager with its RocksDB store and its file, *)
(* which outlive a crash of the tool.  Blocks are heights of one chain.     *)
(* Requests waiting to be sent are sets: a peer asked the same twice        *)
(* answers the same twice.                                                  *)
(***************************************************************************)
EXTENDS UtxoSnapshot, Functions

CONSTANTS
    Peer,
    Height,             \* the height of the chain
    Bests,              \* how far each peer may have synced, at first
    Utxos,              \* the coins in the state of each block
    Targets,            \* the sync targets tried: a TargetBlock each
    ConfirmationDepth,  \* CONFIRMATION_DEPTH
    ChunkSize,          \* entries in a state response
    MaxDrops, MaxCrashes

ASSUME SnapcakeAssumption ==
    /\ Height \in Nat /\ Bests \subseteq [Peer -> 0..Height]
    /\ DOMAIN Utxos = 0..Height
    /\ Targets \subseteq [kind : {"Number", "Hash"}, block : 0..Height]
                 \cup {[kind |-> "LastFinalized"]}
    /\ ConfirmationDepth \in Nat \ {0} /\ ChunkSize \in Nat \ {0}
    /\ MaxDrops \in Nat /\ MaxCrashes \in Nat

VARIABLES
    net,            \* peers: connected, how far synced, requests they have not answered
    sync_target,    \* the target asked for on the command line
    strategy,       \* SnapcakeSyncingStrategy
    disk,           \* per target block, the store and the snapshot file
    iterator,       \* the loop that writes the file
    proc,           \* "running", "writing", "panicked" or "exited"
    budget          \* drops and crashes left

vars == <<net, sync_target, strategy, disk, iterator, proc, budget>>

-----------------------------------------------------------------------------
(* The state of a block: an entry that is not a coin, then the coins by key. *)

Other == [kind |-> "other"]
CoinEntry(u) == [kind |-> "coin", utxo |-> u]

SortedUtxos == [h \in 0..Height |-> SetToSortSeq(Utxos[h], KeyLess)]
StateEntries ==
    [h \in 0..Height |-> <<Other>> \o [i \in DOMAIN SortedUtxos[h] |-> CoinEntry(SortedUtxos[h][i])]]

coins_count(h) == Cardinality(Utxos[h])

Put(f, k, v) == [x \in DOMAIN f \cup {k} |-> IF x = k THEN v ELSE f[x]]
Without(f, k) == [x \in DOMAIN f \ {k} |-> f[x]]
EmptyMap == [x \in {} |-> 0]

\* The state strategy over a StateSyncWrapper: the peers it may ask, the one
\* it has asked, how many entries of the state it has, whether it has them all.
StateSync(active, h, total, peers) ==
    [active |-> active, target |-> h, total |-> total, received |-> 0, done |-> FALSE,
     asked |-> {}, peers |-> peers]

NoStateSync == StateSync(FALSE, 0, 0, {})

\* SnapcakeSyncingStrategy::new
NewStrategy ==
    [state |-> NoStateSync, best |-> EmptyMap, headers |-> EmptyMap,
     pending_best |-> {}, pending_headers |-> {}, pending_by_number |-> {},
     pending_coins |-> {}, coins |-> EmptyMap, complete |-> FALSE]

EmptyDb == [entries |-> {}, count |-> 0]
NoFile == [metadata |-> <<>>, groups |-> <<>>]

Init ==
    /\ net \in {[connected |-> {}, best |-> b, requests |-> {}] : b \in Bests}
    /\ sync_target \in Targets
    /\ strategy = NewStrategy
    /\ disk = [h \in 0..Height |-> [db |-> EmptyDb, file |-> NoFile]]
    /\ iterator = NewIterator(EmptyDb) /\ proc = "running"
    /\ budget = [drops |-> MaxDrops, crashes |-> MaxCrashes]

-----------------------------------------------------------------------------
(* Peers come and go.                                                       *)

\* add_peer: the best block is always asked for.
AddPeer(p) ==
    /\ proc = "running" /\ p \notin net.connected
    /\ net' = [net EXCEPT !.connected = @ \cup {p}]
    /\ strategy' = [strategy EXCEPT !.pending_best = @ \cup {p}]
    /\ UNCHANGED <<sync_target, disk, iterator, proc, budget>>

OfOthers(S, p) == {r \in S : r.peer # p}

\* The state strategy forgets the peer, and with it a request it has not answered.
StateWithout(state, p) ==
    [state EXCEPT !.peers = @ \ {p}, !.asked = @ \ {p}]

\* remove_peer, when the peer disconnects or does not answer in time.  Its
\* target header and its place among the pending best block requests stay.
RemovePeer(p) ==
    /\ proc = "running" /\ p \in net.connected /\ budget.drops > 0
    /\ net' = [net EXCEPT !.connected = @ \ {p}, !.requests = OfOthers(@, p)]
    /\ strategy' = [strategy EXCEPT
            !.state = StateWithout(@, p),
            !.best = Without(@, p),
            !.pending_headers = OfOthers(@, p),
            !.pending_by_number = @ \ {p},
            !.pending_coins = OfOthers(@, p)]
    /\ budget' = [budget EXCEPT !.drops = @ - 1]
    /\ UNCHANGED <<sync_target, disk, iterator, proc>>

\* A peer imports its next block and announces it: on_validated_block_announce.
Announce(p) ==
    /\ proc = "running" /\ p \in net.connected /\ net.best[p] < Height
    /\ net' = [net EXCEPT !.best[p] = @ + 1]
    /\ strategy' = [strategy EXCEPT
            !.best = IF p \in DOMAIN @ THEN Put(@, p, net'.best[p]) ELSE @]
    /\ UNCHANGED <<sync_target, disk, iterator, proc, budget>>

-----------------------------------------------------------------------------
(* actions(): start the state sync once a target and its number of coins    *)
(* are known, then send the first kind of request that is waiting.          *)

\* SnapshotManager::new opens the store of the target, with what it holds, and
\* truncates the snapshot file.
StartStateSync(h) ==
    IF h \in DOMAIN strategy.coins
    THEN [s |-> [strategy EXCEPT
                    !.state = StateSync(TRUE, h, strategy.coins[h], DOMAIN strategy.best)],
          d |-> [disk EXCEPT ![h].file = NoFile]]
    ELSE [s |-> strategy, d |-> disk]

\* select_state_sync_target takes the first entry of a hash map of headers.
MaybeStartStateSync ==
    IF ~strategy.state.active /\ ~strategy.complete /\ DOMAIN strategy.headers # {}
    THEN {StartStateSync(h) : h \in Range(strategy.headers)}
    ELSE {[s |-> strategy, d |-> disk]}

Ask(p, kind, block) == [peer |-> p, kind |-> kind, block |-> block]

\* A request to a peer that is not connected fails at once.
Send(requests) ==
    net' = [net EXCEPT !.requests = @ \cup {r \in requests : r.peer \in net.connected}]

SendBestBlockRequests(s) ==
    /\ s.pending_best # {}
    /\ Send({Ask(p, "GetBestBlock", 0) : p \in s.pending_best})
    /\ strategy' = [s EXCEPT !.pending_best = {}]
    /\ UNCHANGED proc

\* Mutant: header requests are taken off the list when they are sent.
SendHeaderRequestsOnce(s) ==
    /\ s.pending_best = {} /\ s.pending_headers # {}
    /\ Send(s.pending_headers)
    /\ strategy' = [s EXCEPT !.pending_headers = {}]
    /\ UNCHANGED proc

\* The header requests stay pending until they are answered, and are sent again
\* every time; the block downloader keeps one per peer.
SendHeaderRequests(s) ==
    /\ s.pending_best = {} /\ s.pending_headers # {}
    /\ Send(s.pending_headers)
    /\ strategy' = s
    /\ UNCHANGED proc

SendCoinsCountRequests(s) ==
    /\ s.pending_best = {} /\ s.pending_headers = {} /\ s.pending_coins # {}
    /\ Send(s.pending_coins)
    /\ strategy' = [s EXCEPT !.pending_coins = {}]
    /\ UNCHANGED proc

SendHeaderRequestsByNumber(s) ==
    /\ s.pending_best = {} /\ s.pending_headers = {} /\ s.pending_coins = {}
    /\ s.pending_by_number # {}
    /\ Send({Ask(p, "GetBlockHeader", sync_target.block) : p \in s.pending_by_number})
    /\ strategy' = [s EXCEPT !.pending_by_number = {}]
    /\ UNCHANGED proc

NothingPending(s) ==
    s.pending_best = {} /\ s.pending_headers = {} /\ s.pending_coins = {}
      /\ s.pending_by_number = {}

\* StateStrategy::actions: one request at a time, to a peer that has the block.
StatePeers(s) ==
    IF s.state.active /\ ~s.state.done /\ s.state.asked = {}
    THEN {p \in s.state.peers : s.best[p] >= s.state.target} ELSE {}

SendStateRequest(s) ==
    /\ NothingPending(s)
    /\ \E p \in StatePeers(s) :
        /\ Send({Ask(p, "State", s.state.target)})
        /\ strategy' = [s EXCEPT !.state.asked = {p}]
    /\ UNCHANGED proc

\* ... and an ImportBlocks action at the end, which ends the tool.
FinishStateSync(s) ==
    /\ NothingPending(s) /\ s.state.active /\ s.state.done
    /\ strategy' = [s EXCEPT !.state = NoStateSync, !.complete = TRUE]
    /\ proc' = "exited"
    /\ UNCHANGED net

NothingToDo(s) ==
    /\ NothingPending(s) /\ StatePeers(s) = {} /\ ~s.state.done
    /\ strategy' = s
    /\ UNCHANGED <<net, proc>>

Actions ==
    /\ proc = "running"
    /\ \E start \in MaybeStartStateSync :
        /\ \/ SendBestBlockRequests(start.s)
           \/ SendHeaderRequests(start.s)
           \/ SendCoinsCountRequests(start.s)
           \/ SendHeaderRequestsByNumber(start.s)
           \/ SendStateRequest(start.s)
           \/ FinishStateSync(start.s)
           \/ NothingToDo(start.s)
        /\ disk' = start.d
    /\ UNCHANGED <<sync_target, iterator, budget>>

-----------------------------------------------------------------------------
(* Answers.  A peer serves what it has synced (process_request_v1, and the  *)
(* block and state handlers of Substrate).                                  *)

Answered(r) ==
    /\ proc = "running" /\ r \in net.requests
    /\ net' = [net EXCEPT !.requests = @ \ {r}]
    /\ UNCHANGED <<sync_target, budget>>

\* The header request that on_peer_best_block queues.
HeaderRequest(p, best) ==
    Ask(p, "Headers", IF sync_target.kind = "Hash" THEN sync_target.block ELSE best)

on_peer_best_block(p, best) ==
    [strategy EXCEPT
        !.best = Put(@, p, best),
        !.state = [@ EXCEPT !.peers = IF strategy.state.active THEN @ \cup {p} ELSE @],
        !.pending_by_number = IF sync_target.kind = "Number" THEN @ \cup {p} ELSE @,
        !.pending_headers = IF sync_target.kind = "Number" THEN @
                            ELSE @ \cup {HeaderRequest(p, best)}]

BestBlockResponse(r) ==
    /\ r.kind = "GetBestBlock" /\ Answered(r)
    /\ strategy' = on_peer_best_block(r.peer, net.best[r.peer])
    /\ UNCHANGED <<disk, iterator, proc>>

\* process_block_response, and the same on a header asked for by its number.
TakeTarget(s, p, h) ==
    [s EXCEPT !.headers = Put(@, p, h), !.pending_coins = @ \cup {Ask(p, "GetCoinsCount", h)}]

\* The headers served: descending from the block asked for, none if the peer
\* does not have it.
HeadersServed(r) ==
    LET max == IF sync_target.kind = "Hash" THEN 1 ELSE ConfirmationDepth
    IN IF r.block > net.best[r.peer] THEN <<>>
       ELSE [i \in 1..Min({max, r.block + 1}) |-> r.block - (i - 1)]

\* Mutant: one block too high.
TargetIndexTooHigh == IF sync_target.kind = "LastFinalized" THEN ConfirmationDepth - 1 ELSE 1

\* Which of the headers is taken.
TargetIndex == IF sync_target.kind = "LastFinalized" THEN ConfirmationDepth ELSE 1

\* on_block_response: the confirmed block of the response is the target.  With
\* a target hash, a peer that does not have the block trips "Blocks must not be
\* empty".
BlockResponse(r) ==
    LET blocks == HeadersServed(r)
        index == TargetIndex
        s == [strategy EXCEPT !.pending_headers = @ \ {r}]
    IN /\ r.kind = "Headers" /\ Answered(r)
       /\ IF r \notin strategy.pending_headers THEN UNCHANGED <<strategy, proc>>
          ELSE IF Len(blocks) >= index
          THEN strategy' = TakeTarget(s, r.peer, blocks[index]) /\ UNCHANGED proc
          ELSE IF sync_target.kind = "LastFinalized" THEN strategy' = s /\ UNCHANGED proc
          ELSE strategy' = s /\ proc' = "panicked"
       /\ UNCHANGED <<disk, iterator>>

CoinsCountResponse(r) ==
    /\ r.kind = "GetCoinsCount" /\ Answered(r)
    /\ strategy' = [strategy EXCEPT !.coins = Put(@, r.block, coins_count(r.block))]
    /\ UNCHANGED <<disk, iterator, proc>>

\* An error, for a block the peer does not have, is only logged.
BlockHeaderResponse(r) ==
    /\ r.kind = "GetBlockHeader" /\ Answered(r)
    /\ strategy' = IF r.block > net.best[r.peer] THEN strategy
                   ELSE TakeTarget(strategy, r.peer, r.block)
    /\ UNCHANGED <<disk, iterator, proc>>

\* The next n entries of the state, and whether they are the last ones.
Chunk(state, n) == SubSeq(StateEntries[state.target], state.received + 1, state.received + n)
Completes(state, n) == state.received + n = Len(StateEntries[state.target])

CoinsOf(entries) == {entries[i].utxo : i \in {j \in DOMAIN entries : entries[j].kind = "coin"}}

\* create_snapshot asserts the count and writes the metadata; the coins follow
\* group by group.
create_snapshot(h, db, total) ==
    IF db.count # total
    THEN /\ proc' = "panicked" /\ UNCHANGED iterator
         /\ disk' = [disk EXCEPT ![h].db = db]
    ELSE /\ proc' = "writing" /\ iterator' = NewIterator(db)
         /\ disk' = [disk EXCEPT ![h].db = db,
                        ![h].file.metadata = <<write_snapshot_metadata(h, total)>>]

\* process_state_response stores the coins of the response ...
process_state_response(state, db, complete) ==
    IF complete THEN create_snapshot(state.target, db, state.total)
    ELSE /\ disk' = [disk EXCEPT ![state.target].db = db]
         /\ UNCHANGED <<iterator, proc>>

\* ... and the inner sync imports it.
StateResponse(r) ==
    LET state == strategy.state IN
    /\ r.kind = "State" /\ Answered(r)
    /\ \E n \in 1..Min({ChunkSize, Len(StateEntries[state.target]) - state.received}) :
        /\ strategy' = [strategy EXCEPT !.state.asked = {}, !.state.received = @ + n,
                                        !.state.done = Completes(state, n)]
        /\ process_state_response(state,
                insert_batch_to_rocksdb(disk[state.target].db, CoinsOf(Chunk(state, n))),
                Completes(state, n))

\* The loop of generate_from_rocksdb, whose end StateResponse waits for.
Write(groups) ==
    disk' = [disk EXCEPT ![strategy.state.target].file.groups = @ \o groups]

WriteEntry ==
    /\ proc = "writing" /\ iterator.rest # {}
    /\ LET u == NextEntry(iterator.rest) IN
        /\ iterator' = CollectEntry(iterator, u)
        /\ Write(WrittenBy(iterator, u))
    /\ UNCHANGED <<net, sync_target, strategy, proc, budget>>

FinishWriting ==
    /\ proc = "writing" /\ iterator.rest = {}
    /\ Write(WrittenAtEnd(iterator))
    /\ iterator' = NewIterator(EmptyDb) /\ proc' = "running"
    /\ UNCHANGED <<net, sync_target, strategy, budget>>

\* The tool is killed, or has ended, and is started again with the same target.
Restart ==
    /\ budget.crashes > 0
    /\ budget' = [budget EXCEPT !.crashes = @ - 1]
    /\ net' = [net EXCEPT !.connected = {}, !.requests = {}]
    /\ strategy' = NewStrategy /\ iterator' = NewIterator(EmptyDb) /\ proc' = "running"
    /\ UNCHANGED <<sync_target, disk>>

Response(p) ==
    \E r \in net.requests :
        /\ r.peer = p
        /\ \/ BestBlockResponse(r)
           \/ BlockResponse(r)
           \/ CoinsCountResponse(r)
           \/ BlockHeaderResponse(r)
           \/ StateResponse(r)

Next ==
    \/ \E p \in Peer : AddPeer(p) \/ RemovePeer(p) \/ Announce(p) \/ Response(p)
    \/ Actions
    \/ WriteEntry
    \/ FinishWriting
    \/ Restart

Spec == Init /\ [][Next]_vars

\* The syncing engine polls the strategy and tries to keep its peers; a peer
\* that does not answer in time is disconnected.
FairSpec ==
    /\ Spec
    /\ WF_vars(Actions) /\ WF_vars(WriteEntry) /\ WF_vars(FinishWriting)
    /\ \A p \in Peer : WF_vars(AddPeer(p)) /\ WF_vars(Response(p))

-----------------------------------------------------------------------------
CoinsWritten(file) == SumFunction([i \in DOMAIN file.groups |-> Len(file.groups[i].coins)])

Complete(file) == file.metadata # <<>> /\ CoinsWritten(file) = file.metadata[1].coins_count

\* When the tool ends by itself there is a complete snapshot, and a snapshot
\* that looks complete (it has as many coins as its metadata says) reads back
\* as the coins of its block, in the order the in-memory generator writes
\* them, whatever was interrupted before (SnapshotManager::create_snapshot,
\* SnapshotStore::generate_from_rocksdb, write_coins, serialize_coin).
SnapshotExact ==
    /\ proc = "exited" => \E h \in 0..Height : Complete(disk[h].file)
    /\ \A h \in 0..Height : Complete(disk[h].file) =>
        /\ disk[h].file.metadata[1].base_blockhash = h
        /\ ReadGroups(disk[h].file.groups) = Utxos[h]
        /\ disk[h].file.groups = group_utxos_by_txid(Utxos[h])

\* The state that is downloaded is that of the block asked for, or of one that
\* has its confirmations on the chain of a peer (on_block_response).
TargetConfirmed ==
    strategy.state.active =>
        IF sync_target.kind = "LastFinalized"
        THEN \E p \in Peer : net.best[p] >= strategy.state.target + ConfirmationDepth - 1
        ELSE strategy.state.target = sync_target.block

\* A target header of a peer that has left, which remove_peer does not forget.
StaleTarget == DOMAIN strategy.headers \ net.connected # {}

\* With a peer that has the target, the snapshot is written, unless the tool is
\* restarted, the target of a peer that has left may be the one waited for, or
\* a target hash is unknown to a peer (SnapcakeSyncingStrategy::actions).
EventuallyDone ==
    <>(\/ proc = "exited"
       \/ budget.crashes < MaxCrashes
       \/ StaleTarget
       \/ sync_target.kind = "Hash" /\ proc = "panicked")
=============================================================================
