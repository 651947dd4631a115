----------------------------- MODULE PeerNetwork -----------------------------
(***************************************************************************)
(* The network processor's loop over its peers: the events of connections,  *)
(* the messages of the handshake, keep-alive, addresses and transactions,   *)
(* and the tick.  It keeps four views of the peers in step: the peer        *)
(* manager's, the chain sync's (here its set of peers), the transaction     *)
(* relay's and the peer store's.  Messages about blocks are in              *)
(* NetworkProcessor; the one thing they do here is to have a peer dropped.  *)
(***************************************************************************)
EXTENDS PeerManager, PeerStore, TxRelay

CONSTANTS
    Addr,
    MaxInbound,     \* max_inbound_peers
    Relays,         \* what each peer's version may say of transactions
    Latencies,      \* the averages a pong of each peer may lead to
    Thresholds,     \* the latency thresholds, in and after the initial sync
    Filters,        \* the fee filters each peer sends
    AddrLists,      \* the address lists peers send
    MaxArriving     \* bound: attempts to reach an address at the start

ASSUME LatenciesAssumption == \A p \in Addr : Latencies[p] \subseteq Nat

VARIABLES
    net,        \* the peers: conns, ending, handshaking, connected, book, sync, relay, store
    pool,       \* of each transaction: "absent", "unbroadcast" or "broadcast"
    arriving    \* attempts under way to reach each address that is dialled

vars == <<net, pool, arriving>>

\* Seeds and remembered peers are dialled at the start, one possibly twice: the
\* lists are not compared.
Init ==
    /\ net = [conns |-> NoPeers, ending |-> {}, handshaking |-> NoPeers, connected |-> NoPeers,
              book |-> EmptyBook, sync |-> {}, relay |-> EmptyRelay, store |-> EmptyStore]
    /\ pool = [t \in Tx |-> "absent"]
    /\ arriving \in [Outbound -> 0..MaxArriving]

-----------------------------------------------------------------------------
(* Dropping a peer                                                          *)

\* The peer manager, the chain sync and the relay are told.
Forget(n, peers) ==
    [disconnect(n, peers) EXCEPT !.sync = @ \ peers,
                                 !.relay = on_peer_disconnected(@, peers)]

\* Mutant: the chain sync is not told.
ForgetAndRemoveKeepsSync(n, peers) ==
    [disconnect(n, peers) EXCEPT !.relay = on_peer_disconnected(@, peers),
                                 !.store = remove_peer(@, peers)]

\* And the peer store.
ForgetAndRemove(n, peers) == [Forget(n, peers) EXCEPT !.store = remove_peer(@, peers)]

\* After a failed version or verack: the chain sync is not told.
ForgetHandshake(n, p) ==
    [disconnect(n, {p}) EXCEPT !.relay = on_peer_disconnected(@, {p})]

-----------------------------------------------------------------------------
(* Connections                                                              *)

\* listen_for_inbound_connections: a connection is taken while the connected
\* inbound peers are below the limit.
InboundConnection(a) ==
    /\ a \notin Outbound
    /\ inbound_peers_count(net) < MaxInbound
    /\ \E alive \in BOOLEAN : net' = on_new_connection(net, a, alive)
    /\ UNCHANGED <<pool, arriving>>

Arrived(a) == arriving[a] > 0 /\ arriving' = [arriving EXCEPT ![a] = @ - 1]

OutboundConnection(a) ==
    /\ Arrived(a)
    /\ \E alive \in BOOLEAN : net' = on_new_connection(net, a, alive)
    /\ UNCHANGED pool

OutboundConnectionFailure(a) ==
    /\ Arrived(a)
    /\ net' = [on_outbound_connection_failure(net, a) EXCEPT !.store = remove_peer(@, {a})]
    /\ UNCHANGED pool

\* A writer task ends: sends fail from here on, and an event says so.
WriterEnds(p) ==
    /\ CanSend(net, p)
    /\ net' = [net EXCEPT !.conns[p] = FALSE, !.ending = @ \cup {p}]
    /\ UNCHANGED <<pool, arriving>>

\* The event with which a reader or writer task ends.  Like a message it may come
\* from any peer: a reader whose connection was closed or replaced may have left
\* some in the channel.
DisconnectPeer(p) ==
    /\ net' = ForgetAndRemove(net, {p})
    /\ UNCHANGED <<pool, arriving>>

-----------------------------------------------------------------------------
(* Messages                                                                 *)

Version(p) ==
    /\ \E fit \in BOOLEAN, relay \in Relays[p] :
        net' = IF VersionOk(net, p, fit) THEN on_version(net, p, relay)
               ELSE ForgetHandshake(net, p)
    /\ UNCHANGED <<pool, arriving>>

Verack(p) ==
    /\ ~is_connected(net, p)
    /\ net' = IF VerackOk(net, p) THEN on_verack(net, p) ELSE ForgetHandshake(net, p)
    /\ UNCHANGED <<pool, arriving>>

AddrMessage(p) ==
    /\ \E addresses \in AddrLists : net' = on_addr(net, p, addresses)
    /\ UNCHANGED <<pool, arriving>>

\* process_pong: a peer over the latency threshold stays only while a download
\* from it is active, and it is neither stored nor handed to the chain sync.
PongKept(n, p, average, threshold) ==
    IF average > threshold THEN n
    ELSE [n EXCEPT !.store = try_add_peer(@, p, average), !.sync = @ \cup {p}]

Pong(p) ==
    /\ \E expected, active \in BOOLEAN, average \in Latencies[p], threshold \in Thresholds :
        /\ active => p \in net.sync /\ average > threshold
        /\ net' = IF ~PongOk(net, p, expected) \/ (average > threshold /\ ~active)
                  THEN ForgetAndRemove(net, {p})
                  ELSE PongKept(on_pong(net, p, average), p, average, threshold)
    /\ UNCHANGED <<pool, arriving>>

FeeFilter(p) ==
    /\ \E rate \in Filters[p] : net' = set_fee_filter(net, p, rate)
    /\ UNCHANGED <<pool, arriving>>

\* process_inv on transactions; whether the request can be sent makes no odds.
TxInv(p) ==
    /\ peer_wants_tx_relay(net, p)
    /\ \E inv \in SUBSET Tx \ {{}} :
        \E batch \in Batches(Wanted(net.relay, pool, inv)) :
            net' = [net EXCEPT !.relay = on_inv(@, p, batch)]
    /\ UNCHANGED <<pool, arriving>>

\* handle_tx_message
TxMessage(p) ==
    /\ peer_wants_tx_relay(net, p)
    /\ \E t \in Tx, accepted \in BOOLEAN :
        /\ ~InPool(pool, t)
        /\ net' = [net EXCEPT !.relay = on_validated_tx(@, t)]
        /\ pool' = IF accepted THEN [pool EXCEPT ![t] = "unbroadcast"] ELSE pool
    /\ UNCHANGED arriving

\* NetworkProcessorMessage::SendTransaction, of a transaction that is accepted.
SendTransaction(t) ==
    /\ ~InPool(pool, t)
    /\ pool' = [pool EXCEPT ![t] = "unbroadcast"]
    /\ UNCHANGED <<net, arriving>>

\* A message about blocks has the chain sync ask for the peer to be dropped.
SyncDisconnects(p) ==
    /\ net' = Forget(net, {p})
    /\ UNCHANGED <<pool, arriving>>

-----------------------------------------------------------------------------
(* The tick                                                                 *)

\* Mutant: the first failure to send ends the announcing.
DeliveredUntilFailure(n, announcements) ==
    IF \A pt \in announcements : CanSend(n, pt[1]) THEN announcements ELSE {}

\* do_tx_action: the announcements that could be sent.
Delivered(n, announcements) == {pt \in announcements : CanSend(n, pt[1])}

\* The end of the tick: the relay's on_tick, and what was announced to anyone
\* counts as broadcast.
RelayTick(n) ==
    /\ \E old \in SUBSET Requested(n.relay) :
        net' = [n EXCEPT !.relay = on_tick(@, pool, n.connected, old)]
    /\ LET sent == Delivered(n, ToAnnounce(n.relay, pool, n.connected))
       IN  pool' = [t \in Tx |-> IF \E pt \in sent : pt[2] = t THEN "broadcast" ELSE pool[t]]

\* A new attempt beside one under way is not told from it: two at once, with what
\* follows from them, come from the start.
Dial(addresses) ==
    arriving' = [a \in Outbound |-> IF a \in addresses /\ arriving[a] = 0 THEN 1 ELSE arriving[a]]

\* execute_periodic_tasks: the unreliable peers go, pings are sent, connections
\* managed, the silent and the slow peer go, transactions are announced.  "over"
\* are the peers whose wait for a pong or pause before a ping is over.
Tick ==
    \E unreliable \in SUBSET net.sync, over \in SUBSET DOMAIN net.connected :
        \E managed \in manage_outbound_connections(
                send_pings(ForgetAndRemove(net, unreliable), over \cap InState(net, "Idle"))) :
            /\ Dial(managed.dial)
            /\ RelayTick(Forget(managed.m, (over \cap InState(net, "AwaitingPong")) \cup managed.slow))

-----------------------------------------------------------------------------
Next ==
    \/ \E a \in Outbound : OutboundConnection(a) \/ OutboundConnectionFailure(a)
    \/ \E p \in Addr :
        \/ InboundConnection(p)
        \/ WriterEnds(p) \/ DisconnectPeer(p)
        \/ Version(p) \/ Verack(p) \/ AddrMessage(p) \/ Pong(p) \/ FeeFilter(p)
        \/ TxInv(p) \/ TxMessage(p)
        \/ SyncDisconnects(p)
    \/ \E t \in Tx : SendTransaction(t)
    \/ Tick

Spec == Init /\ [][Next]_vars

-----------------------------------------------------------------------------
(* Properties                                                               *)

\* Every peer in the handshake and every connected peer has a connection to send
\* on, which disconnect takes away together with both entries, whatever a reader
\* left behind sends afterwards; and the relay's state is about connected peers:
\* no announcement is remembered of a peer that may come back knowing nothing,
\* and nothing is awaited from a peer that is gone, whatever way it went.
PeersAgree ==
    /\ DOMAIN net.handshaking \cup DOMAIN net.connected \subseteq DOMAIN net.conns
    /\ \A pt \in net.relay.announced : is_connected(net, pt[1])
    /\ \A t \in Requested(net.relay) : is_connected(net, net.relay.requested[t])

\* A step that ends the connection of a peer tells the chain sync of it, as the
\* comment on PeerManager::disconnect asks; only a version message that fails (a
\* second one of a connected peer always does) drops the peer untold.
SyncToldOfDrops ==
    [][\A p \in Addr : is_connected(net, p) /\ ~(p \in DOMAIN net'.connected)
            => p \notin net'.sync \/ Version(p)]_vars

\* The peer store's sorted list, from which the peer to replace is taken, is
\* about the stored peers and in order after any sequence of its operations.
StoreConsistent == Consistent(net.store)

\* A transaction noted as announced to a peer and still waiting to be broadcast
\* could not be sent to it, and the peer is about to be dropped: otherwise it
\* would never be announced to that peer, nor to anyone if there is no other.
AnnouncementsNotLost ==
    \A pt \in net.relay.announced :
        pool[pt[2]] = "unbroadcast" => pt[1] \in net.ending
=============================================================================
