----------------------------- MODULE PeerManager -----------------------------
(***************************************************************************)
(* The peer manager: open connections, peers in the handshake, connected    *)
(* peers and the address book, as fields of a record.                       *)
(*                                                                         *)
(* "conns" tells of each connection whether its writer task still runs: a   *)
(* send fails once it does not, and an event that tells the processor is    *)
(* under way; "ending" are the peers with a connection of whom such an      *)
(* event is to come, of that connection or of one it replaced.  An address  *)
(* is dialled or dials: an inbound peer comes from a port it does not       *)
(* listen on.  How long something took is a parameter.                      *)
(*                                                                         *)
(* Left out: the addresses designated persistent (the builder passes none), *)
(* the count of invalid transactions and the two preferences a peer sends   *)
(* (nothing reads them), has_sent_ping (true from the verack on).           *)
(***************************************************************************)
EXTENDS AddressBook

CONSTANTS
    Outbound,           \* the addresses that are dialled
    MaxOutbound,        \* max_outbound_peers
    SlowLatency         \* SLOW_PEER_LATENCY

NoPeers == [a \in {} |-> 0]

Drop(f, S) == [a \in DOMAIN f \ S |-> f[a]]
Put(f, a, v) == [x \in DOMAIN f \cup {a} |-> IF x = a THEN v ELSE f[x]]

\* Connection::send through PeerManager::send.
CanSend(m, p) == p \in DOMAIN m.conns /\ m.conns[p]

is_connected(m, p) == p \in DOMAIN m.connected

\* disconnect, of every one of a set of peers.
disconnect(m, peers) ==
    [m EXCEPT !.conns = Drop(@, peers), !.ending = @ \ peers,
              !.handshaking = Drop(@, peers),
              !.connected = Drop(@, peers)]

\* on_new_connection: a connection that the version cannot be sent on is dropped
\* before it is entered; one from an address that has one already replaces it.
on_new_connection(m, a, alive) ==
    IF a \in Outbound /\ ~alive THEN m
    ELSE [m EXCEPT !.conns = Put(@, a, alive),
                   !.ending = IF alive THEN @ ELSE @ \cup {a},
                   !.handshaking = Put(@, a,
                        [state |-> IF a \in Outbound THEN "VersionSent" ELSE "ConnectionOpened",
                         relay |-> FALSE])]

on_outbound_connection_failure(m, a) == [m EXCEPT !.book = note_failed_address(@, a)]

\* When on_version succeeds; "fit" when the version and services suffice and came
\* within HANDSHAKE_TIMEOUT.
VersionOk(m, p, fit) ==
    IF p \in Outbound
    THEN /\ fit
         /\ p \in DOMAIN m.handshaking
         /\ m.handshaking[p].state = "VersionSent"
    ELSE p \in DOMAIN m.conns /\ p \in DOMAIN m.handshaking /\ CanSend(m, p)

on_version(m, p, relay) ==
    [m EXCEPT !.handshaking = Put(@, p, [state |-> "VersionReceived", relay |-> relay])]

\* When on_verack succeeds: the verack to a dialled peer and the getaddr, unless
\* the book is full, must be sent.
VerackOk(m, p) ==
    /\ p \in DOMAIN m.handshaking
    /\ m.handshaking[p].state = "VersionReceived"
    /\ p \in Outbound => CanSend(m, p)
    /\ ~has_max_addresses(m.book) => CanSend(m, p)

\* The new PeerInfo; no fee filter is a filter of 0, and no latency yet is 0.
on_verack(m, p) ==
    [m EXCEPT !.handshaking = Drop(@, {p}),
              !.connected = Put(@, p, [relay |-> m.handshaking[p].relay, fee_filter |-> 0,
                                       ping |-> "AwaitingPong", latency |-> 0])]

on_addr(m, p, addresses) == [m EXCEPT !.book = add_many(@, p, addresses)]

\* When on_pong succeeds; "expected" when the nonce is the ping's and came within
\* PING_TIMEOUT.
PongOk(m, p, expected) ==
    is_connected(m, p) /\ m.connected[p].ping = "AwaitingPong" /\ expected

\* record_pong: the average may come out at any latency.
on_pong(m, p, average) ==
    [m EXCEPT !.connected[p].ping = "Idle", !.connected[p].latency = average]

set_fee_filter(m, p, rate) ==
    IF is_connected(m, p) THEN [m EXCEPT !.connected[p].fee_filter = rate] ELSE m

peer_wants_tx_relay(m, p) == is_connected(m, p) /\ m.connected[p].relay

InState(m, ping) == {p \in DOMAIN m.connected : m.connected[p].ping = ping}

\* send_pings, whether or not the ping can be sent.
send_pings(m, peers) ==
    [m EXCEPT !.connected =
        [p \in DOMAIN @ |-> IF p \in peers THEN [@[p] EXCEPT !.ping = "AwaitingPong"] ELSE @[p]]]

OutboundPeers(m) == DOMAIN m.connected \cap Outbound
inbound_peers_count(m) == Cardinality(DOMAIN m.connected \ Outbound)

\* manage_outbound_connections: below the limit, an address to dial unless it has
\* a connection; at it, if the eviction interval is over, one of the slowest peers.
Slowest(m) ==
    {p \in DOMAIN m.connected :
        /\ m.connected[p].latency > SlowLatency
        /\ \A q \in DOMAIN m.connected : m.connected[q].latency <= m.connected[p].latency}

manage_outbound_connections(m) ==
    IF Cardinality(OutboundPeers(m)) < MaxOutbound /\ m.book.discovered # {}
    THEN {[m |-> [m EXCEPT !.book = pop(@, a)], dial |-> {a} \ DOMAIN m.conns, slow |-> {}] :
            a \in m.book.discovered}
    ELSE {[m |-> m, dial |-> {}, slow |-> {}]} \cup
         {[m |-> m, dial |-> {}, slow |-> {p}] :
            p \in IF Cardinality(OutboundPeers(m)) < MaxOutbound THEN {} ELSE Slowest(m)}
=============================================================================
