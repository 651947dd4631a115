------------------------------ MODULE PeerStore ------------------------------
(***************************************************************************)
(* The peers worth remembering over a restart, each with its latency;       *)
(* "later" says of two of them which was seen last.  The task that owns     *)
(* the store takes its messages in order and nobody reads its state, so a   *)
(* message takes effect when it is sent.  Left out: the failures and   *)
(* downloaded blocks the block downloader records, which rank a peer before *)
(* its latency does, and the file, which is read only at the start.         *)
(***************************************************************************)
EXTENDS Naturals, FiniteSets, Sequences, SequencesExt

CONSTANTS
    Capacity,           \* max_outbound_peers, at most MAX_CAPACITY
    StoreLatency        \* persistent_peer_latency_threshold

ASSUME CapacityAssumption == Capacity \in Nat

EmptyStore == [peers |-> [a \in {} |-> 0], later |-> {}, sorted |-> <<>>]

Stored(store) == DOMAIN store.peers

With(f, a, v) == [x \in DOMAIN f \cup {a} |-> IF x = a THEN v ELSE f[x]]

\* PeerStats::is_better_than
IsBetter(store, a, b) ==
    \/ store.peers[a] < store.peers[b]
    \/ store.peers[a] = store.peers[b] /\ <<a, b>> \in store.later

\* The better first.
Ordered(store, s) == \A i, j \in DOMAIN s : i < j => IsBetter(store, s[i], s[j])

\* process_peer_set_changes: the peers are sorted.
update_sorted_peers(store) ==
    [store EXCEPT !.sorted = CHOOSE s \in SetToSeqs(Stored(store)) : Ordered(store, s)]

Saw(store, a, latency) ==
    [store EXCEPT !.peers = With(@, a, latency),
                  !.later = {ab \in @ : a \notin {ab[1], ab[2]}} \cup ({a} \X (Stored(store) \ {a}))]

Without(store, gone) ==
    [store EXCEPT !.peers = [a \in DOMAIN @ \ gone |-> @[a]],
                  !.later = {ab \in @ : {ab[1], ab[2]} \cap gone = {}}]

\* store_peer: at capacity a new peer takes the place of the first of the
\* sorted ones, if it is better.
StoreNewPeer(store, a, latency) ==
    LET added == Saw(store, a, latency)
        first == Head(store.sorted)
    IN  IF Cardinality(Stored(store)) < Capacity \/ store.sorted = <<>>
        THEN update_sorted_peers(added)
        ELSE IF first \notin Stored(store) \/ ~IsBetter(added, a, first) THEN store
        ELSE update_sorted_peers(Without(added, {first}))

store_peer(store, a, latency) ==
    IF a \in Stored(store) THEN update_sorted_peers(Saw(store, a, latency))
    ELSE StoreNewPeer(store, a, latency)

\* PersistentPeerStoreHandle::try_add_peer
try_add_peer(store, a, latency) ==
    IF latency < StoreLatency THEN store_peer(store, a, latency) ELSE store

\* Mutant: the sorted peers are not brought up to date.
RemoveUnsorted(store, gone) == Without(store, gone)

\* remove_peer, for every one of a set of peers.
remove_peer(store, gone) ==
    IF gone \cap Stored(store) = {} THEN store ELSE update_sorted_peers(Without(store, gone))

\* The sorted peers are the stored ones, each once and the better first, and
\* there is never more than the capacity of them (store_peer relies on it when
\* it picks the one to replace), or one if the capacity is zero: with nothing to
\* replace a peer is added.
Consistent(store) ==
    /\ ToSet(store.sorted) = Stored(store)
    /\ Len(store.sorted) = Cardinality(Stored(store))
    /\ Cardinality(Stored(store)) <= (IF Capacity = 0 THEN 1 ELSE Capacity)
    /\ Ordered(store, store.sorted)
=============================================================================
