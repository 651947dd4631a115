-------------------------- MODULE PeerNetworkProofs --------------------------
(***************************************************************************)
(* The four views of the peers agree, for any number of peers, addresses    *)
(* and transactions, and whatever messages and events of connections long   *)
(* gone are still in the channels.  What an operation does to the parts of  *)
(* the state that the views share is stated first, operation by operation.  *)
(* The peer store, which the views do not share, has a section of its own;  *)
(* the address book is left as it is.                                       *)
(***************************************************************************)
EXTENDS PeerNetwork, FiniteSetTheorems, TLAPS

-----------------------------------------------------------------------------
(* The peer store.                                                          *)

\* The members of a finite set with a strict order make a sequence in that order:
\* the place of a member is one more than the number of those before it.
LEMMA OrderedSeqExists ==
    ASSUME NEW S, IsFiniteSet(S), NEW before,
           \A a, b \in S : a # b => <<a, b>> \in before \/ <<b, a>> \in before,
           \A a \in S : <<a, a>> \notin before,
           \A a, b, c \in S : <<a, b>> \in before /\ <<b, c>> \in before => <<a, c>> \in before
    PROVE  \E s \in SetToSeqs(S) : \A i, j \in DOMAIN s : i < j => <<s[i], s[j]>> \in before
<1> DEFINE n == Cardinality(S)
           ahead(a) == {b \in S : <<b, a>> \in before}
           place == [a \in S |-> Cardinality(ahead(a)) + 1]
<1>1. n \in Nat
  BY FS_CardinalityType, Zenon
<1>2. ASSUME NEW a \in S
      PROVE  IsFiniteSet(ahead(a)) /\ Cardinality(ahead(a)) \in Nat /\ Cardinality(ahead(a)) < n
  <2>1. IsFiniteSet(S \ {a}) /\ Cardinality(S \ {a}) = n - 1
    BY FS_RemoveElement, Zenon
  <2>2. ahead(a) \in SUBSET (S \ {a})
    BY Zenon
  <2>3. IsFiniteSet(ahead(a)) /\ Cardinality(ahead(a)) <= Cardinality(S \ {a})
    BY <2>1, <2>2, FS_Subset, Zenon
  <2>4. Cardinality(ahead(a)) \in Nat
    BY <2>3, FS_CardinalityType, Zenon
  <2> HIDE DEF n, ahead
  <2> QED
    BY <1>1, <2>1, <2>3, <2>4
<1>3. ASSUME NEW a \in S, NEW b \in S, <<a, b>> \in before
      PROVE  Cardinality(ahead(a)) < Cardinality(ahead(b))
  <2>1. ahead(a) \in SUBSET ahead(b)
    BY <1>3, Zenon
  <2>2. a \in ahead(b) /\ a \notin ahead(a)
    BY <1>3, Zenon
  <2>3. ahead(b) # ahead(a)
    BY <2>2, Zenon
  <2>4. Cardinality(ahead(a)) <= Cardinality(ahead(b)) /\ Cardinality(ahead(b)) # Cardinality(ahead(a))
    <3>1. IsFiniteSet(ahead(b))
      BY <1>2, Zenon
    <3> HIDE DEF ahead
    <3> QED
      BY <2>1, <2>3, <3>1, FS_Subset, Zenon
  <2>5. Cardinality(ahead(a)) \in Nat /\ Cardinality(ahead(b)) \in Nat
    BY <1>2, Zenon
  <2> HIDE DEF ahead
  <2> QED
    BY <2>4, <2>5
<1> HIDE DEF ahead
<1>4. place \in [S -> 1..n]
  <2> HIDE DEF n
  <2> QED
    BY <1>1, <1>2
<1>5. ASSUME NEW a \in S, NEW b \in S, a # b PROVE place[a] # place[b]
  <2>1. Cardinality(ahead(a)) \in Nat /\ Cardinality(ahead(b)) \in Nat
    BY <1>2, Zenon
  <2>2. Cardinality(ahead(a)) < Cardinality(ahead(b)) \/ Cardinality(ahead(b)) < Cardinality(ahead(a))
    BY <1>3, <1>5, Zenon
  <2> QED
    BY <2>1, <2>2
<1>6. place \in Injection(S, 1..n)
  BY <1>4, <1>5, Zenon DEF Injection, IsInjective
<1>7. place \in Surjection(S, 1..n)
  <2>1. IsFiniteSet(1..n) /\ Cardinality(1..n) = n
    <3> HIDE DEF n
    <3> QED
      BY <1>1, FS_Interval
  <2> QED
    BY <1>6, <2>1, FS_Injection, Zenon
<1>8. \A i \in 1..n : \E a \in S : place[a] = i
  BY <1>7, Zenon DEF Surjection
<1> DEFINE s == [i \in 1..n |-> CHOOSE a \in S : place[a] = i]
<1>9. \A i \in 1..n : s[i] \in S /\ place[s[i]] = i
  <2> HIDE DEF place
  <2> QED
    BY <1>8, Zenon
<1>10. s \in SetToSeqs(S)
  <2>1. s \in [1..n -> S]
    BY <1>9, Zenon
  <2>2. \A i, j \in 1..n : i # j => s[i] # s[j]
    <3> HIDE DEF s, place
    <3> QED
      BY <1>9, Zenon
  <2> HIDE DEF s
  <2> QED
    BY <2>1, <2>2, Zenon DEF SetToSeqs
<1>11. ASSUME NEW i \in 1..n, NEW j \in 1..n, i < j PROVE <<s[i], s[j]>> \in before
  <2>1. s[i] \in S /\ s[j] \in S /\ place[s[i]] = i /\ place[s[j]] = j
    BY <1>9, Zenon
  <2> HIDE DEF s
  <2>2. Cardinality(ahead(s[i])) + 1 = i /\ Cardinality(ahead(s[j])) + 1 = j
    BY <2>1, Zenon
  <2>3. Cardinality(ahead(s[i])) \in Nat /\ Cardinality(ahead(s[j])) \in Nat
    BY <1>2, <2>1, Zenon
  <2> HIDE DEF n, place
  <2>4. ~(Cardinality(ahead(s[j])) < Cardinality(ahead(s[i]))) /\ s[i] # s[j]
    BY <1>1, <1>11, <2>2, <2>3
  <2> QED
    BY <1>3, <2>1, <2>4, Zenon
<1>12. DOMAIN s = 1..n
  BY Zenon
<1> HIDE DEF s, n
<1> QED
  BY <1>10, <1>11, <1>12, Zenon

\* The peers of a store have latencies and are finitely many, and of any two one
\* was seen later.
StoreShape(store) ==
    /\ DOMAIN store = {"peers", "later", "sorted"}
    /\ IsFiniteSet(Stored(store))
    /\ store.peers \in [Stored(store) -> Nat]
    /\ \A a \in Stored(store) : <<a, a>> \notin store.later
    /\ \A a, b \in Stored(store) : a # b => <<a, b>> \in store.later \/ <<b, a>> \in store.later
    /\ \A a, b, c \in Stored(store) :
          <<a, b>> \in store.later /\ <<b, c>> \in store.later => <<a, c>> \in store.later

\* As many peers as may be stored.
WithinCapacity(store) == Cardinality(Stored(store)) <= (IF Capacity = 0 THEN 1 ELSE Capacity)

StoreInv(store) == StoreShape(store) /\ Consistent(store)

\* Sorting the peers of a store makes it consistent.
LEMMA SortKeeps ==
    ASSUME NEW store, StoreShape(store), WithinCapacity(store)
    PROVE  StoreInv(update_sorted_peers(store))
<1> DEFINE S == Stored(store)
           before == {ab \in S \X S : IsBetter(store, ab[1], ab[2])}
           sorted == CHOOSE s \in SetToSeqs(S) : Ordered(store, s)
           m == update_sorted_peers(store)
<1>1. \A a, b \in S : <<a, b>> \in before <=> IsBetter(store, a, b)
  BY Zenon
<1>2. \A a \in S : store.peers[a] \in Nat
  BY Zenon DEF StoreShape
<1>3. /\ \A a \in S : <<a, a>> \notin store.later
      /\ \A a, b \in S : a # b => <<a, b>> \in store.later \/ <<b, a>> \in store.later
      /\ \A a, b, c \in S :
            <<a, b>> \in store.later /\ <<b, c>> \in store.later => <<a, c>> \in store.later
  BY Zenon DEF StoreShape
<1>4. /\ \A a \in S : ~IsBetter(store, a, a)
      /\ \A a, b \in S : a # b => IsBetter(store, a, b) \/ IsBetter(store, b, a)
      /\ \A a, b, c \in S :
            IsBetter(store, a, b) /\ IsBetter(store, b, c) => IsBetter(store, a, c)
  <2> HIDE DEF S
  <2>1. ASSUME NEW a \in S PROVE ~IsBetter(store, a, a)
    <3>1. \A x \in Nat : ~(x < x)
      OBVIOUS
    <3> QED
      BY <1>2, <1>3, <3>1, Zenon DEF IsBetter
  <2>2. ASSUME NEW a \in S, NEW b \in S, a # b PROVE IsBetter(store, a, b) \/ IsBetter(store, b, a)
    BY <1>2, <1>3, <2>2 DEF IsBetter
  <2>3. ASSUME NEW a \in S, NEW b \in S, NEW c \in S, IsBetter(store, a, b), IsBetter(store, b, c)
        PROVE  IsBetter(store, a, c)
    BY <1>2, <1>3, <2>3 DEF IsBetter
  <2> QED
    BY <2>1, <2>2, <2>3, Zenon
<1>6. IsFiniteSet(S) /\ Cardinality(S) \in Nat
  BY FS_CardinalityType, Zenon DEF StoreShape
<1> HIDE DEF S, before
<1>7. \E s \in SetToSeqs(S) : \A i, j \in DOMAIN s : i < j => <<s[i], s[j]>> \in before
  BY <1>1, <1>4, <1>6, OrderedSeqExists
<1>8. \E s \in SetToSeqs(S) : Ordered(store, s)
  <2>1. PICK s \in SetToSeqs(S) : \A i, j \in DOMAIN s : i < j => <<s[i], s[j]>> \in before
    BY <1>7, Zenon
  <2>2. \A i \in DOMAIN s : s[i] \in S
    BY Zenon DEF SetToSeqs
  <2> QED
    BY <1>1, <2>1, <2>2, Zenon DEF Ordered
<1>9. sorted \in SetToSeqs(S) /\ Ordered(store, sorted)
  BY <1>8, Zenon
<1>10. /\ DOMAIN m = DOMAIN store /\ m.peers = store.peers /\ m.later = store.later
       /\ m.sorted = sorted
  BY Zenon DEF update_sorted_peers, StoreShape, S
<1> HIDE DEF sorted, m
<1>11. Stored(m) = S
  BY <1>10, Zenon DEF Stored, S
<1>12. StoreShape(m)
  BY <1>10, <1>11, Zenon DEF StoreShape, S
<1>13. Ordered(m, m.sorted)
  BY <1>9, <1>10 DEF Ordered, IsBetter
<1>14. /\ sorted \in [1..Cardinality(S) -> S]
       /\ \A i, j \in 1..Cardinality(S) : i # j => sorted[i] # sorted[j]
  BY <1>9, Zenon DEF SetToSeqs
<1>15. Len(sorted) = Cardinality(S)
  BY <1>6, <1>14
<1>16. ToSet(sorted) = S
  <2>1. sorted \in Injection(1..Cardinality(S), S)
    BY <1>14, Zenon DEF Injection, IsInjective
  <2>2. IsFiniteSet(1..Cardinality(S)) /\ Cardinality(1..Cardinality(S)) = Cardinality(S)
    BY <1>6, FS_Interval
  <2>3. sorted \in Surjection(1..Cardinality(S), S)
    BY <1>6, <2>1, <2>2, FS_Injection, Zenon
  <2> QED
    BY <1>14, <2>3 DEF Surjection, ToSet
<1> QED
  BY <1>10, <1>11, <1>12, <1>13, <1>15, <1>16, Zenon DEF m, StoreInv, Consistent, WithinCapacity, S

\* A peer that is seen is stored, and later than every other.
LEMMA SawKeeps ==
    ASSUME NEW store, StoreShape(store), NEW a, NEW latency \in Nat
    PROVE  /\ StoreShape(Saw(store, a, latency))
           /\ Stored(Saw(store, a, latency)) = Stored(store) \cup {a}
<1> DEFINE m == Saw(store, a, latency)
<1>1. /\ DOMAIN m = DOMAIN store
      /\ m.peers = With(store.peers, a, latency)
      /\ m.later = {ab \in store.later : a \notin {ab[1], ab[2]}} \cup ({a} \X (Stored(store) \ {a}))
  BY Zenon DEF Saw, StoreShape
<1> HIDE DEF m
<1>2. Stored(m) = Stored(store) \cup {a}
  BY <1>1, Zenon DEF Stored, With
<1>3. m.peers \in [Stored(m) -> Nat]
  BY <1>1, <1>2 DEF Stored, With, StoreShape
<1>4. IsFiniteSet(Stored(m))
  BY <1>2, FS_AddElement DEF StoreShape
<1>5. /\ \A b \in Stored(m) : <<b, a>> \notin m.later
      /\ \A b \in Stored(m) \ {a} : <<a, b>> \in m.later
      /\ \A b, c \in Stored(m) \ {a} : <<b, c>> \in m.later <=> <<b, c>> \in store.later
  BY <1>1, <1>2, Zenon
<1> QED
  BY <1>1, <1>2, <1>3, <1>4, <1>5, Zenon DEF m, StoreShape

\* Taking peers away keeps what is said of the others.
LEMMA WithoutKeeps ==
    ASSUME NEW store, StoreShape(store), NEW gone
    PROVE  /\ StoreShape(Without(store, gone))
           /\ Stored(Without(store, gone)) = Stored(store) \ gone
<1> DEFINE m == Without(store, gone)
<1>1. /\ DOMAIN m = DOMAIN store
      /\ m.peers = [a \in DOMAIN store.peers \ gone |-> store.peers[a]]
      /\ m.later = {ab \in store.later : {ab[1], ab[2]} \cap gone = {}}
  BY Zenon DEF Without, StoreShape
<1> HIDE DEF m
<1>2. Stored(m) = Stored(store) \ gone
  BY <1>1, Zenon DEF Stored
<1>3. m.peers \in [Stored(m) -> Nat]
  BY <1>1, <1>2, Zenon DEF Stored, StoreShape
<1>4. IsFiniteSet(Stored(m))
  <2>1. IsFiniteSet(Stored(store)) /\ Stored(store) \ gone \in SUBSET Stored(store)
    BY Zenon DEF StoreShape
  <2> QED
    BY <1>2, <2>1, FS_Subset, Zenon
<1>5. \A b, c \in Stored(m) : <<b, c>> \in m.later <=> <<b, c>> \in store.later
  BY <1>1, <1>2
<1> QED
  BY <1>1, <1>2, <1>3, <1>4, <1>5, Zenon DEF m, StoreShape

\* Removing peers keeps the store consistent.
LEMMA RemoveKeepsStore ==
    ASSUME NEW store, StoreInv(store), NEW gone
    PROVE  StoreInv(remove_peer(store, gone))
<1>1. CASE gone \cap Stored(store) = {}
  BY <1>1, Zenon DEF remove_peer
<1>2. CASE gone \cap Stored(store) # {}
  <2>1. StoreShape(Without(store, gone)) /\ Stored(Without(store, gone)) = Stored(store) \ gone
    BY WithoutKeeps, Zenon DEF StoreInv
  <2>2. /\ Cardinality(Stored(store) \ gone) <= Cardinality(Stored(store))
        /\ Cardinality(Stored(store)) \in Nat /\ Cardinality(Stored(store) \ gone) \in Nat
    <3>1. IsFiniteSet(Stored(store)) /\ Stored(store) \ gone \in SUBSET Stored(store)
      BY Zenon DEF StoreInv, StoreShape
    <3> QED
      BY <3>1, FS_Subset, FS_CardinalityType, Zenon
  <2>3. WithinCapacity(Without(store, gone))
    BY <2>1, <2>2, CapacityAssumption DEF WithinCapacity, StoreInv, Consistent
  <2> QED
    BY <1>2, <2>1, <2>3, SortKeeps, Zenon DEF remove_peer
<1> QED
  BY <1>1, <1>2, Zenon

\* So does storing a peer: there is room for it, or it replaces one.
LEMMA AddKeepsStore ==
    ASSUME NEW store, StoreInv(store), NEW a, NEW latency \in Nat
    PROVE  StoreInv(try_add_peer(store, a, latency))
<1> DEFINE added == Saw(store, a, latency)
           first == Head(store.sorted)
<1>1. StoreShape(added) /\ Stored(added) = Stored(store) \cup {a}
  BY SawKeeps, Zenon DEF StoreInv
<1>2. IsFiniteSet(Stored(store)) /\ Cardinality(Stored(store)) \in Nat
  BY FS_CardinalityType, Zenon DEF StoreInv, StoreShape
<1>3. Cardinality(Stored(store)) <= (IF Capacity = 0 THEN 1 ELSE Capacity)
  BY Zenon DEF StoreInv, Consistent
<1> HIDE DEF added, first
<1>4. CASE a \in Stored(store)
  <2>1. Stored(added) = Stored(store)
    BY <1>1, <1>4, Zenon
  <2>2. StoreInv(update_sorted_peers(added))
    BY <1>1, <1>3, <2>1, SortKeeps, Zenon DEF WithinCapacity
  <2> QED
    BY <1>4, <2>2, Zenon DEF try_add_peer, store_peer, added
<1>5. CASE a \notin Stored(store)
  <2>1. Cardinality(Stored(added)) = Cardinality(Stored(store)) + 1
    BY <1>1, <1>2, <1>5, FS_AddElement, Zenon
  <2>2. CASE Cardinality(Stored(store)) < Capacity \/ store.sorted = <<>>
    <3>1. store.sorted = <<>> => Cardinality(Stored(store)) = 0
      BY Zenon DEF StoreInv, Consistent
    <3>2. WithinCapacity(added)
      BY <1>2, <2>1, <2>2, <3>1, CapacityAssumption DEF WithinCapacity
    <3>3. StoreInv(update_sorted_peers(added))
      BY <1>1, <3>2, SortKeeps, Zenon
    <3> QED
      BY <1>5, <2>2, <3>3, Zenon DEF try_add_peer, store_peer, StoreNewPeer, added
  <2>3. CASE ~(Cardinality(Stored(store)) < Capacity \/ store.sorted = <<>>)
    <3> DEFINE m == Without(added, {first})
    <3>1. StoreShape(m) /\ Stored(m) = Stored(added) \ {first}
      BY <1>1, WithoutKeeps, Zenon
    <3>2. CASE first \in Stored(store)
      <4>1. first \in Stored(added) /\ IsFiniteSet(Stored(added))
        BY <1>1, <3>2, Zenon DEF StoreShape
      <4>2. Cardinality(Stored(m)) = Cardinality(Stored(added)) - 1
        BY <3>1, <4>1, FS_RemoveElement, Zenon
      <4>3. WithinCapacity(m)
        BY <1>2, <1>3, <2>1, <4>2 DEF WithinCapacity
      <4>4. StoreInv(update_sorted_peers(m))
        BY <3>1, <4>3, SortKeeps, Zenon
      <4> QED
        BY <1>5, <2>3, <4>4, Zenon DEF try_add_peer, store_peer, StoreNewPeer, added, first
    <3>3. CASE first \notin Stored(store)
      BY <1>5, <2>3, <3>3, Zenon DEF try_add_peer, store_peer, StoreNewPeer, added, first
    <3> QED
      BY <3>2, <3>3, Zenon
  <2> QED
    BY <2>2, <2>3, Zenon
<1> QED
  BY <1>4, <1>5, Zenon

-----------------------------------------------------------------------------
(* The invariant of the peers.                                              *)

\* The parts of the state.
NetShape(n) ==
    /\ DOMAIN n = {"conns", "ending", "handshaking", "connected", "book", "sync", "relay", "store"}
    /\ DOMAIN n.relay = {"announced", "requested"}

\* PeersAgree of any state of the network.
Agree(n) ==
    /\ DOMAIN n.handshaking \cup DOMAIN n.connected \subseteq DOMAIN n.conns
    /\ \A pt \in n.relay.announced : pt[1] \in DOMAIN n.connected
    /\ \A t \in DOMAIN n.relay.requested : n.relay.requested[t] \in DOMAIN n.connected

\* A connection that cannot be sent on is one of which an event is to come.
WritersKnown(n) == \A p \in DOMAIN n.conns : CanSend(n, p) \/ p \in n.ending

\* An announced transaction was broadcast, or the event that ends the peer is to
\* come.
Announced(n, status) ==
    \A pt \in n.relay.announced :
        /\ pt[2] \in Tx
        /\ \/ status[pt[2]] = "broadcast"
           \/ status[pt[2]] = "unbroadcast" /\ pt[1] \in n.ending

NetInv(n, status) == NetShape(n) /\ Agree(n) /\ WritersKnown(n) /\ Announced(n, status)

\* The inductive invariant.
PeersInv ==
    /\ NetInv(net, pool)
    /\ pool \in [Tx -> {"absent", "unbroadcast", "broadcast"}]

-----------------------------------------------------------------------------
(* What the operations do.                                                  *)

\* The same connections, peers and relay state.
SamePeers(n, m) ==
    /\ NetShape(m)
    /\ m.conns = n.conns /\ m.ending = n.ending /\ m.relay = n.relay
    /\ DOMAIN m.handshaking \subseteq DOMAIN n.handshaking
    /\ DOMAIN m.connected = DOMAIN n.connected

\* The peers are gone from the peer manager and from the relay.
Dropped(n, m, peers) ==
    /\ NetShape(m)
    /\ m.conns = Drop(n.conns, peers) /\ m.ending = n.ending \ peers
    /\ m.handshaking = Drop(n.handshaking, peers)
    /\ m.connected = Drop(n.connected, peers)
    /\ m.relay = on_peer_disconnected(n.relay, peers)

\* The relay's disconnect handler, field by field.
LEMMA RelayDisconnected ==
    ASSUME NEW relay, DOMAIN relay = {"announced", "requested"}, NEW peers
    PROVE  LET r == on_peer_disconnected(relay, peers)
           IN  /\ DOMAIN r = {"announced", "requested"}
               /\ r.announced = {pt \in relay.announced : pt[1] \notin peers}
               /\ \A t \in DOMAIN r.requested :
                     /\ t \in DOMAIN relay.requested
                     /\ r.requested[t] = relay.requested[t]
                     /\ relay.requested[t] \notin peers
<1> DEFINE gone == {t \in Requested(relay) : relay.requested[t] \in peers}
           kept == Keep(relay.requested, Tx \ gone)
           e == [relay EXCEPT !.requested = kept]
<1>1. on_peer_disconnected(relay, peers) =
        [e EXCEPT !.announced = {pt \in e.announced : pt[1] \notin peers}]
  BY Zenon DEF on_peer_disconnected, Ended
<1>2. DOMAIN e = {"announced", "requested"} /\ e.announced = relay.announced /\ e.requested = kept
  <2> HIDE DEF kept
  <2> QED OBVIOUS
<1>3. \A t \in DOMAIN kept :
         /\ t \in DOMAIN relay.requested
         /\ kept[t] = relay.requested[t]
         /\ relay.requested[t] \notin peers
  BY Zenon DEF Keep, Requested
<1> HIDE DEF e, kept
<1> QED
  BY <1>1, <1>2, <1>3, Zenon

\* Forgetting peers drops them, and takes them from the chain sync.
LEMMA ForgetDrops ==
    ASSUME NEW n, NetShape(n), NEW peers
    PROVE  /\ Dropped(n, Forget(n, peers), peers)
           /\ Forget(n, peers).sync = n.sync \ peers
BY RelayDisconnected DEF NetShape, Dropped, Forget, disconnect

\* And with the peer store told.
LEMMA ForgetAndRemoveDrops ==
    ASSUME NEW n, NetShape(n), NEW peers
    PROVE  /\ Dropped(n, ForgetAndRemove(n, peers), peers)
           /\ ForgetAndRemove(n, peers).sync = n.sync \ peers
<1>1. /\ Dropped(n, Forget(n, peers), peers)
      /\ Forget(n, peers).sync = n.sync \ peers
  BY ForgetDrops, Zenon
<1> QED
  BY <1>1, Zenon DEF NetShape, Dropped, ForgetAndRemove

\* A peer whose handshake fails is dropped.
LEMMA ForgetHandshakeDrops ==
    ASSUME NEW n, NetShape(n), NEW p
    PROVE  Dropped(n, ForgetHandshake(n, p), {p})
BY RelayDisconnected DEF NetShape, Dropped, ForgetHandshake, disconnect

\* Dropping peers keeps the invariant: their announcements and requests go too.
LEMMA DropKeeps ==
    ASSUME NEW n, NEW status, NetInv(n, status), NEW m, NEW peers, Dropped(n, m, peers)
    PROVE  NetInv(m, status)
<1> USE DEF NetInv
<1>1. /\ NetShape(m)
      /\ DOMAIN m.conns = DOMAIN n.conns \ peers
      /\ \A p \in DOMAIN m.conns : m.conns[p] = n.conns[p]
      /\ m.ending = n.ending \ peers
      /\ DOMAIN m.handshaking = DOMAIN n.handshaking \ peers
      /\ DOMAIN m.connected = DOMAIN n.connected \ peers
  BY Zenon DEF Dropped, Drop
<1>2. /\ m.relay.announced = {pt \in n.relay.announced : pt[1] \notin peers}
      /\ \A t \in DOMAIN m.relay.requested :
            /\ t \in DOMAIN n.relay.requested
            /\ m.relay.requested[t] = n.relay.requested[t]
            /\ n.relay.requested[t] \notin peers
  BY RelayDisconnected DEF Dropped, NetShape
<1>3. Agree(m)
  BY <1>1, <1>2, Zenon DEF Agree
<1>4. WritersKnown(m)
  BY <1>1, Zenon DEF WritersKnown, CanSend
<1>5. Announced(m, status)
  BY <1>1, <1>2, Zenon DEF Announced
<1> QED
  BY <1>1, <1>3, <1>4, <1>5, Zenon

\* So does anything that leaves the connections, peers and relay as they are.
LEMMA SameKeeps ==
    ASSUME NEW n, NEW status, NetInv(n, status), NEW m, SamePeers(n, m)
    PROVE  NetInv(m, status)
BY Zenon DEF NetInv, SamePeers, Agree, WritersKnown, Announced, CanSend

-----------------------------------------------------------------------------
(* The steps.                                                               *)

\* A new connection: it is entered before the peer is.
LEMMA NewConnectionKeeps ==
    ASSUME NEW n, NEW status, NetInv(n, status), NEW a, NEW alive \in BOOLEAN
    PROVE  /\ NetInv(on_new_connection(n, a, alive), status)
           /\ on_new_connection(n, a, alive).connected = n.connected
<1> DEFINE m == on_new_connection(n, a, alive)
<1>1. CASE a \in Outbound /\ ~alive
  BY <1>1, Zenon DEF on_new_connection
<1>2. CASE ~(a \in Outbound /\ ~alive)
  <2> DEFINE entry == [state |-> IF a \in Outbound THEN "VersionSent" ELSE "ConnectionOpened",
                       relay |-> FALSE]
  <2>1. m = [n EXCEPT !.conns = Put(@, a, alive),
                      !.ending = IF alive THEN @ ELSE @ \cup {a},
                      !.handshaking = Put(@, a, entry)]
    BY <1>2, Zenon DEF on_new_connection
  <2> HIDE DEF m, entry
  <2>2. /\ NetShape(m) /\ m.relay = n.relay /\ m.connected = n.connected
        /\ m.conns = Put(n.conns, a, alive)
        /\ m.ending = IF alive THEN n.ending ELSE n.ending \cup {a}
        /\ m.handshaking = Put(n.handshaking, a, entry)
    BY <2>1, Zenon DEF NetInv, NetShape
  <2>3. Agree(m)
    BY <2>2, Zenon DEF NetInv, Agree, Put
  <2>4. WritersKnown(m)
    BY <2>2, Zenon DEF NetInv, WritersKnown, CanSend, Put
  <2>5. Announced(m, status)
    BY <2>2, Zenon DEF NetInv, Announced
  <2> QED
    BY <2>2, <2>3, <2>4, <2>5, Zenon DEF m, NetInv
<1> QED
  BY <1>1, <1>2, Zenon

\* A version received replaces the entry of a peer in the handshake.
LEMMA VersionKeeps ==
    ASSUME NEW n, NetShape(n), NEW p, NEW fit, VersionOk(n, p, fit), NEW relay
    PROVE  SamePeers(n, on_version(n, p, relay))
BY Zenon DEF NetShape, VersionOk, on_version, SamePeers, Put

\* A verack makes a peer of the handshake a connected one.
LEMMA VerackKeeps ==
    ASSUME NEW n, NEW status, NetInv(n, status), NEW p, VerackOk(n, p)
    PROVE  /\ NetInv(on_verack(n, p), status)
           /\ DOMAIN on_verack(n, p).connected = DOMAIN n.connected \cup {p}
<1> DEFINE info == [relay |-> n.handshaking[p].relay, fee_filter |-> 0,
                    ping |-> "AwaitingPong", latency |-> 0]
           m == on_verack(n, p)
<1>1. m = [n EXCEPT !.handshaking = Drop(@, {p}), !.connected = Put(@, p, info)]
  BY Zenon DEF on_verack
<1> HIDE DEF info, m
<1>2. /\ NetShape(m) /\ m.conns = n.conns /\ m.ending = n.ending /\ m.relay = n.relay
      /\ DOMAIN m.handshaking = DOMAIN n.handshaking \ {p}
      /\ DOMAIN m.connected = DOMAIN n.connected \cup {p}
  BY <1>1, Zenon DEF NetInv, NetShape, Put, Drop
<1>3. p \in DOMAIN n.handshaking
  BY Zenon DEF VerackOk
<1> QED
  BY <1>2, <1>3, Zenon DEF m, NetInv, Agree, WritersKnown, CanSend, Announced

\* A pong that is kept changes what is known of the peer only.
LEMMA PongKeeps ==
    ASSUME NEW n, NetShape(n), NEW p, NEW average, NEW threshold
    PROVE  SamePeers(n, PongKept(on_pong(n, p, average), p, average, threshold))
<1> DEFINE m == on_pong(n, p, average)
<1>1. SamePeers(n, m)
  BY Zenon DEF NetShape, on_pong, SamePeers
<1>2. ASSUME NEW k, SamePeers(n, k), NEW store, NEW sync
      PROVE  SamePeers(n, [k EXCEPT !.store = store, !.sync = sync])
  BY <1>2, Zenon DEF SamePeers, NetShape
<1> HIDE DEF m
<1> QED
  BY <1>1, <1>2, Zenon DEF PongKept, m

\* So does a fee filter.
LEMMA FeeFilterKeeps ==
    ASSUME NEW n, NetShape(n), NEW p, NEW rate
    PROVE  SamePeers(n, set_fee_filter(n, p, rate))
BY Zenon DEF NetShape, set_fee_filter, SamePeers

\* Requests for transactions are made of a connected peer.
LEMMA InvKeeps ==
    ASSUME NEW n, NEW status, NetInv(n, status), NEW p \in DOMAIN n.connected, NEW batch
    PROVE  NetInv([n EXCEPT !.relay = on_inv(@, p, batch)], status)
<1> DEFINE r == on_inv(n.relay, p, batch)
           m == [n EXCEPT !.relay = r]
<1>1. /\ DOMAIN r = {"announced", "requested"} /\ r.announced = n.relay.announced
      /\ \A t \in DOMAIN r.requested : r.requested[t] = p \/
            (t \in DOMAIN n.relay.requested /\ r.requested[t] = n.relay.requested[t])
  BY Zenon DEF NetInv, NetShape, on_inv
<1> HIDE DEF r
<1>2. /\ NetShape(m) /\ m.relay = r /\ m.conns = n.conns /\ m.ending = n.ending
      /\ m.handshaking = n.handshaking /\ m.connected = n.connected
  BY <1>1, Zenon DEF NetInv, NetShape
<1> HIDE DEF m
<1>3. NetInv(m, status)
  BY <1>1, <1>2, Zenon DEF NetInv, Agree, WritersKnown, CanSend, Announced
<1> QED
  BY <1>3, Zenon DEF m, r

\* A request that ends is one less.
LEMMA ValidatedKeeps ==
    ASSUME NEW n, NEW status, NetInv(n, status), NEW t
    PROVE  LET m == [n EXCEPT !.relay = on_validated_tx(@, t)]
           IN  NetInv(m, status) /\ m.connected = n.connected
                 /\ m.relay.announced = n.relay.announced
<1> DEFINE r == on_validated_tx(n.relay, t)
           m == [n EXCEPT !.relay = r]
<1>1. /\ DOMAIN r = {"announced", "requested"} /\ r.announced = n.relay.announced
      /\ \A x \in DOMAIN r.requested :
            x \in DOMAIN n.relay.requested /\ r.requested[x] = n.relay.requested[x]
  BY Zenon DEF NetInv, NetShape, on_validated_tx, Ended, Keep
<1> HIDE DEF r
<1>2. /\ NetShape(m) /\ m.relay = r /\ m.conns = n.conns /\ m.ending = n.ending
      /\ m.handshaking = n.handshaking /\ m.connected = n.connected
  BY <1>1, Zenon DEF NetInv, NetShape
<1> HIDE DEF m
<1>3. NetInv(m, status)
  BY <1>1, <1>2, Zenon DEF NetInv, Agree, WritersKnown, CanSend, Announced
<1> QED
  BY <1>1, <1>2, <1>3, Zenon DEF m, r

\* A transaction that enters the pool was announced to nobody.
LEMMA EntersPool ==
    ASSUME NEW n, NEW status, NetInv(n, status), NEW t \in Tx, ~InPool(status, t),
           status \in [Tx -> {"absent", "unbroadcast", "broadcast"}]
    PROVE  /\ NetInv(n, [status EXCEPT ![t] = "unbroadcast"])
           /\ [status EXCEPT ![t] = "unbroadcast"] \in [Tx -> {"absent", "unbroadcast", "broadcast"}]
<1>1. \A pt \in n.relay.announced : pt[2] # t
  BY Zenon DEF NetInv, Announced, InPool
<1> QED
  BY <1>1, Zenon DEF NetInv, Announced

\* The tick's last part: what is announced to a peer that cannot be sent to, and
\* so stays unbroadcast if nobody else was told, is announced to a peer about to
\* be dropped.
LEMMA RelayTickKeeps ==
    ASSUME NEW n, NetInv(n, pool), pool \in [Tx -> {"absent", "unbroadcast", "broadcast"}],
           RelayTick(n)
    PROVE  PeersInv' /\ net'.connected = n.connected /\ net'.sync = n.sync
<1> DEFINE new == ToAnnounce(n.relay, pool, n.connected)
           sent == Delivered(n, new)
<1>1. PICK old \in SUBSET Requested(n.relay) :
        net' = [n EXCEPT !.relay = on_tick(@, pool, n.connected, old)]
  BY Zenon DEF RelayTick
<1>2. pool' = [t \in Tx |-> IF \E pt \in sent : pt[2] = t THEN "broadcast" ELSE pool[t]]
  BY Zenon DEF RelayTick
<1>3. \A pt \in new : /\ pt[1] \in DOMAIN n.connected
                      /\ pt[2] \in Tx /\ pool[pt[2]] = "unbroadcast"
  BY Zenon DEF ToAnnounce, PendingBroadcast
<1>4. \A pt \in new : pt \in sent \/ pt[1] \in n.ending
  BY <1>3, Zenon DEF Delivered, NetInv, WritersKnown, Agree
<1> DEFINE r == on_tick(n.relay, pool, n.connected, old)
<1>5. /\ DOMAIN r = {"announced", "requested"} /\ r.announced = n.relay.announced \cup new
      /\ \A t \in DOMAIN r.requested :
            t \in DOMAIN n.relay.requested /\ r.requested[t] = n.relay.requested[t]
  <2>1. r = [Ended(n.relay, old) EXCEPT !.announced = @ \cup new]
    BY Zenon DEF on_tick
  <2>2. /\ DOMAIN Ended(n.relay, old) = {"announced", "requested"}
        /\ Ended(n.relay, old).announced = n.relay.announced
        /\ \A t \in DOMAIN Ended(n.relay, old).requested :
              /\ t \in DOMAIN n.relay.requested
              /\ Ended(n.relay, old).requested[t] = n.relay.requested[t]
    BY Zenon DEF Ended, Keep, NetInv, NetShape
  <2> HIDE DEF r, new
  <2> QED
    BY <2>1, <2>2, Zenon
<1>6. net' = [n EXCEPT !.relay = r]
  BY <1>1, Zenon
<1> HIDE DEF r, new, sent
<1>7. /\ NetShape(net') /\ net'.relay = r /\ net'.conns = n.conns /\ net'.ending = n.ending
      /\ net'.handshaking = n.handshaking /\ net'.connected = n.connected /\ net'.sync = n.sync
  BY <1>5, <1>6, Zenon DEF NetInv, NetShape
<1>8. pool' \in [Tx -> {"absent", "unbroadcast", "broadcast"}]
  BY <1>2, Zenon
<1>9. Announced(net', pool')
  <2> SUFFICES ASSUME NEW pt \in r.announced
               PROVE  /\ pt[2] \in Tx
                      /\ \/ pool'[pt[2]] = "broadcast"
                         \/ pool'[pt[2]] = "unbroadcast" /\ pt[1] \in n.ending
    BY <1>7, Zenon DEF Announced
  <2>1. CASE pt \in n.relay.announced
    BY <1>2, <2>1, Zenon DEF NetInv, Announced
  <2>2. CASE pt \in new
    BY <1>2, <1>3, <1>4, <2>2, Zenon
  <2> QED
    BY <1>5, <2>1, <2>2, Zenon
<1>10. Agree(net')
  BY <1>3, <1>5, <1>7, Zenon DEF NetInv, Agree
<1>11. WritersKnown(net')
  BY <1>7, Zenon DEF NetInv, WritersKnown, CanSend
<1> QED
  BY <1>7, <1>8, <1>9, <1>10, <1>11, Zenon DEF PeersInv, NetInv

\* The tick up to the relay's part: the unreliable peers are dropped, then the
\* silent and the slow one; all of them are taken from the chain sync.
LEMMA TickDrops ==
    ASSUME NEW n, NetShape(n), NEW unreliable, NEW pinged, NEW silent,
           NEW managed \in manage_outbound_connections(
                               send_pings(ForgetAndRemove(n, unreliable), pinged))
    PROVE  LET m == ForgetAndRemove(n, unreliable)
               gone == silent \cup managed.slow
           IN  /\ Dropped(n, m, unreliable) /\ SamePeers(m, managed.m)
               /\ Dropped(managed.m, Forget(managed.m, gone), gone)
               /\ managed.m.sync = n.sync \ unreliable
<1> DEFINE m == ForgetAndRemove(n, unreliable)
           k == send_pings(m, pinged)
           gone == silent \cup managed.slow
<1>1. Dropped(n, m, unreliable) /\ m.sync = n.sync \ unreliable
  BY ForgetAndRemoveDrops, Zenon
<1>2. SamePeers(m, k) /\ k.sync = m.sync
  <2> HIDE DEF m
  <2> QED
    BY <1>1, Zenon DEF send_pings, SamePeers, Dropped, NetShape
<1>3. SamePeers(m, managed.m) /\ managed.m.sync = k.sync
  <2>1. managed.m = k \/ \E a \in k.book.discovered : managed.m = [k EXCEPT !.book = pop(@, a)]
    BY DEF manage_outbound_connections
  <2> HIDE DEF m, k
  <2> QED
    BY <1>2, <2>1, Zenon DEF SamePeers, NetShape
<1>4. NetShape(managed.m)
  BY <1>3, Zenon DEF SamePeers
<1>5. /\ Dropped(managed.m, Forget(managed.m, gone), gone)
      /\ Forget(managed.m, gone).sync = managed.m.sync \ gone
  <2> HIDE DEF gone
  <2> QED
    BY <1>4, ForgetDrops, Zenon
<1> HIDE DEF m, k, gone
<1> QED
  BY <1>1, <1>2, <1>3, <1>5, Zenon DEF m, gone

\* Initially there are no peers.
LEMMA PeersInvInit == Init => PeersInv
<1> SUFFICES ASSUME Init PROVE PeersInv
  BY Zenon
<1>1. NetShape(net)
  BY Zenon DEF Init, NetShape, EmptyRelay
<1>2. /\ DOMAIN net.conns = {} /\ DOMAIN net.handshaking = {} /\ DOMAIN net.connected = {}
      /\ net.relay.announced = {} /\ DOMAIN net.relay.requested = {}
  BY Zenon DEF Init, NoPeers, EmptyRelay
<1>3. pool \in [Tx -> {"absent", "unbroadcast", "broadcast"}]
  BY Zenon DEF Init
<1> QED
  BY <1>1, <1>2, <1>3, Zenon DEF PeersInv, NetInv, Agree, WritersKnown, Announced

\* No message, event or tick breaks the invariant.
LEMMA PeersInvNext == PeersInv /\ [Next]_vars => PeersInv'
<1> SUFFICES ASSUME PeersInv, [Next]_vars PROVE PeersInv'
  BY Zenon
<1>1. NetInv(net, pool) /\ NetShape(net) /\ pool \in [Tx -> {"absent", "unbroadcast", "broadcast"}]
  BY Zenon DEF PeersInv, NetInv
<1>2. ASSUME NetInv(net', pool), UNCHANGED pool PROVE PeersInv'
  BY <1>1, <1>2, Zenon DEF PeersInv
<1>3. ASSUME NEW a \in Outbound, OutboundConnection(a) PROVE PeersInv'
  BY <1>1, <1>2, <1>3, NewConnectionKeeps, Zenon DEF OutboundConnection
<1>4. ASSUME NEW a \in Outbound, OutboundConnectionFailure(a) PROVE PeersInv'
  <2>1. net' = [on_outbound_connection_failure(net, a) EXCEPT !.store = remove_peer(@, {a})]
    BY <1>4, Zenon DEF OutboundConnectionFailure
  <2>2. SamePeers(net, net')
    BY <1>1, <2>1, Zenon DEF on_outbound_connection_failure, SamePeers, NetShape
  <2> QED
    BY <1>1, <1>2, <1>4, <2>2, SameKeeps, Zenon DEF OutboundConnectionFailure
<1>5. ASSUME NEW p \in Addr, InboundConnection(p) PROVE PeersInv'
  BY <1>1, <1>2, <1>5, NewConnectionKeeps DEF InboundConnection
<1>6. ASSUME NEW p \in Addr, WriterEnds(p) PROVE PeersInv'
  <2>1. /\ NetShape(net') /\ DOMAIN net'.conns = DOMAIN net.conns
        /\ \A q \in DOMAIN net.conns : q # p => net'.conns[q] = net.conns[q]
        /\ net'.ending = net.ending \cup {p} /\ net'.relay = net.relay
        /\ net'.handshaking = net.handshaking /\ net'.connected = net.connected
    BY <1>1, <1>6, Zenon DEF WriterEnds, NetShape
  <2>2. NetInv(net', pool)
    BY <1>1, <2>1, Zenon DEF NetInv, Agree, WritersKnown, CanSend, Announced
  <2> QED
    BY <1>2, <1>6, <2>2, Zenon DEF WriterEnds
<1>7. ASSUME NEW p \in Addr, DisconnectPeer(p) PROVE PeersInv'
  BY <1>1, <1>2, <1>7, ForgetAndRemoveDrops, DropKeeps, Zenon DEF DisconnectPeer
<1>8. ASSUME NEW p \in Addr, Version(p) PROVE PeersInv'
  <2>1. PICK fit \in BOOLEAN, relay \in Relays[p] :
          net' = IF VersionOk(net, p, fit) THEN on_version(net, p, relay) ELSE ForgetHandshake(net, p)
    BY <1>8, Zenon DEF Version
  <2>2. CASE VersionOk(net, p, fit)
    BY <1>1, <1>2, <1>8, <2>1, <2>2, VersionKeeps, SameKeeps, Zenon DEF Version
  <2>3. CASE ~VersionOk(net, p, fit)
    BY <1>1, <1>2, <1>8, <2>1, <2>3, ForgetHandshakeDrops, DropKeeps, Zenon DEF Version
  <2> QED
    BY <2>2, <2>3, Zenon
<1>9. ASSUME NEW p \in Addr, Verack(p) PROVE PeersInv'
  <2>1. CASE VerackOk(net, p)
    BY <1>1, <1>2, <1>9, <2>1, VerackKeeps, Zenon DEF Verack
  <2>2. CASE ~VerackOk(net, p)
    BY <1>1, <1>2, <1>9, <2>2, ForgetHandshakeDrops, DropKeeps, Zenon DEF Verack
  <2> QED
    BY <2>1, <2>2, Zenon
<1>10. ASSUME NEW p \in Addr, AddrMessage(p) PROVE PeersInv'
  <2>1. SamePeers(net, net')
    BY <1>1, <1>10, Zenon DEF AddrMessage, on_addr, SamePeers, NetShape
  <2> QED
    BY <1>1, <1>2, <1>10, <2>1, SameKeeps, Zenon DEF AddrMessage
<1>11. ASSUME NEW p \in Addr, Pong(p) PROVE PeersInv'
  <2>1. \/ net' = ForgetAndRemove(net, {p})
        \/ \E average, threshold : net' = PongKept(on_pong(net, p, average), p, average, threshold)
    BY <1>11, Zenon DEF Pong
  <2>2. NetInv(net', pool)
    BY <1>1, <2>1, ForgetAndRemoveDrops, DropKeeps, PongKeeps, SameKeeps
  <2> QED
    BY <1>2, <1>11, <2>2, Zenon DEF Pong
<1>12. ASSUME NEW p \in Addr, FeeFilter(p) PROVE PeersInv'
  BY <1>1, <1>2, <1>12, FeeFilterKeeps, SameKeeps, Zenon DEF FeeFilter
<1>13. ASSUME NEW p \in Addr, TxInv(p) PROVE PeersInv'
  BY <1>1, <1>2, <1>13, InvKeeps DEF TxInv, peer_wants_tx_relay, is_connected
<1>14. ASSUME NEW p \in Addr, TxMessage(p) PROVE PeersInv'
  <2>1. PICK t \in Tx, accepted \in BOOLEAN :
          /\ ~InPool(pool, t)
          /\ net' = [net EXCEPT !.relay = on_validated_tx(@, t)]
          /\ pool' = IF accepted THEN [pool EXCEPT ![t] = "unbroadcast"] ELSE pool
    BY <1>14, Zenon DEF TxMessage
  <2>2. NetInv(net', pool)
    BY <1>1, <2>1, ValidatedKeeps, Zenon
  <2> QED
    BY <1>1, <2>1, <2>2, EntersPool, Zenon DEF PeersInv
<1>15. ASSUME NEW p \in Addr, SyncDisconnects(p) PROVE PeersInv'
  BY <1>1, <1>2, <1>15, ForgetDrops, DropKeeps DEF SyncDisconnects
<1>16. ASSUME NEW t \in Tx, SendTransaction(t) PROVE PeersInv'
  BY <1>1, <1>16, EntersPool, Zenon DEF SendTransaction, PeersInv
<1>17. CASE Tick
  <2>1. PICK unreliable \in SUBSET net.sync, over \in SUBSET DOMAIN net.connected :
          \E managed \in manage_outbound_connections(
                send_pings(ForgetAndRemove(net, unreliable), over \cap InState(net, "Idle"))) :
            RelayTick(Forget(managed.m, (over \cap InState(net, "AwaitingPong")) \cup managed.slow))
    BY <1>17, Zenon DEF Tick
  <2> DEFINE pinged == over \cap InState(net, "Idle")
             silent == over \cap InState(net, "AwaitingPong")
  <2>2. PICK managed \in manage_outbound_connections(
                            send_pings(ForgetAndRemove(net, unreliable), pinged)) :
          RelayTick(Forget(managed.m, silent \cup managed.slow))
    BY <2>1, Zenon
  <2> HIDE DEF pinged, silent
  <2> DEFINE m == ForgetAndRemove(net, unreliable)
             gone == silent \cup managed.slow
  <2>3. /\ Dropped(net, m, unreliable) /\ SamePeers(m, managed.m)
        /\ Dropped(managed.m, Forget(managed.m, gone), gone)
    BY <1>1, TickDrops, Zenon
  <2> HIDE DEF m, gone
  <2>4. NetInv(Forget(managed.m, gone), pool)
    BY <1>1, <2>3, DropKeeps, SameKeeps, Zenon
  <2> QED
    BY <1>1, <2>2, <2>4, RelayTickKeeps, Zenon DEF gone
<1>18. CASE UNCHANGED vars
  BY <1>1, <1>2, <1>18, Zenon DEF vars
<1> QED
  BY <1>3, <1>4, <1>5, <1>6, <1>7, <1>8, <1>9, <1>10, <1>11, <1>12, <1>13, <1>14, <1>15,
     <1>16, <1>17, <1>18 DEF Next

\* The invariant holds throughout.
LEMMA PeersInvariant == Spec => []PeersInv
BY PeersInvInit, PeersInvNext, PTL DEF Spec

-----------------------------------------------------------------------------
(* The theorems.                                                            *)

\* Every peer of the peer manager has a connection, and the relay knows of
\* connected peers only, whatever way a peer goes and whatever its reader left in
\* the channel.
THEOREM PeersAgreeTheorem == Spec => []PeersAgree
<1>1. PeersInv => PeersAgree
  BY Zenon DEF PeersInv, NetInv, Agree, PeersAgree, is_connected, Requested
<1> QED
  BY <1>1, PeersInvariant, PTL

\* A transaction that was noted as announced to a peer and is still waiting to be
\* broadcast could not be sent to it, and the event that drops the peer is under
\* way: the relay's bookkeeping ahead of the sends loses no announcement.
THEOREM AnnouncementsNotLostTheorem == Spec => []AnnouncementsNotLost
<1>1. PeersInv => AnnouncementsNotLost
  BY Zenon DEF PeersInv, NetInv, Announced, AnnouncementsNotLost
<1> QED
  BY <1>1, PeersInvariant, PTL

\* A step after which a connected peer is not connected any more, in which the
\* chain sync is not told, is that of a version message.
LEMMA DropsTold ==
    ASSUME PeersInv, Next, NEW p \in Addr, is_connected(net, p), p \notin DOMAIN net'.connected
    PROVE  p \notin net'.sync \/ Version(p)
<1>1. NetInv(net, pool) /\ NetShape(net) /\ pool \in [Tx -> {"absent", "unbroadcast", "broadcast"}]
  BY Zenon DEF PeersInv, NetInv
<1>2. p \in DOMAIN net.connected
  BY Zenon DEF is_connected
<1>3. ASSUME NEW n, NEW m, NEW peers, Dropped(n, m, peers)
      PROVE  DOMAIN m.connected = DOMAIN n.connected \ peers
  BY <1>3, Zenon DEF Dropped, Drop
<1>4. ASSUME NEW a \in Outbound, OutboundConnection(a) PROVE FALSE
  BY <1>1, <1>2, <1>4, NewConnectionKeeps DEF OutboundConnection
<1>5. ASSUME NEW a \in Outbound, OutboundConnectionFailure(a) PROVE FALSE
  <2>1. net' = [on_outbound_connection_failure(net, a) EXCEPT !.store = remove_peer(@, {a})]
    BY <1>5, Zenon DEF OutboundConnectionFailure
  <2> QED
    BY <1>1, <1>2, <2>1, Zenon DEF on_outbound_connection_failure, NetShape
<1>6. ASSUME NEW q \in Addr, InboundConnection(q) PROVE FALSE
  BY <1>1, <1>2, <1>6, NewConnectionKeeps DEF InboundConnection
<1>7. ASSUME NEW q \in Addr, WriterEnds(q) PROVE FALSE
  BY <1>1, <1>2, <1>7, Zenon DEF WriterEnds, NetShape
<1>8. ASSUME NEW q \in Addr, DisconnectPeer(q) PROVE p \notin net'.sync
  <2>1. Dropped(net, net', {q}) /\ net'.sync = net.sync \ {q}
    BY <1>1, <1>8, ForgetAndRemoveDrops, Zenon DEF DisconnectPeer
  <2> QED
    BY <1>2, <1>3, <2>1
<1>9. ASSUME NEW q \in Addr, Version(q) PROVE Version(p)
  <2>1. PICK fit \in BOOLEAN, relay \in Relays[q] :
          net' = IF VersionOk(net, q, fit) THEN on_version(net, q, relay) ELSE ForgetHandshake(net, q)
    BY <1>9, Zenon DEF Version
  <2>2. CASE VersionOk(net, q, fit)
    BY <1>1, <1>2, <2>1, <2>2, VersionKeeps DEF SamePeers
  <2>3. CASE ~VersionOk(net, q, fit)
    <3>1. Dropped(net, net', {q})
      BY <1>1, <2>1, <2>3, ForgetHandshakeDrops, Zenon
    <3>2. q = p
      BY <1>2, <1>3, <3>1
    <3> QED
      BY <1>9, <3>2, Zenon
  <2> QED
    BY <2>2, <2>3, Zenon
<1>10. ASSUME NEW q \in Addr, Verack(q) PROVE FALSE
  <2>1. q \notin DOMAIN net.connected
    BY <1>10, Zenon DEF Verack, is_connected
  <2>2. CASE VerackOk(net, q)
    BY <1>1, <1>2, <1>10, <2>2, VerackKeeps, Zenon DEF Verack
  <2>3. CASE ~VerackOk(net, q)
    <3>1. Dropped(net, net', {q})
      BY <1>1, <1>10, <2>3, ForgetHandshakeDrops, Zenon DEF Verack
    <3> QED
      BY <1>2, <1>3, <2>1, <3>1
  <2> QED
    BY <2>2, <2>3, Zenon
<1>11. ASSUME NEW q \in Addr, AddrMessage(q) PROVE FALSE
  BY <1>1, <1>2, <1>11, Zenon DEF AddrMessage, on_addr, NetShape
<1>12. ASSUME NEW q \in Addr, Pong(q) PROVE p \notin net'.sync
  <2>1. \/ net' = ForgetAndRemove(net, {q})
        \/ \E average, threshold : net' = PongKept(on_pong(net, q, average), q, average, threshold)
    BY <1>12, Zenon DEF Pong
  <2>2. net' = ForgetAndRemove(net, {q})
    BY <1>1, <1>2, <2>1, PongKeeps DEF SamePeers
  <2>3. Dropped(net, net', {q}) /\ net'.sync = net.sync \ {q}
    BY <1>1, <2>2, ForgetAndRemoveDrops, Zenon
  <2> QED
    BY <1>2, <1>3, <2>3
<1>13. ASSUME NEW q \in Addr, FeeFilter(q) PROVE FALSE
  BY <1>1, <1>2, <1>13, FeeFilterKeeps DEF FeeFilter, SamePeers
<1>14. ASSUME NEW q \in Addr, TxInv(q) \/ TxMessage(q) PROVE FALSE
  <2>1. \E r : net' = [net EXCEPT !.relay = r]
    BY <1>14, Zenon DEF TxInv, TxMessage
  <2> QED
    BY <1>1, <1>2, <2>1, Zenon DEF NetShape
<1>15. ASSUME NEW q \in Addr, SyncDisconnects(q) PROVE p \notin net'.sync
  <2>1. Dropped(net, net', {q}) /\ net'.sync = net.sync \ {q}
    BY <1>1, <1>15, ForgetDrops DEF SyncDisconnects
  <2> QED
    BY <1>2, <1>3, <2>1
<1>16. ASSUME NEW t \in Tx, SendTransaction(t) PROVE FALSE
  BY <1>2, <1>16, Zenon DEF SendTransaction
<1>17. CASE Tick
  <2>1. PICK unreliable \in SUBSET net.sync, over \in SUBSET DOMAIN net.connected :
          \E managed \in manage_outbound_connections(
                send_pings(ForgetAndRemove(net, unreliable), over \cap InState(net, "Idle"))) :
            RelayTick(Forget(managed.m, (over \cap InState(net, "AwaitingPong")) \cup managed.slow))
    BY <1>17, Zenon DEF Tick
  <2> DEFINE pinged == over \cap InState(net, "Idle")
             silent == over \cap InState(net, "AwaitingPong")
  <2>2. PICK managed \in manage_outbound_connections(
                            send_pings(ForgetAndRemove(net, unreliable), pinged)) :
          RelayTick(Forget(managed.m, silent \cup managed.slow))
    BY <2>1, Zenon
  <2> HIDE DEF pinged, silent
  <2> DEFINE m == ForgetAndRemove(net, unreliable)
             gone == silent \cup managed.slow
  <2>3. /\ Dropped(net, m, unreliable) /\ SamePeers(m, managed.m)
        /\ Dropped(managed.m, Forget(managed.m, gone), gone)
        /\ managed.m.sync = net.sync \ unreliable
    BY <1>1, TickDrops, Zenon
  <2> HIDE DEF m, gone
  <2>4. Forget(managed.m, gone).sync = (net.sync \ unreliable) \ gone
    BY <2>3, ForgetDrops DEF SamePeers
  <2> DEFINE last == Forget(managed.m, gone)
  <2>5. NetInv(last, pool)
    BY <1>1, <2>3, DropKeeps, SameKeeps, Zenon
  <2>6. net'.connected = last.connected /\ net'.sync = last.sync
    BY <1>1, <2>2, <2>5, RelayTickKeeps, Zenon DEF gone
  <2>7. DOMAIN last.connected = (DOMAIN net.connected \ unreliable) \ gone
    <3>1. DOMAIN m.connected = DOMAIN net.connected \ unreliable
      BY <1>3, <2>3, Zenon
    <3>2. DOMAIN managed.m.connected = DOMAIN m.connected
      BY <2>3, Zenon DEF SamePeers
    <3>3. DOMAIN last.connected = DOMAIN managed.m.connected \ gone
      BY <1>3, <2>3, Zenon
    <3> QED
      BY <3>1, <3>2, <3>3, Zenon
  <2>8. p \in unreliable \/ p \in gone
    BY <1>2, <2>6, <2>7, Zenon
  <2> QED
    BY <2>6, <2>4, <2>8, Zenon
<1> QED
  BY <1>4, <1>5, <1>6, <1>7, <1>8, <1>9, <1>10, <1>11, <1>12, <1>13, <1>14, <1>15,
     <1>16, <1>17 DEF Next

\* Whichever step ends the connection of a connected peer tells the chain sync,
\* unless it is the handling of a version message that fails.
THEOREM SyncToldOfDropsTheorem == Spec => SyncToldOfDrops
<1>1. PeersInv /\ [Next]_vars =>
        [\A p \in Addr : is_connected(net, p) /\ ~(p \in DOMAIN net'.connected)
            => p \notin net'.sync \/ Version(p)]_vars
  BY DropsTold, Zenon DEF vars
<1> QED
  BY <1>1, PeersInvariant, PTL DEF Spec, SyncToldOfDrops

-----------------------------------------------------------------------------
(* The steps and the peer store.                                            *)

\* Forgetting peers leaves the store alone, unless it is told.
LEMMA ForgetStore ==
    ASSUME NEW n, NetShape(n), NEW peers
    PROVE  /\ Forget(n, peers).store = n.store
           /\ ForgetAndRemove(n, peers).store = remove_peer(n.store, peers)
<1>1. Forget(n, peers).store = n.store
  BY DEF NetShape, Forget, disconnect
<1>2. NetShape(Forget(n, peers))
  BY ForgetDrops, Zenon DEF Dropped
<1>3. ForgetAndRemove(n, peers).store = remove_peer(n.store, peers)
  BY <1>1, <1>2 DEF ForgetAndRemove, NetShape
<1> QED
  BY <1>1, <1>3, Zenon

\* A pong that is kept stores the peer or leaves the store alone.
LEMMA PongKeepsStore ==
    ASSUME NEW n, NetShape(n), StoreInv(n.store), NEW p, NEW average \in Nat, NEW threshold
    PROVE  StoreInv(PongKept(on_pong(n, p, average), p, average, threshold).store)
<1> DEFINE m == on_pong(n, p, average)
<1>1. NetShape(m) /\ m.store = n.store
  BY DEF on_pong, NetShape
<1> HIDE DEF m
<1>2. \/ PongKept(m, p, average, threshold).store = m.store
      \/ PongKept(m, p, average, threshold).store = try_add_peer(m.store, p, average)
  BY <1>1, Zenon DEF PongKept, NetShape
<1> QED
  BY <1>1, <1>2, AddKeepsStore, Zenon DEF m

\* The tick removes the unreliable peers from the store and no other.
LEMMA TickKeepsStore ==
    ASSUME NetShape(net), StoreInv(net.store), Tick
    PROVE  StoreInv(net'.store)
<1>1. PICK unreliable \in SUBSET net.sync, over \in SUBSET DOMAIN net.connected :
        \E managed \in manage_outbound_connections(
              send_pings(ForgetAndRemove(net, unreliable), over \cap InState(net, "Idle"))) :
          RelayTick(Forget(managed.m, (over \cap InState(net, "AwaitingPong")) \cup managed.slow))
  BY Zenon DEF Tick
<1> DEFINE pinged == over \cap InState(net, "Idle")
           silent == over \cap InState(net, "AwaitingPong")
<1>2. PICK managed \in manage_outbound_connections(
                          send_pings(ForgetAndRemove(net, unreliable), pinged)) :
        RelayTick(Forget(managed.m, silent \cup managed.slow))
  BY <1>1, Zenon
<1> HIDE DEF pinged, silent
<1> DEFINE m == ForgetAndRemove(net, unreliable)
           k == send_pings(m, pinged)
           gone == silent \cup managed.slow
           last == Forget(managed.m, gone)
<1>3. NetShape(m) /\ m.store = remove_peer(net.store, unreliable)
  BY ForgetAndRemoveDrops, ForgetStore, Zenon DEF Dropped
<1>4. NetShape(k) /\ k.store = m.store
  <2> HIDE DEF m
  <2> QED
    BY <1>3 DEF send_pings, NetShape
<1>5. NetShape(managed.m) /\ managed.m.store = k.store
  <2>1. managed.m = k \/ \E a \in k.book.discovered : managed.m = [k EXCEPT !.book = pop(@, a)]
    BY DEF manage_outbound_connections
  <2> HIDE DEF k
  <2> QED
    BY <1>4, <2>1, Zenon DEF NetShape
<1>6. NetShape(last) /\ last.store = managed.m.store
  <2> HIDE DEF gone
  <2> QED
    BY <1>5, ForgetStore, ForgetDrops, Zenon DEF Dropped
<1>7. \E r : net' = [last EXCEPT !.relay = r]
  BY <1>2, Zenon DEF RelayTick
<1> HIDE DEF m, k, gone, last
<1>8. net'.store = last.store
  BY <1>6, <1>7, Zenon DEF NetShape
<1> QED
  BY <1>3, <1>4, <1>5, <1>6, <1>8, RemoveKeepsStore, Zenon

\* No message, event or tick breaks the store.
LEMMA StoreStep ==
    ASSUME NetShape(net), StoreInv(net.store), [Next]_vars
    PROVE  StoreInv(net'.store)
<1>1. ASSUME NEW a \in Outbound, OutboundConnection(a) PROVE StoreInv(net'.store)
  <2>1. PICK alive \in BOOLEAN : net' = on_new_connection(net, a, alive)
    BY <1>1, Zenon DEF OutboundConnection
  <2>2. on_new_connection(net, a, alive).store = net.store
    BY DEF on_new_connection, NetShape
  <2> QED
    BY <2>1, <2>2
<1>2. ASSUME NEW a \in Outbound, OutboundConnectionFailure(a) PROVE StoreInv(net'.store)
  <2>1. net' = [on_outbound_connection_failure(net, a) EXCEPT !.store = remove_peer(@, {a})]
    BY <1>2, Zenon DEF OutboundConnectionFailure
  <2>2. net'.store = remove_peer(net.store, {a})
    BY <2>1, Zenon DEF on_outbound_connection_failure, NetShape
  <2> QED
    BY <2>2, RemoveKeepsStore, Zenon
<1>3. ASSUME NEW p \in Addr, InboundConnection(p) PROVE StoreInv(net'.store)
  <2>1. PICK alive \in BOOLEAN : net' = on_new_connection(net, p, alive)
    BY <1>3, Zenon DEF InboundConnection
  <2>2. on_new_connection(net, p, alive).store = net.store
    BY DEF on_new_connection, NetShape
  <2> QED
    BY <2>1, <2>2
<1>4. ASSUME NEW p \in Addr, WriterEnds(p) PROVE StoreInv(net'.store)
  BY <1>4, Zenon DEF WriterEnds, NetShape
<1>5. ASSUME NEW p \in Addr, DisconnectPeer(p) PROVE StoreInv(net'.store)
  <2>1. net' = ForgetAndRemove(net, {p})
    BY <1>5, Zenon DEF DisconnectPeer
  <2>2. StoreInv(ForgetAndRemove(net, {p}).store)
    BY ForgetStore, RemoveKeepsStore
  <2> QED
    BY <2>1, <2>2
<1>6. ASSUME NEW p \in Addr, Version(p) PROVE StoreInv(net'.store)
  <2>1. PICK relay : net' = ForgetHandshake(net, p) \/ net' = on_version(net, p, relay)
    BY <1>6, Zenon DEF Version
  <2>2. ForgetHandshake(net, p).store = net.store
    BY DEF ForgetHandshake, disconnect, NetShape
  <2>3. on_version(net, p, relay).store = net.store
    BY DEF on_version, NetShape
  <2> QED
    BY <2>1, <2>2, <2>3
<1>7. ASSUME NEW p \in Addr, Verack(p) PROVE StoreInv(net'.store)
  <2>1. ForgetHandshake(net, p).store = net.store
    BY DEF ForgetHandshake, disconnect, NetShape
  <2>2. on_verack(net, p).store = net.store
    BY DEF on_verack, NetShape
  <2>3. net' = ForgetHandshake(net, p) \/ net' = on_verack(net, p)
    BY <1>7, Zenon DEF Verack
  <2> QED
    BY <2>1, <2>2, <2>3
<1>8. ASSUME NEW p \in Addr, AddrMessage(p) PROVE StoreInv(net'.store)
  BY <1>8, Zenon DEF AddrMessage, on_addr, NetShape
<1>9. ASSUME NEW p \in Addr, Pong(p) PROVE StoreInv(net'.store)
  <2>1. PICK average \in Latencies[p], threshold \in Thresholds :
          \/ net' = ForgetAndRemove(net, {p})
          \/ net' = PongKept(on_pong(net, p, average), p, average, threshold)
    BY <1>9, Zenon DEF Pong
  <2>2. average \in Nat
    BY LatenciesAssumption, Zenon
  <2>3. StoreInv(ForgetAndRemove(net, {p}).store)
    BY ForgetStore, RemoveKeepsStore
  <2>4. StoreInv(PongKept(on_pong(net, p, average), p, average, threshold).store)
    BY <2>2, PongKeepsStore, Zenon
  <2> QED
    BY <2>1, <2>3, <2>4
<1>10. ASSUME NEW p \in Addr, FeeFilter(p) PROVE StoreInv(net'.store)
  <2>1. PICK rate : net' = set_fee_filter(net, p, rate)
    BY <1>10, Zenon DEF FeeFilter
  <2>2. set_fee_filter(net, p, rate).store = net.store
    BY DEF set_fee_filter, NetShape
  <2> QED
    BY <2>1, <2>2
<1>11. ASSUME NEW p \in Addr, TxInv(p) \/ TxMessage(p) PROVE StoreInv(net'.store)
  <2>1. \E r : net' = [net EXCEPT !.relay = r]
    BY <1>11, Zenon DEF TxInv, TxMessage
  <2> QED
    BY <2>1, Zenon DEF NetShape
<1>12. ASSUME NEW p \in Addr, SyncDisconnects(p) PROVE StoreInv(net'.store)
  BY <1>12, ForgetStore, Zenon DEF SyncDisconnects
<1>13. ASSUME NEW t \in Tx, SendTransaction(t) PROVE StoreInv(net'.store)
  BY <1>13, Zenon DEF SendTransaction
<1>14. CASE Tick
  BY <1>14, TickKeepsStore, Zenon
<1>15. CASE UNCHANGED vars
  BY <1>15, Zenon DEF vars
<1> QED
  BY <1>1, <1>2, <1>3, <1>4, <1>5, <1>6, <1>7, <1>8, <1>9, <1>10, <1>11, <1>12, <1>13,
     <1>14, <1>15 DEF Next

\* After any sequence of the store's operations, whatever messages and events they
\* come from, the sorted list holds the stored peers, each once and the better
\* first, within the capacity: the peer that store_peer picks to replace is one
\* that is stored.
THEOREM StoreConsistentTheorem == Spec => []StoreConsistent
<1>1. Init => StoreInv(net.store)
  <2> SUFFICES ASSUME Init PROVE StoreInv(EmptyStore)
    BY DEF Init
  <2>1. /\ DOMAIN EmptyStore = {"peers", "later", "sorted"} /\ EmptyStore.sorted = <<>>
        /\ Stored(EmptyStore) = {}
    BY Zenon DEF EmptyStore, Stored
  <2>2. EmptyStore.peers \in [Stored(EmptyStore) -> Nat]
    BY <2>1, Zenon DEF EmptyStore, Stored
  <2>3. IsFiniteSet({}) /\ Cardinality({}) = 0
    BY FS_EmptySet, Zenon
  <2>4. StoreShape(EmptyStore)
    BY <2>1, <2>2, <2>3, Zenon DEF StoreShape
  <2>5. Ordered(EmptyStore, <<>>) /\ ToSet(<<>>) = {} /\ Len(<<>>) = 0
    BY DEF Ordered, ToSet
  <2> QED
    BY <2>1, <2>3, <2>4, <2>5, CapacityAssumption DEF StoreInv, Consistent
<1>2. PeersInv /\ StoreInv(net.store) /\ [Next]_vars => StoreInv(net.store)'
  BY StoreStep, Zenon DEF PeersInv, NetInv
<1>3. StoreInv(net.store) => StoreConsistent
  BY Zenon DEF StoreInv, StoreConsistent
<1> QED
  BY <1>1, <1>2, <1>3, PeersInvariant, PTL DEF Spec
=============================================================================
