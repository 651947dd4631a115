---------------------------- MODULE SnapcakeProofs ----------------------------
(***************************************************************************)
(* Snapcake downloads the state of the right block, for every set of peers, *)
(* every chain, target, confirmation depth and number of disconnects and    *)
(* crashes.                                                                 *)
(***************************************************************************)
EXTENDS Snapcake, TLAPS

-----------------------------------------------------------------------------
(* The invariant.                                                           *)

StrategyFields ==
    {"state", "best", "headers", "pending_best", "pending_headers", "pending_by_number",
     "pending_coins", "coins", "complete"}

StateFields == {"active", "target", "total", "received", "done", "asked", "peers"}

\* A block that may be the target t, for peers that have synced up to best.
Fits(h, best, t) ==
    /\ h \in Nat
    /\ IF t.kind = "LastFinalized"
       THEN \E p \in Peer : best[p] >= h + ConfirmationDepth - 1
       ELSE h = t.block

\* A request for headers: none is made for a target number, and the one for a
\* target hash is about that block.
HeadersAsked(r, t) ==
    /\ r.peer \in Peer /\ r.block \in Nat
    /\ t.kind # "Number"
    /\ t.kind = "Hash" => r.block = t.block

RequestOK(r, t) ==
    /\ r.kind = "Headers" => HeadersAsked(r, t)
    /\ r.kind = "GetBestBlock" => r.peer \in Peer
    /\ r.kind = "GetBlockHeader" => t.kind = "Number" /\ r.block = t.block

StrategyOK(s, best, t) ==
    /\ DOMAIN s = StrategyFields /\ DOMAIN s.state = StateFields
    /\ \A p \in DOMAIN s.headers : Fits(s.headers[p], best, t)
    /\ s.pending_best \subseteq Peer
    /\ \A r \in s.pending_headers : r.kind = "Headers" /\ HeadersAsked(r, t)
    /\ s.pending_by_number # {} => t.kind = "Number"
    /\ \A r \in s.pending_coins : r.kind = "GetCoinsCount"
    /\ s.state.active => Fits(s.state.target, best, t)

\* The target that is being downloaded came from a header a peer served, so the
\* headers kept, and the requests for them, waiting or sent, fit the sync target.
TargetInv ==
    /\ sync_target \in Targets
    /\ DOMAIN net = {"connected", "best", "requests"} /\ net.best \in [Peer -> Nat]
    /\ \A r \in net.requests : RequestOK(r, sync_target)
    /\ StrategyOK(strategy, net.best, sync_target)

-----------------------------------------------------------------------------
(* Lemmas about the operators.                                              *)

\* The smaller of two numbers, as HeadersServed uses it.
LEMMA MinOfTwo ==
    ASSUME NEW a \in Nat, NEW b \in Nat
    PROVE  Min({a, b}) \in Nat /\ Min({a, b}) <= a /\ Min({a, b}) <= b
<1>1. \E x \in {a, b} : \A y \in {a, b} : x <= y
  OBVIOUS
<1> QED
  BY <1>1 DEF Min

\* A sync target is a number or a hash with its block, or the last finalized one.
LEMMA TargetKinds ==
    ASSUME NEW t \in Targets
    PROVE  /\ t.kind \in {"Number", "Hash", "LastFinalized"}
           /\ t.kind # "LastFinalized" => t.block \in Nat
BY SnapcakeAssumption

\* The headers a peer serves descend from the block asked for, which it has.
LEMMA ServedHeaders ==
    ASSUME NEW r, r.block \in Nat, net.best[r.peer] \in Nat,
           NEW i \in Nat \ {0}, Len(HeadersServed(r)) >= i
    PROVE  /\ r.block <= net.best[r.peer]
           /\ HeadersServed(r)[i] = r.block - (i - 1)
           /\ HeadersServed(r)[i] \in Nat
<1> DEFINE max == IF sync_target.kind = "Hash" THEN 1 ELSE ConfirmationDepth
           k == Min({max, r.block + 1})
<1>1. max \in Nat
  BY SnapcakeAssumption
<1>2. k \in Nat /\ k <= r.block + 1
  BY <1>1, MinOfTwo
<1> HIDE DEF k
<1>3. HeadersServed(r) = IF r.block > net.best[r.peer] THEN <<>>
                         ELSE [j \in 1..k |-> r.block - (j - 1)]
  BY DEF HeadersServed, k
<1>4. r.block <= net.best[r.peer]
  BY <1>3
<1>5. HeadersServed(r) = [j \in 1..k |-> r.block - (j - 1)]
  BY <1>3, <1>4
<1>6. Len([j \in 1..k |-> r.block - (j - 1)]) = k
  BY <1>2
<1>7. i \in 1..k
  BY <1>2, <1>5, <1>6
<1> QED
  BY <1>2, <1>4, <1>5, <1>7

\* on_block_response takes a block that fits: the one asked for by its hash, or
\* the one with ConfirmationDepth - 1 blocks above it on the peer's chain.
LEMMA TakenHeaderFits ==
    ASSUME TargetInv, NEW r, HeadersAsked(r, sync_target),
           Len(HeadersServed(r)) >= TargetIndex
    PROVE  Fits(HeadersServed(r)[TargetIndex], net.best, sync_target)
<1>1. net.best[r.peer] \in Nat /\ r.block \in Nat /\ r.peer \in Peer
  BY DEF TargetInv, HeadersAsked
<1>2. TargetIndex \in Nat \ {0}
  BY SnapcakeAssumption DEF TargetIndex
<1>3. /\ r.block <= net.best[r.peer]
      /\ HeadersServed(r)[TargetIndex] = r.block - (TargetIndex - 1)
      /\ HeadersServed(r)[TargetIndex] \in Nat
  BY <1>1, <1>2, ServedHeaders
<1>4. CASE sync_target.kind = "LastFinalized"
  <2>1. TargetIndex = ConfirmationDepth
    BY <1>4 DEF TargetIndex
  <2>2. net.best[r.peer] >= HeadersServed(r)[TargetIndex] + ConfirmationDepth - 1
    BY <1>1, <1>2, <1>3, <2>1
  <2> QED
    BY <1>1, <1>3, <1>4, <2>2 DEF Fits
<1>5. CASE sync_target.kind # "LastFinalized"
  <2>1. sync_target.kind = "Hash" /\ r.block = sync_target.block
    BY <1>5, TargetKinds DEF TargetInv, HeadersAsked
  <2>2. TargetIndex = 1
    BY <1>5 DEF TargetIndex
  <2> QED
    BY <1>1, <1>3, <1>5, <2>1, <2>2 DEF Fits
<1> QED
  BY <1>4, <1>5

\* A block goes on fitting when peers sync further.
LEMMA FitsMonotone ==
    ASSUME NEW best \in [Peer -> Nat], NEW later \in [Peer -> Nat],
           \A p \in Peer : best[p] <= later[p],
           NEW t, NEW h, Fits(h, best, t)
    PROVE  Fits(h, later, t)
<1>1. CASE t.kind = "LastFinalized"
  <2>1. PICK p \in Peer : best[p] >= h + ConfirmationDepth - 1
    BY <1>1 DEF Fits
  <2>2. later[p] >= h + ConfirmationDepth - 1
    BY <2>1, SnapcakeAssumption DEF Fits
  <2> QED
    BY <1>1, <2>2 DEF Fits
<1>2. CASE t.kind # "LastFinalized"
  BY <1>2 DEF Fits
<1> QED
  BY <1>1, <1>2

\* A strategy in order stays so when peers sync further.
LEMMA StrategyMonotone ==
    ASSUME NEW best \in [Peer -> Nat], NEW later \in [Peer -> Nat],
           \A p \in Peer : best[p] <= later[p],
           NEW t, NEW s, StrategyOK(s, best, t)
    PROVE  StrategyOK(s, later, t)
BY FitsMonotone DEF StrategyOK

\* What maybe_start_state_sync leaves: the strategy as it was, or one that
\* downloads the state of a block some peer named.
LEMMA StartedStrategy ==
    ASSUME TargetInv, NEW start \in MaybeStartStateSync
    PROVE  StrategyOK(start.s, net.best, sync_target)
<1>1. CASE start.s = strategy
  BY <1>1 DEF TargetInv
<1>2. CASE start.s # strategy
  <2>1. PICK h \in Range(strategy.headers) : start = StartStateSync(h)
    BY <1>2 DEF MaybeStartStateSync
  <2>2. start.s = [strategy EXCEPT
                     !.state = StateSync(TRUE, h, strategy.coins[h], DOMAIN strategy.best)]
    BY <1>2, <2>1 DEF StartStateSync
  <2>3. Fits(h, net.best, sync_target)
    BY DEF Range, TargetInv, StrategyOK
  <2> DEFINE state == StateSync(TRUE, h, strategy.coins[h], DOMAIN strategy.best)
  <2>4. DOMAIN state = StateFields /\ state.target = h
    BY DEF StateSync, StateFields
  <2> HIDE DEF state
  <2>5. StrategyOK(strategy, net.best, sync_target) /\ start.s = [strategy EXCEPT !.state = state]
    BY <2>2 DEF TargetInv, state
  <2>6. /\ DOMAIN start.s = StrategyFields /\ start.s.state = state
        /\ start.s.headers = strategy.headers
        /\ start.s.pending_best = strategy.pending_best
        /\ start.s.pending_headers = strategy.pending_headers
        /\ start.s.pending_by_number = strategy.pending_by_number
        /\ start.s.pending_coins = strategy.pending_coins
    BY <2>5 DEF StrategyOK, StrategyFields
  <2> QED
    BY <2>3, <2>4, <2>5, <2>6 DEF StrategyOK
<1> QED
  BY <1>1, <1>2

\* Taking a block that fits as the target of a peer, and asking for its coins.
LEMMA TargetTaken ==
    ASSUME NEW s, NEW best, NEW t, StrategyOK(s, best, t), NEW p, NEW h, Fits(h, best, t)
    PROVE  StrategyOK(TakeTarget(s, p, h), best, t)
<1> DEFINE n == TakeTarget(s, p, h)
           a == Ask(p, "GetCoinsCount", h)
           m == Put(s.headers, p, h)
<1>1. n = [s EXCEPT !.headers = m, !.pending_coins = s.pending_coins \cup {a}]
  BY DEF TakeTarget
<1>2. a.kind = "GetCoinsCount"
  BY DEF Ask
<1>3. \A x \in DOMAIN m : Fits(m[x], best, t)
  BY DEF Put, StrategyOK
<1> HIDE DEF n, a, m
<1>4. /\ DOMAIN n = StrategyFields /\ n.headers = m /\ n.state = s.state
      /\ n.pending_coins = s.pending_coins \cup {a}
      /\ n.pending_best = s.pending_best
      /\ n.pending_headers = s.pending_headers
      /\ n.pending_by_number = s.pending_by_number
  BY <1>1 DEF StrategyOK, StrategyFields
<1>5. StrategyOK(n, best, t)
  BY <1>2, <1>3, <1>4 DEF StrategyOK
<1> QED
  BY <1>5 DEF n

\* Sending requests that are in order leaves the requests in order.
LEMMA Sending ==
    ASSUME TargetInv, NEW R, Send(R), \A r \in R : RequestOK(r, sync_target)
    PROVE  /\ DOMAIN net' = {"connected", "best", "requests"} /\ net'.best = net.best
           /\ \A r \in net'.requests : RequestOK(r, sync_target)
BY DEF Send, TargetInv

-----------------------------------------------------------------------------
(* One lemma per action.                                                    *)

\* actions() keeps the invariant, whichever kind of request it sends.
LEMMA ActionsStep ==
    ASSUME TargetInv, Actions
    PROVE  TargetInv'
<1>1. PICK start \in MaybeStartStateSync :
         \/ SendBestBlockRequests(start.s)
         \/ SendHeaderRequests(start.s)
         \/ SendCoinsCountRequests(start.s)
         \/ SendHeaderRequestsByNumber(start.s)
         \/ SendStateRequest(start.s)
         \/ FinishStateSync(start.s)
         \/ NothingToDo(start.s)
  BY DEF Actions
<1> DEFINE s == start.s
<1>2. StrategyOK(s, net.best, sync_target)
  BY StartedStrategy
<1>3. sync_target' = sync_target
  BY DEF Actions
<1> SUFFICES /\ DOMAIN net' = {"connected", "best", "requests"} /\ net'.best = net.best
             /\ \A r \in net'.requests : RequestOK(r, sync_target)
             /\ StrategyOK(strategy', net.best, sync_target)
  BY <1>3 DEF TargetInv
<1> HIDE DEF s
<1>4. CASE SendBestBlockRequests(s)
  <2> DEFINE R == {Ask(p, "GetBestBlock", 0) : p \in s.pending_best}
  <2>1. \A r \in R : RequestOK(r, sync_target)
    BY <1>2 DEF StrategyOK, Ask, RequestOK
  <2>2. Send(R) /\ strategy' = [s EXCEPT !.pending_best = {}]
    BY <1>4 DEF SendBestBlockRequests
  <2> HIDE DEF R
  <2>3. StrategyOK(strategy', net.best, sync_target)
    BY <1>2, <2>2 DEF StrategyOK, StrategyFields
  <2> QED
    BY <2>1, <2>2, <2>3, Sending
<1>5. CASE SendHeaderRequests(s)
  <2>1. \A r \in s.pending_headers : RequestOK(r, sync_target)
    BY <1>2 DEF StrategyOK, RequestOK
  <2>2. Send(s.pending_headers) /\ strategy' = s
    BY <1>5 DEF SendHeaderRequests
  <2> QED
    BY <1>2, <2>1, <2>2, Sending
<1>6. CASE SendCoinsCountRequests(s)
  <2>1. \A r \in s.pending_coins : RequestOK(r, sync_target)
    BY <1>2 DEF StrategyOK, RequestOK
  <2>2. Send(s.pending_coins) /\ strategy' = [s EXCEPT !.pending_coins = {}]
    BY <1>6 DEF SendCoinsCountRequests
  <2>3. StrategyOK(strategy', net.best, sync_target)
    BY <1>2, <2>2 DEF StrategyOK, StrategyFields
  <2> QED
    BY <2>1, <2>2, <2>3, Sending
<1>7. CASE SendHeaderRequestsByNumber(s)
  <2> DEFINE R == {Ask(p, "GetBlockHeader", sync_target.block) : p \in s.pending_by_number}
  <2>1. \A r \in R : RequestOK(r, sync_target)
    BY <1>2 DEF StrategyOK, Ask, RequestOK
  <2>2. Send(R) /\ strategy' = [s EXCEPT !.pending_by_number = {}]
    BY <1>7 DEF SendHeaderRequestsByNumber
  <2> HIDE DEF R
  <2>3. StrategyOK(strategy', net.best, sync_target)
    BY <1>2, <2>2 DEF StrategyOK, StrategyFields
  <2> QED
    BY <2>1, <2>2, <2>3, Sending
<1>8. CASE SendStateRequest(s)
  <2>1. PICK p \in StatePeers(s) :
          Send({Ask(p, "State", s.state.target)}) /\ strategy' = [s EXCEPT !.state.asked = {p}]
    BY <1>8 DEF SendStateRequest
  <2>2. \A r \in {Ask(p, "State", s.state.target)} : RequestOK(r, sync_target)
    BY DEF Ask, RequestOK
  <2>3. StrategyOK(strategy', net.best, sync_target)
    BY <1>2, <2>1 DEF StrategyOK, StrategyFields, StateFields
  <2> QED
    BY <2>1, <2>2, <2>3, Sending
<1>9. CASE FinishStateSync(s)
  <2>1. strategy' = [s EXCEPT !.state = NoStateSync, !.complete = TRUE] /\ net' = net
    BY <1>9 DEF FinishStateSync
  <2>2. DOMAIN NoStateSync = StateFields /\ NoStateSync.active = FALSE
    BY DEF NoStateSync, StateSync, StateFields
  <2>3. StrategyOK(strategy', net.best, sync_target)
    BY <1>2, <2>1, <2>2 DEF StrategyOK, StrategyFields
  <2> QED
    BY <2>1, <2>3 DEF TargetInv
<1>10. CASE NothingToDo(s)
  BY <1>2, <1>10 DEF NothingToDo, TargetInv
<1> QED
  BY <1>1, <1>4, <1>5, <1>6, <1>7, <1>8, <1>9, <1>10 DEF s

\* A response keeps the invariant: what it is taken for depends on the request.
LEMMA ResponseStep ==
    ASSUME TargetInv, NEW q \in Peer, Response(q)
    PROVE  TargetInv'
<1>1. PICK r \in net.requests :
         \/ BestBlockResponse(r)
         \/ BlockResponse(r)
         \/ CoinsCountResponse(r)
         \/ BlockHeaderResponse(r)
         \/ StateResponse(r)
  BY DEF Response
<1>2. /\ net' = [net EXCEPT !.requests = @ \ {r}]
      /\ sync_target' = sync_target
  BY <1>1 DEF BestBlockResponse, BlockResponse, CoinsCountResponse, BlockHeaderResponse,
              StateResponse, Answered
<1>3. RequestOK(r, sync_target)
  BY DEF TargetInv
<1>4. /\ DOMAIN net' = {"connected", "best", "requests"} /\ net'.best = net.best
      /\ \A x \in net'.requests : RequestOK(x, sync_target)
  BY <1>2 DEF TargetInv
<1>5. StrategyOK(strategy, net.best, sync_target)
  BY DEF TargetInv
<1> SUFFICES StrategyOK(strategy', net.best, sync_target)
  BY <1>2, <1>4 DEF TargetInv
<1>6. CASE BestBlockResponse(r)
  <2>1. /\ r.peer \in Peer /\ net.best[r.peer] \in Nat
        /\ strategy' = on_peer_best_block(r.peer, net.best[r.peer])
    BY <1>3, <1>6 DEF BestBlockResponse, RequestOK, TargetInv
  <2> DEFINE a == HeaderRequest(r.peer, net.best[r.peer])
  <2>2. a.kind = "Headers" /\ (sync_target.kind # "Number" => HeadersAsked(a, sync_target))
    BY <2>1, TargetKinds DEF HeaderRequest, Ask, HeadersAsked, TargetInv
  <2> HIDE DEF a
  <2>3. /\ DOMAIN strategy' = StrategyFields /\ DOMAIN strategy'.state = StateFields
        /\ strategy'.headers = strategy.headers
        /\ strategy'.pending_best = strategy.pending_best
        /\ strategy'.pending_coins = strategy.pending_coins
        /\ strategy'.state.active = strategy.state.active
        /\ strategy'.state.target = strategy.state.target
    BY <1>5, <2>1 DEF on_peer_best_block, StrategyOK, StrategyFields, StateFields
  <2>4. /\ strategy'.pending_headers = IF sync_target.kind = "Number" THEN strategy.pending_headers
                                       ELSE strategy.pending_headers \cup {a}
        /\ strategy'.pending_by_number = IF sync_target.kind = "Number"
                                         THEN strategy.pending_by_number \cup {r.peer}
                                         ELSE strategy.pending_by_number
    BY <1>5, <2>1 DEF on_peer_best_block, StrategyOK, StrategyFields, a
  <2> QED
    BY <1>5, <2>2, <2>3, <2>4 DEF StrategyOK
<1>7. CASE BlockResponse(r)
  <2> DEFINE s == [strategy EXCEPT !.pending_headers = @ \ {r}]
             h == HeadersServed(r)[TargetIndex]
  <2>1. \/ strategy' = strategy
        \/ strategy' = s
        \/ r.kind = "Headers" /\ Len(HeadersServed(r)) >= TargetIndex /\ strategy' = TakeTarget(s, r.peer, h)
    BY <1>7 DEF BlockResponse
  <2>2. StrategyOK(s, net.best, sync_target)
    BY <1>5 DEF StrategyOK, StrategyFields
  <2>3. CASE r.kind = "Headers" /\ Len(HeadersServed(r)) >= TargetIndex /\ strategy' = TakeTarget(s, r.peer, h)
    <3>1. Fits(h, net.best, sync_target)
      BY <1>3, <2>3, TakenHeaderFits DEF RequestOK
    <3> HIDE DEF s, h
    <3> QED
      BY <2>2, <2>3, <3>1, TargetTaken
  <2> QED
    BY <1>5, <2>1, <2>2, <2>3
<1>8. CASE CoinsCountResponse(r)
  BY <1>5, <1>8 DEF CoinsCountResponse, StrategyOK, StrategyFields
<1>9. CASE BlockHeaderResponse(r)
  <2>1. strategy' = strategy \/ strategy' = TakeTarget(strategy, r.peer, r.block)
    BY <1>9 DEF BlockHeaderResponse
  <2>2. Fits(r.block, net.best, sync_target)
    BY <1>3, <1>9, TargetKinds DEF BlockHeaderResponse, RequestOK, Fits, TargetInv
  <2> QED
    BY <1>5, <2>1, <2>2, TargetTaken
<1>10. CASE StateResponse(r)
  <2>1. PICK n : strategy' = [strategy EXCEPT !.state.asked = {}, !.state.received = @ + n,
                                !.state.done = Completes(strategy.state, n)]
    BY <1>10 DEF StateResponse
  <2> QED
    BY <1>5, <2>1 DEF StrategyOK, StrategyFields, StateFields
<1> QED
  BY <1>1, <1>6, <1>7, <1>8, <1>9, <1>10

\* A peer that imports its next block.
LEMMA AnnounceStep ==
    ASSUME TargetInv, NEW p \in Peer, Announce(p)
    PROVE  TargetInv'
<1>1. /\ net' = [net EXCEPT !.best[p] = @ + 1] /\ sync_target' = sync_target
      /\ strategy' = [strategy EXCEPT
            !.best = IF p \in DOMAIN @ THEN Put(@, p, net'.best[p]) ELSE @]
  BY DEF Announce
<1>2. /\ DOMAIN net' = {"connected", "best", "requests"} /\ net'.requests = net.requests
      /\ net'.best \in [Peer -> Nat] /\ \A q \in Peer : net.best[q] <= net'.best[q]
  BY <1>1 DEF TargetInv
<1>3. StrategyOK(strategy', net.best, sync_target)
  BY <1>1 DEF TargetInv, StrategyOK, StrategyFields
<1>4. StrategyOK(strategy', net'.best, sync_target)
  BY <1>2, <1>3, StrategyMonotone DEF TargetInv
<1> QED
  BY <1>1, <1>2, <1>4 DEF TargetInv

\* Peers that come and go.
LEMMA PeerStep ==
    ASSUME TargetInv, NEW p \in Peer, AddPeer(p) \/ RemovePeer(p)
    PROVE  TargetInv'
<1>1. CASE AddPeer(p)
  <2>1. /\ net' = [net EXCEPT !.connected = @ \cup {p}] /\ sync_target' = sync_target
        /\ strategy' = [strategy EXCEPT !.pending_best = @ \cup {p}]
    BY <1>1 DEF AddPeer
  <2> QED
    BY <2>1 DEF TargetInv, StrategyOK, StrategyFields
<1>2. CASE RemovePeer(p)
  <2>1. sync_target' = sync_target /\ net'.best = net.best
        /\ DOMAIN net' = {"connected", "best", "requests"} /\ net'.requests \subseteq net.requests
    BY <1>2 DEF RemovePeer, OfOthers, TargetInv
  <2>2. /\ DOMAIN strategy' = StrategyFields /\ DOMAIN strategy'.state = StateFields
        /\ strategy'.headers = strategy.headers
        /\ strategy'.pending_best = strategy.pending_best
        /\ strategy'.pending_headers \subseteq strategy.pending_headers
        /\ strategy'.pending_by_number \subseteq strategy.pending_by_number
        /\ strategy'.pending_coins \subseteq strategy.pending_coins
        /\ strategy'.state.active = strategy.state.active
        /\ strategy'.state.target = strategy.state.target
    BY <1>2 DEF RemovePeer, OfOthers, StateWithout, TargetInv, StrategyOK, StrategyFields, StateFields
  <2> QED
    BY <2>1, <2>2 DEF TargetInv, StrategyOK
<1> QED
  BY <1>1, <1>2

\* The strategy a (re)started tool begins with.
LEMMA NewStrategyOK ==
    ASSUME NEW best, NEW t
    PROVE  StrategyOK(NewStrategy, best, t)
<1>1. DOMAIN NoStateSync = StateFields /\ NoStateSync.active = FALSE
  BY DEF NoStateSync, StateSync, StateFields
<1> QED
  BY <1>1 DEF NewStrategy, EmptyMap, StrategyOK, StrategyFields

\* A crash loses the strategy and the connections, not what peers have synced.
LEMMA RestartStep ==
    ASSUME TargetInv, Restart
    PROVE  TargetInv'
BY NewStrategyOK DEF Restart, TargetInv

-----------------------------------------------------------------------------
(* The theorems.                                                            *)

\* Every reachable state satisfies the invariant (SnapcakeSyncingStrategy).
THEOREM SnapcakeInvariant == Spec => []TargetInv
<1>1. Init => TargetInv
  <2> SUFFICES ASSUME Init PROVE TargetInv
    OBVIOUS
  <2>1. PICK b \in Bests : net = [connected |-> {}, best |-> b, requests |-> {}]
    BY DEF Init
  <2>2. b \in [Peer -> Nat]
    BY SnapcakeAssumption
  <2> QED
    BY <2>1, <2>2, NewStrategyOK DEF Init, TargetInv
<1>2. TargetInv /\ [Next]_vars => TargetInv'
  <2> SUFFICES ASSUME TargetInv, [Next]_vars PROVE TargetInv'
    OBVIOUS
  <2>1. CASE UNCHANGED vars \/ WriteEntry \/ FinishWriting
    <3>1. UNCHANGED <<net, sync_target, strategy>>
      BY <2>1 DEF vars, WriteEntry, FinishWriting
    <3> QED
      BY <3>1 DEF TargetInv
  <2>2. CASE \E p \in Peer : AddPeer(p) \/ RemovePeer(p)
    BY <2>2, PeerStep
  <2>3. CASE \E p \in Peer : Announce(p)
    BY <2>3, AnnounceStep
  <2>4. CASE \E p \in Peer : Response(p)
    BY <2>4, ResponseStep
  <2>5. CASE Actions
    BY <2>5, ActionsStep
  <2>6. CASE Restart
    BY <2>6, RestartStep
  <2> QED
    BY <2>1, <2>2, <2>3, <2>4, <2>5, <2>6 DEF Next
<1> QED
  BY <1>1, <1>2, PTL DEF Spec

\* The state that is downloaded is that of the block asked for, or of one that has
\* its confirmations on the chain of a peer (on_block_response).
THEOREM SnapcakeTargetConfirmed == Spec => []TargetConfirmed
<1>1. TargetInv => TargetConfirmed
  BY DEF TargetInv, StrategyOK, Fits, TargetConfirmed
<1> QED
  BY <1>1, SnapcakeInvariant, PTL
===============================================================================
