------------------------------- MODULE TxRelay -------------------------------
(***************************************************************************)
(* The transaction relay: which transactions were announced to which peer,  *)
(* and from which peer each transaction asked for is awaited.  The pool is  *)
(* seen through what the relay asks of it: a transaction is absent, not yet *)
(* broadcast, or broadcast.  An action is what the network processor is to  *)
(* do: messages to send, as a set of pairs of a peer and a transaction.     *)
(***************************************************************************)
EXTENDS Naturals, FiniteSets, Sequences

CONSTANTS
    Tx,
    FeeRate,            \* of each transaction
    MaxTxRequestBatch   \* MAX_TX_REQUEST_BATCH

EmptyRelay == [announced |-> {}, requested |-> [t \in {} |-> 0]]

Requested(relay) == DOMAIN relay.requested

InPool(pool, t) == pool[t] # "absent"
PendingBroadcast(pool) == {t \in Tx : pool[t] = "unbroadcast"}

Keep(f, S) == [t \in DOMAIN f \cap S |-> f[t]]

\* on_inv asks for the announced transactions that are neither in the pool nor
\* asked for already, as many as a batch takes.
Wanted(relay, pool, inv) == {t \in inv : ~InPool(pool, t) /\ t \notin Requested(relay)}

on_inv(relay, from, batch) ==
    [relay EXCEPT !.requested =
        [t \in DOMAIN @ \cup batch |-> IF t \in batch THEN from ELSE relay.requested[t]]]

\* The batches on_inv may ask for: all that is wanted, or the first of it.
Batches(wanted) ==
    {b \in SUBSET wanted :
        Cardinality(b) = IF Cardinality(wanted) > MaxTxRequestBatch THEN MaxTxRequestBatch
                         ELSE Cardinality(wanted)}

\* A request ends.
Ended(relay, txs) == [relay EXCEPT !.requested = Keep(@, Tx \ txs)]

\* The announcements of on_tick: to each connected peer that wants transactions,
\* those it was not told of and whose fee rate passes its filter.
ToAnnounce(relay, pool, peers) ==
    {pt \in (DOMAIN peers) \X PendingBroadcast(pool) :
        /\ peers[pt[1]].relay
        /\ pt \notin relay.announced
        /\ FeeRate[pt[2]] >= peers[pt[1]].fee_filter}

\* on_tick, the requests past TX_REQUEST_TIMEOUT given, which cleanup_timeouts
\* takes out.
on_tick(relay, pool, peers, old) ==
    [Ended(relay, old) EXCEPT !.announced = @ \cup ToAnnounce(relay, pool, peers)]

\* on_validated_tx, whether accepted or refused; the penalty for a refusal is a
\* count that is only logged.
on_validated_tx(relay, t) == Ended(relay, {t})

\* Mutant: the requests made of the peer stay.
DisconnectedKeepsRequests(relay, peers) ==
    [relay EXCEPT !.announced = {pt \in @ : pt[1] \notin peers}]

\* on_peer_disconnected, for every one of a set of peers.
on_peer_disconnected(relay, peers) ==
    [Ended(relay, {t \in Requested(relay) : relay.requested[t] \in peers}) EXCEPT
        !.announced = {pt \in @ : pt[1] \notin peers}]
=============================================================================
