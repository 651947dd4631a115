---------------------------- MODULE UtxoSnapshot ----------------------------
(***************************************************************************)
(* The UTXO snapshot format: how a coin is packed (height and coinbase flag *)
(* in one code, the amount in base ten with its zeros counted, the common   *)
(* scripts by their hash or key), how coins are grouped by transaction, and *)
(* the store the coins wait in.  A script is a record of its class; a key   *)
(* on the curve is its x coordinate and the parity of its y coordinate.     *)
(***************************************************************************)
EXTENDS Integers, Sequences, SequencesExt, FiniteSetsExt


Zeros(n) == Max({e \in 0..9 : n % 10^e = 0})

compress_amount(n) ==
    LET e == Zeros(n)
        m == n \div 10^e
    IN IF n = 0 THEN 0
       ELSE IF e < 9 THEN 1 + ((m \div 10) * 9 + (m % 10) - 1) * 10 + e
       ELSE 1 + (m - 1) * 10 + 9

decompress_amount(x) ==
    LET e == (x - 1) % 10
        y == (x - 1) \div 10
    IN IF x = 0 THEN 0
       ELSE IF e < 9 THEN ((y \div 9) * 10 + (y % 9) + 1) * 10^e
       ELSE (y + 1) * 10^e

-----------------------------------------------------------------------------
(* Scripts. *)

P2pkh(hash) == [kind |-> "p2pkh", hash |-> hash]
P2sh(hash) == [kind |-> "p2sh", hash |-> hash]
P2pk(x, odd, compressed) == [kind |-> "p2pk", x |-> x, odd |-> odd, compressed |-> compressed]
\* Any other script, among them a 65 byte key that is not on the curve.
OtherScript(bytes, len) == [kind |-> "other", bytes |-> bytes, len |-> len]

to_key_id(script) == IF script.kind = "p2pkh" THEN {script.hash} ELSE {}

to_script_id(script) == IF script.kind = "p2sh" THEN {script.hash} ELSE {}

to_pub_key(script) == IF script.kind = "p2pk" THEN {script} ELSE {}

\* The first byte and the payload, or nothing when the script has no short form.
compress_script(script) ==
    {<<0, hash>> : hash \in to_key_id(script)}
      \cup {<<1, hash>> : hash \in to_script_id(script)}
      \cup {<<(IF key.compressed THEN 2 ELSE 4) + (IF key.odd THEN 1 ELSE 0), key.x>> :
                key \in to_pub_key(script)}

SPECIAL_SCRIPTS == 6
MAX_SCRIPT_SIZE == 10000

\* ScriptCompression: a script without a short form follows its length plus six.
SerializeScript(script) ==
    IF compress_script(script) # {} THEN CHOOSE c \in compress_script(script) : TRUE
    ELSE <<script.len + SPECIAL_SCRIPTS, script.bytes>>

OP_RETURN == OtherScript("OP_RETURN", 1)

DeserializeScript(c) ==
    CASE c[1] = 0 -> P2pkh(c[2])
      [] c[1] = 1 -> P2sh(c[2])
      [] c[1] \in {2, 3} -> P2pk(c[2], c[1] = 3, TRUE)
      [] c[1] \in {4, 5} -> P2pk(c[2], c[1] = 5, FALSE)
      [] c[1] - SPECIAL_SCRIPTS > MAX_SCRIPT_SIZE -> OP_RETURN
      [] OTHER -> OtherScript(c[2], c[1] - SPECIAL_SCRIPTS)

-----------------------------------------------------------------------------
(* Coins. *)

\* A length or an index: the marker byte and the width of what follows it.
write_compact_size(size) ==
    IF size < 253 THEN <<size>>
    ELSE IF size <= 65535 THEN <<253, size % 65536>>
    ELSE <<254, size>>

ReadCompactSize(c) == IF Len(c) = 1 THEN c[1] ELSE c[2]

serialize_coin(coin) ==
    [code |-> coin.height * 2 + (IF coin.is_coinbase THEN 1 ELSE 0),
     amount |-> compress_amount(coin.amount),
     script |-> SerializeScript(coin.script_pubkey)]

DeserializeCoin(c) ==
    [height |-> c.code \div 2, is_coinbase |-> c.code % 2 = 1,
     amount |-> decompress_amount(c.amount), script_pubkey |-> DeserializeScript(c.script)]

\* One transaction's coins, in the order of their outputs.
write_coins(txid, coins) ==
    LET sorted == SetToSortSeq(coins, LAMBDA a, b : a.vout < b.vout)
    IN [txid |-> txid, len |-> write_compact_size(Len(sorted)),
        coins |-> [i \in DOMAIN sorted |-> [vout |-> write_compact_size(sorted[i].vout),
                                            coin |-> serialize_coin(sorted[i].coin)]]]

write_snapshot_metadata(block, count) == [base_blockhash |-> block, coins_count |-> count]

\* What a reader of a snapshot makes of one group.
ReadGroup(group) ==
    {[txid |-> group.txid, vout |-> ReadCompactSize(group.coins[i].vout),
      coin |-> DeserializeCoin(group.coins[i].coin)] : i \in DOMAIN group.coins}

ReadGroups(groups) == UNION {ReadGroup(groups[i]) : i \in DOMAIN groups}

-----------------------------------------------------------------------------
(* The coins of the store, keyed by transaction and output.  The RocksDB    *)
(* iterator yields them by key; consecutive entries of one transaction are  *)
(* one group.                                                               *)

KeyLess(a, b) == a.txid < b.txid \/ (a.txid = b.txid /\ a.vout < b.vout)

\* insert_batch_to_rocksdb: an entry with the key of an earlier one replaces
\* it, the count grows by the size of the batch.
insert_batch_to_rocksdb(db, batch) ==
    [entries |-> {e \in db.entries : \A u \in batch : <<u.txid, u.vout>> # <<e.txid, e.vout>>}
                   \cup batch,
     count |-> db.count + Cardinality(batch)]

Entry(u) == [vout |-> u.vout, coin |-> u.coin]

\* generate_from_rocksdb: the entries the iterator still yields, last_txid, the
\* coins collected for it, and the groups written.
NewIterator(db) == [rest |-> db.entries, last |-> {}, coins |-> {}]

NextEntry(rest) == CHOOSE u \in rest : \A v \in rest \ {u} : KeyLess(u, v)

LastGroup(it) == write_coins(CHOOSE t \in it.last : TRUE, it.coins)

\* Mutant: the coins of a transaction are not taken away when they are written.
CollectEntryKeepsCoins(it, u) ==
    [rest |-> it.rest \ {u}, last |-> {u.txid}, coins |-> it.coins \cup {Entry(u)}]

\* One turn of its loop, and the groups it writes.
CollectEntry(it, u) ==
    [rest |-> it.rest \ {u}, last |-> {u.txid},
     coins |-> (IF u.txid \in it.last THEN it.coins ELSE {}) \cup {Entry(u)}]

WrittenBy(it, u) == IF it.last \subseteq {u.txid} THEN <<>> ELSE <<LastGroup(it)>>

\* What is written after the loop.
WrittenAtEnd(it) == IF it.last = {} THEN <<>> ELSE <<LastGroup(it)>>

\* The same by group_utxos_by_txid, the in-memory form of the generator.
group_utxos_by_txid(utxos) ==
    LET txids == SetToSortSeq({u.txid : u \in utxos}, <)
    IN [i \in DOMAIN txids |->
            write_coins(txids[i], {Entry(u) : u \in {v \in utxos : v.txid = txids[i]}})]
=============================================================================
