----------------------------- MODULE ScriptNum -----------------------------
(***************************************************************************)
(* What the script interpreter reads and writes on its stack.  An element  *)
(* is a sequence of bytes.  The long ones whose bytes do not matter are     *)
(* symbols, a mark above 255 followed by what the symbol stands for: a      *)
(* hash, a public key, a serialized script.                                 *)
(***************************************************************************)
EXTENDS Integers, Sequences, SequencesExt

MAX_NUM_SIZE == 4

KeyMark == 256
ScriptMark == 257
\* The marks of the hash functions, with the size of their digests.
HashMark == [RIPEMD160 |-> 258, SHA1 |-> 259, SHA256 |-> 260, HASH160 |-> 261, HASH256 |-> 262]

Hash(name, x) == <<HashMark[name]>> \o x
\* A key is its serialized size, its first byte and a name.
Key(size, prefix, id) == <<KeyMark, size, prefix, id>>
ScriptBytes(size, id) == <<ScriptMark, size, id>>

IsSymbol(x) == x # <<>> /\ x[1] > 255

Size(x) ==
    CASE ~IsSymbol(x) -> Len(x)
      [] x[1] \in {KeyMark, ScriptMark} -> x[2]
      [] x[1] \in {HashMark.SHA256, HashMark.HASH256} -> 32
      [] OTHER -> 20

-----------------------------------------------------------------------------
is_minimally_encoded(data) ==
    \/ data = <<>>
    \/ Last(data) % 128 # 0
    \/ Len(data) > 1 /\ data[Len(data) - 1] >= 128

\* from_bytes accepts the element as a number of at most max_size bytes.
IsNum(data, require_minimal, max_size) ==
    /\ Size(data) <= max_size
    /\ require_minimal => is_minimally_encoded(data)

\* The number it reads: little endian, the sign in the last byte's high bit.
value(data) ==
    LET unsigned == FoldRight(LAMBDA byte, acc : byte + 256 * acc,
                              [data EXCEPT ![Len(data)] = @ % 128], 0)
    IN IF data = <<>> THEN 0 ELSE IF Last(data) >= 128 THEN -unsigned ELSE unsigned

AbsValue(n) == IF n < 0 THEN -n ELSE n

\* The bytes of a number without its sign.
Bytes(n) ==
    LET width == CHOOSE k \in 0..3 : n < 256^k /\ (k = 0 \/ n >= 256^(k - 1))
    IN [i \in 1..width |-> (n \div 256^(i - 1)) % 256]

\* Mutant: no byte is added for the sign.
as_bytes_unpadded(n) ==
    LET result == Bytes(AbsValue(n))
    IN IF n < 0 THEN [result EXCEPT ![Len(result)] = 128 + (@ % 128)] ELSE result

as_bytes(n) ==
    LET result == Bytes(AbsValue(n))
    IN IF n = 0 THEN <<>>
       ELSE IF Last(result) >= 128 THEN Append(result, IF n < 0 THEN 128 ELSE 0)
       ELSE IF n < 0 THEN [result EXCEPT ![Len(result)] = @ + 128]
       ELSE result

-----------------------------------------------------------------------------
(* Elements as truth values. *)

cast_to_bool(data) ==
    \/ IsSymbol(data)
    \/ \E i \in DOMAIN data : data[i] # 0 /\ (i = Len(data) => data[i] # 128)

FromBool(b) == IF b THEN <<1>> ELSE <<>>

-----------------------------------------------------------------------------
(* The stack, its top last.  The operations are applied to stacks that have *)
(* the items they require.                                                  *)

TopItems(s, n) == SubSeq(s, Len(s) - n + 1, Len(s))
Slice(s, from, to) == SubSeq(s, Len(s) - from + 1, Len(s) - to)

top(s, i) == s[Len(s) - i]
remove(s, i) == Slice(s, Len(s), i + 1) \o TopItems(s, i)
drop(s, n) == Slice(s, Len(s), n)
dup(s, n) == s \o TopItems(s, n)
over(s, n) == s \o Slice(s, 2 * n, n)
rot(s, n) == drop(s, 3 * n) \o TopItems(s, 2 * n) \o Slice(s, 3 * n, 2 * n)
swap(s, n) == drop(s, 2 * n) \o TopItems(s, n) \o Slice(s, 2 * n, n)
nip(s) == Append(drop(s, 2), Last(s))
tuck(s) == drop(s, 2) \o <<Last(s)>> \o TopItems(s, 2)
=============================================================================
