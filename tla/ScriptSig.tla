----------------------------- MODULE ScriptSig -----------------------------
(***************************************************************************)
(* The encodings of signatures and public keys that the signature opcodes  *)
(* insist on.  A signature is its bytes, counted from 1 here: DER with the  *)
(* hash type after it.                                                      *)
(***************************************************************************)
EXTENDS ScriptNum, FiniteSets

\* Half of the order of the curve.
CONSTANT HALF_ORDER

\* An integer of a signature: not empty, not negative, not padded.
IsInteger(sig, at, len) ==
    /\ len # 0
    /\ sig[at] < 128
    /\ ~(len > 1 /\ sig[at] = 0 /\ sig[at + 1] < 128)

\* Mutant: the length of S is not compared with the size of the signature.
is_valid_signature_encoding_unbounded(sig) ==
    LET len_r == sig[4]
        len_s == sig[6 + len_r]
    IN /\ Len(sig) \in 9..73
       /\ sig[1] = 48
       /\ sig[2] = Len(sig) - 3
       /\ 5 + len_r < Len(sig)
       /\ sig[3] = 2
       /\ IsInteger(sig, 5, len_r)
       /\ sig[len_r + 5] = 2
       /\ len_r + 7 < Len(sig)
       /\ IsInteger(sig, len_r + 7, len_s)

is_valid_signature_encoding(sig) ==
    LET len_r == sig[4]
        len_s == sig[6 + len_r]
    IN /\ Len(sig) \in 9..73
       /\ sig[1] = 48
       /\ sig[2] = Len(sig) - 3
       /\ 5 + len_r < Len(sig)
       /\ len_r + len_s + 7 = Len(sig)
       /\ sig[3] = 2
       /\ IsInteger(sig, 5, len_r)
       /\ sig[len_r + 5] = 2
       /\ IsInteger(sig, len_r + 7, len_s)

BigEndian(bytes) == FoldLeft(LAMBDA acc, byte : 256 * acc + byte, 0, bytes)

is_low_der_signature(sig) ==
    BigEndian(SubSeq(sig, sig[4] + 7, sig[4] + 6 + sig[6 + sig[4]])) <= HALF_ORDER

\* SIGHASH_ANYONECANPAY is the high bit.
is_defined_hashtype_signature(sig) == Last(sig) % 128 \in 1..3

\* "none", or the error of check_signature_encoding.
check_signature_encoding(sig, flags) ==
    IF sig = <<>> THEN "none"
    ELSE IF flags \cap {"DERSIG", "LOW_S", "STRICTENC"} # {} /\ ~is_valid_signature_encoding(sig)
         THEN "Der"
    ELSE IF "LOW_S" \in flags /\ ~is_low_der_signature(sig) THEN "HighS"
    ELSE IF "STRICTENC" \in flags /\ ~is_defined_hashtype_signature(sig)
         THEN "UnsupportedSigHashType"
    ELSE "none"

IsKey(x) == IsSymbol(x) /\ x[1] = KeyMark

is_compressed_pubkey(x) == IsKey(x) /\ x[2] = 33 /\ x[3] \in {2, 3}

is_public_key(x) == is_compressed_pubkey(x) \/ (IsKey(x) /\ x[2] = 65 /\ x[3] = 4)

check_pubkey_encoding(pubkey, flags, sig_version) ==
    IF "STRICTENC" \in flags /\ ~is_public_key(pubkey) THEN "BadPubKey"
    ELSE IF "WITNESS_PUBKEYTYPE" \in flags /\ sig_version = "WitnessV0" /\ ~is_compressed_pubkey(pubkey)
         THEN "WitnessPubKeyType"
    ELSE "none"

\* Both checks, in the order the opcodes make them.
EncodingError(sig, pubkey, flags, sig_version) ==
    IF check_signature_encoding(sig, flags) # "none" THEN check_signature_encoding(sig, flags)
    ELSE check_pubkey_encoding(pubkey, flags, sig_version)

-----------------------------------------------------------------------------
(* What DER is: the grammar in the comment of is_valid_signature_encoding.  *)

\* The shortest encoding of a number whose high bit is clear.
IsDerInteger(bytes) ==
    /\ bytes # <<>>
    /\ bytes[1] < 128
    /\ Len(bytes) = 1 \/ BigEndian(bytes) >= 2^(8 * (Len(bytes) - 1) - 1)

IsDer(sig) ==
    \E r, s \in 1..Len(sig) :
        /\ r + s + 7 = Len(sig)
        /\ SubSeq(sig, 1, 4) = <<48, r + s + 4, 2, r>>
        /\ SubSeq(sig, 5 + r, 6 + r) = <<2, s>>
        /\ IsDerInteger(SubSeq(sig, 5, 4 + r))
        /\ IsDerInteger(SubSeq(sig, 7 + r, 6 + r + s))
=============================================================================
