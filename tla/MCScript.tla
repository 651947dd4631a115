------------------------------ MODULE MCScript ------------------------------
(* verify_script for scripts of a few instructions, under the flags of old  *)
(* blocks, of the consensus rules and of the mempool's standard rules.      *)
EXTENDS ScriptInterpreter

Constant(n) == [op |-> "NUM", arg |-> <<n>>]

PushInstructions == {Push(x) : x \in {<<>>, <<1>>, <<128>>, <<127>>}} \cup {Constant(n) : n \in {-1, 1, 2}}
AllInstructions == PushInstructions \cup {Ins(op) : op \in Words}
InputInstructions == PushInstructions \cup {Push(RedeemScript), Ins("RESERVED"), Ins("DUP"), Ins("IF")}
FlowInstructions == {Ins(op) : op \in {"IF", "NOTIF", "ELSE", "ENDIF", "DUP"}}

\* The R of a signature names the key it was made with.
MCVerifies(s, key) == Len(s) >= 9 /\ s[5] = key[4]

Consensus ==
    {"P2SH", "DERSIG", "NULLDUMMY", "CHECKLOCKTIMEVERIFY", "CHECKSEQUENCEVERIFY", "WITNESS"}
Standard ==
    Consensus \cup {"STRICTENC", "LOW_S", "SIGPUSHONLY", "MINIMALDATA", "MINIMALIF", "NULLFAIL",
                    "WITNESS_PUBKEYTYPE", "CLEANSTACK", "DISCOURAGE_UPGRADABLE_NOPS",
                    "DISCOURAGE_UPGRADABLE_WITNESS_PROGRAM", "CONST_SCRIPTCODE"}

Free(n, ins) == [kind |-> "free", len |-> n, ins |-> ins]
Input(n) == Free(n, InputInstructions)
Empty == Free(0, {})
Std(kind) == [kind |-> kind, len |-> 0, ins |-> {}]

Case(flags, input, pubkey, redeem, wit, witness) ==
    [flags |-> flags, sig |-> input, pubkey |-> pubkey, redeem |-> redeem, wit |-> wit,
     witness |-> witness, tx |-> [version |-> 2, lock_time |-> 1, sequence |-> 1]]

\* A bare script after one instruction of the input.
Bare ==
    {Case(flags, Input(1), Free(3, AllInstructions), Std("p2wsh"), Empty, <<>>) :
        flags \in {{}, Consensus, Standard}}

\* P2SH, also with a witness that nothing asks for and with programs inside.
Redeemed ==
    {Case(flags, Input(2), Std("p2sh"), redeem, Free(1, AllInstructions), witness) :
        flags \in {{}, {"P2SH"}, Consensus, Standard},
        redeem \in {Free(2, AllInstructions)} \cup {Std(k) : k \in WitnessKinds},
        witness \in {<<>>, <<WitnessScript>>, <<<<1>>, WitnessScript>>}}

\* Witness programs of the output.
Programmed ==
    {Case(flags, Input(1), Std(kind), Std("p2sh"), Empty, witness) :
        flags \in {Consensus, Standard}, kind \in WitnessKinds,
        witness \in {<<>>, <<WitnessScript>>, <<<<1>>, WitnessScript>>, <<<<1>>>>,
                      <<ScriptBytes(41, 5), WitnessScript>>}}

\* Numbers of several lengths under two instructions.
Numbers == {<<1>>, <<0, 128>>, <<255, 0>>, <<255, 128>>, <<1, 0>>}

Numeric ==
    {Case(Consensus, Empty, Std("p2wsh"), Std("p2sh"), Free(2, AllInstructions), <<a, b, WitnessScript>>) :
        a, b \in Numbers}

\* Conditionals nested three deep.
Nested ==
    {Case(flags, Empty, Std("p2wsh"), Std("p2sh"), Free(7, FlowInstructions), <<a, b, WitnessScript>>) :
        flags \in {Consensus, Standard}, a, b \in {<<>>, <<1>>, <<0, 128>>}}

\* Signatures that differ from DER in a marker, a length or an integer.
DerIntegers == {<<1>>, <<0>>, <<128>>, <<0, 1>>, <<0, 128>>, <<1, 0>>}

SigBytes(mark, total, r, len_r, s, len_s, hash_type) ==
    <<48, total, 2, len_r>> \o r \o <<mark, len_s>> \o s \o <<hash_type>>

Signatures ==
    UNION {{SigBytes(mark, total, r, len_r, s, len_s, hash_type) :
               total \in {Len(r) + Len(s) + 4, Len(r) + Len(s) + 5},
               len_r \in {Len(r) - 1, Len(r), Len(r) + 1}, len_s \in {Len(s) - 1, Len(s), Len(s) + 1}} :
           mark \in {2, 3}, r \in DerIntegers, s \in DerIntegers, hash_type \in {1, 4}}

Signed ==
    {Case(flags, Empty, Std("p2wpkh"), Std("p2sh"), Empty, <<s, WitnessKey>>) :
        flags \in {Consensus, Standard}, s \in Signatures \cup {<<>>, <<48>>}}

\* Multisigs of up to two signatures and three keys.
SigFor(id) == SigBytes(2, 6, <<id>>, 1, <<1>>, 1, 1)

Multisigs ==
    {Case(flags, Empty, Std("p2wsh"), Std("p2sh"), Std(kind),
          <<<<>>>> \o sigs \o <<as_bytes(Len(sigs))>> \o keys \o <<as_bytes(Len(keys)), WitnessScript>>) :
        flags \in {Consensus, Standard}, kind \in {"multisig", "multisigverify"},
        sigs \in SeqOf({SigFor(1), SigFor(2), <<>>}, 2),
        keys \in SeqOf({Key(33, 2, 1), Key(33, 2, 2), Key(65, 4, 1)}, 3)}

MCCases == Bare \cup Redeemed \cup Programmed \cup Numeric \cup Nested \cup Signed \cup Multisigs
=============================================================================
