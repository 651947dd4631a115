----------------------------- MODULE ScriptEval -----------------------------
(***************************************************************************)
(* eval_script: what one instruction does to the machine.  The machine is a *)
(* record: the stack, the alt stack, the conditions of the open branches,   *)
(* the operations counted, the signature version, whether numbers must be   *)
(* minimal, and the error it stopped with ("none" while it runs).  An        *)
(* instruction is [op, arg]; arg is the data of a push, or the number of a  *)
(* constant.  OP_CHECKMULTISIG only takes its arguments here; its loop is   *)
(* in ScriptInterpreter.                                                    *)
(***************************************************************************)
EXTENDS ScriptSig

CONSTANTS
    MAX_OPS_PER_SCRIPT, MAX_STACK_SIZE, MAX_PUBKEYS_PER_MULTISIG, MAX_SCRIPT_ELEMENT_SIZE,
    SEQUENCE_MAX,           \* the sequence of an input that opts out of lock times
    LOCK_TIME_THRESHOLD,    \* lock times from here on are timestamps
    SEQUENCE_TYPE_FLAG,     \* the bit of a relative lock that counts time
    SEQUENCE_MASK,          \* the values of a relative lock
    Verifies(_, _)          \* does the signature verify under the key?

ASSUME MaxPubkeysAssumption == MAX_PUBKEYS_PER_MULTISIG \in Nat

Machine(stack, sig_version, minimal) ==
    [stack |-> stack, alt |-> <<>>, exec |-> <<>>, ops |-> 0,
     version |-> sig_version, minimal |-> minimal, err |-> "none"]

Err(m, e) == [m EXCEPT !.err = e]
Put(m, n, items) == [m EXCEPT !.stack = drop(@, n) \o items]

executing(m) == \A i \in DOMAIN m.exec : m.exec[i]

\* The opcodes from OP_IF to OP_ENDIF are handled in a branch that is not taken.
FlowOps == {"IF", "NOTIF", "VERIF", "VERNOTIF", "ELSE", "ENDIF"}

\* The opcodes above OP_16.
IsCounted(op) == op \notin {"PUSH", "NUM", "RESERVED"}

-----------------------------------------------------------------------------
(* Flow control. *)

\* Mutant: a condition inside a branch that is not taken is passed over.
OpIfSkipsNested(m, op, flags) ==
    IF ~executing(m) THEN m
    ELSE IF m.stack = <<>> THEN Err(m, "InvalidStackOperation")
    ELSE [m EXCEPT !.stack = drop(@, 1),
                   !.exec = Append(@, cast_to_bool(Last(m.stack)) # (op = "NOTIF"))]

OpIf(m, op, flags) ==
    IF ~executing(m) THEN [m EXCEPT !.exec = Append(@, FALSE)]
    ELSE IF m.stack = <<>> THEN Err(m, "InvalidStackOperation")
    ELSE IF m.version = "WitnessV0" /\ "MINIMALIF" \in flags /\ Last(m.stack) \notin {<<>>, <<1>>}
         THEN Err(m, "Minimalif")
    ELSE [m EXCEPT !.stack = drop(@, 1),
                   !.exec = Append(@, cast_to_bool(Last(m.stack)) # (op = "NOTIF"))]

OpElse(m) ==
    IF m.exec = <<>> THEN Err(m, "UnbalancedConditional")
    ELSE [m EXCEPT !.exec[Len(m.exec)] = ~@]

OpEndif(m) ==
    IF m.exec = <<>> THEN Err(m, "UnbalancedConditional") ELSE [m EXCEPT !.exec = Front(@)]

-----------------------------------------------------------------------------
(* Stack operations: the items each requires, and the stack it leaves. *)

Required ==
    [DROP2 |-> 2, DUP2 |-> 2, DUP3 |-> 3, OVER2 |-> 4, ROT2 |-> 6, SWAP2 |-> 4, IFDUP |-> 1,
     DEPTH |-> 0, DROP |-> 1, DUP |-> 1, NIP |-> 2, OVER |-> 2, ROT |-> 3, SWAP |-> 2,
     TUCK |-> 2, SIZE |-> 1, EQUAL |-> 2,
     RIPEMD160 |-> 1, SHA1 |-> 1, SHA256 |-> 1, HASH160 |-> 1, HASH256 |-> 1]

StackOp(op, s) ==
    CASE op = "DROP2" -> drop(s, 2)
      [] op = "DUP2" -> dup(s, 2)
      [] op = "DUP3" -> dup(s, 3)
      [] op = "OVER2" -> over(s, 2)
      [] op = "ROT2" -> rot(s, 2)
      [] op = "SWAP2" -> swap(s, 2)
      [] op = "IFDUP" -> IF cast_to_bool(Last(s)) THEN dup(s, 1) ELSE s
      [] op = "DEPTH" -> Append(s, as_bytes(Len(s)))
      [] op = "DROP" -> drop(s, 1)
      [] op = "DUP" -> dup(s, 1)
      [] op = "NIP" -> nip(s)
      [] op = "OVER" -> over(s, 1)
      [] op = "ROT" -> rot(s, 1)
      [] op = "SWAP" -> swap(s, 1)
      [] op = "TUCK" -> tuck(s)
      [] op = "SIZE" -> Append(s, as_bytes(Size(Last(s))))
      [] op = "EQUAL" -> Append(drop(s, 2), FromBool(top(s, 0) = top(s, 1)))
      [] OTHER -> Append(drop(s, 1), Hash(op, Last(s)))

OpStack(m, op) ==
    IF Len(m.stack) < Required[op] THEN Err(m, "InvalidStackOperation")
    ELSE [m EXCEPT !.stack = StackOp(op, @)]

OpToAlt(m) ==
    IF m.stack = <<>> THEN Err(m, "InvalidStackOperation")
    ELSE [m EXCEPT !.stack = Front(@), !.alt = Append(@, Last(m.stack))]

OpFromAlt(m) ==
    IF m.alt = <<>> THEN Err(m, "InvalidAltStackOperation")
    ELSE [m EXCEPT !.alt = Front(@), !.stack = Append(@, Last(m.alt))]

\* VERIFY and EQUALVERIFY.
OpVerify(m) ==
    IF m.stack = <<>> THEN Err(m, "InvalidStackOperation")
    ELSE IF ~cast_to_bool(Last(m.stack)) THEN Err(m, "Verify")
    ELSE Put(m, 1, <<>>)

OpEqualVerify(m) ==
    IF Len(m.stack) < 2 THEN Err(m, "InvalidStackOperation")
    ELSE IF top(m.stack, 0) # top(m.stack, 1) THEN Err(m, "Verify")
    ELSE Put(m, 2, <<>>)

-----------------------------------------------------------------------------
(* Numbers. *)

\* The machine can pop n numbers.
HasNums(m, n) ==
    Len(m.stack) >= n /\ \A i \in 0..(n - 1) : IsNum(top(m.stack, i), m.minimal, MAX_NUM_SIZE)

Num(m, i) == value(top(m.stack, i))

FromTruth(b) == IF b THEN 1 ELSE 0

UnaryOps == {"ADD1", "SUB1", "NEGATE", "ABS", "NOT", "NOTEQUAL0"}

Unary(op, a) ==
    CASE op = "ADD1" -> a + 1
      [] op = "SUB1" -> a - 1
      [] op = "NEGATE" -> -a
      [] op = "ABS" -> AbsValue(a)
      [] op = "NOT" -> FromTruth(a = 0)
      [] op = "NOTEQUAL0" -> FromTruth(a # 0)

BinaryOps == {"ADD", "SUB", "BOOLAND", "BOOLOR", "NUMEQUAL", "NUMNOTEQUAL", "LESSTHAN",
              "GREATERTHAN", "LESSTHANOREQUAL", "GREATERTHANOREQUAL", "MIN", "MAX"}

\* The number below the top, and the top.
Binary(op, b, a) ==
    CASE op = "ADD" -> a + b
      [] op = "SUB" -> b - a
      [] op = "BOOLAND" -> FromTruth(a # 0 /\ b # 0)
      [] op = "BOOLOR" -> FromTruth(a # 0 \/ b # 0)
      [] op = "NUMEQUAL" -> FromTruth(a = b)
      [] op = "NUMNOTEQUAL" -> FromTruth(a # b)
      [] op = "LESSTHAN" -> FromTruth(b < a)
      [] op = "GREATERTHAN" -> FromTruth(b > a)
      [] op = "LESSTHANOREQUAL" -> FromTruth(b <= a)
      [] op = "GREATERTHANOREQUAL" -> FromTruth(b >= a)
      [] op = "MIN" -> IF a < b THEN a ELSE b
      [] op = "MAX" -> IF a > b THEN a ELSE b

OpUnary(m, op) ==
    IF HasNums(m, 1) THEN Put(m, 1, <<as_bytes(Unary(op, Num(m, 0)))>>) ELSE Err(m, "InvalidNumber")

OpBinary(m, op) ==
    IF HasNums(m, 2) THEN Put(m, 2, <<as_bytes(Binary(op, Num(m, 1), Num(m, 0)))>>)
    ELSE Err(m, "InvalidNumber")

OpNumEqualVerify(m) ==
    IF ~HasNums(m, 2) THEN Err(m, "InvalidNumber")
    ELSE IF Num(m, 0) # Num(m, 1) THEN Err(m, "Verify")
    ELSE Put(m, 2, <<>>)

OpWithin(m) ==
    IF HasNums(m, 3)
    THEN Put(m, 3, <<FromBool(Num(m, 1) <= Num(m, 2) /\ Num(m, 2) < Num(m, 0))>>)
    ELSE Err(m, "InvalidNumber")

\* PICK and ROLL: the rest of the stack is what is left after the number.
OpPick(m, op) ==
    LET rest == Front(m.stack)
        n == Num(m, 0)
    IN IF ~HasNums(m, 1) THEN Err(m, "InvalidNumber")
       ELSE IF n < 0 \/ n >= Len(rest) THEN Err(m, "InvalidStackOperation")
       ELSE IF op = "PICK" THEN [m EXCEPT !.stack = Append(rest, top(rest, n))]
       ELSE [m EXCEPT !.stack = Append(remove(rest, n), top(rest, n))]

-----------------------------------------------------------------------------
(* Lock times.  tx is the spending transaction: its version, its lock time  *)
(* and the sequence of the input, as far as they are compared.              *)

check_lock_time(tx, n) ==
    /\ (n < LOCK_TIME_THRESHOLD) = (tx.lock_time < LOCK_TIME_THRESHOLD)
    /\ n <= tx.lock_time
    /\ tx.sequence # SEQUENCE_MAX

\* SEQUENCE_MAX stands for the sequences with the disable bit.
check_sequence(tx, n) ==
    LET counts_time(x) == (x \div SEQUENCE_TYPE_FLAG) % 2
    IN /\ tx.version >= 2
       /\ tx.sequence # SEQUENCE_MAX
       /\ counts_time(n) = counts_time(tx.sequence)
       /\ n % SEQUENCE_MASK <= tx.sequence % SEQUENCE_MASK

OpLock(m, op, flags, tx) ==
    IF op \notin flags THEN m
    ELSE IF m.stack = <<>> THEN Err(m, "InvalidStackOperation")
    ELSE IF ~IsNum(Last(m.stack), "MINIMALDATA" \in flags, 5) THEN Err(m, "InvalidNumber")
    ELSE IF Num(m, 0) < 0 THEN Err(m, "NegativeLocktime")
    ELSE IF op = "CHECKLOCKTIMEVERIFY" /\ ~check_lock_time(tx, Num(m, 0))
         THEN Err(m, "UnsatisfiedLocktime")
    ELSE IF op = "CHECKSEQUENCEVERIFY" /\ ~check_sequence(tx, Num(m, 0))
         THEN Err(m, "UnsatisfiedLocktime")
    ELSE m

-----------------------------------------------------------------------------
(* Signatures.  found: the signature occurs in the script that checks it.   *)

check_ecdsa_signature(sig, pubkey) == IsKey(pubkey) /\ Verifies(sig, pubkey)

ChecksigError(sig, pubkey, flags, sig_version, found) ==
    IF found /\ "CONST_SCRIPTCODE" \in flags THEN "FindAndDelete"
    ELSE IF EncodingError(sig, pubkey, flags, sig_version) # "none"
         THEN EncodingError(sig, pubkey, flags, sig_version)
    ELSE IF ~check_ecdsa_signature(sig, pubkey) /\ "NULLFAIL" \in flags /\ sig # <<>> THEN "NullFail"
    ELSE "none"

OpChecksig(m, op, flags, found) ==
    LET pubkey == top(m.stack, 0)
        sig == top(m.stack, 1)
        error == ChecksigError(sig, pubkey, flags, m.version, found)
    IN IF Len(m.stack) < 2 THEN Err(m, "InvalidStackOperation")
       ELSE IF error # "none" THEN Err(m, error)
       ELSE IF op = "CHECKSIG" THEN Put(m, 2, <<FromBool(check_ecdsa_signature(sig, pubkey))>>)
       ELSE IF check_ecdsa_signature(sig, pubkey) THEN Put(m, 2, <<>>)
       ELSE Err(m, "Verify")

\* (sig num pubkey -- num)
OpChecksigAdd(m, flags, found) ==
    LET pubkey == top(m.stack, 0)
        num == top(m.stack, 1)
        sig == top(m.stack, 2)
        error == ChecksigError(sig, pubkey, flags, m.version, found)
    IN IF Len(m.stack) < 3 THEN Err(m, "InvalidStackOperation")
       ELSE IF ~IsNum(num, m.minimal, MAX_NUM_SIZE) THEN Err(m, "InvalidNumber")
       ELSE IF error # "none" THEN Err(m, error)
       ELSE Put(m, 3, <<as_bytes(value(num) + FromTruth(check_ecdsa_signature(sig, pubkey)))>>)

\* The arguments of a multisig: ([dummy] [sig ...] sigs [pubkey ...] keys -- ).
\* n items are popped; what they are is only looked at when they are there.
KeysCount(m) == Num(m, 0)
SigsAt(m) == 1 + KeysCount(m)
SigsCount(m) == Num(m, SigsAt(m))
DummyAt(m) == SigsAt(m) + 1 + SigsCount(m)

\* found: one of the signatures occurs in the script.
MultisigError(m, flags, found) ==
    IF ~HasNums(m, 1) THEN "InvalidNumber"
    ELSE IF KeysCount(m) \notin 0..MAX_PUBKEYS_PER_MULTISIG THEN "InvalidPubkeyCount"
    ELSE IF m.ops + KeysCount(m) > MAX_OPS_PER_SCRIPT THEN "TooManyOps"
    ELSE IF Len(m.stack) <= SigsAt(m) THEN "InvalidStackOperation"
    ELSE IF ~IsNum(top(m.stack, SigsAt(m)), m.minimal, MAX_NUM_SIZE) THEN "InvalidNumber"
    ELSE IF SigsCount(m) \notin 0..KeysCount(m) THEN "InvalidSignatureCount"
    ELSE IF Len(m.stack) <= DummyAt(m) THEN "InvalidStackOperation"
    ELSE IF "NULLDUMMY" \in flags /\ top(m.stack, DummyAt(m)) # <<>> THEN "SignatureNullDummy"
    ELSE IF found /\ "CONST_SCRIPTCODE" \in flags THEN "FindAndDelete"
    ELSE "none"

OpMultisig(m, flags, found) ==
    IF MultisigError(m, flags, found) # "none" THEN Err(m, MultisigError(m, flags, found))
    ELSE [m EXCEPT !.stack = drop(@, DummyAt(m) + 1), !.ops = @ + KeysCount(m)]

\* In the order in which they are popped.
Keys(m) == [i \in 1..KeysCount(m) |-> top(m.stack, i)]
Sigs(m) == [i \in 1..SigsCount(m) |-> top(m.stack, SigsAt(m) + i)]

-----------------------------------------------------------------------------
MultisigOps == {"CHECKMULTISIG", "CHECKMULTISIGVERIFY"}
DisabledOps == {"CAT", "VERIF", "VERNOTIF", "RESERVED", "VER"}

\* The instructions: a push, a constant, or one of the other opcodes.
Words ==
    DOMAIN Required \cup UnaryOps \cup BinaryOps \cup DisabledOps \cup MultisigOps
      \cup {"NOP", "IF", "NOTIF", "ELSE", "ENDIF", "VERIFY", "RETURN", "TOALTSTACK", "FROMALTSTACK",
            "EQUALVERIFY", "PICK", "ROLL", "NUMEQUALVERIFY", "WITHIN", "CODESEPARATOR", "CHECKSIG",
            "CHECKSIGVERIFY", "CHECKSIGADD", "CHECKLOCKTIMEVERIFY", "CHECKSEQUENCEVERIFY", "NOP1"}

Instruction == [op : Words \cup {"PUSH", "NUM"}, arg : Seq(Int)]

Handle(m, ins, flags, tx, found) ==
    CASE ins.op = "PUSH" -> IF Size(ins.arg) > MAX_SCRIPT_ELEMENT_SIZE THEN Err(m, "PushSize")
                            ELSE Put(m, 0, <<ins.arg>>)
      [] ins.op = "NUM" -> Put(m, 0, <<as_bytes(ins.arg[1])>>)
      [] ins.op = "NOP" -> m
      [] ins.op \in {"IF", "NOTIF"} -> OpIf(m, ins.op, flags)
      [] ins.op = "ELSE" -> OpElse(m)
      [] ins.op = "ENDIF" -> OpEndif(m)
      [] ins.op = "VERIFY" -> OpVerify(m)
      [] ins.op = "RETURN" -> Err(m, "OpReturn")
      [] ins.op = "TOALTSTACK" -> OpToAlt(m)
      [] ins.op = "FROMALTSTACK" -> OpFromAlt(m)
      [] ins.op \in DOMAIN Required -> OpStack(m, ins.op)
      [] ins.op = "EQUALVERIFY" -> OpEqualVerify(m)
      [] ins.op \in {"PICK", "ROLL"} -> OpPick(m, ins.op)
      [] ins.op \in UnaryOps -> OpUnary(m, ins.op)
      [] ins.op \in BinaryOps -> OpBinary(m, ins.op)
      [] ins.op = "NUMEQUALVERIFY" -> OpNumEqualVerify(m)
      [] ins.op = "WITHIN" -> OpWithin(m)
      [] ins.op = "CODESEPARATOR" ->
             IF m.version = "Base" /\ "CONST_SCRIPTCODE" \in flags THEN Err(m, "OpCodeSeparator") ELSE m
      [] ins.op \in {"CHECKSIG", "CHECKSIGVERIFY"} -> OpChecksig(m, ins.op, flags, found)
      [] ins.op = "CHECKSIGADD" -> OpChecksigAdd(m, flags, found)
      [] ins.op \in MultisigOps -> OpMultisig(m, flags, found)
      [] ins.op \in {"CHECKLOCKTIMEVERIFY", "CHECKSEQUENCEVERIFY"} -> OpLock(m, ins.op, flags, tx)
      [] ins.op \in DisabledOps -> Err(m, "DisabledOpcode")
      [] ins.op = "NOP1" ->
             IF "DISCOURAGE_UPGRADABLE_NOPS" \in flags THEN Err(m, "DiscourageUpgradableNops") ELSE m

\* The check after each handled instruction.  A lock time opcode that is not
\* enabled leaves the loop before it; a multisig makes it when its loop ends.
IsUnsized(op, flags) ==
    op \in MultisigOps \cup ({"CHECKLOCKTIMEVERIFY", "CHECKSEQUENCEVERIFY"} \ flags)

Sized(m) ==
    IF /\ m.err = "none"
       /\ Len(m.stack) + Len(m.alt) > MAX_STACK_SIZE
    THEN Err(m, "StackSize") ELSE m

Counted(m, op) == IF IsCounted(op) THEN [m EXCEPT !.ops = @ + 1] ELSE m

\* instruction_indices_minimal refuses the push of a number with an opcode of
\* its own.
IsMinimalPush(ins) == ins.op = "PUSH" /\ Len(ins.arg) = 1 => ins.arg[1] \notin 1..16 \cup {129}

eval_instruction(m, ins, flags, tx, found) ==
    IF "MINIMALDATA" \in flags /\ ~IsMinimalPush(ins) THEN Err(m, "ReadInstruction")
    ELSE IF ~executing(m) /\ ins.op \notin FlowOps THEN m
    ELSE IF Counted(m, ins.op).ops > MAX_OPS_PER_SCRIPT THEN Err(m, "OpCount")
    ELSE IF IsUnsized(ins.op, flags) THEN Handle(Counted(m, ins.op), ins, flags, tx, found)
    ELSE Sized(Handle(Counted(m, ins.op), ins, flags, tx, found))
=============================================================================
