------------------------- MODULE ScriptInterpreter -------------------------
(***************************************************************************)
(* verify_script: the input's script, the output's script, the redeem       *)
(* script of a P2SH output and the script of a version 0 witness program,   *)
(* one instruction at a time.  A script is a fixed sequence of instructions *)
(* or is free: its instructions are chosen while it runs, so a behaviour    *)
(* stands for every script that starts the way it does.                     *)
(***************************************************************************)
EXTENDS ScriptEval

CONSTANTS
    Cases       \* what is verified: the values of case

VARIABLES
    case,       \* [flags, sig, pubkey, redeem, wit, witness, tx]: the inputs of verify_script
    phase,      \* whose script runs: "sig", "pubkey", "redeem", "witness", or "done"
    m,          \* the machine of eval_script
    code,       \* [fixed, free, ins]: the instructions left, or how many of ins may come
    saved,      \* the stack put aside: stack_copy_for_p2sh, then the stack below a witness
    script_sig, \* [empty, push_only, redeem_only]: what is asked of the input's script
    multisig,   \* the loop of eval_checkmultisig
    flow,       \* the conditionals met in this script
    completed   \* the phases whose script ended with a true element

vars == <<case, phase, m, code, saved, script_sig, multisig, flow, completed>>

-----------------------------------------------------------------------------
(* Scripts.  A script of the case is [kind, len, ins]: a standard kind, or  *)
(* "free", of at most len instructions of the set ins.                      *)

RedeemScript == ScriptBytes(22, 1)
WitnessScript == ScriptBytes(40, 2)
WitnessKey == Key(33, 2, 1)

Ins(op) == [op |-> op, arg |-> <<>>]
Push(x) == [op |-> "PUSH", arg |-> x]

Program(kind) ==
    CASE kind = "p2wsh" -> Hash("SHA256", WitnessScript)
      [] kind = "p2wpkh" -> Hash("HASH160", WitnessKey)
      [] kind = "p2w_future" -> ScriptBytes(32, 3)
      [] kind = "p2w_badlen" -> ScriptBytes(25, 4)

WitnessKinds == {"p2wsh", "p2wpkh", "p2w_future", "p2w_badlen"}

Fixed(kind) ==
    CASE kind = "p2sh" -> <<Ins("HASH160"), Push(Hash("HASH160", RedeemScript)), Ins("EQUAL")>>
      [] kind = "p2w_future" -> <<[op |-> "NUM", arg |-> <<2>>], Push(Program(kind))>>
      [] kind = "multisig" -> <<Ins("CHECKMULTISIG")>>
      [] kind = "multisigverify" ->
             <<Ins("NOP"), Ins("NOP"), Ins("CHECKMULTISIGVERIFY"), [op |-> "NUM", arg |-> <<1>>]>>
      [] kind \in WitnessKinds \ {"p2w_future"} -> <<Push(<<>>), Push(Program(kind))>>

\* The script DUP HASH160 <program> EQUALVERIFY CHECKSIG of a key hash program.
KeyHashScript ==
    <<Ins("DUP"), Ins("HASH160"), Push(Program("p2wpkh")), Ins("EQUALVERIFY"), Ins("CHECKSIG")>>

Code(fixed) == [fixed |-> fixed, free |-> 0, ins |-> {}]

Load(script) ==
    IF script.kind = "free" THEN [fixed |-> <<>>, free |-> script.len, ins |-> script.ins]
    ELSE Code(Fixed(script.kind))

NextInstructions ==
    IF code.fixed # <<>> THEN {Head(code.fixed)} ELSE IF code.free > 0 THEN code.ins ELSE {}

CodeAfter ==
    IF code.fixed # <<>> THEN [code EXCEPT !.fixed = Tail(@)] ELSE [code EXCEPT !.free = @ - 1]

\* Script::is_push_only: opcodes up to OP_16.
IsPushOp(op) == op \in {"PUSH", "NUM", "RESERVED"}

-----------------------------------------------------------------------------
(* What is assumed of the cases: scripts of the kinds above, and the flags  *)
(* verify_script asserts: CLEANSTACK comes with P2SH and WITNESS, and        *)
(* WITNESS with P2SH.                                                        *)

IsScript(script) ==
    \/ script.kind \in WitnessKinds \cup {"p2sh", "multisig", "multisigverify"}
    \/ script.kind = "free" /\ script.ins \subseteq Instruction

ASSUME CasesAssumption ==
    \A c \in Cases :
        /\ IsScript(c.sig) /\ IsScript(c.pubkey) /\ IsScript(c.redeem) /\ IsScript(c.wit)
        /\ "CLEANSTACK" \in c.flags => {"P2SH", "WITNESS"} \subseteq c.flags
        /\ "WITNESS" \in c.flags => "P2SH" \in c.flags

-----------------------------------------------------------------------------
version == IF phase = "witness" THEN "WitnessV0" ELSE "Base"

NoLoop == [on |-> FALSE, keys |-> <<>>, sigs |-> <<>>, checked |-> 0, satisfied |-> 0,
           success |-> TRUE, verify |-> FALSE]

BaseMachine(stack) == Machine(stack, "Base", "MINIMALDATA" \in case.flags)

\* verify_script returns: with an error, or Ok.
Return(e) ==
    /\ phase' = "done"
    /\ m' = [Machine(<<>>, "Base", FALSE) EXCEPT !.err = e]
    /\ code' = Code(<<>>)
    /\ saved' = <<>>
    /\ multisig' = NoLoop
    /\ flow' = <<>>

\* The next script starts on this machine.
Enter(p, script, machine, aside) ==
    /\ phase' = p
    /\ code' = script
    /\ m' = machine
    /\ saved' = aside
    /\ multisig' = NoLoop
    /\ flow' = <<>>

Init ==
    /\ case \in Cases
    /\ phase = "sig"
    /\ m = BaseMachine(<<>>)
    /\ code = Load(case.sig)
    /\ saved = <<>>
    /\ script_sig = [empty |-> TRUE, push_only |-> TRUE, redeem_only |-> FALSE]
    /\ multisig = NoLoop
    /\ flow = <<>>
    /\ completed = {}

-----------------------------------------------------------------------------
(* One instruction. *)

\* The conditionals, with the truth of the element they would read.
FlowAfter(ins) ==
    IF ins.op \notin {"IF", "NOTIF", "ELSE", "ENDIF"} THEN flow
    ELSE Append(flow, [op |-> ins.op,
                       taken |-> /\ ins.op \in {"IF", "NOTIF"} /\ m.stack # <<>>
                                 /\ (IsSymbol(Last(m.stack)) \/ value(Last(m.stack)) # 0)
                                       # (ins.op = "NOTIF")])

SigAfter(ins) ==
    IF phase # "sig" THEN script_sig
    ELSE [empty |-> FALSE, push_only |-> script_sig.push_only /\ IsPushOp(ins.op),
          redeem_only |-> script_sig.empty /\ ins = Push(RedeemScript)]

\* A signature may occur in the script that checks it, before version 0 witnesses.
MayBeFound(ins) ==
    IF version = "Base" /\ ins.op \in MultisigOps \cup {"CHECKSIG", "CHECKSIGVERIFY", "CHECKSIGADD"}
    THEN BOOLEAN ELSE {FALSE}

StartsLoop(ins) == ins.op \in MultisigOps /\ executing(m)

LoopOf(ins) ==
    [NoLoop EXCEPT !.on = TRUE, !.keys = Keys(m), !.sigs = Sigs(m),
                   !.verify = (ins.op = "CHECKMULTISIGVERIFY")]

After(after, ins) ==
    IF after.err # "none" THEN Return(after.err)
    ELSE /\ m' = after
         /\ code' = CodeAfter
         /\ multisig' = IF StartsLoop(ins) THEN LoopOf(ins) ELSE multisig
         /\ flow' = FlowAfter(ins)
         /\ UNCHANGED <<phase, saved>>

\* SIGPUSHONLY refuses the input's script for an instruction that is not a push.
Step ==
    /\ phase # "done"
    /\ ~multisig.on
    /\ \E ins \in NextInstructions :
           \E found \in MayBeFound(ins) :
               /\ IF phase = "sig" /\ "SIGPUSHONLY" \in case.flags /\ ~IsPushOp(ins.op)
                  THEN Return("SigPushOnly")
                  ELSE After(eval_instruction(m, ins, case.flags, case.tx, found), ins)
               /\ script_sig' = SigAfter(ins)
    /\ UNCHANGED <<case, completed>>

-----------------------------------------------------------------------------
(* The loop of eval_checkmultisig, one key at a time. *)

InLoop == multisig.on /\ multisig.satisfied < Len(multisig.sigs) /\ multisig.success

LoopKey == multisig.keys[multisig.checked + 1]
LoopSig == multisig.sigs[multisig.satisfied + 1]
LoopError == EncodingError(LoopSig, LoopKey, case.flags, version)

\* Mutant: the key of a signature that verified is tried for the next one too.
CheckedReusingKey(loop, correct) ==
    LET checked == IF correct THEN loop.checked ELSE loop.checked + 1
        satisfied == IF correct THEN loop.satisfied + 1 ELSE loop.satisfied
    IN [loop EXCEPT !.checked = checked, !.satisfied = satisfied,
                    !.success = Len(loop.keys) - checked >= Len(loop.sigs) - satisfied]

\* One turn: the keys left must be as many as the signatures left.
Checked(loop, correct) ==
    LET checked == loop.checked + 1
        satisfied == IF correct THEN loop.satisfied + 1 ELSE loop.satisfied
    IN [loop EXCEPT !.checked = checked, !.satisfied = satisfied,
                    !.success = Len(loop.keys) - checked >= Len(loop.sigs) - satisfied]

MultisigTurn ==
    /\ InLoop
    /\ IF multisig.checked >= Len(multisig.keys) THEN Return("panic")
       ELSE IF LoopError # "none" THEN Return(LoopError)
       ELSE /\ multisig' = Checked(multisig, check_ecdsa_signature(LoopSig, LoopKey))
            /\ UNCHANGED <<phase, m, code, saved, flow>>
    /\ UNCHANGED <<case, script_sig, completed>>

Pushed == Sized(IF multisig.verify THEN m ELSE Put(m, 0, <<FromBool(multisig.success)>>))

\* handle_checkmultisig, after the loop.
MultisigEnd ==
    /\ multisig.on /\ ~InLoop
    /\ IF multisig.verify /\ ~multisig.success THEN Return("CheckMultiSigVerify")
       ELSE IF Pushed.err # "none" THEN Return(Pushed.err)
       ELSE /\ m' = Pushed
            /\ multisig' = NoLoop
            /\ UNCHANGED <<phase, code, saved, flow>>
    /\ UNCHANGED <<case, script_sig, completed>>

-----------------------------------------------------------------------------
(* verify_script, where a script ends. *)

\* The instructions are over; a free script may end anywhere.
AtEnd(p) == phase = p /\ ~multisig.on /\ code.fixed = <<>>

IsTrue(stack) == stack # <<>> /\ cast_to_bool(Last(stack))

\* parse_witness_program: None, a program, or one of the wrong length.
parse_witness_program(script) == IF script.kind \in WitnessKinds THEN {script.kind} ELSE {}

\* The checks at the end of verify_script.
Finish(stack, had_witness) ==
    IF "CLEANSTACK" \in case.flags /\ ~({"P2SH", "WITNESS"} \subseteq case.flags) THEN Return("panic")
    ELSE IF "CLEANSTACK" \in case.flags /\ Len(stack) # 1 THEN Return("CleanStack")
    ELSE IF "WITNESS" \in case.flags /\ "P2SH" \notin case.flags THEN Return("panic")
    ELSE IF "WITNESS" \in case.flags /\ ~had_witness /\ case.witness # <<>> THEN Return("WitnessUnexpected")
    ELSE Return("none")

\* verify_witness_program and the start of execute_witness_script.  Numbers in
\* its script must be minimal whatever the flags.
RunWitness(script, stack, aside) ==
    IF \E i \in DOMAIN stack : Size(stack[i]) > MAX_SCRIPT_ELEMENT_SIZE THEN Return("PushSize")
    ELSE Enter("witness", script, Machine(stack, "WitnessV0", TRUE), aside)

verify_witness_program(kind, stack) ==
    \/ /\ kind = "p2wsh"
       /\ IF case.witness = <<>> THEN Return("WitnessProgramWitnessEmpty")
          ELSE IF Hash("SHA256", Last(case.witness)) # Program(kind) THEN Return("WitnessProgramMismatch")
          ELSE RunWitness(Load(case.wit), Front(case.witness), SubSeq(stack, 1, 1))
    \/ /\ kind = "p2wpkh"
       /\ IF Len(case.witness) # 2 THEN Return("WitnessProgramMismatch")
          ELSE RunWitness(Code(KeyHashScript), case.witness, SubSeq(stack, 1, 1))
    \/ /\ kind = "p2w_future"
       /\ IF "DISCOURAGE_UPGRADABLE_WITNESS_PROGRAM" \in case.flags
          THEN Return("DiscourageUpgradableWitnessProgram")
          ELSE Finish(SubSeq(stack, 1, 1), TRUE)
    \/ kind = "p2w_badlen" /\ Return("WitnessProgramWrongLength")

Programs(script) == IF "WITNESS" \in case.flags THEN parse_witness_program(script) ELSE {}

EndSig ==
    /\ AtEnd("sig")
    /\ IF m.exec # <<>> THEN Return("UnbalancedConditional")
       ELSE Enter("pubkey", Load(case.pubkey), BaseMachine(m.stack), m.stack)
    /\ UNCHANGED <<case, script_sig, completed>>

\* The redeem script: the element the input's script left on top.  An element
\* that is not the redeem script does not get past the output's script.
EnterRedeem ==
    IF ~script_sig.push_only THEN Return("SigPushOnly")
    ELSE IF saved = <<>> THEN Return("panic")
    ELSE Enter("redeem", Load(case.redeem), BaseMachine(Front(saved)), <<>>)

\* Mutant: the redeem script is not run.
PubkeyTrueOnly ==
    \/ \E kind \in Programs(case.pubkey) :
           IF kind # "p2w_badlen" /\ ~script_sig.empty THEN Return("WitnessMalleated")
           ELSE verify_witness_program(kind, m.stack)
    \/ /\ Programs(case.pubkey) = {}
       /\ Finish(m.stack, FALSE)

PubkeyTrue ==
    \/ \E kind \in Programs(case.pubkey) :
           IF kind # "p2w_badlen" /\ ~script_sig.empty THEN Return("WitnessMalleated")
           ELSE verify_witness_program(kind, m.stack)
    \/ /\ Programs(case.pubkey) = {}
       /\ IF "P2SH" \in case.flags /\ case.pubkey.kind = "p2sh" THEN EnterRedeem
          ELSE Finish(m.stack, FALSE)

Completed(p) == completed' = completed \cup {p}

EndPubkey ==
    /\ AtEnd("pubkey")
    /\ \/ m.exec # <<>> /\ Return("UnbalancedConditional") /\ UNCHANGED completed
       \/ m.exec = <<>> /\ ~IsTrue(m.stack) /\ Return("EvalFalse") /\ UNCHANGED completed
       \/ m.exec = <<>> /\ IsTrue(m.stack) /\ PubkeyTrue /\ Completed("pubkey")
    /\ UNCHANGED <<case, script_sig>>

RedeemTrue ==
    \/ \E kind \in Programs(case.redeem) :
           IF kind # "p2w_badlen" /\ ~script_sig.redeem_only THEN Return("WitnessMalleatedP2SH")
           ELSE verify_witness_program(kind, m.stack)
    \/ Programs(case.redeem) = {} /\ Finish(m.stack, FALSE)

EndRedeem ==
    /\ AtEnd("redeem")
    /\ \/ m.exec # <<>> /\ Return("UnbalancedConditional") /\ UNCHANGED completed
       \/ m.exec = <<>> /\ ~IsTrue(m.stack) /\ Return("EvalFalse") /\ UNCHANGED completed
       \/ m.exec = <<>> /\ IsTrue(m.stack) /\ RedeemTrue /\ Completed("redeem")
    /\ UNCHANGED <<case, script_sig>>

\* The end of execute_witness_script; saved is the outer stack, cut to one item.
EndWitness ==
    /\ AtEnd("witness")
    /\ \/ m.exec # <<>> /\ Return("UnbalancedConditional") /\ UNCHANGED completed
       \/ m.exec = <<>> /\ Len(m.stack) # 1 /\ Return("CleanStack") /\ UNCHANGED completed
       \/ /\ m.exec = <<>> /\ Len(m.stack) = 1 /\ ~IsTrue(m.stack)
          /\ Return("EvalFalse") /\ UNCHANGED completed
       \/ m.exec = <<>> /\ Len(m.stack) = 1 /\ IsTrue(m.stack) /\ Finish(saved, TRUE) /\ Completed("witness")
    /\ UNCHANGED <<case, script_sig>>

Next == Step \/ MultisigTurn \/ MultisigEnd \/ EndSig \/ EndPubkey \/ EndRedeem \/ EndWitness

Spec == Init /\ [][Next]_vars
-----------------------------------------------------------------------------
(* Properties. *)

Between(i, j, ops) == Cardinality({k \in (i + 1)..(j - 1) : flow[k].op \in ops})

\* Is the j-th conditional of the script at the level of the i-th, an IF?
SameLevel(i, j) ==
    \A k \in (i + 1)..j : Between(i, k, {"ENDIF"}) <= Between(i, k, {"IF", "NOTIF"})
                             /\ (k = j => Between(i, k, {"ENDIF"}) = Between(i, k, {"IF", "NOTIF"}))

\* The conditions that no ENDIF has closed.
OpenIfs ==
    {i \in DOMAIN flow : /\ flow[i].op \in {"IF", "NOTIF"}
                         /\ ~\E j \in (i + 1)..Len(flow) : flow[j].op = "ENDIF" /\ SameLevel(i, j)}

\* The branch of the i-th conditional the script is in is the one its condition
\* chose: an odd number of its own ELSEs is the other branch.
InChosenBranch(i) ==
    LET elses == {j \in (i + 1)..Len(flow) : flow[j].op = "ELSE" /\ SameLevel(i, j)}
    IN flow[i].taken = (Cardinality(elses) % 2 = 0)

\* exec_stack: an instruction is executed if and only if, for every IF that
\* encloses it, the script is in the branch that IF's condition chose, however
\* the conditionals nest and however many ELSEs they have.
BranchesTaken ==
    /\ executing(m) <=> \A i \in OpenIfs : InChosenBranch(i)
    /\ Len(m.exec) = Cardinality(OpenIfs)

Elements == {x \in ToSet(m.stack) \cup ToSet(m.alt) : ~IsSymbol(x) /\ Len(x) < 4}

\* ScriptNum: as_bytes writes the one minimal form of a number, from_bytes reads
\* every form of it back, is_minimally_encoded knows the minimal form from the
\* others, and an element is true (cast_to_bool) when its number is not zero.
NumbersExact ==
    \A x \in Elements :
        /\ value(as_bytes(value(x))) = value(x)
        /\ Len(as_bytes(value(x))) <= Len(x)
        /\ is_minimally_encoded(x) <=> as_bytes(value(x)) = x
        /\ cast_to_bool(x) <=> value(x) # 0

\* eval_checkmultisig: its one pass over the keys succeeds exactly when each
\* signature can be given a key of its own, in the order of the keys.
MultisigExact ==
    multisig.on /\ ~InLoop =>
        (multisig.success <=>
            \E f \in [DOMAIN multisig.sigs -> DOMAIN multisig.keys] :
                /\ \A i, j \in DOMAIN f : i < j => f[i] < f[j]
                /\ \A i \in DOMAIN f : check_ecdsa_signature(multisig.sigs[i], multisig.keys[f[i]]))

\* check_signature_encoding, when a key hash program is spent under DERSIG: the
\* signature that satisfied it is DER by the grammar its comment gives, and one
\* refused for its encoding is not.
SignaturesStrict ==
    phase = "done" /\ case.pubkey.kind = "p2wpkh" /\ {"WITNESS", "DERSIG"} \subseteq case.flags =>
        /\ "witness" \in completed => IsDer(case.witness[1])
        /\ m.err = "Der" => ~IsDer(case.witness[1])

ProgramOf == Programs(case.pubkey)
               \cup (IF "redeem" \in completed THEN Programs(case.redeem) ELSE {})

\* verify_script returns Ok only when every script the output asks for ended
\* with a true element: the output's own, the redeem script of a P2SH output,
\* whose input only pushes, and the script of a version 0 program, whose input
\* pushes nothing else; a witness no program asks for is refused; and none of
\* its assertions fails.
VerifiedInFull ==
    /\ m.err # "panic"
    /\ phase = "done" /\ m.err = "none" =>
           /\ "pubkey" \in completed
           /\ case.pubkey.kind = "p2sh" /\ "P2SH" \in case.flags => "redeem" \in completed /\ script_sig.push_only
           /\ ProgramOf \cap {"p2wsh", "p2wpkh"} # {} =>
                  "witness" \in completed /\ (IF "redeem" \in completed THEN script_sig.redeem_only ELSE script_sig.empty)
           /\ "WITNESS" \in case.flags /\ ProgramOf = {} => case.witness = <<>>
=============================================================================
