---------------------------- MODULE ScriptProofs ----------------------------
(***************************************************************************)
(* Proofs about verify_script, for every set of cases: it returns Ok only   *)
(* when every script the output asks for has ended with a true element and  *)
(* none of its assertions fails, and the loop of eval_checkmultisig decides *)
(* exactly whether the signatures can be given keys in order.               *)
(***************************************************************************)
EXTENDS ScriptInterpreter, WellFoundedInduction, TLAPS

-----------------------------------------------------------------------------
(* One instruction.  *)

MachineFields == {"stack", "alt", "exec", "ops", "version", "minimal", "err"}

\* A machine that has not panicked.
IsMachine(x) == DOMAIN x = MachineFields /\ x.err # "panic"

\* What the checks of an encoding return is never the mark of a panic.
LEMMA EncodingErrors ==
    ASSUME NEW sig, NEW pubkey, NEW flags, NEW sig_version
    PROVE  EncodingError(sig, pubkey, flags, sig_version) # "panic"
BY Zenon DEF EncodingError, check_signature_encoding, check_pubkey_encoding

\* An error, or a change of the other fields, leaves a machine a machine.
LEMMA MachineSteps ==
    ASSUME NEW x, IsMachine(x)
    PROVE  /\ \A e : e # "panic" => IsMachine(Err(x, e)) /\ Err(x, e).err = e
           /\ \A n, items : IsMachine(Put(x, n, items))
           /\ \A op : IsMachine(Counted(x, op))
           /\ IsMachine(Sized(x))
           /\ \A s : IsMachine([x EXCEPT !.stack = s])
           /\ \A s : IsMachine([x EXCEPT !.exec = s])
           /\ \A s, t : IsMachine([x EXCEPT !.stack = s, !.exec = t])
           /\ \A s, t : IsMachine([x EXCEPT !.stack = s, !.alt = t])
           /\ \A s, t : IsMachine([x EXCEPT !.alt = s, !.stack = t])
           /\ \A s, t : IsMachine([x EXCEPT !.stack = s, !.ops = t])
BY Zenon DEF IsMachine, MachineFields, Err, Put, Counted, Sized

\* Every handler of an opcode leaves a machine, and none panics.
LEMMA Handlers ==
    ASSUME NEW x, IsMachine(x), NEW op, NEW flags, NEW tx, NEW found
    PROVE  /\ IsMachine(OpIf(x, op, flags))
           /\ IsMachine(OpElse(x))
           /\ IsMachine(OpEndif(x))
           /\ IsMachine(OpStack(x, op))
           /\ IsMachine(OpToAlt(x))
           /\ IsMachine(OpFromAlt(x))
           /\ IsMachine(OpVerify(x))
           /\ IsMachine(OpEqualVerify(x))
           /\ IsMachine(OpUnary(x, op))
           /\ IsMachine(OpBinary(x, op))
           /\ IsMachine(OpNumEqualVerify(x))
           /\ IsMachine(OpWithin(x))
           /\ IsMachine(OpPick(x, op))
           /\ IsMachine(OpLock(x, op, flags, tx))
           /\ IsMachine(OpChecksig(x, op, flags, found))
           /\ IsMachine(OpChecksigAdd(x, flags, found))
           /\ IsMachine(OpMultisig(x, flags, found))
<1>1. IsMachine(OpIf(x, op, flags)) /\ IsMachine(OpElse(x)) /\ IsMachine(OpEndif(x))
  BY MachineSteps, Zenon DEF OpIf, OpElse, OpEndif
<1>2. IsMachine(OpStack(x, op)) /\ IsMachine(OpToAlt(x)) /\ IsMachine(OpFromAlt(x))
  BY MachineSteps, Zenon DEF OpStack, OpToAlt, OpFromAlt
<1>3. IsMachine(OpVerify(x)) /\ IsMachine(OpEqualVerify(x))
  BY MachineSteps, Zenon DEF OpVerify, OpEqualVerify
<1>4. IsMachine(OpUnary(x, op)) /\ IsMachine(OpBinary(x, op)) /\ IsMachine(OpNumEqualVerify(x)) /\ IsMachine(OpWithin(x))
  BY MachineSteps, Zenon DEF OpUnary, OpBinary, OpNumEqualVerify, OpWithin
<1>5. IsMachine(OpPick(x, op)) /\ IsMachine(OpLock(x, op, flags, tx))
  BY MachineSteps, Zenon DEF OpPick, OpLock
<1>6. \A sig, pubkey : ChecksigError(sig, pubkey, flags, x.version, found) # "panic"
  BY EncodingErrors, Zenon DEF ChecksigError
<1>7. IsMachine(OpChecksig(x, op, flags, found)) /\ IsMachine(OpChecksigAdd(x, flags, found))
  BY <1>6, MachineSteps, Zenon DEF OpChecksig, OpChecksigAdd
<1>8. MultisigError(x, flags, found) # "panic"
  BY Zenon DEF MultisigError
<1>9. IsMachine(OpMultisig(x, flags, found))
  BY <1>8, MachineSteps, Zenon DEF OpMultisig
<1>10. QED
  BY <1>1, <1>2, <1>3, <1>4, <1>5, <1>7, <1>9, Zenon

\* The opcodes of the model all have a handler, so an instruction leaves a machine.
LEMMA HandleMachine ==
    ASSUME NEW x, IsMachine(x), NEW ins \in Instruction, NEW flags, NEW tx, NEW found
    PROVE  IsMachine(Handle(x, ins, flags, tx, found))
<1>1. ins.op \in Words \cup {"PUSH", "NUM"}
  BY Zenon DEF Instruction
<1>2. /\ IsMachine(x)
      /\ \A n, items : IsMachine(Put(x, n, items))
      /\ \A e : e # "panic" => IsMachine(Err(x, e))
  BY MachineSteps, Zenon
<1>3. QED
  BY <1>1, <1>2, Handlers, Zenon DEF Handle, Words

\* eval_script hands every instruction to its handler with the counts in order.
LEMMA EvalMachine ==
    ASSUME NEW x, IsMachine(x), NEW ins \in Instruction, NEW flags, NEW tx, NEW found
    PROVE  IsMachine(eval_instruction(x, ins, flags, tx, found))
<1>1. IsMachine(Counted(x, ins.op))
  BY MachineSteps, Zenon
<1>2. IsMachine(Handle(Counted(x, ins.op), ins, flags, tx, found))
  BY <1>1, HandleMachine, Zenon
<1>3. IsMachine(Sized(Handle(Counted(x, ins.op), ins, flags, tx, found)))
  BY <1>2, MachineSteps, Zenon
<1>4. QED
  BY <1>2, <1>3, MachineSteps, Zenon DEF eval_instruction

\* eval_checkmultisig gets to its loop only with as many items on the stack as
\* it announced, and with no more signatures than keys.
LEMMA MultisigStarts ==
    ASSUME NEW x, IsMachine(x), NEW ins \in Instruction, NEW flags, NEW tx, NEW found,
           ins.op \in MultisigOps, executing(x),
           eval_instruction(x, ins, flags, tx, found).err = "none"
    PROVE  KeysCount(x) \in Nat /\ SigsCount(x) \in 0..KeysCount(x)
<1> DEFINE y == Counted(x, ins.op)
<1>1. IsMachine(y) /\ y.stack = x.stack
  BY MachineSteps, Zenon DEF Counted, IsMachine, MachineFields
<1>2. Err(x, "ReadInstruction").err = "ReadInstruction" /\ Err(x, "OpCount").err = "OpCount"
  BY MachineSteps, Zenon
<1>3. ("MINIMALDATA" \in flags => IsMinimalPush(ins)) /\ ~ (y.ops > MAX_OPS_PER_SCRIPT)
  BY <1>2, Zenon DEF eval_instruction
<1>4. eval_instruction(x, ins, flags, tx, found) = Handle(y, ins, flags, tx, found)
  BY <1>3, Zenon DEF eval_instruction, IsUnsized
<1>5. Handle(y, ins, flags, tx, found) = OpMultisig(y, flags, found)
  <2> HIDE DEF y
  <2>1. ins.op \notin UnaryOps \cup BinaryOps \cup DisabledOps \cup DOMAIN Required
    BY Zenon DEF MultisigOps, Required, UnaryOps, BinaryOps, DisabledOps
  <2> QED
    BY <2>1, Zenon DEF Handle, MultisigOps
<1>6. MultisigError(y, flags, found) = "none"
  <2> HIDE DEF y
  <2>1. MultisigError(y, flags, found) # "panic"
    BY Zenon DEF MultisigError
  <2>2. Err(y, MultisigError(y, flags, found)).err = MultisigError(y, flags, found)
    BY <1>1, <2>1, MachineSteps, Zenon
  <2> QED
    BY <1>4, <1>5, <2>2, Zenon DEF OpMultisig
<1>7. KeysCount(y) \in 0..MAX_PUBKEYS_PER_MULTISIG /\ SigsCount(y) \in 0..KeysCount(y)
  <2> HIDE DEF y
  <2> QED
    BY <1>6, Zenon DEF MultisigError
<1>8. KeysCount(y) = KeysCount(x) /\ SigsCount(y) = SigsCount(x)
  <2> HIDE DEF y
  <2> QED
    BY <1>1, Zenon DEF KeysCount, SigsCount, SigsAt, Num
<1> QED
  BY <1>7, <1>8, MaxPubkeysAssumption

-----------------------------------------------------------------------------
(* The loop of eval_checkmultisig. *)

LoopFields == {"on", "keys", "sigs", "checked", "satisfied", "success", "verify"}

\* f gives each of the signatures of sigs it is defined on a key of its own, in
\* the order of the keys, under which the signature verifies.
InOrder(f, sigs, keys) ==
    /\ \A i, j \in DOMAIN f : i < j => f[i] < f[j]
    /\ \A i \in DOMAIN f : check_ecdsa_signature(sigs[i], keys[f[i]])

Assignments(loop) ==
    {f \in [DOMAIN loop.sigs -> DOMAIN loop.keys] : InOrder(f, loop.sigs, loop.keys)}

\* The counters of the loop, and when it goes on.
LoopCounts(loop) ==
    /\ Len(loop.keys) \in Nat /\ DOMAIN loop.keys = 1..Len(loop.keys)
    /\ Len(loop.sigs) \in Nat /\ DOMAIN loop.sigs = 1..Len(loop.sigs)
    /\ loop.checked \in 0..Len(loop.keys)
    /\ loop.satisfied \in 0..Len(loop.sigs)
    /\ loop.success <=> Len(loop.keys) - loop.checked >= Len(loop.sigs) - loop.satisfied

\* The loop is greedy, and loses nothing by it: the signatures behind it have
\* keys among the keys behind it, and no assignment gives the next signature a
\* key the loop has passed.
Greedy(loop) ==
    /\ \E f \in [1..loop.satisfied -> 1..loop.checked] : InOrder(f, loop.sigs, loop.keys)
    /\ loop.satisfied < Len(loop.sigs) =>
           \A g \in Assignments(loop) : g[loop.satisfied + 1] > loop.checked

LoopInv(loop) ==
    /\ DOMAIN loop = LoopFields
    /\ loop.on => LoopCounts(loop) /\ Greedy(loop)

\* Every nonempty set of naturals has a least element.
LEMMA LeastNumber ==
    ASSUME NEW T \in SUBSET Nat, T # {}
    PROVE  \E n \in T : \A k \in T : n <= k
<1> DEFINE R == {p \in Nat \X Nat : p[1] < p[2]}
<1>1. IsWellFoundedOn(R, Nat)
  BY NatLessThanWellFounded, Zenon DEF OpToRel
<1>2. \E n \in T : \A k \in T : ~ (<<k, n>> \in R)
  <2> HIDE DEF R
  <2> QED
    BY <1>1, WFMin, Zenon
<1>3. ASSUME NEW n \in T, NEW k \in T, ~ (<<k, n>> \in R)
      PROVE  n <= k
  <2>1. k \in Nat /\ n \in Nat /\ ~ (k < n)
    BY <1>3, Zenon
  <2> QED
    BY <2>1
<1> QED
  <2> HIDE DEF R
  <2> QED
    BY <1>2, <1>3, Zenon

\* The keys of later signatures are at least as far on as the signatures are.
LEMMA KeysSpread ==
    ASSUME NEW M \in Nat, NEW N \in Nat, NEW f \in [1..M -> 1..N],
           \A i, j \in 1..M : i < j => f[i] < f[j],
           NEW i \in 1..M, NEW j \in 1..M, i <= j
    PROVE  f[j] >= f[i] + (j - i)
<1> DEFINE T == {k \in Nat : k \in i..M /\ ~ (f[k] >= f[i] + (k - i))}
<1> SUFFICES ASSUME T # {} PROVE FALSE
  <2>1. j \in Nat /\ j \in i..M
    OBVIOUS
  <2>2. j \notin T => f[j] >= f[i] + (j - i)
    BY <2>1, Zenon
  <2> QED
    BY <2>2, Zenon
<1>1. PICK k \in T : \A l \in T : k <= l
  BY LeastNumber, Zenon
<1>2. k \in i..M /\ ~ (f[k] >= f[i] + (k - i)) /\ k # i
  OBVIOUS
<1>3. k - 1 \in i..M /\ k - 1 \in Nat /\ k - 1 \in 1..M /\ k \in 1..M
  BY <1>2
<1>4. f[k - 1] >= f[i] + ((k - 1) - i)
  BY <1>1, <1>3
<1> HIDE DEF T
<1>5. f[k - 1] < f[k]
  <2>1. k - 1 < k
    BY <1>3
  <2> QED
    BY <1>3, <2>1, Zenon
<1>6. f[k - 1] \in 1..N /\ f[k] \in 1..N /\ f[i] \in 1..N
  BY <1>3, Zenon
<1> QED
  BY <1>2, <1>3, <1>4, <1>5, <1>6

\* The loop starts with nothing checked.
LEMMA LoopStarts ==
    ASSUME NEW loop, DOMAIN loop = LoopFields, NEW x,
           KeysCount(x) \in Nat, SigsCount(x) \in 0..KeysCount(x),
           loop.keys = Keys(x), loop.sigs = Sigs(x),
           loop.checked = 0, loop.satisfied = 0, loop.success = TRUE
    PROVE  LoopInv(loop)
<1> DEFINE n == KeysCount(x)
           k == SigsCount(x)
           keys == [i \in 1..n |-> top(x.stack, i)]
           sigs == [i \in 1..k |-> top(x.stack, SigsAt(x) + i)]
<1>1. n \in Nat /\ k \in Nat /\ k <= n
  OBVIOUS
<1>2. loop.keys = keys /\ loop.sigs = sigs
  BY Zenon DEF Keys, Sigs
<1> HIDE DEF n, k
<1>3. keys \in Seq({top(x.stack, i) : i \in 1..n}) /\ Len(keys) = n /\ DOMAIN keys = 1..n
  BY <1>1
<1>4. sigs \in Seq({top(x.stack, SigsAt(x) + i) : i \in 1..k}) /\ Len(sigs) = k /\ DOMAIN sigs = 1..k
  BY <1>1
<1> HIDE DEF keys, sigs
<1>5. LoopCounts(loop)
  <2>1. loop.success <=> Len(loop.keys) - loop.checked >= Len(loop.sigs) - loop.satisfied
    BY <1>1, <1>2, <1>3, <1>4
  <2> QED
    BY <1>1, <1>2, <1>3, <1>4, <2>1 DEF LoopCounts
<1>6. \E f \in [1..0 -> 1..0] : InOrder(f, loop.sigs, loop.keys)
  <2>1. [i \in 1..0 |-> i] \in [1..0 -> 1..0] /\ DOMAIN [i \in 1..0 |-> i] = {}
    OBVIOUS
  <2> QED
    BY <2>1, Zenon DEF InOrder
<1>7. loop.satisfied < Len(loop.sigs) => \A g \in Assignments(loop) : g[loop.satisfied + 1] > loop.checked
  BY <1>1, <1>2, <1>3, <1>4 DEF Assignments
<1> QED
  BY <1>5, <1>6, <1>7, Zenon DEF LoopInv, Greedy

\* A turn of the loop that goes on: there is a key to check.  A signature that
\* verifies takes it; otherwise no assignment gives it to that signature.
LEMMA LoopTurns ==
    ASSUME NEW loop, LoopInv(loop), loop.on,
           loop.satisfied < Len(loop.sigs), loop.success,
           NEW correct,
           correct <=> check_ecdsa_signature(loop.sigs[loop.satisfied + 1], loop.keys[loop.checked + 1])
    PROVE  loop.checked < Len(loop.keys) /\ LoopInv(Checked(loop, correct))
<1> DEFINE next == Checked(loop, correct)
           s == loop.satisfied
           c == loop.checked
           M == Len(loop.sigs)
           N == Len(loop.keys)
<1>1. /\ DOMAIN loop = LoopFields
      /\ N \in Nat /\ DOMAIN loop.keys = 1..N /\ M \in Nat /\ DOMAIN loop.sigs = 1..M
      /\ c \in 0..N /\ s \in 0..M /\ s < M /\ N - c >= M - s
  BY Zenon DEF LoopInv, LoopCounts
<1>2. c < N /\ s + 1 \in 1..M /\ c + 1 \in 1..N
  <2> HIDE DEF s, c, M, N
  <2> QED
    BY <1>1
<1>3. /\ DOMAIN next = LoopFields /\ next.on = loop.on
      /\ next.keys = loop.keys /\ next.sigs = loop.sigs
      /\ next.checked = c + 1
      /\ next.satisfied = IF correct THEN s + 1 ELSE s
      /\ next.success <=> N - next.checked >= M - next.satisfied
  <2>1. DOMAIN next = LoopFields /\ next.on = loop.on /\ next.keys = loop.keys /\ next.sigs = loop.sigs
    BY <1>1, Zenon DEF Checked, LoopFields
  <2>2. next.checked = c + 1 /\ next.satisfied = IF correct THEN s + 1 ELSE s
    BY <1>1, Zenon DEF Checked, LoopFields
  <2>3. next.success = (N - (c + 1) >= M - (IF correct THEN s + 1 ELSE s))
    BY <1>1, Zenon DEF Checked, LoopFields
  <2> QED
    BY <2>1, <2>2, <2>3, Zenon
<1>4. Assignments(next) = Assignments(loop)
  BY <1>3, Zenon DEF Assignments
<1>5. PICK f \in [1..s -> 1..c] : InOrder(f, loop.sigs, loop.keys)
  BY Zenon DEF LoopInv, Greedy
<1>6. \A g \in Assignments(loop) : g[s + 1] > c
  BY <1>1, Zenon DEF LoopInv, Greedy
<1>7. \A g \in Assignments(loop) :
          /\ g \in [1..M -> 1..N]
          /\ \A i, j \in 1..M : i < j => g[i] < g[j]
          /\ \A i \in 1..M : check_ecdsa_signature(loop.sigs[i], loop.keys[g[i]])
  BY <1>1, Zenon DEF Assignments, InOrder
<1> HIDE DEF next, s, c, M, N
<1>8. LoopCounts(next)
  <2>1. next.checked \in 0..N /\ next.satisfied \in 0..M
    BY <1>1, <1>2, <1>3
  <2>2. Len(next.keys) = N /\ Len(next.sigs) = M
    BY <1>3, Zenon DEF M, N
  <2> QED
    BY <1>1, <1>3, <2>1, <2>2, Zenon DEF LoopCounts
<1>9. CASE correct
  <2>1. next.satisfied = s + 1 /\ check_ecdsa_signature(loop.sigs[s + 1], loop.keys[c + 1])
    BY <1>3, <1>9, Zenon DEF s, c
  <2> DEFINE h == [i \in 1..(s + 1) |-> IF i = s + 1 THEN c + 1 ELSE f[i]]
  <2>2. h \in [1..(s + 1) -> 1..(c + 1)]
    BY <1>1, <1>5
  <2>3. \A i, j \in 1..(s + 1) : i < j => h[i] < h[j]
    <3> SUFFICES ASSUME NEW i \in 1..(s + 1), NEW j \in 1..(s + 1), i < j
                 PROVE  h[i] < h[j]
      BY Zenon
    <3>1. i \in 1..s /\ h[i] = f[i] /\ f[i] \in 1..c
      BY <1>1, <1>5
    <3>2. CASE j = s + 1
      BY <1>1, <3>1, <3>2
    <3>3. CASE j # s + 1
      <4>1. j \in 1..s /\ h[j] = f[j]
        BY <1>1, <3>3
      <4> QED
        BY <1>5, <3>1, <4>1, Zenon DEF InOrder
    <3> QED
      BY <3>2, <3>3, Zenon
  <2>4. \A i \in 1..(s + 1) : check_ecdsa_signature(loop.sigs[i], loop.keys[h[i]])
    <3> SUFFICES ASSUME NEW i \in 1..(s + 1)
                 PROVE  check_ecdsa_signature(loop.sigs[i], loop.keys[h[i]])
      BY Zenon
    <3>1. CASE i = s + 1
      BY <2>1, <3>1, Zenon
    <3>2. CASE i # s + 1
      <4>1. i \in 1..s /\ h[i] = f[i]
        BY <1>1, <3>2
      <4> QED
        BY <1>5, <4>1, Zenon DEF InOrder
    <3> QED
      BY <3>1, <3>2, Zenon
  <2>5. \E k \in [1..next.satisfied -> 1..next.checked] : InOrder(k, next.sigs, next.keys)
    <3>1. DOMAIN h = 1..(s + 1)
      BY Zenon
    <3> HIDE DEF h
    <3> QED
      BY <1>3, <2>1, <2>2, <2>3, <2>4, <3>1, Zenon DEF InOrder
  <2>6. ASSUME s + 1 < M, NEW g \in Assignments(loop)
        PROVE  g[s + 2] > c + 1
    <3>1. s + 1 \in 1..M /\ s + 2 \in 1..M /\ s + 1 < s + 2
      BY <1>1, <2>6
    <3>2. g[s + 1] \in 1..N /\ g[s + 2] \in 1..N /\ g[s + 1] < g[s + 2] /\ g[s + 1] > c
      BY <1>6, <1>7, <3>1, Zenon
    <3> QED
      BY <1>1, <3>2
  <2>7. next.satisfied < Len(next.sigs) =>
            \A g \in Assignments(next) : g[next.satisfied + 1] > next.checked
    <3>1. Len(next.sigs) = M /\ (s + 1) + 1 = s + 2
      BY <1>1, <1>3 DEF M
    <3> QED
      BY <1>3, <1>4, <2>1, <2>6, <3>1, Zenon
  <2> QED
    BY <1>2, <1>3, <1>8, <2>5, <2>7, Zenon DEF LoopInv, Greedy, next, c, N
<1>10. CASE ~correct
  <2>1. next.satisfied = s /\ ~check_ecdsa_signature(loop.sigs[s + 1], loop.keys[c + 1])
    BY <1>3, <1>10, Zenon DEF s, c
  <2>2. f \in [1..next.satisfied -> 1..next.checked] /\ InOrder(f, next.sigs, next.keys)
    BY <1>1, <1>3, <1>5, <2>1
  <2>3. ASSUME NEW g \in Assignments(loop)
        PROVE  g[s + 1] > c + 1
    <3>1. g[s + 1] \in 1..N /\ g[s + 1] > c /\ g[s + 1] # c + 1
      BY <1>2, <1>6, <1>7, <2>1, Zenon
    <3> QED
      BY <1>1, <3>1
  <2> QED
    BY <1>2, <1>3, <1>4, <1>8, <2>1, <2>2, <2>3, Zenon DEF LoopInv, Greedy, next, c, N
<1> QED
  BY <1>9, <1>10, Zenon

\* The loop ended: it has matched all the signatures, or the keys left are fewer
\* than the signatures left and so no assignment exists.
LEMMA LoopEnds ==
    ASSUME NEW loop, LoopInv(loop), loop.on, ~(loop.satisfied < Len(loop.sigs) /\ loop.success)
    PROVE  loop.success <=> Assignments(loop) # {}
<1> DEFINE s == loop.satisfied
           c == loop.checked
           M == Len(loop.sigs)
           N == Len(loop.keys)
<1>1. /\ N \in Nat /\ DOMAIN loop.keys = 1..N /\ M \in Nat /\ DOMAIN loop.sigs = 1..M
      /\ c \in 0..N /\ s \in 0..M
      /\ loop.success <=> N - c >= M - s
  BY Zenon DEF LoopInv, LoopCounts
<1>2. PICK f \in [1..s -> 1..c] : InOrder(f, loop.sigs, loop.keys)
  BY Zenon DEF LoopInv, Greedy
<1>3. s < M => \A g \in Assignments(loop) : g[s + 1] > c
  BY Zenon DEF LoopInv, Greedy
<1>4. \A g \in Assignments(loop) : g \in [1..M -> 1..N] /\ \A i, j \in 1..M : i < j => g[i] < g[j]
  BY <1>1, Zenon DEF Assignments, InOrder
<1> HIDE DEF s, c, M, N
<1>5. CASE loop.success
  <2>1. s = M
    BY <1>1, <1>5 DEF s, M
  <2>2. f \in [1..M -> 1..N]
    BY <1>1, <1>2, <2>1
  <2>3. f \in Assignments(loop)
    BY <1>1, <1>2, <2>2, Zenon DEF Assignments
  <2> QED
    BY <1>5, <2>3, Zenon
<1>6. CASE ~loop.success
  <2> SUFFICES ASSUME NEW g \in Assignments(loop) PROVE FALSE
    BY <1>6, Zenon
  <2>1. s < M /\ N - c < M - s
    BY <1>1, <1>6
  <2>2. s + 1 \in 1..M /\ M \in 1..M /\ s + 1 <= M
    BY <1>1, <2>1
  <2>3. g[M] >= g[s + 1] + (M - (s + 1))
    BY <1>1, <1>4, <2>2, KeysSpread, Zenon
  <2>4. g[M] \in 1..N /\ g[s + 1] \in 1..N /\ g[s + 1] > c
    BY <1>3, <1>4, <2>1, <2>2, Zenon
  <2> QED
    BY <1>1, <2>1, <2>3, <2>4
<1> QED
  BY <1>5, <1>6, Zenon

-----------------------------------------------------------------------------
(* The invariant of verify_script. *)

CodeTyped(c) ==
    /\ DOMAIN c = {"fixed", "free", "ins"}
    /\ c.fixed \in Seq(Instruction)
    /\ c.ins \subseteq Instruction

\* The stack put aside for a redeem script can only be empty while the output's
\* script has not run its first instruction, which needs an element.
Untouched ==
    case.pubkey.kind = "p2sh" /\ saved = <<>> =>
        /\ m.stack = <<>> /\ m.exec = <<>>
        /\ ~multisig.on
        /\ code.fixed = Fixed("p2sh")

\* What brought the verification to a redeem script.
Redeeming ==
    /\ completed = {"pubkey"}
    /\ case.pubkey.kind = "p2sh" /\ "P2SH" \in case.flags
    /\ script_sig.push_only

\* What brought it to the script of a witness program: of the output, or of the
\* redeem script.
Witnessing ==
    /\ "WITNESS" \in case.flags
    /\ \/ /\ completed = {"pubkey"}
          /\ case.pubkey.kind \in {"p2wsh", "p2wpkh"}
          /\ script_sig.empty
       \/ /\ completed = {"pubkey", "redeem"}
          /\ case.pubkey.kind = "p2sh" /\ "P2SH" \in case.flags
          /\ script_sig.push_only /\ script_sig.redeem_only
          /\ case.redeem.kind \in {"p2wsh", "p2wpkh"}

\* What Ok means.
Verified ==
    /\ "pubkey" \in completed
    /\ case.pubkey.kind = "p2sh" /\ "P2SH" \in case.flags => "redeem" \in completed /\ script_sig.push_only
    /\ ProgramOf \cap {"p2wsh", "p2wpkh"} # {} =>
           "witness" \in completed /\ (IF "redeem" \in completed THEN script_sig.redeem_only ELSE script_sig.empty)
    /\ "WITNESS" \in case.flags /\ ProgramOf = {} => case.witness = <<>>

PathInv ==
    /\ phase \in {"sig", "pubkey", "redeem", "witness", "done"}
    /\ phase = "sig" => completed = {}
    /\ phase = "pubkey" => completed = {} /\ Untouched
    /\ phase = "redeem" => Redeeming
    /\ phase = "witness" => Witnessing
    /\ phase = "done" => ~multisig.on /\ (m.err = "none" => Verified)

ScriptInv ==
    /\ case \in Cases
    /\ IsMachine(m)
    /\ CodeTyped(code)
    /\ LoopInv(multisig)
    /\ PathInv

-----------------------------------------------------------------------------
(* The steps verify_script is made of. *)

\* The scripts of a case are made of instructions of the model.
LEMMA ScriptsTyped ==
    /\ \A script : IsScript(script) => CodeTyped(Load(script))
    /\ CodeTyped(Code(KeyHashScript)) /\ CodeTyped(Code(<<>>))
<1> DEFINE Arg == Seq(Int)
<1>0. <<>> \in Arg /\ <<1>> \in Arg /\ <<2>> \in Arg
  OBVIOUS
<1>1. \A op \in Words \cup {"PUSH", "NUM"}, arg \in Arg : [op |-> op, arg |-> arg] \in Instruction
  BY Zenon DEF Instruction
<1>2. \A op \in Words : Ins(op) \in Instruction
  <2> HIDE DEF Arg
  <2> QED
    BY <1>0, <1>1, Zenon DEF Ins
<1>3. \A arg \in Seq(Int) : Push(arg) \in Instruction
  BY <1>1, Zenon DEF Push
<1>4. {"HASH160", "EQUAL", "DUP", "NOP", "EQUALVERIFY", "CHECKSIG", "CHECKMULTISIG", "CHECKMULTISIGVERIFY"} \subseteq Words
  BY Zenon DEF Words, Required, MultisigOps
<1>5. /\ Hash("HASH160", RedeemScript) \in Seq(Int)
      /\ \A kind \in WitnessKinds : Program(kind) \in Seq(Int)
  <2>1. RedeemScript \in Seq(Int) /\ WitnessScript \in Seq(Int) /\ WitnessKey \in Seq(Int)
        /\ ScriptBytes(32, 3) \in Seq(Int) /\ ScriptBytes(25, 4) \in Seq(Int)
    BY DEF RedeemScript, WitnessScript, WitnessKey, ScriptBytes, Key, ScriptMark, KeyMark
  <2>2. \A x \in Seq(Int) : Hash("HASH160", x) \in Seq(Int) /\ Hash("SHA256", x) \in Seq(Int)
    BY DEF Hash, HashMark
  <2> QED
    BY <2>1, <2>2, Zenon DEF WitnessKinds, Program
<1>6. /\ [op |-> "NUM", arg |-> <<1>>] \in Instruction
      /\ [op |-> "NUM", arg |-> <<2>>] \in Instruction
      /\ Push(<<>>) \in Instruction
  <2> HIDE DEF Arg
  <2> QED
    BY <1>0, <1>1, Zenon DEF Push
<1>7. \A kind \in WitnessKinds \cup {"p2sh", "multisig", "multisigverify"} : Fixed(kind) \in Seq(Instruction)
  BY <1>2, <1>3, <1>4, <1>5, <1>6 DEF Fixed, WitnessKinds
<1>8. KeyHashScript \in Seq(Instruction)
  BY <1>2, <1>3, <1>4, <1>5 DEF KeyHashScript, WitnessKinds
<1>9. \A fixed \in Seq(Instruction) : CodeTyped(Code(fixed))
  BY Zenon DEF CodeTyped, Code
<1>10. ASSUME NEW script, IsScript(script)
       PROVE  CodeTyped(Load(script))
  BY <1>7, <1>9, <1>10 DEF Load, IsScript, CodeTyped, WitnessKinds
<1>11. <<>> \in Seq(Instruction)
  OBVIOUS
<1> QED
  BY <1>8, <1>9, <1>10, <1>11, Zenon

\* A machine at its start.
LEMMA MachineStarts ==
    ASSUME NEW stack, NEW v, NEW minimal
    PROVE  IsMachine(Machine(stack, v, minimal)) /\ Machine(stack, v, minimal).stack = stack
           /\ Machine(stack, v, minimal).exec = <<>>
BY Zenon DEF Machine, IsMachine, MachineFields

\* No loop over signatures is running before the first OP_CHECKMULTISIG.
LEMMA NoLoopInv == LoopInv(NoLoop) /\ ~NoLoop.on
BY Zenon DEF LoopInv, NoLoop, LoopFields

\* verify_script returns.
LEMMA Returns ==
    ASSUME case' \in Cases, NEW e, Return(e), e # "panic", e = "none" => Verified'
    PROVE  ScriptInv'
<1>1. IsMachine(m)' /\ m'.err = e
  BY Zenon DEF Return, Machine, IsMachine, MachineFields
<1>2. CodeTyped(code)' /\ LoopInv(multisig)' /\ ~multisig'.on /\ phase' = "done"
  BY ScriptsTyped, NoLoopInv, Zenon DEF Return
<1> QED
  BY <1>1, <1>2, Zenon DEF ScriptInv, PathInv

\* It goes on to the next script.
LEMMA Enters ==
    ASSUME case' \in Cases, NEW p, NEW script, NEW machine, NEW aside,
           Enter(p, script, machine, aside), CodeTyped(script), IsMachine(machine), PathInv'
    PROVE  ScriptInv'
BY NoLoopInv, Zenon DEF Enter, ScriptInv

\* The checks at the end: no assertion fails, and a witness nothing asks for is refused.
LEMMA Finishes ==
    ASSUME case \in Cases, NEW stack, NEW had_witness, Finish(stack, had_witness)
    PROVE  \/ Return("CleanStack")
           \/ Return("WitnessUnexpected")
           \/ Return("none") /\ ("WITNESS" \in case.flags /\ ~had_witness => case.witness = <<>>)
<1>1. /\ "CLEANSTACK" \in case.flags => {"P2SH", "WITNESS"} \subseteq case.flags
      /\ "WITNESS" \in case.flags => "P2SH" \in case.flags
  BY CasesAssumption, Zenon
<1> QED
  BY <1>1, Zenon DEF Finish

\* A witness program is refused, run, or of a version to come.
LEMMA WitnessPrograms ==
    ASSUME case \in Cases, NEW kind, NEW stack, verify_witness_program(kind, stack)
    PROVE  \/ \E e : Return(e) /\ e \notin {"panic", "none"}
           \/ /\ kind \in {"p2wsh", "p2wpkh"}
              /\ \E script, machine, aside :
                     Enter("witness", script, machine, aside) /\ CodeTyped(script) /\ IsMachine(machine)
           \/ kind = "p2w_future" /\ \E s : Finish(s, TRUE)
<1>1. CodeTyped(Load(case.wit)) /\ CodeTyped(Code(KeyHashScript))
  BY ScriptsTyped, CasesAssumption, Zenon
<1>2. ASSUME NEW script, NEW s, NEW aside, RunWitness(script, s, aside), CodeTyped(script)
      PROVE  \/ Return("PushSize")
             \/ \E machine : Enter("witness", script, machine, aside) /\ IsMachine(machine)
  BY <1>2, MachineStarts, Zenon DEF RunWitness
<1>3. CASE kind = "p2wsh"
  BY <1>1, <1>2, <1>3 DEF verify_witness_program
<1>4. CASE kind = "p2wpkh"
  BY <1>1, <1>2, <1>4 DEF verify_witness_program
<1>5. CASE kind \notin {"p2wsh", "p2wpkh"}
  <2>1. \/ Return("DiscourageUpgradableWitnessProgram")
        \/ Return("WitnessProgramWrongLength")
        \/ kind = "p2w_future" /\ Finish(SubSeq(stack, 1, 1), TRUE)
    BY <1>5, Zenon DEF verify_witness_program
  <2>2. CASE kind = "p2w_future" /\ Finish(SubSeq(stack, 1, 1), TRUE)
    BY <2>2, Zenon
  <2>3. CASE Return("DiscourageUpgradableWitnessProgram")
    <3>1. "DiscourageUpgradableWitnessProgram" \notin {"panic", "none"}
      BY Zenon
    <3> QED
      BY <2>3, <3>1, Zenon
  <2>4. CASE Return("WitnessProgramWrongLength")
    <3>1. "WitnessProgramWrongLength" \notin {"panic", "none"}
      BY Zenon
    <3> QED
      BY <2>4, <3>1, Zenon
  <2> QED
    BY <2>1, <2>2, <2>3, <2>4, Zenon
<1> QED
  BY <1>3, <1>4, <1>5, Zenon

\* HASH160, the first instruction of a P2SH output's script, fails on an empty stack.
LEMMA HashOfNothing ==
    ASSUME NEW x, IsMachine(x), x.stack = <<>>, x.exec = <<>>, NEW flags, NEW tx, NEW found
    PROVE  eval_instruction(x, Ins("HASH160"), flags, tx, found).err # "none"
<1> DEFINE ins == Ins("HASH160")
           y == Counted(x, "HASH160")
<1>1. ins.op = "HASH160" /\ executing(x)
  BY DEF Ins, executing
<1>2. IsMachine(y) /\ y.stack = <<>>
  BY MachineSteps, Zenon DEF Counted, IsMachine, MachineFields
<1>3. Err(x, "ReadInstruction").err = "ReadInstruction" /\ Err(x, "OpCount").err = "OpCount"
      /\ Err(y, "InvalidStackOperation").err = "InvalidStackOperation"
  BY <1>2, MachineSteps, Zenon
<1>4. OpStack(y, "HASH160") = Err(y, "InvalidStackOperation")
  <2>1. Len(y.stack) < Required["HASH160"]
    BY <1>2 DEF Required
  <2> QED
    BY <2>1, Zenon DEF OpStack
<1> HIDE DEF y, ins
<1>5. Handle(y, ins, flags, tx, found) = OpStack(y, "HASH160")
  <2>1. /\ "HASH160" \in DOMAIN Required
        /\ "HASH160" \notin UnaryOps \cup BinaryOps \cup DisabledOps \cup MultisigOps
    BY Zenon DEF Required, UnaryOps, BinaryOps, DisabledOps, MultisigOps
  <2> QED
    BY <1>1, <2>1, Zenon DEF Handle
<1>6. Sized(Handle(y, ins, flags, tx, found)).err # "none"
  BY <1>3, <1>4, <1>5, Zenon DEF Sized
<1> QED
  BY <1>1, <1>3, <1>4, <1>5, <1>6, Zenon DEF eval_instruction, y, ins

\* The next instruction is one of the model's, and what is left is a script.
LEMMA Instructions ==
    ASSUME CodeTyped(code), NEW ins \in NextInstructions
    PROVE  ins \in Instruction /\ CodeTyped(CodeAfter)
<1>1. CASE code.fixed # <<>>
  <2>1. Head(code.fixed) \in Instruction /\ Tail(code.fixed) \in Seq(Instruction)
    BY <1>1 DEF CodeTyped
  <2> QED
    BY <1>1, <2>1, Zenon DEF CodeTyped, NextInstructions, CodeAfter
<1>2. CASE code.fixed = <<>>
  BY <1>2, Zenon DEF CodeTyped, NextInstructions, CodeAfter
<1> QED
  BY <1>1, <1>2, Zenon

-----------------------------------------------------------------------------
(* The invariant holds. *)

\* verify_script starts with the script of the input.
LEMMA InitInv == Init => ScriptInv
<1> SUFFICES ASSUME Init PROVE ScriptInv
  BY Zenon
<1>1. CodeTyped(code)
  BY ScriptsTyped, CasesAssumption, Zenon DEF Init
<1> QED
  BY <1>1, MachineStarts, NoLoopInv, Zenon DEF Init, ScriptInv, PathInv, BaseMachine

\* An instruction.
LEMMA StepInv == ScriptInv /\ Step => ScriptInv'
<1> SUFFICES ASSUME ScriptInv, Step PROVE ScriptInv'
  BY Zenon
<1>1. case \in Cases /\ IsMachine(m) /\ CodeTyped(code) /\ LoopInv(multisig) /\ PathInv /\ case' = case
  BY Zenon DEF ScriptInv, Step
<1> DEFINE Ran(ins, found) ==
          /\ IF phase = "sig" /\ "SIGPUSHONLY" \in case.flags /\ ~IsPushOp(ins.op)
             THEN Return("SigPushOnly")
             ELSE After(eval_instruction(m, ins, case.flags, case.tx, found), ins)
          /\ script_sig' = SigAfter(ins)
<1>2. PICK ins \in NextInstructions : \E found \in MayBeFound(ins) : Ran(ins, found)
  BY Zenon DEF Step
<1>a. PICK found \in MayBeFound(ins) : Ran(ins, found)
  BY <1>2, Zenon
<1>3. phase # "done" /\ ~multisig.on /\ completed' = completed
  BY Zenon DEF Step
<1>4. ins \in Instruction /\ CodeTyped(CodeAfter)
  BY <1>1, Instructions, Zenon
<1> DEFINE after == eval_instruction(m, ins, case.flags, case.tx, found)
<1>5. IsMachine(after)
  BY <1>1, <1>4, EvalMachine, Zenon
<1>6. StartsLoop(ins) /\ after.err = "none" => LoopInv(LoopOf(ins))
  <2> SUFFICES ASSUME StartsLoop(ins), after.err = "none" PROVE LoopInv(LoopOf(ins))
    BY Zenon
  <2>1. KeysCount(m) \in Nat /\ SigsCount(m) \in 0..KeysCount(m)
    BY <1>1, <1>4, MultisigStarts, Zenon DEF StartsLoop
  <2>2. /\ DOMAIN LoopOf(ins) = LoopFields
        /\ LoopOf(ins).keys = Keys(m) /\ LoopOf(ins).sigs = Sigs(m)
        /\ LoopOf(ins).checked = 0 /\ LoopOf(ins).satisfied = 0 /\ LoopOf(ins).success = TRUE
    BY Zenon DEF LoopOf, NoLoop, LoopFields
  <2> QED
    BY <2>1, <2>2, LoopStarts, Zenon
<1>7. phase = "pubkey" /\ case.pubkey.kind = "p2sh" /\ saved = <<>> => after.err # "none"
  <2> SUFFICES ASSUME phase = "pubkey", case.pubkey.kind = "p2sh", saved = <<>>
               PROVE  after.err # "none"
    BY Zenon
  <2>1. m.stack = <<>> /\ m.exec = <<>> /\ code.fixed = Fixed("p2sh")
    BY <1>1, Zenon DEF PathInv, Untouched
  <2>2. Fixed("p2sh") = <<Ins("HASH160"), Push(Hash("HASH160", RedeemScript)), Ins("EQUAL")>>
    BY Zenon DEF Fixed, WitnessKinds
  <2>3. ins = Ins("HASH160")
    <3>1. \A a, b, c : <<a, b, c>> # <<>> /\ Head(<<a, b, c>>) = a
      OBVIOUS
    <3>2. code.fixed # <<>> /\ Head(code.fixed) = Ins("HASH160")
      BY <2>1, <2>2, <3>1, Zenon
    <3> QED
      BY <3>2, Zenon DEF NextInstructions
  <2> QED
    BY <1>1, <2>1, <2>3, HashOfNothing, Zenon
<1> HIDE DEF after
<1>8. CASE Return("SigPushOnly")
  BY <1>1, <1>8, Returns, Zenon
<1>9. CASE After(after, ins) /\ after.err # "none"
  <2>1. Return(after.err) /\ after.err # "panic"
    BY <1>5, <1>9, Zenon DEF After, IsMachine
  <2> QED
    BY <1>1, <1>9, <2>1, Returns, Zenon
<1>10. CASE After(after, ins) /\ after.err = "none"
  <2>1. /\ m' = after /\ code' = CodeAfter
        /\ multisig' = IF StartsLoop(ins) THEN LoopOf(ins) ELSE multisig
        /\ phase' = phase /\ saved' = saved
    BY <1>10, Zenon DEF After
  <2>2. IsMachine(m') /\ CodeTyped(code') /\ LoopInv(multisig')
    BY <1>1, <1>4, <1>5, <1>6, <1>10, <2>1, Zenon
  <2>3. phase # "sig" => script_sig' = script_sig
    BY <1>a, Zenon DEF SigAfter
  <2>4. phase = "pubkey" => Untouched'
    BY <1>1, <1>7, <1>10, <2>1, Zenon DEF Untouched
  <2>5. (phase = "redeem" => Redeeming') /\ (phase = "witness" => Witnessing')
    BY <1>1, <1>3, <2>3, Zenon DEF PathInv, Redeeming, Witnessing
  <2>6. PathInv'
    BY <1>1, <1>3, <2>1, <2>4, <2>5, Zenon DEF PathInv
  <2> QED
    BY <1>1, <2>2, <2>6, Zenon DEF ScriptInv
<1> QED
  BY <1>a, <1>8, <1>9, <1>10, Zenon DEF after

\* A turn of the loop of eval_checkmultisig: there is always a key left to check.
LEMMA MultisigTurnInv == ScriptInv /\ MultisigTurn => ScriptInv'
<1> SUFFICES ASSUME ScriptInv, MultisigTurn PROVE ScriptInv'
  OBVIOUS
<1>1. case \in Cases /\ IsMachine(m) /\ CodeTyped(code) /\ LoopInv(multisig) /\ PathInv
  BY Zenon DEF ScriptInv
<1>2. multisig.on /\ multisig.satisfied < Len(multisig.sigs) /\ multisig.success
  BY Zenon DEF MultisigTurn, InLoop
<1> DEFINE correct == check_ecdsa_signature(LoopSig, LoopKey)
<1>3. correct <=> check_ecdsa_signature(multisig.sigs[multisig.satisfied + 1], multisig.keys[multisig.checked + 1])
  BY Zenon DEF LoopSig, LoopKey
<1>4. multisig.checked < Len(multisig.keys) /\ LoopInv(Checked(multisig, correct))
  <2> HIDE DEF correct
  <2> QED
    BY <1>1, <1>2, <1>3, LoopTurns, Zenon
<1>5. multisig.checked \in Nat /\ Len(multisig.keys) \in Nat
  BY <1>1, <1>2 DEF LoopInv, LoopCounts
<1>6. case' = case /\ script_sig' = script_sig /\ completed' = completed
  BY Zenon DEF MultisigTurn
<1>7. CASE LoopError # "none"
  <2>1. Return(LoopError) /\ LoopError # "panic"
    BY <1>4, <1>5, <1>7, EncodingErrors DEF MultisigTurn, LoopError
  <2> QED
    BY <1>1, <1>6, <1>7, <2>1, Returns, Zenon
<1>8. CASE LoopError = "none"
  <2>1. multisig' = Checked(multisig, correct) /\ UNCHANGED <<phase, m, code, saved, flow>>
    BY <1>4, <1>5, <1>8 DEF MultisigTurn
  <2>2. Untouched => Untouched'
    BY <1>2, <1>6, <2>1, Zenon DEF Untouched
  <2>3. (Redeeming => Redeeming') /\ (Witnessing => Witnessing')
    BY <1>6, Zenon DEF Redeeming, Witnessing
  <2>4. PathInv'
    BY <1>1, <1>2, <1>6, <2>1, <2>2, <2>3, Zenon DEF PathInv
  <2>5. LoopInv(multisig') /\ IsMachine(m') /\ CodeTyped(code') /\ case' \in Cases
    BY <1>1, <1>4, <1>6, <2>1, Zenon
  <2> QED
    BY <2>4, <2>5, Zenon DEF ScriptInv
<1> QED
  BY <1>7, <1>8, Zenon

\* The end of the loop.
LEMMA MultisigEndInv == ScriptInv /\ MultisigEnd => ScriptInv'
<1> SUFFICES ASSUME ScriptInv, MultisigEnd PROVE ScriptInv'
  OBVIOUS
<1>1. case \in Cases /\ IsMachine(m) /\ CodeTyped(code) /\ LoopInv(multisig) /\ PathInv /\ multisig.on
  BY Zenon DEF ScriptInv, MultisigEnd
<1>2. case' = case /\ script_sig' = script_sig /\ completed' = completed
  BY Zenon DEF MultisigEnd
<1>3. IsMachine(Pushed)
  <2>1. IsMachine(Put(m, 0, <<FromBool(multisig.success)>>))
    BY <1>1, MachineSteps, Zenon
  <2> QED
    BY <1>1, <2>1, MachineSteps, Zenon DEF Pushed
<1>4. CASE Return("CheckMultiSigVerify")
  BY <1>1, <1>2, <1>4, Returns, Zenon
<1>5. CASE Return(Pushed.err) /\ Pushed.err # "none"
  BY <1>1, <1>2, <1>3, <1>5, Returns, Zenon DEF IsMachine
<1>6. CASE m' = Pushed /\ multisig' = NoLoop /\ UNCHANGED <<phase, code, saved, flow>>
  <2>1. Untouched => Untouched'
    BY <1>1, <1>2, <1>6, Zenon DEF Untouched
  <2>2. (Redeeming => Redeeming') /\ (Witnessing => Witnessing')
    BY <1>2 DEF Redeeming, Witnessing
  <2>3. PathInv'
    BY <1>1, <1>2, <1>6, <2>1, <2>2, Zenon DEF PathInv
  <2> QED
    BY <1>1, <1>2, <1>3, <1>6, <2>3, NoLoopInv, Zenon DEF ScriptInv
<1> QED
  BY <1>4, <1>5, <1>6, Zenon DEF MultisigEnd

\* The input's script ended.
LEMMA EndSigInv == ScriptInv /\ EndSig => ScriptInv'
<1> SUFFICES ASSUME ScriptInv, EndSig PROVE ScriptInv'
  OBVIOUS
<1>1. case \in Cases /\ PathInv /\ phase = "sig" /\ case' = case /\ completed' = completed
  BY Zenon DEF ScriptInv, EndSig, AtEnd
<1>2. CASE Return("UnbalancedConditional")
  BY <1>1, <1>2, Returns, Zenon
<1>3. CASE Enter("pubkey", Load(case.pubkey), BaseMachine(m.stack), m.stack)
  <2>1. CodeTyped(Load(case.pubkey))
    BY <1>1, ScriptsTyped, CasesAssumption, Zenon
  <2>2. IsMachine(BaseMachine(m.stack)) /\ BaseMachine(m.stack).stack = m.stack /\ BaseMachine(m.stack).exec = <<>>
    BY MachineStarts DEF BaseMachine
  <2>3. case.pubkey.kind = "p2sh" => Load(case.pubkey).fixed = Fixed("p2sh")
    BY Zenon DEF Load, Code
  <2>4. Untouched'
    BY <1>1, <1>3, <2>2, <2>3, NoLoopInv, Zenon DEF Untouched, Enter
  <2>5. PathInv'
    BY <1>1, <1>3, <2>4, Zenon DEF PathInv, Enter
  <2> QED
    BY <1>1, <1>3, <2>1, <2>2, <2>5, Enters, Zenon
<1> QED
  BY <1>2, <1>3, Zenon DEF EndSig

\* What a program is, from the kind of its script.
LEMMA ProgramKinds ==
    ASSUME NEW script
    PROVE  /\ \A kind \in Programs(script) : kind = script.kind /\ kind \in WitnessKinds /\ "WITNESS" \in case.flags
           /\ script.kind = "p2sh" => Programs(script) = {}
           /\ script.kind \in WitnessKinds /\ "WITNESS" \in case.flags => Programs(script) = {script.kind}
BY Zenon DEF Programs, parse_witness_program, WitnessKinds

\* The output's script ended.
LEMMA EndPubkeyInv == ScriptInv /\ EndPubkey => ScriptInv'
<1> SUFFICES ASSUME ScriptInv, EndPubkey PROVE ScriptInv'
  OBVIOUS
<1>1. case \in Cases /\ PathInv /\ phase = "pubkey" /\ code.fixed = <<>> /\ case' = case /\ script_sig' = script_sig
  BY Zenon DEF ScriptInv, EndPubkey, AtEnd
<1>2. completed = {} /\ Untouched
  BY <1>1, Zenon DEF PathInv
<1>3. CASE Return("UnbalancedConditional") \/ Return("EvalFalse")
  BY <1>1, <1>3, Returns, Zenon
<1>4. CASE PubkeyTrue /\ Completed("pubkey")
  <2>1. completed' = {"pubkey"}
    BY <1>2, <1>4, Zenon DEF Completed
  <2>2. ProgramOf' = Programs(case.pubkey)
    BY <1>1, <2>1, Zenon DEF ProgramOf, Programs, parse_witness_program
  <2>3. ASSUME NEW kind \in Programs(case.pubkey), kind # "p2w_badlen" => script_sig.empty,
               verify_witness_program(kind, m.stack)
        PROVE  ScriptInv'
    <3>1. kind = case.pubkey.kind /\ kind \in WitnessKinds /\ "WITNESS" \in case.flags
      BY <2>3, ProgramKinds, Zenon
    <3>2. ASSUME NEW e, Return(e), e \notin {"panic", "none"} PROVE ScriptInv'
      BY <1>1, <3>2, Returns, Zenon
    <3>3. ASSUME kind \in {"p2wsh", "p2wpkh"}, NEW script, NEW machine, NEW aside,
                 Enter("witness", script, machine, aside), CodeTyped(script), IsMachine(machine)
          PROVE  ScriptInv'
      <4>1. Witnessing'
        BY <1>1, <2>1, <2>3, <3>1, <3>3, Zenon DEF Witnessing
      <4>2. PathInv'
        BY <3>3, <4>1, Zenon DEF PathInv, Enter
      <4> QED
        BY <1>1, <3>3, <4>2, Enters, Zenon
    <3>4. ASSUME kind = "p2w_future", NEW s, Finish(s, TRUE) PROVE ScriptInv'
      <4>1. ProgramOf' = {"p2w_future"}
        BY <2>2, <3>1, <3>4, ProgramKinds, Zenon
      <4>2. Verified'
        BY <1>1, <2>1, <3>1, <3>4, <4>1, Zenon DEF Verified, WitnessKinds
      <4>3. Return("CleanStack") \/ Return("WitnessUnexpected") \/ Return("none")
        BY <1>1, <3>4, Finishes, Zenon
      <4> QED
        BY <1>1, <4>2, <4>3, Returns, Zenon
    <3> QED
      BY <1>1, <2>3, <3>2, <3>3, <3>4, WitnessPrograms, Zenon
  <2>4. CASE Return("WitnessMalleated")
    BY <1>1, <2>4, Returns, Zenon
  <2>5. CASE Programs(case.pubkey) = {} /\ EnterRedeem /\ "P2SH" \in case.flags /\ case.pubkey.kind = "p2sh"
    <3>1. saved # <<>>
      <4>1. Fixed("p2sh") = <<Ins("HASH160"), Push(Hash("HASH160", RedeemScript)), Ins("EQUAL")>>
        BY Zenon DEF Fixed, WitnessKinds
      <4>2. \A a, b, c : <<a, b, c>> # <<>>
        BY Zenon
      <4>3. Fixed("p2sh") # <<>>
        BY <4>1, <4>2, Zenon
      <4> QED
        BY <1>1, <1>2, <2>5, <4>3, Zenon DEF Untouched
    <3>2. CASE ~script_sig.push_only
      BY <1>1, <2>5, <3>2, Returns, Zenon DEF EnterRedeem
    <3>3. CASE script_sig.push_only
      <4>1. Enter("redeem", Load(case.redeem), BaseMachine(Front(saved)), <<>>)
        BY <2>5, <3>1, <3>3, Zenon DEF EnterRedeem
      <4>2. CodeTyped(Load(case.redeem)) /\ IsMachine(BaseMachine(Front(saved)))
        BY <1>1, ScriptsTyped, CasesAssumption, MachineStarts, Zenon DEF BaseMachine
      <4>3. Redeeming'
        BY <1>1, <2>1, <2>5, <3>3, Zenon DEF Redeeming
      <4>4. PathInv'
        BY <4>1, <4>3, Zenon DEF PathInv, Enter
      <4> QED
        BY <1>1, <4>1, <4>2, <4>4, Enters, Zenon
    <3> QED
      BY <3>2, <3>3, Zenon
  <2>6. CASE Programs(case.pubkey) = {} /\ Finish(m.stack, FALSE) /\ ~("P2SH" \in case.flags /\ case.pubkey.kind = "p2sh")
    <3>1. ("WITNESS" \in case.flags => case.witness = <<>>) => Verified'
      BY <1>1, <2>1, <2>2, <2>6, Zenon DEF Verified
    <3>2. \/ Return("CleanStack")
          \/ Return("WitnessUnexpected")
          \/ Return("none") /\ ("WITNESS" \in case.flags => case.witness = <<>>)
      BY <1>1, <2>6, Finishes, Zenon
    <3> QED
      BY <1>1, <3>1, <3>2, Returns, Zenon
  <2> QED
    BY <1>4, <2>3, <2>4, <2>5, <2>6, Zenon DEF PubkeyTrue
<1> QED
  BY <1>3, <1>4, Zenon DEF EndPubkey

\* The redeem script ended.
LEMMA EndRedeemInv == ScriptInv /\ EndRedeem => ScriptInv'
<1> SUFFICES ASSUME ScriptInv, EndRedeem PROVE ScriptInv'
  OBVIOUS
<1>1. case \in Cases /\ PathInv /\ phase = "redeem" /\ case' = case /\ script_sig' = script_sig
  BY Zenon DEF ScriptInv, EndRedeem, AtEnd
<1>2. Redeeming
  BY <1>1, Zenon DEF PathInv
<1>3. CASE Return("UnbalancedConditional") \/ Return("EvalFalse")
  BY <1>1, <1>3, Returns, Zenon
<1>4. CASE RedeemTrue /\ Completed("redeem")
  <2>1. completed' = {"pubkey", "redeem"}
    BY <1>2, <1>4, Zenon DEF Completed, Redeeming
  <2>2. ProgramOf' = Programs(case.redeem)
    <3>1. Programs(case.pubkey) = {}
      BY <1>2, ProgramKinds, Zenon DEF Redeeming
    <3> QED
      BY <1>1, <2>1, <3>1, Zenon DEF ProgramOf, Programs, parse_witness_program
  <2>3. ASSUME NEW kind \in Programs(case.redeem), kind # "p2w_badlen" => script_sig.redeem_only,
               verify_witness_program(kind, m.stack)
        PROVE  ScriptInv'
    <3>1. kind = case.redeem.kind /\ kind \in WitnessKinds /\ "WITNESS" \in case.flags
      BY <2>3, ProgramKinds, Zenon
    <3>2. ASSUME NEW e, Return(e), e \notin {"panic", "none"} PROVE ScriptInv'
      BY <1>1, <3>2, Returns, Zenon
    <3>3. ASSUME kind \in {"p2wsh", "p2wpkh"}, NEW script, NEW machine, NEW aside,
                 Enter("witness", script, machine, aside), CodeTyped(script), IsMachine(machine)
          PROVE  ScriptInv'
      <4>1. Witnessing'
        BY <1>1, <1>2, <2>1, <2>3, <3>1, <3>3, Zenon DEF Witnessing, Redeeming
      <4>2. PathInv'
        BY <3>3, <4>1, Zenon DEF PathInv, Enter
      <4> QED
        BY <1>1, <3>3, <4>2, Enters, Zenon
    <3>4. ASSUME kind = "p2w_future", NEW s, Finish(s, TRUE) PROVE ScriptInv'
      <4>1. ProgramOf' = {"p2w_future"}
        BY <2>2, <3>1, <3>4, ProgramKinds, Zenon
      <4>2. Verified'
        BY <1>1, <1>2, <2>1, <4>1, Zenon DEF Verified, Redeeming
      <4>3. Return("CleanStack") \/ Return("WitnessUnexpected") \/ Return("none")
        BY <1>1, <3>4, Finishes, Zenon
      <4> QED
        BY <1>1, <4>2, <4>3, Returns, Zenon
    <3> QED
      BY <1>1, <2>3, <3>2, <3>3, <3>4, WitnessPrograms, Zenon
  <2>4. CASE Return("WitnessMalleatedP2SH")
    BY <1>1, <2>4, Returns, Zenon
  <2>5. CASE Programs(case.redeem) = {} /\ Finish(m.stack, FALSE)
    <3>1. ("WITNESS" \in case.flags => case.witness = <<>>) => Verified'
      BY <1>1, <1>2, <2>1, <2>2, <2>5, Zenon DEF Verified, Redeeming
    <3>2. \/ Return("CleanStack")
          \/ Return("WitnessUnexpected")
          \/ Return("none") /\ ("WITNESS" \in case.flags => case.witness = <<>>)
      BY <1>1, <2>5, Finishes, Zenon
    <3> QED
      BY <1>1, <3>1, <3>2, Returns, Zenon
  <2> QED
    BY <1>4, <2>3, <2>4, <2>5, Zenon DEF RedeemTrue
<1> QED
  BY <1>3, <1>4, Zenon DEF EndRedeem

\* The script of a witness program ended.
LEMMA EndWitnessInv == ScriptInv /\ EndWitness => ScriptInv'
<1> SUFFICES ASSUME ScriptInv, EndWitness PROVE ScriptInv'
  OBVIOUS
<1>1. case \in Cases /\ PathInv /\ phase = "witness" /\ case' = case /\ script_sig' = script_sig
  BY Zenon DEF ScriptInv, EndWitness, AtEnd
<1>2. Witnessing
  BY <1>1, Zenon DEF PathInv
<1>3. CASE Return("UnbalancedConditional") \/ Return("CleanStack") \/ Return("EvalFalse")
  BY <1>1, <1>3, Returns, Zenon
<1>4. CASE Finish(saved, TRUE) /\ Completed("witness")
  <2>1. completed' = completed \cup {"witness"}
    BY <1>4, Zenon DEF Completed
  <2>2. ProgramOf' = ProgramOf /\ ("redeem" \in completed' <=> "redeem" \in completed)
    BY <1>1, <2>1, Zenon DEF ProgramOf, Programs, parse_witness_program
  <2>3. ProgramOf # {}
    BY <1>2, ProgramKinds, Zenon DEF Witnessing, ProgramOf, WitnessKinds
  <2>4. Verified'
    BY <1>1, <1>2, <2>1, <2>2, <2>3, Zenon DEF Verified, Witnessing
  <2>5. Return("CleanStack") \/ Return("WitnessUnexpected") \/ Return("none")
    BY <1>1, <1>4, Finishes, Zenon
  <2> QED
    BY <1>1, <2>4, <2>5, Returns, Zenon
<1> QED
  BY <1>3, <1>4, Zenon DEF EndWitness

\* The invariant of verify_script holds in every state.
LEMMA ScriptInvariant == Spec => []ScriptInv
<1>1. ScriptInv /\ UNCHANGED vars => ScriptInv'
  <2> SUFFICES ASSUME ScriptInv, UNCHANGED vars PROVE ScriptInv'
    BY Zenon
  <2>1. /\ case' = case /\ phase' = phase /\ m' = m /\ code' = code /\ saved' = saved
        /\ script_sig' = script_sig /\ multisig' = multisig /\ completed' = completed
    BY Zenon DEF vars
  <2>2. (Untouched => Untouched') /\ (Redeeming => Redeeming') /\ (Witnessing => Witnessing')
    BY <2>1, Zenon DEF Untouched, Redeeming, Witnessing
  <2>3. Verified => Verified'
    BY <2>1, Zenon DEF Verified, ProgramOf, Programs, parse_witness_program
  <2>4. PathInv'
    BY <2>1, <2>2, <2>3, Zenon DEF ScriptInv, PathInv
  <2> QED
    BY <2>1, <2>4, Zenon DEF ScriptInv
<1>2. ScriptInv /\ [Next]_vars => ScriptInv'
  BY <1>1, StepInv, MultisigTurnInv, MultisigEndInv, EndSigInv, EndPubkeyInv, EndRedeemInv, EndWitnessInv, Zenon DEF Next
<1> QED
  BY <1>2, InitInv, PTL DEF Spec

-----------------------------------------------------------------------------
\* verify_script returns Ok only when the output's script, the redeem script of
\* a P2SH output and the script of a version 0 program have each ended with a
\* true element, and none of its assertions fails: for every script, witness and
\* set of flags that keeps the combinations it asserts.
THEOREM VerifiedInFullTheorem == Spec => []VerifiedInFull
<1>1. ScriptInv => VerifiedInFull
  BY Zenon DEF ScriptInv, IsMachine, PathInv, Verified, VerifiedInFull
<1> QED
  BY <1>1, ScriptInvariant, PTL

\* eval_checkmultisig's one pass over the keys finds an order preserving
\* assignment of keys to signatures whenever there is one: for every number of
\* keys and signatures and whatever verifies under what.
THEOREM MultisigExactTheorem == Spec => []MultisigExact
<1>1. ScriptInv => MultisigExact
  <2> SUFFICES ASSUME ScriptInv, multisig.on, ~InLoop
               PROVE  multisig.success <=>
                          \E f \in [DOMAIN multisig.sigs -> DOMAIN multisig.keys] :
                              InOrder(f, multisig.sigs, multisig.keys)
    BY Zenon DEF MultisigExact, InOrder
  <2>1. multisig.success <=> Assignments(multisig) # {}
    BY LoopEnds, Zenon DEF ScriptInv, InLoop
  <2> QED
    BY <2>1, Zenon DEF Assignments
<1> QED
  BY <1>1, ScriptInvariant, PTL
=============================================================================
