----------------------------- MODULE X86Machine -----------------------------
(***************************************************************************)
(* What the instructions mean before they are rewritten: each takes effect *)
(* in one step on 32-bit registers. A word is the set of its one bits, so  *)
(* that nothing here resembles the byte-wise arithmetic it specifies.      *)
(* Every jump is part of the instruction that takes it: a comparison with  *)
(* its conditional jump, a call with the stores of its arguments, and the  *)
(* last three instructions of a function that returns are one each, and    *)
(* leave in eip where the program goes on.                                 *)
(***************************************************************************)
EXTENDS Integers, FiniteSets, FiniteSetsExt, SequencesExt

CONSTANTS Insns, None, StackCells, TrueLabel, FalseLabel, ReturnLabel, CalleeLabel
VARIABLES regs, stack, insn
vars == <<regs, stack, insn>>

Bits == 0..31
Arch == {"eax", "ecx", "edx", "ebp", "esp", "eip"}

(* The word of an integer, in two's complement. *)
WordOf(n) == {k \in 0..30 : (n \div 2^k) % 2 = 1} \cup (IF n < 0 THEN {31} ELSE {})

(* Bit k receives a carry when some lower bit generates one and all the     *)
(* bits between pass it on; a borrow likewise.                              *)
Reaches(k, generate, pass) ==
  \E j \in generate : j < k /\ \A l \in (j + 1)..(k - 1) : l \in pass
Xor(x, y) == (x \ y) \cup (y \ x)
Plus(x, y) ==
  Xor(Xor(x, y), {k \in Bits : Reaches(k, x \cap y, x \cup y)})
Minus(x, y) ==
  Xor(Xor(x, y), {k \in Bits : Reaches(k, y \ x, (Bits \ x) \cup y)})
Shl(x, n) == {k \in Bits : k - n \in x}
Shr(x, n) == {k \in Bits : k + n \in x}
Sar(x, n) == {k \in Bits : (IF k + n > 31 THEN 31 ELSE k + n) \in x}
Times(x, y) ==
  LET add(k, acc) == Plus(acc, Shl(x, k)) IN FoldSet(add, {}, y)
Below(x, y) == x # y /\ Max(Xor(x, y)) \in y
FlipSign(x) == Xor(x, {31})

Holds(cc, x, y) ==
  CASE cc = "E" -> x = y
    [] cc = "NE" -> x # y
    [] cc = "B" -> Below(x, y)
    [] cc = "AE" -> ~Below(x, y)
    [] cc = "A" -> Below(y, x)
    [] cc = "BE" -> ~Below(y, x)
    [] cc = "L" -> Below(FlipSign(x), FlipSign(y))
    [] cc = "GE" -> ~Below(FlipSign(x), FlipSign(y))
    [] cc = "G" -> Below(FlipSign(y), FlipSign(x))
    [] cc = "LE" -> ~Below(FlipSign(y), FlipSign(x))

(* The count of a shift by CL is the low five bits of ECX. *)
Amount(x) == CHOOSE n \in 0..31 : WordOf(n) = x \cap 0..4

Result(in) ==
  LET x == regs[in.dst]
      y == IF "src" \in DOMAIN in THEN regs[in.src] ELSE WordOf(in.imm)
      cl == Amount(regs["ecx"])
  IN CASE in.op \in {"ADD32ri", "ADD32rr"} -> Plus(x, y)
       [] in.op \in {"SUB32ri", "SUB32rr"} -> Minus(x, y)
       [] in.op \in {"AND32ri", "AND32rr"} -> x \cap y
       [] in.op \in {"OR32ri", "OR32rr"} -> x \cup y
       [] in.op \in {"XOR32ri", "XOR32rr"} -> Xor(x, y)
       [] in.op = "SHL32ri" -> Shl(x, in.imm % 32)
       [] in.op = "SHR32ri" -> Shr(x, in.imm % 32)
       [] in.op = "SAR32ri" -> Sar(x, in.imm % 32)
       [] in.op = "SHL32rCL" -> Shl(x, cl)
       [] in.op = "SHR32rCL" -> Shr(x, cl)
       [] in.op = "SAR32rCL" -> Sar(x, cl)
       [] in.op = "CTPOP32r" -> WordOf(Cardinality(y))
       [] in.op = "CTLZ32r" -> WordOf(IF y = {} THEN 32 ELSE 31 - Max(y))
       [] in.op = "CTTZ32r" -> WordOf(IF y = {} THEN 32 ELSE Min(y))
       [] in.op = "MUL32ri" -> Times(y, WordOf(in.imm))
       [] in.op = "MUL32rr" -> Times(y, regs[in.src2])
       [] in.op = "LEA32r" -> Plus(regs["ebp"], WordOf(in.imm))

Target(in) ==
  LET y == IF "src" \in DOMAIN in THEN regs[in.src] ELSE WordOf(in.imm)
  IN WordOf(IF Holds(in.cc, regs[in.dst], y) THEN TrueLabel ELSE FalseLabel)


(* The stack is a map from addresses to words. *)
CellOf(x) == LET add(k, n) == n + 2^k IN FoldSet(add, 0, x)

(* What happens between making room for the arguments and the call.         *)
StoreArgs(in) ==
  LET step(s, m) ==
        CASE m.op = "mov32i" -> [s EXCEPT !.regs[m.dst] = WordOf(m.imm)]
          [] m.op = "mov32" -> [s EXCEPT !.regs[m.dst] = s.regs[m.src]]
          [] m.op = "store" -> [s EXCEPT !.stack[CellOf(s.regs[m.base]) + m.disp] = s.regs[m.src]]
      reserved == [regs EXCEPT !["esp"] = Minus(@, WordOf(in.size))]
  IN FoldLeft(step, [regs |-> reserved, stack |-> stack], in.args)

(* The registers and the stack after a transfer of control.                *)
Pushed ==
  LET top == Minus(regs["esp"], WordOf(4))
  IN [regs |-> [regs EXCEPT !["esp"] = top],
      stack |-> [stack EXCEPT ![CellOf(top)] = regs["ebp"]]]
Called(in) ==
  LET s == StoreArgs(in)
      top == Minus(regs["esp"], WordOf(in.size + 4))
      callee == IF in.op = "CALL32r" THEN s.regs[in.callee] ELSE WordOf(CalleeLabel)
  IN [regs |-> [s.regs EXCEPT !["esp"] = top, !["eip"] = callee],
      stack |-> [s.stack EXCEPT ![CellOf(top)] = WordOf(ReturnLabel)]]
Returned ==
  LET frame == CellOf(regs["ebp"])
  IN [regs |-> [regs EXCEPT !["esp"] = Plus(regs["ebp"], WordOf(8)),
                            !["ebp"] = stack[frame], !["eip"] = stack[frame + 4]],
      stack |-> stack]

After(in) ==
  CASE in.op = "PUSH32r" -> Pushed
    [] in.op \in {"CALL32d", "CALL32r"} -> Called(in)
    [] in.op = "RET" -> Returned
    [] in.op = "JMP" -> [regs |-> [regs EXCEPT !["eip"] = WordOf(TrueLabel)], stack |-> stack]
    [] in.op \in {"CMP32rr", "CMP32ri"} ->
         [regs |-> [regs EXCEPT !["eip"] = Target(in)], stack |-> stack]
    [] OTHER -> [regs |-> [regs EXCEPT ![in.dst] = Result(in)], stack |-> stack]

(* By the calling convention nobody reads these after the instruction: the  *)
(* first three are the caller's to save, and a result is in EDX:EAX.        *)
Unspecified(in) ==
  CASE in.op \in {"PUSH32r", "CALL32d", "CALL32r"} -> {"eax", "ecx", "edx"}
    [] in.op = "RET" -> {"ecx"}
    [] OTHER -> {}

Init == regs \in [Arch -> SUBSET Bits] /\ stack \in [StackCells -> SUBSET Bits] /\ insn = None

Fetch == insn = None /\ insn' \in Insns /\ UNCHANGED <<regs, stack>>

Execute ==
  /\ insn # None
  /\ insn' = None
  /\ \A p \in Arch \ Unspecified(insn) : regs'[p] = After(insn).regs[p]
  /\ regs' \in [Arch -> SUBSET Bits]
  /\ stack' = After(insn).stack

Next == Fetch \/ Execute
Spec == Init /\ [][Next]_vars
===============================================================================
