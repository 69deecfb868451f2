------------------------------ MODULE MovFrame ------------------------------
(***************************************************************************)
(* The scratch slots of a function. MovFrameLowering scans the function    *)
(* before its frame is laid out and reserves the slots it expects the      *)
(* rewrites of MovOnlyLegalize to need; each rewrite looks its slots up    *)
(* again and leaves the instruction alone when one of them is missing. The *)
(* two lists are written in different files and must agree.                *)
(*                                                                         *)
(* A function is a record: the opcodes it holds, its basic blocks, and the *)
(* stack objects it had before the scan.                                   *)
(***************************************************************************)
EXTENDS Naturals, FiniteSets

AddSubRR == {"ADD32rr", "SUB32rr"}
AddSubRI == {"ADD32ri", "SUB32ri"}
BitwiseRR == {"AND32rr", "OR32rr", "XOR32rr"}
BitwiseRI == {"AND32ri", "OR32ri", "XOR32ri"}
ShiftRI == {"SHL32ri", "SHR32ri", "SAR32ri"}
ShiftCL == {"SHL32rCL", "SHR32rCL", "SAR32rCL"}
Compare == {"CMP32rr", "CMP32ri"}
BitScan == {"CTLZ32r", "CTTZ32r"}
Multiply == {"MUL32rr", "MUL32ri"}
Calls == {"CALL32d", "CALL32r"}

(* The opcodes the scan counts, and those it passes over although they are  *)
(* rewritten too: they use global scratch, or next_pc alone.               *)
Scanned ==
  AddSubRR \cup AddSubRI \cup BitwiseRR \cup BitwiseRI \cup ShiftRI \cup ShiftCL
  \cup Compare \cup BitScan \cup Multiply \cup {"RET", "LEA32r", "CTPOP32r"}
Opcodes == Scanned \cup Calls \cup {"PUSH32r", "JMP"}

(* A function as the selector leaves it: a compare is rewritten together    *)
(* with its jump, so one that has either has a second block to jump to.     *)
IsFunction(mf) ==
  /\ mf.ops \subseteq Opcodes
  /\ mf.blocks \in Nat /\ mf.objects \in Nat
  /\ mf.ops \cap (Compare \cup {"JMP"}) # {} => mf.blocks >= 2

BaseSlots == {"save_ecx", "save_edx", "srcdst", "idx"}
AllSlots ==
  BaseSlots \cup {"rhs", "sign", "amount", "shifted", "cmp_mask", "mul_temp",
                  "mul_rhs2", "next_pc"}

(* Mutant: the scan takes the unary bit scans for users of the base slots.  *)
ExtraNoBitScan(op) ==
  (IF op \in AddSubRR \cup BitwiseRR \cup Compare \cup Multiply THEN {"rhs"} ELSE {})
  \cup (IF op \in {"SAR32ri", "SAR32rCL"} THEN {"sign"} ELSE {})
  \cup (IF op \in ShiftCL THEN {"amount", "shifted"} ELSE {})
  \cup (IF op \in Compare THEN {"cmp_mask"} ELSE {})
  \cup (IF op \in Multiply THEN {"mul_temp"} ELSE {})
  \cup (IF op = "MUL32rr" THEN {"mul_rhs2"} ELSE {})

(* What the scan reserves for one opcode beside the base slots. *)
Extra(op) ==
  (IF op \in AddSubRR \cup BitwiseRR \cup Compare \cup BitScan \cup Multiply
     THEN {"rhs"} ELSE {})
  \cup (IF op \in {"SAR32ri", "SAR32rCL"} THEN {"sign"} ELSE {})
  \cup (IF op \in ShiftCL THEN {"amount", "shifted"} ELSE {})
  \cup (IF op \in Compare THEN {"cmp_mask"} ELSE {})
  \cup (IF op \in Multiply THEN {"mul_temp"} ELSE {})
  \cup (IF op = "MUL32rr" THEN {"mul_rhs2"} ELSE {})

NeedsByteOpScratch(mf) == mf.ops \cap Scanned # {} \/ mf.objects > 0
NeedsDispatcher(mf) == mf.blocks >= 2

Slots(mf) ==
  (IF NeedsDispatcher(mf) THEN {"next_pc"} ELSE {})
  \cup (IF NeedsByteOpScratch(mf)
          THEN BaseSlots \cup UNION {Extra(op) : op \in mf.ops} ELSE {})

(* The slots without which the rewrite of an opcode gives up. *)
Required(op) ==
  CASE op \in AddSubRI \cup BitwiseRI \cup {"SHL32ri", "SHR32ri", "LEA32r", "RET",
              "CTPOP32r"} -> BaseSlots
    [] op \in AddSubRR \cup BitwiseRR \cup BitScan -> BaseSlots \cup {"rhs"}
    [] op = "SAR32ri" -> BaseSlots \cup {"sign"}
    [] op \in {"SHL32rCL", "SHR32rCL"} -> BaseSlots \cup {"amount", "shifted"}
    [] op = "SAR32rCL" -> BaseSlots \cup {"amount", "shifted", "sign"}
    [] op = "MUL32ri" -> BaseSlots \cup {"rhs", "mul_temp"}
    [] op = "MUL32rr" -> BaseSlots \cup {"rhs", "mul_temp", "mul_rhs2"}
    [] op \in Compare -> BaseSlots \cup {"rhs", "cmp_mask", "next_pc"}
    [] op \in Calls \cup {"PUSH32r"} -> {}
    [] op = "JMP" -> {"next_pc"}

(* emitPrologue opens a frame with `sub esp, size` when there is anything   *)
(* in it. That subtraction is added after the scan has run.                *)
StackSize(mf) == 4 * (mf.objects + Cardinality(Slots(mf)))

(* That subtraction is rewritten with stores into slots that are still below *)
(* ESP, so the rewrite gives up when a base slot is beyond the guard page;   *)
(* idx, created last of the four, is the lowest. Objects count in words.     *)
kPrologueScratchPageBudget == 4000
IdxDepth(mf) == 4 * (mf.objects + (IF NeedsDispatcher(mf) THEN 1 ELSE 0) + 4)
PrologueInBudget(mf) == IdxDepth(mf) =< kPrologueScratchPageBudget
===============================================================================
