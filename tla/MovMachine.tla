----------------------------- MODULE MovMachine -----------------------------
(***************************************************************************)
(* A machine that has only mov runs the chains of MovLegalize, one mov per *)
(* step. mem is the registers, the scratch slots of one function and the   *)
(* global ones; each is four bytes, byte 0 the lowest. The slots hold      *)
(* anything at first: a frame is not cleared, and the global slots hold    *)
(* what any other call, of this function or of another, has left in them.  *)
(* stack is the words around ESP and EBP.                                  *)
(*                                                                         *)
(* The instructions of a function are those of its opcodes, and the        *)
(* subtraction with which the prologue opens the frame. arch is the state  *)
(* of the registers and the stack after the last complete instruction, as  *)
(* X86Machine sees it.                                                     *)
(***************************************************************************)
EXTENDS MovLegalize

CONSTANTS
  Insns,         \* instructions, records with op, dst and operands
  Functions,     \* functions whose frame is laid out
  RegFiles,      \* initial registers
  Garbage,       \* initial contents of a scratch slot
  InitialStack,  \* addresses, as numbers, to words
  MaxRetired,    \* bound: instructions per behaviour
  None

Regs == {"eax", "ecx", "edx", "ebp", "esp", "eip"}
GPR32 == Regs \ {"eip"}
Word == [0..3 -> Byte]
Conditions == {"E", "NE", "B", "AE", "BE", "A", "L", "GE", "LE", "G"}

(* What may stand between making room for arguments and the call: copies,   *)
(* constants and stores.                                                    *)
ArgMovs ==
  [op : {"mov32"}, dst : GPR32, src : GPR32]
  \cup [op : {"mov32i"}, dst : GPR32, imm : Int]
  \cup [op : {"store"}, base : GPR32, disp : Int, src : GPR32]

Instructions ==
  [op : AddSubRI \cup BitwiseRI \cup ShiftRI \cup {"LEA32r"}, dst : GPR32, imm : Int]
  \cup [op : AddSubRR \cup BitwiseRR \cup BitScan \cup {"CTPOP32r"}, dst : GPR32, src : GPR32]
  \cup [op : ShiftCL, dst : GPR32]
  \cup [op : {"MUL32ri"}, dst : GPR32, src : GPR32, imm : Int]
  \cup [op : {"MUL32rr"}, dst : GPR32, src : GPR32, src2 : GPR32]
  \cup [op : {"CMP32ri"}, dst : GPR32, imm : Int, cc : Conditions]
  \cup [op : {"CMP32rr"}, dst : GPR32, src : GPR32, cc : Conditions]
  \cup [op : {"PUSH32r", "RET", "JMP"}]
  \cup [op : {"CALL32d"}, size : Nat, args : Seq(ArgMovs)]
  \cup [op : {"CALL32r"}, size : Nat, args : Seq(ArgMovs), callee : GPR32]

ASSUME InsnsAssumption == Insns \subseteq Instructions /\ None \notin Instructions
ASSUME FunctionsAssumption == \A mf \in Functions : IsFunction(mf)
ASSUME WordsAssumption ==
  /\ RegFiles \subseteq [Regs -> Word] /\ Garbage \subseteq Word
  /\ InitialStack \in [DOMAIN InitialStack -> Word]
ASSUME MaxRetiredAssumption == MaxRetired \in Nat

VARIABLES fn, mem, stack, insn, pc, arch, retired
vars == <<fn, mem, stack, insn, pc, arch, retired>>

Prologue(mf) == [op |-> "SUB32ri", dst |-> "esp", imm |-> StackSize(mf)]
InsnsOf(mf) ==
  {in \in Insns : in.op \in mf.ops} \cup (IF StackSize(mf) > 0 THEN {Prologue(mf)} ELSE {})

(* The chain of every instruction. TLC computes a function each time it is  *)
(* applied, until it has compared it with another.                          *)
AllInsns == Insns \cup {Prologue(mf) : mf \in Functions}
Tabulated(f) == CHOOSE g \in {f} : g = f
Code == Tabulated([in \in AllInsns |-> Chain(in)])

(* runOnMachineFunction rewrites the instruction rather than leaving it in  *)
(* .text: the slots are there, and those for a subtraction from ESP within  *)
(* reach: the prologue's, or that of a call when it was not folded.         *)
SubtractsFromESP(in, mf) ==
  in = Prologue(mf) \/ (in.op \in Calls /\ in.size > 0 /\ ~Folds(in))
Rewritten(in, mf) ==
  /\ Code[in] # <<>> => Required(in.op) \subseteq Slots(mf)
  /\ SubtractsFromESP(in, mf) => BaseSlots \subseteq Slots(mf) /\ PrologueInBudget(mf)

WordBytes(n) == [i \in 0..3 |-> ImmByte(n, i)]
BitsOf(w) == {k \in 0..31 : (w[k \div 8] \div 2^(k % 8)) % 2 = 1}
Architecture(m, cells) ==
  [regs |-> [p \in Regs |-> BitsOf(m[p])], stack |-> [a \in DOMAIN cells |-> BitsOf(cells[a])]]

Places(mf) == Regs \cup Globals \cup Slots(mf)

Index == mem["ecx"][0] + 256 * mem["ecx"][1] + 65536 * mem["ecx"][2]
InTable(tab) == mem["ecx"][3] = 0 /\ Index < TableSize(tab)

Init ==
  /\ fn \in Functions
  /\ \E r \in RegFiles, g \in Garbage :
       mem = [p \in Places(fn) |-> IF p \in Regs THEN r[p] ELSE g]
  /\ stack = InitialStack
  /\ insn = None /\ pc = 0 /\ retired = 0
  /\ arch = Architecture(mem, stack)

Fetch ==
  /\ insn = None /\ retired < MaxRetired
  /\ insn' \in InsnsOf(fn)
  /\ pc' = 1
  /\ UNCHANGED <<fn, mem, stack, arch, retired>>

Running == insn # None /\ Rewritten(insn, fn) /\ pc =< Len(Code[insn])
Current == Code[insn][pc]
Advance == pc' = pc + 1 /\ UNCHANGED <<fn, insn, arch, retired>>

(* Moves between registers and slots. *)
Mov32 ==
  /\ Running /\ Current.op = "mov32"
  /\ mem' = [mem EXCEPT ![Current.dst] = mem[Current.src]]
  /\ Advance /\ UNCHANGED stack

Mov32Imm ==
  /\ Running /\ Current.op = "mov32i"
  /\ mem' = [mem EXCEPT ![Current.dst] = WordBytes(Current.imm)]
  /\ Advance /\ UNCHANGED stack

SourceByte(s) == IF "byte" \in DOMAIN s THEN s.byte ELSE mem[s.at[1]][s.at[2]]
MovByte ==
  /\ Running /\ Current.op = "mov8"
  /\ mem' = [mem EXCEPT ![Current.dst[1]][Current.dst[2]] = SourceByte(Current.src)]
  /\ Advance /\ UNCHANGED stack

(* A load past the end of a table is no step here: TablesInBounds.          *)
MovIndexed ==
  /\ Running /\ Current.op = "lookup" /\ InTable(Current.table)
  /\ mem' = [mem EXCEPT ![Current.dst[1]][Current.dst[2]] =
                          TableByte(Current.table, Index)]
  /\ Advance /\ UNCHANGED stack

(* Moves from and to the stack, which no step makes outside its words.      *)
Cell ==
  LET w == mem[Current.base]
  IN IF w[3] >= 128 THEN -1
     ELSE w[0] + 256 * w[1] + 65536 * w[2] + 16777216 * w[3] + Current.disp
MovLoad ==
  /\ Running /\ Current.op = "load" /\ Cell \in DOMAIN stack
  /\ mem' = [mem EXCEPT ![Current.dst] = stack[Cell]]
  /\ Advance /\ UNCHANGED stack

MovStore ==
  /\ Running /\ Current.op \in {"store", "storei"} /\ Cell \in DOMAIN stack
  /\ stack' = [stack EXCEPT ![Cell] = IF Current.op = "store" THEN mem[Current.src]
                                      ELSE WordBytes(Current.imm)]
  /\ Advance /\ UNCHANGED mem

(* The jump through a pointer: to what the slot it points to holds.         *)
PointedTo(w) == {g \in DOMAIN AddressOf : WordBytes(AddressOf[g]) = w}
JumpMemory ==
  /\ Running /\ Current.op = "jumpvia"
  /\ \E g \in PointedTo(mem[Current.reg]) : mem' = [mem EXCEPT !["eip"] = mem[g]]
  /\ Advance /\ UNCHANGED stack

Retire ==
  /\ insn # None /\ Rewritten(insn, fn) /\ pc > Len(Code[insn])
  /\ insn' = None /\ pc' = 0
  /\ arch' = Architecture(mem, stack)
  /\ retired' = retired + 1
  /\ UNCHANGED <<fn, mem, stack>>

Next ==
  \/ Fetch \/ Mov32 \/ Mov32Imm \/ MovByte \/ MovIndexed
  \/ MovLoad \/ MovStore \/ JumpMemory \/ Retire
Spec == Init /\ [][Next]_vars
-------------------------------------------------------------------------------
Named(m) ==
  CASE m.op = "mov32" -> {m.dst, m.src}
    [] m.op = "mov32i" -> {m.dst}
    [] m.op = "mov8" -> {m.dst[1]} \cup (IF "at" \in DOMAIN m.src THEN {m.src.at[1]} ELSE {})
    [] m.op = "lookup" -> {m.dst[1], "ecx"}
    [] m.op = "load" -> {m.dst, m.base}
    [] m.op = "store" -> {m.base, m.src}
    [] m.op = "storei" -> {m.base}
    [] m.op = "jumpvia" -> {m.reg}

(* Memory is made of bytes and has the slots the function reserved; a chain *)
(* that is about to run names no others.                                    *)
MachineTypeOK ==
  /\ fn \in Functions
  /\ mem \in [Places(fn) -> Word]
  /\ stack \in [DOMAIN InitialStack -> Word]
  /\ pc \in Nat /\ retired \in 0..MaxRetired
  /\ insn = None \/ insn \in InsnsOf(fn)
  /\ (pc = 1 /\ Rewritten(insn, fn)) =>
        \A k \in 1..Len(Code[insn]) : Named(Code[insn][k]) \subseteq Places(fn)

(* No arithmetic instruction stays in .text: the slots that the frame scan  *)
(* reserved are those the rewrite asks for, the prologue's own subtraction  *)
(* included.                                                                *)
MovOnly == insn # None => Rewritten(insn, fn)

(* What the scan leaves to chance: that a function which opens a frame or   *)
(* calls has something the scan counts (a RET is enough), and that its      *)
(* frame is not too deep for a subtraction from ESP.                        *)
Served ==
  \A mf \in Functions :
    StackSize(mf) > 0 \/ mf.ops \cap Calls # {} => NeedsByteOpScratch(mf) /\ PrologueInBudget(mf)

(* No lookup reads past the end of its table, whatever ECX and the index    *)
(* slot held before: every byte of the index was set by the chain.          *)
TablesInBounds ==
  Running /\ Current.op = "lookup" => InTable(Current.table)

(* No chain that moves ESP or EBP loses the stack, or the slot of the       *)
(* address it will jump to.                                                 *)
StackInBounds ==
  Running =>
    /\ Current.op \in {"load", "store", "storei"} => Cell \in DOMAIN stack
    /\ Current.op = "jumpvia" => PointedTo(mem[Current.reg]) # {}

(* Each chain has the effect of the instruction it replaces, all at once:   *)
(* on its destination, on the stack and on where the program goes on. It    *)
(* leaves every other register alone that the next instruction may read.    *)
X86 == INSTANCE X86Machine WITH
  regs <- arch.regs, stack <- arch.stack, Insns <- AllInsns, StackCells <- DOMAIN InitialStack
ImplementsX86 == X86!Spec
===============================================================================
