---------------------------- MODULE MovLegalize ----------------------------
(***************************************************************************)
(* What MovOnlyLegalize emits for each x86 instruction: a sequence of mov  *)
(* instructions that does the arithmetic byte by byte through lookup       *)
(* tables, between a prologue that spills the operands and an epilogue     *)
(* that restores the borrowed registers.                                   *)
(*                                                                         *)
(* A byte place is a pair <<register or slot, byte>>. The source of a byte *)
(* mov is a place or an immediate, each a record.                          *)
(***************************************************************************)
EXTENDS MovTables, MovFrame, Sequences, TLC

CONSTANTS
  TrueLabel, FalseLabel,      \* addresses of the two targets of a Jcc
  ReturnLabel, CalleeLabel,   \* where a call goes, and where it comes back
  AddressOf                   \* of each of the Globals

Globals == {"esp_dec_srcdst", "esp_dec_idx", "return_addr_slot", "indirect_callee_slot"}

ASSUME LabelsAssumption ==
  /\ {TrueLabel, FalseLabel, ReturnLabel, CalleeLabel} \subseteq Int
  /\ AddressOf \in [Globals -> Int]

At(p, i) == [at |-> <<p, i>>]
Imm(b) == [byte |-> b]
CL == At("ecx", 0)
CH == At("ecx", 1)
DL == At("edx", 0)

Mov(d, s) == <<[op |-> "mov32", dst |-> d, src |-> s]>>
MovImm(d, n) == <<[op |-> "mov32i", dst |-> d, imm |-> n]>>
Mov8(d, s) == <<[op |-> "mov8", dst |-> d.at, src |-> s]>>
Lookup(d, tab) == <<[op |-> "lookup", dst |-> d.at, table |-> tab]>>

(* Words of the stack, and the jumps that are left in the program.          *)
Load(d, base, disp) == <<[op |-> "load", dst |-> d, base |-> base, disp |-> disp]>>
Store(base, disp, s) == <<[op |-> "store", base |-> base, disp |-> disp, src |-> s]>>
StoreImm(base, disp, n) == <<[op |-> "storei", base |-> base, disp |-> disp, imm |-> n]>>
Jump(n) == MovImm("eip", n)
JumpTo(p) == Mov("eip", p)
JumpVia(reg) == <<[op |-> "jumpvia", reg |-> reg]>>

ImmByte(n, i) == (n \div 256^i) % 256

(* The code's loops over the bytes of a word: upward, downward, and upward  *)
(* over some of them.                                                       *)
Upward(Emit(_)) == Emit(0) \o Emit(1) \o Emit(2) \o Emit(3)
Downward(Emit(_)) == Emit(3) \o Emit(2) \o Emit(1) \o Emit(0)
Bytes(lo, hi, Emit(_)) ==
  LET at(i) == IF i \in lo..hi THEN Emit(i) ELSE <<>>
  IN at(0) \o at(1) \o at(2) \o at(3)

SaveRegs == Mov("save_ecx", "ecx") \o Mov("save_edx", "edx")
RestoreRegs == Mov("ecx", "save_ecx") \o Mov("edx", "save_edx")
(* Mutant: the result is loaded before the borrowed registers come back.    *)
BetweenEarlyResult(dst, chain) ==
  SaveRegs \o Mov("srcdst", dst) \o chain \o Mov(dst, "srcdst") \o RestoreRegs
Between(dst, chain) ==
  SaveRegs \o Mov("srcdst", dst) \o chain \o RestoreRegs \o Mov(dst, "srcdst")

(* The add and subtract stages: idx is packed as (carry, a, b) and loaded   *)
(* whole into ECX, and the carry waits in CL between two stages.            *)
emitIdxZero == MovImm("idx", 0)

PackA(a) == Mov8(DL, a) \o Mov8(At("idx", 1), DL)
PackB(b) ==
  IF "at" \in DOMAIN b THEN Mov8(DL, b) \o Mov8(At("idx", 0), DL)
  ELSE IF b.byte = 0 THEN <<>> ELSE Mov8(At("idx", 0), b)
emitIdxPackAB(i, b) == PackA(At("srcdst", i)) \o PackB(b)

emitTableLookupAndStore(tab, i) ==
  Mov("ecx", "idx") \o Lookup(DL, tab) \o Mov8(At("srcdst", i), DL)

(* Mutant: the carry of byte 0 is dropped.                                  *)
CarryIntoLate(i) == IF i > 1 THEN Mov8(At("idx", 2), CL) ELSE <<>>
CarryInto(i) == IF i > 0 THEN Mov8(At("idx", 2), CL) ELSE <<>>
CarryOut(tab, i) == IF i < 3 THEN Lookup(CL, tab) ELSE <<>>

emitByteStageAdd(i, b) ==
  emitIdxZero \o CarryInto(i) \o emitIdxPackAB(i, b)
  \o emitTableLookupAndStore(<<"add8_sum">>, i) \o CarryOut(<<"add8_carry">>, i)
emitByteStageSub(i, b) ==
  emitIdxZero \o CarryInto(i) \o emitIdxPackAB(i, b)
  \o emitTableLookupAndStore(<<"sub8_diff">>, i) \o CarryOut(<<"sub8_borrow">>, i)

legalizeADD32ri(in) ==
  LET stage(i) == emitByteStageAdd(i, Imm(ImmByte(in.imm, i)))
  IN IF in.imm = 0 THEN <<>> ELSE Between(in.dst, Upward(stage))
legalizeSUB32ri(in) ==
  LET stage(i) == emitByteStageSub(i, Imm(ImmByte(in.imm, i)))
  IN IF in.imm = 0 THEN <<>> ELSE Between(in.dst, Upward(stage))

BetweenRR(in, chain) ==
  SaveRegs \o Mov("srcdst", in.dst) \o Mov("rhs", in.src) \o chain
  \o RestoreRegs \o Mov(in.dst, "srcdst")
legalizeADD32rr(in) ==
  LET stage(i) == emitByteStageAdd(i, At("rhs", i)) IN BetweenRR(in, Upward(stage))
legalizeSUB32rr(in) ==
  LET stage(i) == emitByteStageSub(i, At("rhs", i)) IN BetweenRR(in, Upward(stage))

legalizeLEA32rs(in) == Mov(in.dst, "ebp") \o legalizeADD32ri(in)

(* The bitwise stages pack (a, b) straight into CH:CL; ECX is zeroed once.  *)
(* An immediate byte that leaves or fixes the result needs no lookup.       *)
emitByteStageBitwiseInReg(i, b, tab) ==
  Mov8(CH, At("srcdst", i)) \o Mov8(CL, b) \o Lookup(DL, tab) \o Mov8(At("srcdst", i), DL)

BitwiseTable(in) ==
  CASE in.op \in {"AND32rr", "AND32ri"} -> <<"and8">>
    [] in.op \in {"OR32rr", "OR32ri"} -> <<"or8">>
    [] in.op \in {"XOR32rr", "XOR32ri"} -> <<"xor8">>

IsIdentityByte(tab, b) == IF tab = <<"and8">> THEN b = 255 ELSE b = 0
IsConstantByte(tab, b) ==
  \/ tab = <<"and8">> /\ b = 0
  \/ tab = <<"or8">> /\ b = 255

legalizeBitwise32ri(in) ==
  LET tab == BitwiseTable(in)
      byte(i) == ImmByte(in.imm, i)
      looked(i) == ~IsIdentityByte(tab, byte(i)) /\ ~IsConstantByte(tab, byte(i))
      stage(i) ==
        CASE IsIdentityByte(tab, byte(i)) -> <<>>
          [] IsConstantByte(tab, byte(i)) -> Mov8(At("srcdst", i), Imm(byte(i)))
          [] OTHER -> emitByteStageBitwiseInReg(i, Imm(byte(i)), tab)
      lookups == \E i \in 0..3 : looked(i)
  IN (IF lookups THEN SaveRegs ELSE <<>>)
     \o Mov("srcdst", in.dst)
     \o (IF lookups THEN MovImm("ecx", 0) ELSE <<>>)
     \o Upward(stage)
     \o (IF lookups THEN RestoreRegs ELSE <<>>)
     \o Mov(in.dst, "srcdst")

(* The folds that come before it: no code at all, or one constant.          *)
BitwiseImm(in) ==
  CASE in.op = "AND32ri" /\ in.imm = 0 -> MovImm(in.dst, 0)
    [] in.op = "OR32ri" /\ in.imm = -1 -> MovImm(in.dst, -1)
    [] in.op = "AND32ri" /\ in.imm = -1 -> <<>>
    [] in.op \in {"OR32ri", "XOR32ri"} /\ in.imm = 0 -> <<>>
    [] OTHER -> legalizeBitwise32ri(in)

legalizeBitwise32rr(in) ==
  LET stage(i) == emitByteStageBitwiseInReg(i, At("rhs", i), BitwiseTable(in))
  IN BetweenRR(in, MovImm("ecx", 0) \o Upward(stage))

(* Lookups on DL that build a whole index, so that stale bytes of ECX do    *)
(* not matter: DL := tab[DL] and DL := tab[DL, b].                          *)
emitUnaryByteLookupInReg(tab) ==
  MovImm("ecx", 0) \o Mov8(CL, DL) \o Lookup(DL, tab)
emitBinaryByteLookup(b, tab) ==
  MovImm("ecx", 0) \o Mov8(CH, DL) \o Mov8(CL, b) \o Lookup(DL, tab)

(* This one relies on ECX already being clear above its low half.           *)
emitOrByteAndStore(buf, i) ==
  Mov8(CH, At(buf, i)) \o Mov8(CL, DL) \o Lookup(DL, <<"or8">>) \o Mov8(At(buf, i), DL)

(* Mutant: every shift takes its missing bytes from the sign slot.          *)
emitLoadByteSrcAlwaysSign(buf, i, isSAR) ==
  Mov8(DL, IF i \in 0..3 THEN At(buf, i) ELSE At("sign", 0))
emitLoadByteSrc(buf, i, isSAR) ==
  IF i \in 0..3 THEN Mov8(DL, At(buf, i))
  ELSE Mov8(DL, IF isSAR THEN At("sign", 0) ELSE Imm(0))

emitShiftByteStage(src, dst, i, low, high, tabs, isSAR) ==
  emitLoadByteSrc(src, low, isSAR) \o emitUnaryByteLookupInReg(tabs.low)
  \o Mov8(At(dst, i), DL)
  \o emitLoadByteSrc(src, high, isSAR) \o emitUnaryByteLookupInReg(tabs.high)
  \o emitOrByteAndStore(dst, i)

IsSHL(in) == in.op \in {"SHL32ri", "SHL32rCL"}
IsSAR(in) == in.op \in {"SAR32ri", "SAR32rCL"}
ShiftTables(in, bits) ==
  IF IsSHL(in) THEN [low |-> <<"shl_byte", bits>>, high |-> <<"shr_byte", 8 - bits>>]
  ELSE [low |-> <<"shr_byte", bits>>, high |-> <<"shl_byte", 8 - bits>>]

ShiftBy(in, src, dst, amt, i) ==
  LET bits == amt % 8
      low == IF IsSHL(in) THEN i - amt \div 8 ELSE i + amt \div 8
      high == IF IsSHL(in) THEN low - 1 ELSE low + 1
  IN IF bits = 0 THEN emitLoadByteSrc(src, low, IsSAR(in)) \o Mov8(At(dst, i), DL)
     ELSE emitShiftByteStage(src, dst, i, low, high, ShiftTables(in, bits), IsSAR(in))

CaptureSign(in) ==
  IF IsSAR(in)
    THEN Mov8(DL, At("srcdst", 3)) \o emitUnaryByteLookupInReg(<<"sar_sign">>)
         \o Mov8(At("sign", 0), DL)
    ELSE <<>>

legalizeShift32ri(in) ==
  LET amt == in.imm % 32
      processByte(i) == ShiftBy(in, "srcdst", "srcdst", amt, i)
  IN IF amt = 0 THEN <<>>
     ELSE Between(in.dst,
            CaptureSign(in)
            \o (IF IsSHL(in) THEN Downward(processByte) ELSE Upward(processByte)))

(* A shift by CL: five conditional shifts by 1, 2, 4, 8 and 16, each chosen  *)
(* by a mask made of one bit of the amount. amount holds CL, the mask and   *)
(* its complement.                                                          *)
MaskOfAmountBit(k) ==
  Mov8(DL, At("amount", 0)) \o emitBinaryByteLookup(Imm(2^k), <<"and8">>)
  \o emitUnaryByteLookupInReg(<<"select_mask">>) \o Mov8(At("amount", 1), DL)
  \o emitBinaryByteLookup(Imm(255), <<"xor8">>) \o Mov8(At("amount", 2), DL)

SelectShifted(i) ==
  Mov8(DL, At("amount", 2)) \o emitBinaryByteLookup(At("srcdst", i), <<"and8">>)
  \o Mov8(At("srcdst", i), DL)
  \o Mov8(DL, At("amount", 1)) \o emitBinaryByteLookup(At("shifted", i), <<"and8">>)
  \o emitOrByteAndStore("srcdst", i)

ShiftStage(in, k) ==
  LET processOneByte(i) == ShiftBy(in, "srcdst", "shifted", 2^k, i)
      downward == IsSHL(in) /\ k < 3
  IN (IF downward THEN Downward(processOneByte) ELSE Upward(processOneByte))
     \o MaskOfAmountBit(k) \o Upward(SelectShifted)

legalizeShift32rCL(in) ==
  Mov8(At("amount", 0), CL)
  \o Between(in.dst,
       CaptureSign(in) \o emitIdxZero \o ShiftStage(in, 0) \o ShiftStage(in, 1)
       \o ShiftStage(in, 2) \o ShiftStage(in, 3) \o ShiftStage(in, 4))

(* Counting bits: the per-byte counts, then their sum in byte 0.            *)
ClearUpper == Mov8(At("srcdst", 1), Imm(0)) \o Mov8(At("srcdst", 2), Imm(0))
              \o Mov8(At("srcdst", 3), Imm(0))
UnaryBetween(in, chain) ==
  SaveRegs \o Mov("srcdst", in.src) \o chain \o ClearUpper \o RestoreRegs
  \o Mov(in.dst, "srcdst")

legalizeCTPOP32r(in) ==
  LET count(i) == Mov8(DL, At("srcdst", i)) \o emitUnaryByteLookupInReg(<<"popcount8">>)
                  \o Mov8(At("srcdst", i), DL)
      sum(i) == Mov8(DL, At("srcdst", 0))
                \o emitBinaryByteLookup(At("srcdst", i), <<"add8_sum">>)
                \o Mov8(At("srcdst", 0), DL)
  IN UnaryBetween(in, Upward(count) \o Bytes(1, 3, sum))

(* rhs holds the alive mask, the running total and a temporary.             *)
ScanByte(in, i) ==
  LET alive == At("rhs", 0)
      running == At("rhs", 1)
      temp == At("rhs", 2)
      tab == IF in.op = "CTTZ32r" THEN <<"ctz_or_8">> ELSE <<"clz_or_8">>
  IN Mov8(DL, At("srcdst", i)) \o emitUnaryByteLookupInReg(tab) \o Mov8(temp, DL)
     \o Mov8(DL, alive) \o emitBinaryByteLookup(temp, <<"and8">>) \o Mov8(temp, DL)
     \o Mov8(DL, running) \o emitBinaryByteLookup(temp, <<"add8_sum">>) \o Mov8(running, DL)
     \o Mov8(DL, At("srcdst", i)) \o emitUnaryByteLookupInReg(<<"zero_mask">>) \o Mov8(temp, DL)
     \o Mov8(DL, alive) \o emitBinaryByteLookup(temp, <<"and8">>) \o Mov8(alive, DL)

legalizeBitScan32r(in) ==
  LET scan(i) == ScanByte(in, i)
  IN UnaryBetween(in, Mov8(At("rhs", 0), Imm(255)) \o Mov8(At("rhs", 1), Imm(0))
                      \o (IF in.op = "CTTZ32r" THEN Upward(scan) ELSE Downward(scan))
                      \o Mov8(DL, At("rhs", 1)) \o Mov8(At("srcdst", 0), DL))

(* Multiplication: every partial product of two bytes is added into srcdst  *)
(* at its position, and the carry runs up to byte 3.                        *)
(* Mutant: the index of the last addition is packed over, not cleared.      *)
CascadeCarryStale(k) ==
  Mov8(At("idx", 2), CL) \o Mov8(DL, At("srcdst", k))
  \o Mov8(At("idx", 1), DL) \o emitTableLookupAndStore(<<"add8_sum">>, k)
  \o CarryOut(<<"add8_carry">>, k)
CascadeCarry(k) ==
  emitIdxZero \o Mov8(At("idx", 2), CL) \o Mov8(DL, At("srcdst", k))
  \o Mov8(At("idx", 1), DL) \o emitTableLookupAndStore(<<"add8_sum">>, k)
  \o CarryOut(<<"add8_carry">>, k)

cascadeAddDLAtPos(p) ==
  emitBinaryByteLookup(At("srcdst", p), <<"add8_sum">>) \o Mov8(At("srcdst", p), DL)
  \o CarryOut(<<"add8_carry">>, p)
  \o Bytes(p + 1, 3, CascadeCarry)

PartialProduct(in, i, j) ==
  LET p == i + j
      b == IF in.op = "MUL32rr" THEN At("mul_rhs2", j) ELSE Imm(ImmByte(in.imm, j))
  IN Mov8(DL, At("rhs", i)) \o emitBinaryByteLookup(b, <<"mul8_lo">>)
     \o (IF p < 3 THEN Lookup(CL, <<"mul8_hi">>) \o Mov8(At("mul_temp", 0), CL) ELSE <<>>)
     \o cascadeAddDLAtPos(p)
     \o (IF p < 3 THEN Mov8(DL, At("mul_temp", 0)) \o cascadeAddDLAtPos(p + 1) ELSE <<>>)

legalizeMUL32(in) ==
  LET row(i) == LET cell(j) == PartialProduct(in, i, j)
                IN Bytes(0, 3 - i, cell)
  IN SaveRegs \o Mov("rhs", in.src)
     \o (IF in.op = "MUL32rr" THEN Mov("mul_rhs2", in.src2) ELSE <<>>)
     \o MovImm("srcdst", 0) \o Upward(row) \o RestoreRegs \o Mov(in.dst, "srcdst")

(* A CMP and the Jcc behind it: a mask from the flags that matter, and the  *)
(* mask picks the address that goes into next_pc.                           *)
CmpRhs(in, i) == IF in.op = "CMP32rr" THEN At("rhs", i) ELSE Imm(ImmByte(in.imm, i))
Invert == emitBinaryByteLookup(Imm(255), <<"xor8">>)

OrReduce ==
  LET or(i) == emitBinaryByteLookup(At("srcdst", i), <<"or8">>)
  IN Mov8(DL, At("srcdst", 0)) \o Bytes(1, 3, or)

EqualMask(in) ==
  LET xor(i) == Mov8(DL, At("srcdst", i)) \o emitBinaryByteLookup(CmpRhs(in, i), <<"xor8">>)
                \o Mov8(At("srcdst", i), DL)
  IN Upward(xor) \o OrReduce \o emitUnaryByteLookupInReg(<<"select_mask">>)
     \o (IF in.cc = "E" THEN Invert ELSE <<>>)

SignsBeforeSub(in) ==
  Mov8(DL, At("srcdst", 3)) \o emitUnaryByteLookupInReg(<<"sar_sign">>)
  \o Mov8(At("cmp_mask", 2), DL)
  \o (IF in.op = "CMP32rr"
        THEN Mov8(DL, At("rhs", 3)) \o emitUnaryByteLookupInReg(<<"sar_sign">>)
             \o emitBinaryByteLookup(At("cmp_mask", 2), <<"xor8">>)
        ELSE emitBinaryByteLookup(Imm(Mask(ImmByte(in.imm, 3) >= 128)), <<"xor8">>))
  \o Mov8(At("cmp_mask", 3), DL)

SubByte(in, i) ==
  emitIdxZero \o CarryInto(i) \o PackA(At("srcdst", i))
  \o Mov8(DL, CmpRhs(in, i)) \o Mov8(At("idx", 0), DL)
  \o emitTableLookupAndStore(<<"sub8_diff">>, i) \o Lookup(CL, <<"sub8_borrow">>)

ZeroFlag ==
  OrReduce \o emitUnaryByteLookupInReg(<<"select_mask">>) \o Invert
  \o Mov8(At("cmp_mask", 1), DL)

SignedMask(in) ==
  Mov8(DL, At("srcdst", 3)) \o emitUnaryByteLookupInReg(<<"sar_sign">>)
  \o Mov8(At("cmp_mask", 0), DL)
  \o emitBinaryByteLookup(At("cmp_mask", 2), <<"xor8">>)
  \o emitBinaryByteLookup(At("cmp_mask", 3), <<"and8">>)
  \o emitBinaryByteLookup(At("cmp_mask", 0), <<"xor8">>)
  \o (IF in.cc \in {"LE", "G"} THEN emitBinaryByteLookup(At("cmp_mask", 1), <<"or8">>)
      ELSE <<>>)
  \o (IF in.cc \in {"GE", "G"} THEN Invert ELSE <<>>)

UnsignedMask(in) ==
  Mov8(DL, At("cmp_mask", 0)) \o emitUnaryByteLookupInReg(<<"select_mask">>)
  \o (IF in.cc \in {"BE", "A"} THEN emitBinaryByteLookup(At("cmp_mask", 1), <<"or8">>)
      ELSE <<>>)
  \o (IF in.cc \in {"AE", "A"} THEN Invert ELSE <<>>)

OrderMask(in) ==
  LET sub(i) == SubByte(in, i)
      signed == in.cc \in {"L", "GE", "LE", "G"}
  IN (IF signed THEN SignsBeforeSub(in) ELSE <<>>)
     \o Upward(sub) \o Mov8(At("cmp_mask", 0), CL) \o ZeroFlag
     \o (IF signed THEN SignedMask(in) ELSE UnsignedMask(in))

SelectTarget(i) ==
  Mov8(DL, At("cmp_mask", 1)) \o emitBinaryByteLookup(At("rhs", i), <<"and8">>)
  \o Mov8(At("next_pc", i), DL)
  \o Mov8(DL, At("cmp_mask", 0)) \o emitBinaryByteLookup(At("srcdst", i), <<"and8">>)
  \o emitOrByteAndStore("next_pc", i)

legalizeCmpJccPairs(in) ==
  SaveRegs \o Mov("srcdst", in.dst)
  \o (IF in.op = "CMP32rr" THEN Mov("rhs", in.src) ELSE <<>>)
  \o (IF in.cc \in {"E", "NE"} THEN EqualMask(in) ELSE OrderMask(in))
  \o Mov8(At("cmp_mask", 0), DL) \o Invert \o Mov8(At("cmp_mask", 1), DL)
  \o MovImm("srcdst", TrueLabel) \o MovImm("rhs", FalseLabel)
  \o Upward(SelectTarget) \o RestoreRegs \o JumpTo("next_pc")

(* Every jump and fall-through within a function goes by way of next_pc and *)
(* the dispatcher.                                                          *)
legalizeCFG == MovImm("next_pc", TrueLabel) \o JumpTo("next_pc")

(* ESP is lowered in global scratch, which EAX points to, where no frame    *)
(* can be relied upon: around a call, and before EBP is this function's.    *)
DecrementESP(k) ==
  LET stage(i) ==
        MovImm("esp_dec_idx", 0)
        \o Mov8(DL, At("esp_dec_srcdst", i)) \o Mov8(At("esp_dec_idx", 1), DL)
        \o (IF ImmByte(k, i) # 0 THEN Mov8(At("esp_dec_idx", 0), Imm(ImmByte(k, i))) ELSE <<>>)
        \o (IF i > 0 THEN Mov8(At("esp_dec_idx", 2), CL) ELSE <<>>)
        \o Mov("ecx", "esp_dec_idx") \o Lookup(DL, <<"sub8_diff">>)
        \o Mov8(At("esp_dec_srcdst", i), DL) \o CarryOut(<<"sub8_borrow">>, i)
  IN MovImm("eax", AddressOf["esp_dec_srcdst"]) \o Mov("esp_dec_srcdst", "esp")
     \o Upward(stage) \o Mov("esp", "esp_dec_srcdst")

legalizePushEbpPrologue == Store("esp", -4, "ebp") \o DecrementESP(4)

(* A call: in.size bytes of arguments are reserved, in.args fills them. The *)
(* reservation is folded into the call's own when all in between stores     *)
(* arguments or could not see ESP, and reads no register that the chain,    *)
(* moved up, has overwritten. The scan takes the nearest subtraction from   *)
(* ESP: for a first call that reserves nothing it is the prologue's, which  *)
(* is not a chain yet, and the call is then one of the size of the frame.   *)
MayTouchEsp(m) == "esp" \in {m.dst} \cup (IF m.op = "mov32" THEN {m.src} ELSE {})
ReadsStale(args, k) ==
  /\ args[k].op # "mov32i" /\ args[k].src \in {"eax", "ecx", "edx"}
  /\ \A j \in 1..(k - 1) : args[j].op = "store" \/ args[j].dst # args[k].src
Folds(in) ==
  /\ in.op = "CALL32d" /\ in.size > 0
  /\ \A k \in DOMAIN in.args :
       /\ IF in.args[k].op = "store" THEN in.args[k].base = "esp" ELSE ~MayTouchEsp(in.args[k])
       /\ ~ReadsStale(in.args, k)
Deeper(args) ==
  [k \in DOMAIN args |->
     IF args[k].op = "store" THEN [args[k] EXCEPT !.disp = @ + 4] ELSE args[k]]

StashCallee(in) ==
  MovImm(IF in.callee = "ecx" THEN "eax" ELSE "ecx", AddressOf["indirect_callee_slot"])
  \o Mov("indirect_callee_slot", in.callee)
FetchCallee ==
  MovImm("eax", AddressOf["indirect_callee_slot"]) \o Mov("eax", "indirect_callee_slot")

legalizeCallSites(in) ==
  LET reserve == legalizeSUB32ri([dst |-> "esp", imm |-> in.size])
      return == StoreImm("esp", 0, ReturnLabel)
  IN IF Folds(in)
       THEN DecrementESP(4 + in.size) \o Deeper(in.args) \o return \o Jump(CalleeLabel)
     ELSE IF in.op = "CALL32d"
       THEN reserve \o in.args \o DecrementESP(4) \o return \o Jump(CalleeLabel)
     ELSE reserve \o in.args \o StashCallee(in) \o DecrementESP(4) \o return
          \o FetchCallee \o JumpTo("eax")

(* `mov esp, ebp; pop ebp; ret`: the return address goes through a global   *)
(* slot, as neither the frame nor a register of its own can keep it. ECX    *)
(* points to that slot until the last jump, across the addition to ESP.     *)
legalizeRetEpilogueTail ==
  LET stage(i) == emitByteStageAdd(i, Imm(ImmByte(8, i)))
  IN Mov("esp", "ebp") \o Mov("save_edx", "edx")
     \o Load("edx", "esp", 4) \o MovImm("ecx", AddressOf["return_addr_slot"])
     \o Mov("return_addr_slot", "edx")
     \o Mov("save_ecx", "ecx") \o Mov("srcdst", "esp") \o Upward(stage)
     \o RestoreRegs \o Mov("esp", "srcdst")
     \o Load("ebp", "esp", -8) \o JumpVia("ecx")

(* The loop over a function's instructions in runOnMachineFunction.         *)
Chain(in) ==
  CASE in.op = "ADD32ri" -> legalizeADD32ri(in)
    [] in.op = "ADD32rr" -> legalizeADD32rr(in)
    [] in.op = "SUB32ri" -> legalizeSUB32ri(in)
    [] in.op = "SUB32rr" -> legalizeSUB32rr(in)
    [] in.op \in BitwiseRI -> BitwiseImm(in)
    [] in.op \in BitwiseRR -> legalizeBitwise32rr(in)
    [] in.op \in ShiftRI -> legalizeShift32ri(in)
    [] in.op \in ShiftCL -> legalizeShift32rCL(in)
    [] in.op = "CTPOP32r" -> legalizeCTPOP32r(in)
    [] in.op \in BitScan -> legalizeBitScan32r(in)
    [] in.op \in Multiply -> legalizeMUL32(in)
    [] in.op = "LEA32r" -> legalizeLEA32rs(in)
    [] in.op \in Compare -> legalizeCmpJccPairs(in)
    [] in.op = "PUSH32r" -> legalizePushEbpPrologue
    [] in.op \in Calls -> legalizeCallSites(in)
    [] in.op = "RET" -> legalizeRetEpilogueTail
    [] in.op = "JMP" -> legalizeCFG
===============================================================================
