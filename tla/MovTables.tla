------------------------------ MODULE MovTables ------------------------------
(***************************************************************************)
(* The lookup tables that MovAsmPrinter puts in .rodata, and their sizes.  *)
(* A table with two operands is indexed by a * 256 + b; the add and sub    *)
(* tables have the carry or borrow above those 16 bits.                    *)
(***************************************************************************)
EXTENDS Integers, FiniteSets

Byte == 0..255
A(i) == (i \div 256) % 256
B(i) == i % 256
CarryIn(i) == i \div 65536

emitAdd8Tables(sym, i) ==
  LET s == A(i) + B(i) + CarryIn(i)
  IN IF sym = "add8_sum" THEN s % 256 ELSE s \div 256

emitSub8Tables(sym, i) ==
  LET d == A(i) - B(i) - CarryIn(i)
  IN IF sym = "sub8_diff" THEN d % 256 ELSE IF d < 0 THEN 1 ELSE 0

(* A byte and the set of its one bits. *)
Ones(a) == {k \in 0..7 : (a \div 2^k) % 2 = 1}
ByteOf(S) ==
  LET bit(k) == IF k \in S THEN 2^k ELSE 0
  IN bit(0) + bit(1) + bit(2) + bit(3) + bit(4) + bit(5) + bit(6) + bit(7)

emitBitwise8Tables(sym, i) ==
  LET a == Ones(A(i))
      b == Ones(B(i))
  IN CASE sym = "and8" -> ByteOf(a \cap b)
       [] sym = "or8" -> ByteOf(a \cup b)
       [] sym = "xor8" -> ByteOf((a \ b) \cup (b \ a))

emitMul8Tables(sym, i) ==
  LET p == A(i) * B(i)
  IN IF sym = "mul8_lo" THEN p % 256 ELSE p \div 256

(* <<"shl_byte", k>> and <<"shr_byte", k>> for k in 1..7. *)
emitShift8Tables(sym, a) ==
  IF sym[1] = "shl_byte" THEN (a * 2^sym[2]) % 256 ELSE a \div 2^sym[2]

Mask(p) == IF p THEN 255 ELSE 0

emitMaskTables(sym, a) ==
  CASE sym = "sar_sign" -> Mask(a >= 128)
    [] sym = "select_mask" -> Mask(a # 0)
    [] sym = "zero_mask" -> Mask(a = 0)

emitPopcount8Table(a) == Cardinality(Ones(a))

emitBitscan8Tables(sym, a) ==
  IF a = 0 THEN 8
  ELSE IF sym = "clz_or_8" THEN CHOOSE k \in 0..7 : a \div 2^(7 - k) = 1
       ELSE CHOOSE k \in 0..7 : a % 2^(k + 1) = 2^k

AddTables == {"add8_sum", "add8_carry"}
SubTables == {"sub8_diff", "sub8_borrow"}
BitwiseTables == {"and8", "or8", "xor8"}
MulTables == {"mul8_lo", "mul8_hi"}
MaskTables == {"sar_sign", "select_mask", "zero_mask"}

(* A table is named by a tuple: its symbol, and a shift count if it has one. *)
TableSize(tab) ==
  CASE tab[1] \in AddTables \cup SubTables -> 2 * 65536
    [] tab[1] \in BitwiseTables \cup MulTables -> 65536
    [] OTHER -> 256

TableByte(tab, i) ==
  CASE tab[1] \in AddTables -> emitAdd8Tables(tab[1], i)
    [] tab[1] \in SubTables -> emitSub8Tables(tab[1], i)
    [] tab[1] \in BitwiseTables -> emitBitwise8Tables(tab[1], i)
    [] tab[1] \in MulTables -> emitMul8Tables(tab[1], i)
    [] tab[1] \in {"shl_byte", "shr_byte"} -> emitShift8Tables(tab, i)
    [] tab[1] \in MaskTables -> emitMaskTables(tab[1], i)
    [] tab[1] = "popcount8" -> emitPopcount8Table(i)
    [] OTHER -> emitBitscan8Tables(tab[1], i)
===============================================================================
