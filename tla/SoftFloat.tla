----------------------------- MODULE SoftFloat -----------------------------
(***************************************************************************)
(* The floating-point library that llvm-mov-llc links into every program:  *)
(* the bodies it generates for __addsf3, __adddf3, __mulsf3, __muldf3,     *)
(* __divsf3, __divdf3 and the comparisons, working on bit patterns.        *)
(*                                                                         *)
(* The algorithms are those of the code at any width: i32 has IntBits bits *)
(* and i64 twice as many; a format splits its word into a sign, an         *)
(* exponent of f.e bits and a mantissa of f.m bits (8 and 23, 11 and 52 in *)
(* the code). The f64 bodies never compare, shift or multiply an i64 as a  *)
(* whole but by its two i32 halves, and so do the definitions here.        *)
(***************************************************************************)
EXTENDS MachineWord

CONSTANTS
  IntBits,   \* width of i32, 32 in the code
  Exp32,     \* exponent bits of float, 8 in the code
  Exp64      \* exponent bits of double, 11 in the code

F32 == [w |-> IntBits, e |-> Exp32, m |-> IntBits - 1 - Exp32]
F64 == [w |-> 2 * IntBits, e |-> Exp64, m |-> 2 * IntBits - 1 - Exp64]

(* What the bodies rely on: a guarded mantissa and its carry fit the word, *)
(* a product does not fit one word, float is the narrower format, and no   *)
(* integer is too large for it.                                            *)
ASSUME FormatsFit ==
  /\ IntBits \in Nat /\ Exp32 \in Nat \ {0, 1} /\ Exp64 \in Nat \ {0, 1}
  /\ IntBits % 2 = 0
  /\ \A f \in {F32, F64} : f.m + 5 =< f.w /\ f.w < 2 * (f.m + 1)
  /\ Exp32 < Exp64 /\ F32.m + 2 < F64.m /\ F64.m > IntBits
  /\ 2 * IntBits =< 2^(Exp32 - 1) - 1
ASSUME LongPowers == PowersDouble(2 * IntBits + 2)

MaxExp(f) == 2^f.e - 1
Bias(f) == 2^(f.e - 1) - 1
Sign(f, x) == LShr(x, f.w - 1)
ExpOf(f, x) == Low(LShr(x, f.m), f.e)
ManOf(f, x) == Low(x, f.m)
Magnitude(f, x) == Low(x, f.w - 1)
Hidden(f, x) == 2^f.m + ManOf(f, x)

Pack(f, s, e, m) == Shl(f.w, s, f.w - 1) + Low(e, f.e) * 2^f.m + Low(m, f.m)
Zero(f, s) == Pack(f, s, 0, 0)
Inf(f, s) == Pack(f, s, MaxExp(f), 0)
QNaN(f) == Pack(f, 0, MaxExp(f), 2^(f.m - 1))

(* A subnormal counts as zero: only the exponent is looked at. *)
IsZero(f, x) == ExpOf(f, x) = 0
IsNaN(f, x) == ExpOf(f, x) = MaxExp(f) /\ ManOf(f, x) # 0
IsInf(f, x) == ExpOf(f, x) = MaxExp(f) /\ ManOf(f, x) = 0
SignXor(f, a, b) == IF Sign(f, a) = Sign(f, b) THEN 0 ELSE 1
Negated(f, x) == IF Sign(f, x) = 0 THEN x + 2^(f.w - 1) ELSE x - 2^(f.w - 1)

-----------------------------------------------------------------------------
(* An i64 as two i32: how the f64 bodies compare, shift and count zeros.   *)

HiHalf(x) == LShr(x, IntBits)
LoHalf(x) == Low(x, IntBits)
Pair(hi, lo) == hi * 2^IntBits + lo
Clamp31(k) == IF k > IntBits - 1 THEN IntBits - 1 ELSE k

IsZeroPair(x) == HiHalf(x) = 0 /\ LoHalf(x) = 0
UltPair(x, y) ==
  HiHalf(x) < HiHalf(y) \/ (HiHalf(x) = HiHalf(y) /\ LoHalf(x) < LoHalf(y))
UgePair(x, y) ==
  HiHalf(x) > HiHalf(y) \/ (HiHalf(x) = HiHalf(y) /\ LoHalf(x) >= LoHalf(y))

(* emitLshrI64ByI32: both arms are computed with their counts clamped into *)
(* the range of an i32 shift, and one is selected.                         *)
LshrPair(x, amt) ==
  LET hi == HiHalf(x)
      lo == LoHalf(x)
      big == amt >= IntBits
      cross == IF amt = 0 THEN 0
               ELSE Shl(IntBits, hi, Clamp31(IF big THEN 0 ELSE IntBits - amt))
      right == Clamp31(IF big THEN 1 ELSE amt)
      rest == Clamp31(IF big THEN amt - IntBits ELSE 0)
  IN  IF big THEN Pair(0, LShr(hi, rest))
      ELSE Pair(LShr(hi, right), LShr(lo, right) + cross)

ShlPair(x, amt) ==
  LET hi == HiHalf(x)
      lo == LoHalf(x)
      big == amt >= IntBits
      cross == IF amt = 0 THEN 0
               ELSE LShr(lo, Clamp31(IF big THEN 0 ELSE IntBits - amt))
      left == Clamp31(IF big THEN 1 ELSE amt)
      rest == Clamp31(IF big THEN amt - IntBits ELSE 0)
  IN  IF big THEN Pair(Shl(IntBits, lo, rest), 0)
      ELSE Pair(Shl(IntBits, hi, left) + cross, Shl(IntBits, lo, left))

CtlzPair(x) ==
  IF HiHalf(x) # 0 THEN Ctlz(IntBits, HiHalf(x)) ELSE IntBits + Ctlz(IntBits, LoHalf(x))

(* emitMulU32U32ToI64: four products of half words, with both carries. *)
MulPair(x, y) ==
  LET h == IntBits \div 2
      ll == Low(x, h) * Low(y, h)
      lh == Low(x, h) * LShr(y, h)
      hl == LShr(x, h) * Low(y, h)
      hh == LShr(x, h) * LShr(y, h)
      mid == Add(IntBits, lh, hl)
      midCarry == IF mid < lh THEN 2^h ELSE 0
      low == Add(IntBits, ll, Shl(IntBits, Low(mid, h), h))
      carry == IF low < ll THEN 1 ELSE 0
  IN  Pair(Add(IntBits, hh, LShr(mid, h) + midCarry + carry), low)

-----------------------------------------------------------------------------
(* The word operations the bodies of a format are made of: the machine's   *)
(* on i32, the ones of a pair on i64.                                      *)
LsrF(f, x, k) == IF f = F64 THEN LshrPair(x, k) ELSE LShr(x, k)
LslF(f, x, k) == IF f = F64 THEN ShlPair(x, k) ELSE Shl(IntBits, x, k)
CtlzF(f, x) == IF f = F64 THEN CtlzPair(x) ELSE Ctlz(IntBits, x)
UgeF(f, x, y) == IF f = F64 THEN UgePair(x, y) ELSE x >= y

-----------------------------------------------------------------------------
(* Rounding shared by every body: to nearest, ties to even, on a guard bit *)
(* and a sticky bit; a mantissa that reaches 2^(m+1) is halved and the     *)
(* exponent bumped.                                                        *)
RoundHalfUp(f, man, guard, sticky) ==
  LET n == IF guard = 1 THEN man + 1 ELSE man
  IN  IF n = 2^(f.m + 1) THEN [man |-> LShr(n, 1), bump |-> 1]
      ELSE [man |-> n, bump |-> 0]

RoundNearest(f, man, guard, sticky) ==
  LET n == IF guard = 1 /\ (sticky \/ man % 2 = 1) THEN man + 1 ELSE man
  IN  IF n = 2^(f.m + 1) THEN [man |-> LShr(n, 1), bump |-> 1]
      ELSE [man |-> n, bump |-> 0]

(* __addsf3. The operands are ordered by magnitude, the smaller mantissa   *)
(* is shifted down by the difference of the exponents (capped at w - 1)    *)
(* and whatever is shifted out is kept as a sticky bit.                    *)
Greater(f, a, b) == IF Magnitude(f, a) >= Magnitude(f, b) THEN a ELSE b
Lesser(f, a, b) == IF Magnitude(f, a) >= Magnitude(f, b) THEN b ELSE a
SumGap(f, a, b) == ExpOf(f, Greater(f, a, b)) - ExpOf(f, Lesser(f, a, b))
AlignShift(f, a, b) == IF SumGap(f, a, b) > f.w - 1 THEN f.w - 1 ELSE SumGap(f, a, b)

Aligned(f, a, b) ==
  LET large == Greater(f, a, b)
      mLarge == Hidden(f, large) * 8
      mSmall == Hidden(f, Lesser(f, a, b)) * 8
      ed == AlignShift(f, a, b)
      right == LsrF(f, mSmall, ed)
      shifted == OrBit(right, mSmall # LslF(f, right, ed) \/ SumGap(f, a, b) > f.w - 1)
      same == Sign(f, a) = Sign(f, b)
  IN  [re |-> ExpOf(f, large), sign |-> Sign(f, large), same |-> same,
       sum |-> IF same THEN Add(f.w, mLarge, shifted) ELSE Sub(f.w, mLarge, shifted)]

(* The sum's top bit is brought to bit m + 3: one place down after a carry,*)
(* or up by as much as the cancellation took, but never to an exponent     *)
(* below 1.                                                                *)
NormaliseShift(f, re, sum) ==
  LET normal == f.w - f.m - 4
      lz == CtlzF(f, sum)
  IN  Least({IF lz > normal THEN lz - normal ELSE 0, Sub(IntBits, re, 1), f.m + 3})

Normalised(f, re, sum) ==
  LET normal == f.w - f.m - 4
      lz == CtlzF(f, sum)
      shift == NormaliseShift(f, re, sum)
  IN  CASE lz = normal - 1 -> [re |-> re + 1, man |-> OrBit(LShr(sum, 1), sum % 2 = 1)]
        [] lz > normal     -> [re |-> re - shift, man |-> LslF(f, sum, shift)]
        [] OTHER           -> [re |-> re, man |-> sum]

AddFinite(f, a, b) ==
  LET s == Aligned(f, a, b)
      n == Normalised(f, s.re, s.sum)
      r == RoundNearest(f, LShr(n.man, 3), Bit(n.man, 2), Low(n.man, 2) # 0)
      re == n.re + r.bump
  IN  IF ~s.same /\ s.sum = 0 THEN 0
      ELSE IF IsZero(f, b) THEN a
      ELSE IF IsZero(f, a) THEN b
      ELSE IF re >= MaxExp(f) THEN Inf(f, s.sign)
      ELSE Pack(f, s.sign, re, r.man)

(* Infinities and NaNs override whatever the arithmetic produced. *)
AddSpecial(f, a, b, finite) ==
  IF \/ IsNaN(f, a) \/ IsNaN(f, b)
     \/ IsInf(f, a) /\ IsInf(f, b) /\ Sign(f, a) # Sign(f, b) THEN QNaN(f)
  ELSE IF IsInf(f, a) THEN a
  ELSE IF IsInf(f, b) THEN b
  ELSE finite

AddSf3(a, b) == AddSpecial(F32, a, b, AddFinite(F32, a, b))
SubSf3(a, b) == AddSf3(a, Negated(F32, b))

AddFiniteDf3(a, b) == AddFinite(F64, a, b)
AddDf3(a, b) == AddSpecial(F64, a, b, AddFiniteDf3(a, b))
SubDf3(a, b) == AddDf3(a, Negated(F64, b))

-----------------------------------------------------------------------------
(* The exact product of two mantissas in two words, from four partial      *)
(* products of half words in __mulsf3 and of i32 halves in __muldf3.       *)
ProductSf3(x, y) ==
  LET h == IntBits \div 2
      ll == Low(x, h) * Low(y, h)
      mid == Low(x, h) * LShr(y, h) + LShr(x, h) * Low(y, h)
      low == Add(IntBits, ll, Shl(IntBits, Low(mid, h), h))
      carry == IF low < ll THEN 1 ELSE 0
  IN  [high |-> LShr(x, h) * LShr(y, h) + LShr(mid, h) + carry, low |-> low]

ProductDf3NoCarry(x, y) ==
  LET w == 2 * IntBits
      ll == MulPair(LoHalf(x), LoHalf(y))
      mid == Add(w, MulPair(LoHalf(x), HiHalf(y)), MulPair(HiHalf(x), LoHalf(y)))
      low == Add(w, ll, Shl(w, LoHalf(mid), IntBits))
  IN  [high |-> MulPair(HiHalf(x), HiHalf(y)) + HiHalf(mid), low |-> low]

ProductDf3(x, y) ==
  LET w == 2 * IntBits
      ll == MulPair(LoHalf(x), LoHalf(y))
      lh == MulPair(LoHalf(x), HiHalf(y))
      hl == MulPair(HiHalf(x), LoHalf(y))
      hh == MulPair(HiHalf(x), HiHalf(y))
      mid == Add(w, lh, hl)
      midCarry == IF UltPair(mid, lh) THEN 2^IntBits ELSE 0
      low == Add(w, ll, Shl(w, LoHalf(mid), IntBits))
      carry == IF UltPair(low, ll) THEN 1 ELSE 0
  IN  [high |-> hh + HiHalf(mid) + midCarry + carry, low |-> low]

(* The product p has its top bit at 2m + 1 (case A) or at 2m (case B); the *)
(* m + 1 bits below it are kept, the next one is the guard, the rest the   *)
(* sticky bit. The exponent is gated as a signed number.                   *)
MulFinite(f, p, a, b) ==
  LET caseA == Bit(p.high, 2 * f.m + 1 - f.w) = 1
      cut == IF caseA THEN f.m + 1 ELSE f.m
      kept == Shl(f.w, p.high, f.w - cut) + LShr(p.low, cut)
      r == RoundNearest(f, kept, Bit(p.low, cut - 1), Low(p.low, cut - 1) # 0)
      er == ExpOf(f, a) + ExpOf(f, b) - Bias(f) + (IF caseA THEN 1 ELSE 0) + r.bump
      sr == SignXor(f, a, b)
  IN  IF IsZero(f, a) \/ IsZero(f, b) \/ er =< 0 THEN Zero(f, sr)
      ELSE IF er >= MaxExp(f) THEN Inf(f, sr)
      ELSE Pack(f, sr, er, r.man)

MulSpecial(f, a, b, finite) ==
  IF \/ IsNaN(f, a) \/ IsNaN(f, b)
     \/ IsZero(f, a) /\ IsInf(f, b)
     \/ IsZero(f, b) /\ IsInf(f, a) THEN QNaN(f)
  ELSE IF IsInf(f, a) \/ IsInf(f, b) THEN Inf(f, SignXor(f, a, b))
  ELSE finite

MulSf3(a, b) ==
  MulSpecial(F32, a, b, MulFinite(F32, ProductSf3(Hidden(F32, a), Hidden(F32, b)), a, b))
MulFiniteDf3(a, b) == MulFinite(F64, ProductDf3(Hidden(F64, a), Hidden(F64, b)), a, b)
MulDf3(a, b) == MulSpecial(F64, a, b, MulFiniteDf3(a, b))

-----------------------------------------------------------------------------
(* __divsf3 and __divdf3: the dividend's mantissa is brought into          *)
(* [mb, 2mb), so the quotient's top bit is 1 before the loop, and each of  *)
(* the m passes of the loop yields one more bit.                           *)
DivStep(f, mb, s) ==
  LET r == Shl(f.w, s.r, 1)
  IN  IF UgeF(f, r, mb) THEN [r |-> Sub(f.w, r, mb), q |-> 2 * s.q + 1]
      ELSE [r |-> r, q |-> 2 * s.q]

DivLoop(f, mb, r0) ==
  LET pass[i \in 0..f.m] ==
        IF i = 0 THEN [r |-> r0, q |-> 1] ELSE DivStep(f, mb, pass[i - 1])
  IN  pass[f.m]

(* One more step gives the guard bit; what is left of the residue is the   *)
(* sticky bit.                                                             *)
DivFinite(f, a, b) ==
  LET ma == Hidden(f, a)
      mb == Hidden(f, b)
      renorm == ~UgeF(f, ma, mb)
      loop == DivLoop(f, mb, (IF renorm THEN 2 * ma ELSE ma) - mb)
      last == DivStep(f, mb, loop)
      r == RoundNearest(f, loop.q, Bit(last.q, 0), last.r # 0)
      er == ExpOf(f, a) - ExpOf(f, b) + Bias(f) - (IF renorm THEN 1 ELSE 0) + r.bump
      sr == SignXor(f, a, b)
  IN  IF IsZero(f, b) THEN Inf(f, sr)
      ELSE IF IsZero(f, a) \/ er =< 0 THEN Zero(f, sr)
      ELSE IF er >= MaxExp(f) THEN Inf(f, sr)
      ELSE Pack(f, sr, er, r.man)

DivSpecialNoNaN(f, a, b, finite) ==
  CASE IsNaN(f, a) \/ IsNaN(f, b) -> QNaN(f)
    [] IsInf(f, a) /\ ~IsInf(f, b) /\ ~IsNaN(f, b) -> Inf(f, SignXor(f, a, b))
    [] IsInf(f, b) /\ ~IsInf(f, a) /\ ~IsNaN(f, a) -> Zero(f, SignXor(f, a, b))
    [] OTHER -> finite

DivSpecial(f, a, b, finite) ==
  CASE \/ IsNaN(f, a) \/ IsNaN(f, b)
       \/ IsInf(f, a) /\ IsInf(f, b)
       \/ IsZero(f, a) /\ IsZero(f, b) -> QNaN(f)
    [] IsInf(f, a) /\ ~IsInf(f, b) /\ ~IsNaN(f, b) -> Inf(f, SignXor(f, a, b))
    [] IsInf(f, b) /\ ~IsInf(f, a) /\ ~IsNaN(f, a) -> Zero(f, SignXor(f, a, b))
    [] OTHER -> finite

DivSf3(a, b) == DivSpecial(F32, a, b, DivFinite(F32, a, b))
DivFiniteDf3(a, b) == DivFinite(F64, a, b)
DivDf3(a, b) == DivSpecial(F64, a, b, DivFiniteDf3(a, b))

-----------------------------------------------------------------------------
(* Comparisons. A negative number's bits below the sign are flipped, so    *)
(* that the keys compare as signed integers the way the floats do; -0 and  *)
(* +0 are equal; a NaN gives the value the helper was built with.          *)
FlipNever(w, x) == x

FlipIfNegative(w, x) == IF LShr(x, w - 1) = 1 THEN 2^(w - 1) + Low(Not(w, x), w - 1) ELSE x

ThreeWay(lt, gt) == IF lt THEN -1 ELSE IF gt THEN 1 ELSE 0

emitFloatCompareBody(unordReturn, a, b) ==
  LET aKey == Signed(IntBits, FlipIfNegative(IntBits, a))
      bKey == Signed(IntBits, FlipIfNegative(IntBits, b))
  IN  IF IsNaN(F32, a) \/ IsNaN(F32, b) THEN unordReturn
      ELSE IF Magnitude(F32, a) = 0 /\ Magnitude(F32, b) = 0 THEN 0
      ELSE ThreeWay(aKey < bKey, aKey > bKey)

(* The key of a double is a signed high half and an unsigned low half. *)
DoubleKey(x) ==
  [hi |-> Signed(IntBits, FlipIfNegative(IntBits, HiHalf(x))),
   lo |-> IF Sign(F64, x) = 1 THEN Not(IntBits, LoHalf(x)) ELSE LoHalf(x)]

emitDoubleCompareBody(unordReturn, a, b) ==
  LET x == DoubleKey(a)
      y == DoubleKey(b)
  IN  IF IsNaN(F64, a) \/ IsNaN(F64, b) THEN unordReturn
      ELSE IF Magnitude(F64, a) = 0 /\ Magnitude(F64, b) = 0 THEN 0
      ELSE ThreeWay(x.hi < y.hi \/ (x.hi = y.hi /\ x.lo < y.lo),
                    x.hi > y.hi \/ (x.hi = y.hi /\ x.lo > y.lo))

(* Eq, ne, lt and le answer +1 for a NaN, gt and ge answer -1. *)
UnordReturn(pred) == IF pred \in {"gt", "ge"} THEN -1 ELSE 1
FloatCompare(pred, a, b) == emitFloatCompareBody(UnordReturn(pred), a, b)
DoubleCompare(pred, a, b) == emitDoubleCompareBody(UnordReturn(pred), a, b)
UnordSf2(a, b) == IF IsNaN(F32, a) \/ IsNaN(F32, b) THEN 1 ELSE 0
UnordDf2(a, b) == IF IsNaN(F64, a) \/ IsNaN(F64, b) THEN 1 ELSE 0
=============================================================================
