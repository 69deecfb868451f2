---------------------------- MODULE FloatConvert ----------------------------
(***************************************************************************)
(* The conversions llvm-mov-llc generates: integers to floats and back,    *)
(* float to double and back, and floor, ceil, trunc and round.             *)
(*                                                                         *)
(* Selects become bit-blends later on, so both arms of each are computed:  *)
(* the amounts the bodies shift by are named, to be checked on every input *)
(* and not only on those that select their arm.                            *)
(***************************************************************************)
EXTENDS SoftFloat

IntSignAlways(w, signed, v) == LShr(v, w - 1)
IntSign(w, signed, v) == IF signed /\ LShr(v, w - 1) = 1 THEN 1 ELSE 0
IntMag(w, signed, v) == IF IntSign(w, signed, v) = 1 THEN Sub(w, 0, v) ELSE v

(* i32 to f32. The leading 1, at bit hi, is brought to bit m: left without *)
(* loss, or right with rounding. hi is an i32: for zero it is -1, which    *)
(* compares above m.                                                       *)
LeadingBit(mag) == Sub(IntBits, IntBits - 1, Ctlz(IntBits, mag))

Int32ToFloatShifts(signed, v) ==
  LET hi == LeadingBit(IntMag(IntBits, signed, v))
      right == IF hi > F32.m THEN Sub(IntBits, hi, F32.m) ELSE 1
  IN  [left |-> IF hi > F32.m THEN 0 ELSE F32.m - hi, right |-> right]

emitInt32ToFloatBody(signed, v) ==
  LET mag == IntMag(IntBits, signed, v)
      hi == LeadingBit(mag)
      shift == Int32ToFloatShifts(signed, v)
      lost == Low(mag, shift.right)
      halfway == 2^(shift.right - 1)
      trunc == LShr(mag, shift.right)
      r == RoundNearest(F32, trunc, IF lost >= halfway THEN 1 ELSE 0, lost > halfway)
  IN  IF mag = 0 THEN 0
      ELSE IF hi > F32.m
           THEN Pack(F32, IntSign(IntBits, signed, v), hi + Bias(F32) + r.bump, r.man)
           ELSE Pack(F32, IntSign(IntBits, signed, v), hi + Bias(F32),
                     Shl(IntBits, mag, shift.left))

(* i32 to f64, exact: the mantissa is built as two i32. *)
Int32ToDoubleShifts(signed, v) ==
  LET shift == Sub(IntBits, F64.m, LeadingBit(IntMag(IntBits, signed, v)))
      small == shift < IntBits
  IN  [small |-> small, left |-> IF small THEN shift ELSE 0,
       right |-> IF small THEN IntBits - shift ELSE 1,
       big |-> IF small THEN 0 ELSE shift - IntBits]

emitInt32ToDoubleBody(signed, v) ==
  LET mag == IntMag(IntBits, signed, v)
      hi == LeadingBit(mag)
      shift == Int32ToDoubleShifts(signed, v)
      top == F64.m - IntBits
      manHi == IF shift.small THEN LShr(mag, shift.right) ELSE Shl(IntBits, mag, shift.big)
      manLo == IF shift.small THEN Shl(IntBits, mag, shift.left) ELSE 0
      packHi == Shl(IntBits, IntSign(IntBits, signed, v), IntBits - 1)
                + Low(hi + Bias(F64), F64.e) * 2^top + Low(manHi, top)
  IN  IF mag = 0 THEN 0 ELSE Pair(packHi, manLo)

(* i64 to either format f: the same by i64 shifts, which clamp. Zero comes *)
(* out as a zero with the sign of the input, which is then 0.              *)
FromInt64(f, signed, v) ==
  LET w == 2 * IntBits
      mag == IntMag(w, signed, v)
      sign == IntSign(w, signed, v)
      hi == w - 1 - CtlzPair(mag)
      right == hi - f.m
      trunc == LshrPair(mag, right)
      lost == mag - ShlPair(trunc, right)
      guard == Bit(LshrPair(mag, right - 1), 0)
      sticky == ~IsZeroPair(lost - ShlPair(guard, right - 1))
      r == RoundNearest(f, trunc, guard, sticky)
  IN  IF IsZeroPair(mag) THEN Zero(f, sign)
      ELSE IF hi > f.m THEN Pack(f, sign, hi + Bias(f) + r.bump, r.man)
      ELSE Pack(f, sign, hi + Bias(f), ShlPair(mag, f.m - hi))

emitInt64ToDoubleBody(signed, v) == FromInt64(F64, signed, v)
emitInt64ToFloatBody(signed, v) == FromInt64(F32, signed, v)

-----------------------------------------------------------------------------
(* Float to integer of w bits truncates; mag is the shifted mantissa. What *)
(* does not fit saturates, an unsigned result of a negative number is 0,   *)
(* and so is the result of a NaN.                                          *)
LimitUnsigned(f, w, signed) == Bias(f) + w
Limit(f, w, signed) == Bias(f) + w - (IF signed THEN 1 ELSE 0)

Saturated(f, w, signed, x, mag) ==
  LET neg == Sign(f, x) = 1
      limit == Limit(f, w, signed)
  IN  IF IsNaN(f, x) \/ ExpOf(f, x) < Bias(f) THEN 0
      ELSE IF signed
           THEN IF ExpOf(f, x) >= limit THEN (IF neg THEN 2^(w - 1) ELSE 2^(w - 1) - 1)
                ELSE IF neg THEN Sub(w, 0, mag) ELSE mag
           ELSE IF neg THEN 0 ELSE IF ExpOf(f, x) >= limit THEN 2^w - 1 ELSE mag

(* f32 to i32: both amounts are capped at 31. *)
FloatToInt32ShiftsUncapped(x) ==
  LET unit == Bias(F32) + F32.m
  IN  [left |-> IF ExpOf(F32, x) > unit THEN ExpOf(F32, x) - unit ELSE 0,
       right |-> Sub(IntBits, unit, ExpOf(F32, x))]

FloatToInt32Shifts(x) ==
  LET unit == Bias(F32) + F32.m
      e == ExpOf(F32, x)
  IN  [left |-> Least({IF e > unit THEN e - unit ELSE 0, IntBits - 1}),
       right |-> Least({Sub(IntBits, unit, e), IntBits - 1})]

emitFloatToInt32Body(signed, x) ==
  LET unit == Bias(F32) + F32.m
      e == ExpOf(F32, x)
      shift == FloatToInt32Shifts(x)
      mag == IF e < unit THEN LShr(Hidden(F32, x), shift.right)
             ELSE IF e > unit THEN Shl(IntBits, Hidden(F32, x), shift.left)
             ELSE Hidden(F32, x)
  IN  Saturated(F32, IntBits, signed, x, mag)

(* f64 to i32: the integer is cut out of the two halves of the mantissa,   *)
(* always by a right shift.                                                *)
DoubleToInt32Shifts(x) ==
  LET r == Sub(IntBits, Bias(F64) + F64.m, ExpOf(F64, x))
      ge32 == r >= IntBits
  IN  [ge32 |-> ge32,
       big |-> Clamp31(IF ge32 THEN r - IntBits ELSE 0),
       right |-> Clamp31(IF ge32 THEN 1 ELSE r),
       left |-> Clamp31(IF ge32 THEN 0 ELSE IntBits - r)]

emitDoubleToInt32Body(signed, x) ==
  LET shift == DoubleToInt32Shifts(x)
      manHi == HiHalf(Hidden(F64, x))
      manLo == LoHalf(Hidden(F64, x))
      mag == IF shift.ge32 THEN LShr(manHi, shift.big)
             ELSE (LShr(manLo, shift.right) + Shl(IntBits, manHi, shift.left)) % 2^IntBits
  IN  Saturated(F64, IntBits, signed, x, mag)

(* Either format to i64, by i64 shifts. *)
ToInt64(f, signed, x) ==
  LET unit == Bias(f) + f.m
      e == ExpOf(f, x)
      mag == IF e >= unit THEN ShlPair(Hidden(f, x), e - unit)
             ELSE LshrPair(Hidden(f, x), unit - e)
  IN  Saturated(f, 2 * IntBits, signed, x, mag)

emitDoubleToInt64Body(signed, x) == ToInt64(F64, signed, x)
emitFloatToInt64Body(signed, x) == ToInt64(F32, signed, x)

-----------------------------------------------------------------------------
(* float to double is exact, except that a subnormal becomes a zero. *)
ExtendNoSpecial(x) ==
  IF ExpOf(F32, x) = 0 THEN Zero(F64, Sign(F32, x))
  ELSE Pack(F64, Sign(F32, x), ExpOf(F32, x) + Bias(F64) - Bias(F32),
            Shl(2 * IntBits, ManOf(F32, x), F64.m - F32.m))

ExtendSfDf2(x) ==
  LET rebias == Bias(F64) - Bias(F32)
      e == ExpOf(F32, x)
  IN  IF e = 0 THEN Zero(F64, Sign(F32, x))
      ELSE Pack(F64, Sign(F32, x), IF e = MaxExp(F32) THEN MaxExp(F64) ELSE e + rebias,
                Shl(2 * IntBits, ManOf(F32, x), F64.m - F32.m))

(* double to float cuts the mantissa out of the two halves and rounds. *)
TruncDfSf2(x) ==
  LET cut == F64.m - F32.m
      s == Sign(F64, x)
      kept == LShr(Hidden(F64, x), cut)
      r == RoundNearest(F32, kept, Bit(LoHalf(x), cut - 1), Low(LoHalf(x), cut - 1) # 0)
      e == ExpOf(F64, x) - (Bias(F64) - Bias(F32)) + r.bump
  IN  IF IsZero(F64, x) THEN Zero(F32, s)
      ELSE IF IsNaN(F64, x) THEN QNaN(F32)
      ELSE IF IsInf(F64, x) THEN Inf(F32, s)
      ELSE IF e =< 0 THEN Zero(F32, s)
      ELSE IF e >= MaxExp(F32) THEN Inf(F32, s)
      ELSE Pack(F32, s, e, r.man)

-----------------------------------------------------------------------------
(* floor, ceil, trunc and round clear the bits below the point and may add *)
(* one unit of the integer part, letting it carry into the exponent.       *)
Kinds == {"floor", "ceil", "trunc", "round"}

BelowOneNoHalf(f, kind, x) ==
  LET up == \/ kind = "floor" /\ Sign(f, x) = 1 /\ Magnitude(f, x) # 0
            \/ kind = "ceil" /\ Sign(f, x) = 0 /\ Magnitude(f, x) # 0
  IN  IF up THEN Pack(f, Sign(f, x), Bias(f), 0) ELSE Zero(f, Sign(f, x))

BelowOne(f, kind, x) ==
  LET neg == Sign(f, x) = 1
      one == Pack(f, Sign(f, x), Bias(f), 0)
      nonZero == Magnitude(f, x) # 0
      up == \/ kind = "floor" /\ neg /\ nonZero
            \/ kind = "ceil" /\ ~neg /\ nonZero
            \/ kind = "round" /\ ExpOf(f, x) >= Bias(f) - 1
  IN  IF up THEN one ELSE Zero(f, Sign(f, x))

(* oneShl is 1 << frac, frac the number of bits below the point; guard is  *)
(* the highest of them.                                                    *)
FRound(f, kind, x, oneShl, guard) ==
  LET frac == x % oneShl
      neg == Sign(f, x) = 1
      bump == \/ kind = "floor" /\ frac # 0 /\ neg
              \/ kind = "ceil" /\ frac # 0 /\ ~neg
              \/ kind = "round" /\ guard = 1
  IN  IF ExpOf(f, x) >= Bias(f) + f.m THEN x
      ELSE IF ExpOf(f, x) < Bias(f) THEN BelowOne(f, kind, x)
      ELSE IF bump THEN (x - frac) + oneShl ELSE x - frac

(* The f32 body masks its shift amounts (& 31), the f64 body shifts i64. *)
FRoundShifts(x) ==
  LET frac == Sub(IntBits, Bias(F32) + F32.m, ExpOf(F32, x))
  IN  [frac |-> frac % IntBits, guard |-> Sub(IntBits, frac, 1) % IntBits]

emitFRoundF32Body(kind, x) ==
  FRound(F32, kind, x, Shl(IntBits, 1, FRoundShifts(x).frac),
         Bit(x, FRoundShifts(x).guard))

emitFRoundF64Body(kind, x) ==
  LET frac == Sub(IntBits, Bias(F64) + F64.m, ExpOf(F64, x))
  IN  FRound(F64, kind, x, ShlPair(1, frac), Bit(LshrPair(x, Sub(IntBits, frac, 1)), 0))
=============================================================================
