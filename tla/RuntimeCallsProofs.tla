------------------------- MODULE RuntimeCallsProofs -------------------------
(***************************************************************************)
(* What a compiled program calls and what is expanded in it, for words and *)
(* formats of every width: TLC's run takes small ones, these theorems the  *)
(* 32-bit words, the floats and the doubles of the code too.               *)
(***************************************************************************)
EXTENDS RuntimeCalls, SoftFloatProofs, NarrowMemoryProofs

(* The answer of a comparison that means what is tested of it.              *)
LEMMA ThreeWayHolds ==
  ASSUME NEW a \in Int, NEW b \in Int, NEW pred \in Preds
  PROVE  Holds(pred, ThreeWay(a < b, a > b)) =
           CASE pred = "eq" -> a = b
             [] pred = "ne" -> a # b
             [] pred = "lt" -> a < b
             [] pred = "le" -> a =< b
             [] pred = "gt" -> a > b
             [] pred = "ge" -> a >= b
<1>1. CASE a < b
  <2>1. ThreeWay(a < b, a > b) = -1
    BY <1>1 DEF ThreeWay
  <2> QED BY <1>1, <2>1 DEF Holds, Preds
<1>2. CASE a > b
  <2>1. ThreeWay(a < b, a > b) = 1
    BY <1>2 DEF ThreeWay
  <2> QED BY <1>2, <2>1 DEF Holds, Preds
<1>3. CASE a = b
  <2>1. ThreeWay(a < b, a > b) = 0
    BY <1>3 DEF ThreeWay
  <2> QED BY <1>3, <2>1 DEF Holds, Preds
<1>4. a < b \/ a > b \/ a = b
  OBVIOUS
<1> QED BY <1>1, <1>2, <1>3, <1>4

(* What a helper answers for a NaN holds of no relation but "ne".           *)
LEMMA UnorderedHolds == ASSUME NEW pred \in Preds PROVE Holds(pred, UnordReturn(pred)) = (pred = "ne")
BY DEF Holds, UnordReturn, Preds

(* A comparison helper answers what its predicate asks.                     *)
LEMMA FloatCompareHolds ==
  ASSUME NEW a \in Words(IntBits), NEW b \in Words(IntBits), NEW pred \in Preds
  PROVE  Holds(pred, FloatCompare(pred, a, b)) = RefHolds(F32, pred, a, b)
<1>1. CASE IsNaN(F32, a) \/ IsNaN(F32, b)
  <2>1. FloatCompare(pred, a, b) = UnordReturn(pred)
    BY <1>1 DEF FloatCompare, emitFloatCompareBody
  <2>2. RefHolds(F32, pred, a, b) = (pred = "ne")
    BY <1>1 DEF RefHolds
  <2> QED BY UnorderedHolds, <2>1, <2>2
<1>2. CASE ~IsNaN(F32, a) /\ ~IsNaN(F32, b)
  <2>1. /\ Order(F32, a) \in Int /\ Order(F32, b) \in Int
        /\ FloatCompare(pred, a, b) =
             ThreeWay(Order(F32, a) < Order(F32, b), Order(F32, a) > Order(F32, b))
    BY <1>2, FloatsCompare DEF FloatCompare
  <2> DEFINE k == Order(F32, a)
             l == Order(F32, b)
  <2>2. k \in Int /\ l \in Int
    BY <2>1
  <2> HIDE DEF k, l
  <2>3. Holds(pred, ThreeWay(k < l, k > l)) =
          CASE pred = "eq" -> k = l
            [] pred = "ne" -> k # l
            [] pred = "lt" -> k < l
            [] pred = "le" -> k =< l
            [] pred = "gt" -> k > l
            [] pred = "ge" -> k >= l
    BY <2>2, ThreeWayHolds
  <2> QED BY <1>2, <2>1, <2>3 DEF RefHolds, k, l
<1> QED BY <1>1, <1>2

(* A comparison of doubles returns a number that its predicate holds of.    *)
LEMMA DoubleCompareHolds ==
  ASSUME NEW s \in Words(2 * IntBits), NEW t \in Words(2 * IntBits), NEW pred \in Preds
  PROVE  Holds(pred, DoubleCompare(pred, s, t)) = RefHolds(F64, pred, s, t)
<1>1. CASE IsNaN(F64, s) \/ IsNaN(F64, t)
  <2>1. DoubleCompare(pred, s, t) = UnordReturn(pred)
    BY <1>1 DEF DoubleCompare, emitDoubleCompareBody
  <2>2. RefHolds(F64, pred, s, t) = (pred = "ne")
    BY <1>1 DEF RefHolds
  <2> QED BY UnorderedHolds, <2>1, <2>2
<1>2. CASE ~IsNaN(F64, s) /\ ~IsNaN(F64, t)
  <2>1. /\ Order(F64, s) \in Int /\ Order(F64, t) \in Int
        /\ DoubleCompare(pred, s, t) =
             ThreeWay(Order(F64, s) < Order(F64, t), Order(F64, s) > Order(F64, t))
    BY <1>2, DoublesCompare DEF DoubleCompare
  <2> DEFINE k == Order(F64, s)
             l == Order(F64, t)
  <2>2. k \in Int /\ l \in Int
    BY <2>1
  <2> HIDE DEF k, l
  <2>3. Holds(pred, ThreeWay(k < l, k > l)) =
          CASE pred = "eq" -> k = l
            [] pred = "ne" -> k # l
            [] pred = "lt" -> k < l
            [] pred = "le" -> k =< l
            [] pred = "gt" -> k > l
            [] pred = "ge" -> k >= l
    BY <2>2, ThreeWayHolds
  <2> QED BY <1>2, <2>1, <2>3 DEF RefHolds, k, l
<1> QED BY <1>1, <1>2

-----------------------------------------------------------------------------
(* What a program is doing and what it has: operands of the operation it    *)
(* calls or has in line, and afterwards what that returns for them.         *)
Called ==
  /\ \/ call \in Binary /\ args \in Operands(call) \X Operands(call)
     \/ call \in Unary /\ args \in {<<a>> : a \in Operands(call)}
  /\ pc = "floatReturned" =>
       out = IF Len(args) = 2 THEN Apply2(call, args[1], args[2]) ELSE Apply1(call, args[1])
Computing ==
  /\ call \in InlineOps /\ args \in InlineArgs(call)
  /\ pc = "computed" => out \in Inlined(call, args)
CallInv ==
  /\ pc \in {"float", "floatReturned"} => Called
  /\ pc \in {"inline", "computed"} => Computing

(* A step of a division does not lead to or from the other three.           *)
LEMMA DivideSteps ==
  ASSUME DivRemNext
  PROVE  /\ pc \in {"enter", "udiv", "loop", "leave"}
         /\ pc' \in {"udiv", "loop", "leave", "returned"}
<1>1. CASE Enter
  BY <1>1 DEF Enter
<1>2. CASE DivideByZero
  BY <1>2 DEF DivideByZero
<1>3. CASE StartLoop
  BY <1>3 DEF StartLoop
<1>4. CASE Loop
  BY <1>4 DEF Loop
<1>5. CASE Return
  BY <1>5 DEF Return
<1> QED BY <1>1, <1>2, <1>3, <1>4, <1>5 DEF DivRemNext

(* A program starts with the operands of what it does.                      *)
LEMMA CallStarts == Init => CallInv
<1> SUFFICES ASSUME Init PROVE CallInv
  OBVIOUS
<1>1. CASE DivRemInit /\ NoFloat /\ NoBlock
  BY <1>1 DEF DivRemInit, CallInv
<1>2. CASE /\ pc = "float"
           /\ \/ call \in Binary /\ args \in Operands(call) \X Operands(call)
              \/ call \in Unary /\ args \in {<<a>> : a \in Operands(call)}
  BY <1>2 DEF CallInv, Called
<1>3. CASE pc = "inline" /\ call \in InlineOps /\ args \in InlineArgs(call)
  BY <1>3 DEF CallInv, Computing
<1>4. CASE pc = "block"
  BY <1>4 DEF CallInv
<1> QED BY <1>1, <1>2, <1>3, <1>4 DEF Init

(* Every step keeps them, and returns what the operation makes of them.     *)
LEMMA CallStep == CallInv /\ [Next]_<<vars, floatVars, memVars>> => CallInv'
<1> SUFFICES ASSUME CallInv, [Next]_<<vars, floatVars, memVars>> PROVE CallInv'
  OBVIOUS
<1>1. CASE UNCHANGED <<vars, floatVars>>
  <2>1. pc' = pc /\ call' = call /\ args' = args /\ out' = out
    BY <1>1 DEF vars, floatVars
  <2> QED BY <2>1 DEF CallInv, Called, Computing
<1>2. CASE Divide
  BY <1>2, DivideSteps DEF Divide, CallInv
<1>3. CASE FloatReturn
  <2>1. /\ pc = "float" /\ pc' = "floatReturned" /\ call' = call /\ args' = args
        /\ out' = IF Len(args) = 2 THEN Apply2(call, args[1], args[2]) ELSE Apply1(call, args[1])
    BY <1>3 DEF FloatReturn
  <2>2. Called'
    BY <2>1 DEF CallInv, Called
  <2> QED BY <2>1, <2>2 DEF CallInv
<1>4. CASE Compute
  <2>1. /\ pc = "inline" /\ pc' = "computed" /\ call' = call /\ args' = args
        /\ out' \in Inlined(call, args)
    BY <1>4 DEF Compute
  <2>2. Computing'
    BY <2>1 DEF CallInv, Computing
  <2> QED BY <2>1, <2>2 DEF CallInv
<1>5. CASE RunBlock
  BY <1>1, <1>5 DEF RunBlock
<1> QED BY <1>1, <1>2, <1>3, <1>4, <1>5 DEF Next

(* So it always has them.                                                   *)
LEMMA CallInvariant == Spec => []CallInv
<1> QED BY CallStarts, CallStep, PTL DEF Spec

(* The operands of a helper are words of its format.                        *)
LEMMA BinaryOperands ==
  ASSUME CallInv, pc = "floatReturned", call \in Binary
  PROVE  /\ args = <<args[1], args[2]>>
         /\ call.fmt \in {"f32", "f64"}
         /\ call.fmt = "f32" => fmt = F32 /\ arg1 \in Words(IntBits) /\ arg2 \in Words(IntBits)
         /\ call.fmt = "f64" => fmt = F64 /\ arg1 \in Words(2 * IntBits)
                                /\ arg2 \in Words(2 * IntBits)
         /\ out = Apply2(call, arg1, arg2)
<1>1. Called
  BY DEF CallInv
<1>2. call \notin Unary
  BY DEF Binary, Unary, Arithmetic, Compares, Roundings, FromInts, ToInts, Widths
<1>3. args \in Operands(call) \X Operands(call)
  BY <1>1, <1>2 DEF Called
<1>4. args = <<args[1], args[2]>> /\ args[1] \in Operands(call) /\ args[2] \in Operands(call)
  BY <1>3
<1>5. Len(args) = 2
  BY <1>4
<1>6. call.fmt \in {"f32", "f64"} /\ call.op \in {"add", "sub", "mul", "div", "unord", "cmp"}
  BY DEF Binary, Arithmetic, Compares
<1>7. Operands(call) = IF call.fmt = "f32" THEN Floats ELSE Doubles
  BY <1>6 DEF Operands
<1> QED BY <1>1, <1>4, <1>5, <1>6, <1>7, OperandsAssumption DEF Called, fmt, arg1, arg2

(* For floats and doubles of every width: the relation a program tests      *)
(* after __eqsf2, __ltsf2 and their twins holds exactly when it does between*)
(* the numbers, for zeros of both signs, subnormals and NaNs too.           *)
THEOREM ComparesRight == Spec => []CompareRight
<1>1. CallInv => CompareRight
  <2> SUFFICES ASSUME CallInv PROVE CompareRight
    OBVIOUS
  <2>1. ASSUME Returned({"cmp"})
        PROVE  Holds(call.kind, out) = RefHolds(fmt, call.kind, arg1, arg2)
    <3>1. pc = "floatReturned" /\ call.op = "cmp"
      BY <2>1 DEF Returned
    <3>2. call \in Binary /\ call.kind \in Preds
      BY <3>1 DEF CallInv, Called, Binary, Unary, Arithmetic, Compares, Roundings, FromInts,
                  ToInts, Widths
    <3>3. out = IF call.fmt = "f32" THEN FloatCompare(call.kind, arg1, arg2)
                                    ELSE DoubleCompare(call.kind, arg1, arg2)
      BY <3>1, <3>2, BinaryOperands DEF Apply2
    <3>4. CASE call.fmt = "f32"
      BY <3>1, <3>2, <3>3, <3>4, BinaryOperands, FloatCompareHolds
    <3>5. CASE call.fmt = "f64"
      BY <3>1, <3>2, <3>3, <3>5, BinaryOperands, DoubleCompareHolds
    <3> QED BY <3>1, <3>2, <3>4, <3>5, BinaryOperands
  <2>2. ASSUME Returned({"unord"})
        PROVE  (out # 0) = (IsNaN(fmt, arg1) \/ IsNaN(fmt, arg2))
    <3>1. pc = "floatReturned" /\ call.op = "unord"
      BY <2>2 DEF Returned
    <3>2. call \in Binary
      BY <3>1 DEF CallInv, Called, Binary, Unary, Arithmetic, Compares, Roundings, FromInts,
                  ToInts, Widths
    <3>3. out = IF call.fmt = "f32" THEN UnordSf2(arg1, arg2) ELSE UnordDf2(arg1, arg2)
      BY <3>1, <3>2, BinaryOperands DEF Apply2
    <3>4. (call.fmt = "f32" /\ fmt = F32) \/ (call.fmt = "f64" /\ fmt = F64)
      BY <3>1, <3>2, BinaryOperands
    <3> QED BY <3>3, <3>4 DEF UnordSf2, UnordDf2
  <2> QED BY <2>1, <2>2 DEF CompareRight
<1> QED BY <1>1, CallInvariant, PTL

(* The shifts of a float that becomes an i32.                               *)
LEMMA FloatToInt32InRange ==
  ASSUME NEW v \in Words(IntBits)
  PROVE  LET shift == FloatToInt32Shifts(v) IN InRange({shift.left, shift.right})
<1> DEFINE unit == Bias(F32) + F32.m
           e == ExpOf(F32, v)
           up == IF e > unit THEN e - unit ELSE 0
           down == Sub(IntBits, unit, e)
<1>1. unit \in Int /\ e \in Nat /\ IntBits - 1 \in Nat /\ 2^IntBits \in Nat \ {0}
  BY Exponents, FormatParts, IntPowers
<1>2. FloatToInt32Shifts(v) =
        [left |-> Least({up, IntBits - 1}), right |-> Least({down, IntBits - 1})]
  BY DEF FloatToInt32Shifts
<1>3. down = (unit - e) % 2^IntBits
  BY DEF Sub
<1> HIDE DEF unit, e
<1>4. up \in Nat
  BY <1>1
<1>5. down \in Nat
  <2>1. unit - e \in Int
    BY <1>1
  <2>2. (unit - e) % 2^IntBits \in 0..(2^IntBits - 1)
    BY <1>1, <2>1, Remainders
  <2> QED BY <1>1, <1>3, <2>2
<1> HIDE DEF up, down
<1>6. ASSUME NEW k \in Nat PROVE Least({k, IntBits - 1}) \in 0..(IntBits - 1)
  <2>1. k \in Int /\ IntBits - 1 \in Int
    BY <1>1
  <2>2. Least({k, IntBits - 1}) \in {k, IntBits - 1} /\ Least({k, IntBits - 1}) =< IntBits - 1
    BY <2>1, LeastOfTwo
  <2> QED BY <1>1, <2>2
<1> QED BY <1>2, <1>4, <1>5, <1>6 DEF InRange

(* Of a double that becomes an i32.                                         *)
LEMMA DoubleToInt32InRange ==
  ASSUME NEW v \in Words(2 * IntBits)
  PROVE  LET shift == DoubleToInt32Shifts(v) IN InRange({shift.big, shift.left, shift.right})
<1> DEFINE unit == Bias(F64) + F64.m
           e == ExpOf(F64, v)
           k == Sub(IntBits, unit, e)
           ge32 == k >= IntBits
<1>1. unit \in Int /\ e \in Nat /\ IntBits \in Nat /\ 2^IntBits \in Nat \ {0}
  BY Exponents, FormatParts, IntPowers
<1>2. DoubleToInt32Shifts(v) =
        [ge32 |-> ge32, big |-> Clamp31(IF ge32 THEN k - IntBits ELSE 0),
         right |-> Clamp31(IF ge32 THEN 1 ELSE k), left |-> Clamp31(IF ge32 THEN 0 ELSE IntBits - k)]
  BY DEF DoubleToInt32Shifts
<1>3. k \in Nat
  <2>1. unit - e \in Int /\ k = (unit - e) % 2^IntBits
    BY <1>1 DEF Sub
  <2> HIDE DEF unit, e, k
  <2>2. (unit - e) % 2^IntBits \in 0..(2^IntBits - 1)
    BY <1>1, <2>1, Remainders
  <2> QED BY <1>1, <2>1, <2>2
<1> HIDE DEF unit, e, k
<1>4. /\ (IF ge32 THEN k - IntBits ELSE 0) \in Nat
      /\ (IF ge32 THEN 1 ELSE k) \in Nat
      /\ (IF ge32 THEN 0 ELSE IntBits - k) \in Nat
  BY <1>1, <1>3
<1> HIDE DEF ge32
<1> QED BY <1>2, <1>4, Clamped DEF InRange

(* The power of a width exceeds it twice.                                   *)
LEMMA PowerOfWidth == 2^IntBits > 2 * IntBits
<1> DEFINE p == 2^IntBits
           h == 2^(IntBits - 1)
           g == 2^(IntBits - 2)
<1>1. IntBits \in Nat /\ IntBits >= 5 /\ p = 2 * h
  BY IntPowers
<1>2. g \in Nat /\ g > IntBits - 2
  <2>1. IntBits - 2 \in 0..(2 * IntBits)
    BY <1>1
  <2> QED BY <2>1, IntPowers
<1>3. h = 2 * g
  <2>1. PowersDouble(2 * IntBits + 2)
    BY LongPowers
  <2>2. IntBits - 2 \in 0..((2 * IntBits + 2) - 1) /\ (IntBits - 2) + 1 = IntBits - 1
    BY <1>1
  <2> QED BY <2>1, <2>2 DEF PowersDouble
<1> HIDE DEF p, h, g
<1>4. p > 2 * IntBits
  BY <1>1, <1>2, <1>3
<1> QED BY <1>4 DEF p

(* Of an i32 other than 0 that becomes a float.                             *)
LEMMA Int32ToFloatInRange ==
  ASSUME NEW signed \in BOOLEAN, NEW v \in Words(IntBits) \ {0}
  PROVE  LET shift == Int32ToFloatShifts(signed, v)
         IN  InRange({shift.left, shift.right, shift.right - 1})
<1> DEFINE p == 2^IntBits
           mag == IntMag(IntBits, signed, v)
           c == Ctlz(IntBits, mag)
           hi == LeadingBit(mag)
           m == F32.m
<1>1. /\ IntBits \in Nat /\ IntBits >= 5 /\ IntBits \in 1..(2 * IntBits)
      /\ p \in Nat \ {0} /\ p > IntBits /\ m \in 1..(IntBits - 5)
  BY IntPowers, FormatParts
<1>2. v \in 1..(p - 1)
  BY <1>1 DEF Words
<1>3. mag = v \/ mag = (0 - v) % p
  BY DEF IntMag, Sub
<1>4. mag \in 1..(p - 1)
  <2>1. (0 - v) % p = p - v
    <3> HIDE DEF p
    <3> QED BY <1>1, <1>2, SMT
  <2> HIDE DEF p, mag
  <2> QED BY <1>1, <1>2, <1>3, <2>1
<1>5. c \in 0..(IntBits - 1)
  <2>1. mag \in Words(IntBits) \ {0}
    BY <1>1, <1>4 DEF Words
  <2> HIDE DEF mag
  <2> QED BY <1>1, <2>1, LeadingOne
<1>6. hi = IntBits - 1 - c
  <2>1. hi = (IntBits - 1 - c) % p
    BY DEF LeadingBit, Sub
  <2> HIDE DEF p, c, hi
  <2>2. IntBits - 1 - c \in Nat /\ IntBits - 1 - c < p
    BY <1>1, <1>5
  <2> QED BY <1>1, <2>1, <2>2, ModSmall
<1>7. Int32ToFloatShifts(signed, v) =
        [left |-> IF hi > m THEN 0 ELSE m - hi, right |-> IF hi > m THEN (hi - m) % p ELSE 1]
  BY DEF Int32ToFloatShifts, Sub
<1> HIDE DEF p, mag, c, hi, m
<1>8. hi \in 0..(IntBits - 1)
  BY <1>1, <1>5, <1>6
<1>9. (IF hi > m THEN 0 ELSE m - hi) \in 0..(IntBits - 1)
  BY <1>1, <1>8
<1>10. /\ (IF hi > m THEN (hi - m) % p ELSE 1) \in 0..(IntBits - 1)
       /\ (IF hi > m THEN (hi - m) % p ELSE 1) - 1 \in 0..(IntBits - 1)
  <2>1. CASE hi > m
    <3>1. hi - m \in Nat /\ hi - m < p
      BY <1>1, <1>8, <2>1
    <3>2. (hi - m) % p = hi - m
      BY <1>1, <3>1, ModSmall
    <3> QED BY <1>1, <1>8, <2>1, <3>2
  <2>2. CASE ~(hi > m)
    BY <1>1, <2>2
  <2> QED BY <2>1, <2>2
<1> QED BY <1>7, <1>9, <1>10 DEF InRange

(* The 0 that becomes a float: the shift to the right is out of range.      *)
LEMMA ZeroOutOfRange ==
  ASSUME NEW signed \in BOOLEAN
  PROVE  ~(Int32ToFloatShifts(signed, 0).right \in 0..(IntBits - 1))
<1> DEFINE p == 2^IntBits
           m == F32.m
           hi == LeadingBit(IntMag(IntBits, signed, 0))
<1>1. /\ IntBits \in Nat /\ IntBits >= 5 /\ p \in Nat \ {0} /\ p > 2 * IntBits
      /\ m \in 1..(IntBits - 5)
  BY IntPowers, FormatParts, PowerOfWidth
<1>2. IntMag(IntBits, signed, 0) = 0
  <2>1. (0 - 0) % p = 0
    <3> HIDE DEF p
    <3> QED BY <1>1, ModSmall
  <2> QED BY <2>1 DEF IntMag, Sub
<1>3. hi = (IntBits - 1 - IntBits) % p
  BY <1>2 DEF LeadingBit, Sub, Ctlz
<1>4. Int32ToFloatShifts(signed, 0).right = IF hi > m THEN (hi - m) % p ELSE 1
  BY DEF Int32ToFloatShifts, Sub
<1> HIDE DEF p, m, hi
<1>5. hi = p - 1
  <2>1. (-1) % p = p - 1
    BY <1>1, SMT
  <2>2. IntBits - 1 - IntBits = -1
    BY <1>1
  <2> QED BY <1>3, <2>1, <2>2
<1>6. hi > m /\ hi - m \in Nat /\ hi - m < p /\ hi - m >= IntBits
  BY <1>1, <1>5
<1>7. (hi - m) % p = hi - m
  BY <1>1, <1>6, ModSmall
<1> QED BY <1>1, <1>4, <1>6, <1>7

(* Of a float that is rounded to an integer.                                *)
LEMMA FRoundInRange ==
  ASSUME NEW v \in Words(IntBits)
  PROVE  LET shift == FRoundShifts(v) IN InRange({shift.frac, shift.guard})
<1> DEFINE unit == Bias(F32) + F32.m
           e == ExpOf(F32, v)
           frac == Sub(IntBits, unit, e)
           guard == Sub(IntBits, frac, 1)
<1>1. unit \in Int /\ e \in Nat /\ IntBits \in Nat \ {0} /\ 2^IntBits \in Nat \ {0}
  BY Exponents, FormatParts, IntPowers
<1>2. FRoundShifts(v) = [frac |-> frac % IntBits, guard |-> guard % IntBits]
  BY DEF FRoundShifts
<1>3. frac = (unit - e) % 2^IntBits /\ guard = (frac - 1) % 2^IntBits
  BY DEF Sub
<1> HIDE DEF unit, e, frac, guard
<1>4. frac \in Int
  <2>1. unit - e \in Int
    BY <1>1
  <2>2. (unit - e) % 2^IntBits \in 0..(2^IntBits - 1)
    BY <1>1, <2>1, Remainders
  <2> QED BY <1>1, <1>3, <2>2
<1>5. guard \in Int
  <2>1. frac - 1 \in Int
    BY <1>4
  <2>2. (frac - 1) % 2^IntBits \in 0..(2^IntBits - 1)
    BY <1>1, <2>1, Remainders
  <2> QED BY <1>1, <1>3, <2>2
<1>6. frac % IntBits \in 0..(IntBits - 1) /\ guard % IntBits \in 0..(IntBits - 1)
  BY <1>1, <1>4, <1>5, Remainders
<1> QED BY <1>2, <1>6 DEF InRange

(* The operand of a helper that takes one is a word of its own type.        *)
LEMMA UnaryOperands ==
  ASSUME CallInv, pc = "floatReturned", call \in Unary
  PROVE  /\ arg1 \in Operands(call)
         /\ call.op \in {"fix32", "fix64", "fround"} =>
              arg1 \in (IF call.fmt = "f32" THEN Words(IntBits) ELSE Words(2 * IntBits))
         /\ call.op = "float32" => arg1 \in Words(IntBits)
         /\ out = Apply1(call, arg1)
<1>1. Called
  BY DEF CallInv
<1>2. call \notin Binary
  BY DEF Binary, Unary, Arithmetic, Compares, Roundings, FromInts, ToInts, Widths
<1>3. args \in {<<a>> : a \in Operands(call)}
  BY <1>1, <1>2 DEF Called
<1>4. args[1] \in Operands(call) /\ Len(args) = 1
  BY <1>3
<1>5. out = Apply1(call, args[1])
  BY <1>1, <1>4 DEF Called
<1>6. call.op \in {"fix32", "fix64", "fround"} =>
        Operands(call) = IF call.fmt = "f32" THEN Floats ELSE Doubles
  BY DEF Operands
<1>7. call.op = "float32" => Operands(call) = Ints
  BY DEF Operands
<1> QED BY <1>4, <1>5, <1>6, <1>7, OperandsAssumption DEF arg1

(* Of an i32 that becomes a double, 0 included.                             *)
LEMMA Int32ToDoubleInRange ==
  ASSUME NEW signed \in BOOLEAN, NEW v \in Words(IntBits)
  PROVE  LET shift == Int32ToDoubleShifts(signed, v)
         IN  InRange({shift.left, shift.right, shift.big})
<1> DEFINE p == 2^IntBits
           mag == IntMag(IntBits, signed, v)
           c == Ctlz(IntBits, mag)
           hi == LeadingBit(mag)
           m == F64.m
           shift == Sub(IntBits, m, hi)
           small == shift < IntBits
<1>1. /\ IntBits \in Nat /\ IntBits >= 5 /\ IntBits \in 1..(2 * IntBits)
      /\ p \in Nat \ {0} /\ p > IntBits /\ p > 2 * IntBits
      /\ m \in Nat /\ m > IntBits /\ m =< 2 * IntBits - 5
  <2>1. m \in 1..(2 * IntBits - 5) /\ m > IntBits
    BY FormatParts, FormatsFit
  <2>2. IntBits \in Nat /\ IntBits >= 5 /\ p \in Nat \ {0} /\ p > 2 * IntBits
    BY IntPowers, PowerOfWidth
  <2> HIDE DEF p, m
  <2> QED BY <2>1, <2>2
<1>2. v \in 0..(p - 1)
  BY <1>1 DEF Words
<1>3. mag = v \/ mag = (0 - v) % p
  BY DEF IntMag, Sub
<1>4. mag \in Words(IntBits)
  <2>1. (0 - v) % p \in 0..(p - 1)
    <3> HIDE DEF p
    <3>1. 0 - v \in Int
      BY <1>1, <1>2
    <3> QED BY <1>1, <3>1, Remainders
  <2> HIDE DEF mag
  <2> QED BY <1>2, <1>3, <2>1 DEF Words
<1>5. c \in 0..IntBits
  <2>1. CASE mag = 0
    BY <1>1, <2>1 DEF Ctlz
  <2>2. CASE mag # 0
    <3> HIDE DEF mag
    <3>1. c \in 0..(IntBits - 1)
      BY <1>1, <1>4, <2>2, LeadingOne
    <3> QED BY <1>1, <3>1
  <2> QED BY <2>1, <2>2
<1>6. shift = (m - hi) % p /\ hi = (IntBits - 1 - c) % p
  BY DEF LeadingBit, Sub
<1>7. Int32ToDoubleShifts(signed, v) =
        [small |-> small, left |-> IF small THEN shift ELSE 0,
         right |-> IF small THEN IntBits - shift ELSE 1,
         big |-> IF small THEN 0 ELSE shift - IntBits]
  BY DEF Int32ToDoubleShifts
<1> HIDE DEF p, mag, c, hi, m, shift
<1>8. shift \in 2..(m + 1)
  <2>1. CASE c = IntBits
    <3>1. hi = p - 1
      <4>1. (-1) % p = p - 1
        BY <1>1, SMT
      <4>2. IntBits - 1 - c = -1
        BY <1>1, <2>1
      <4> QED BY <1>6, <4>1, <4>2
    <3>2. m - hi = (m + 1) - p
      BY <1>1, <3>1
    <3>3. ((m + 1) - p) % p = (m + 1) % p
      BY <1>1, SMT
    <3>4. (m + 1) % p = m + 1
      <4>1. m + 1 \in Nat /\ m + 1 < p /\ p \in Nat
        BY <1>1
      <4> QED BY <4>1, ModSmall
    <3> QED BY <1>1, <1>6, <3>2, <3>3, <3>4
  <2>2. CASE c # IntBits
    <3>1. IntBits - 1 - c \in Nat /\ IntBits - 1 - c < p
      BY <1>1, <1>5, <2>2
    <3>2. hi = IntBits - 1 - c
      BY <1>1, <1>6, <3>1, ModSmall
    <3>3. m - hi \in Nat /\ m - hi < p /\ m - hi >= 2
      BY <1>1, <1>5, <2>2, <3>2
    <3>4. shift = m - hi
      BY <1>1, <1>6, <3>3, ModSmall
    <3> QED BY <1>1, <1>5, <2>2, <3>2, <3>3, <3>4
  <2> QED BY <2>1, <2>2
<1>9. /\ (IF small THEN shift ELSE 0) \in 0..(IntBits - 1)
      /\ (IF small THEN IntBits - shift ELSE 1) \in 0..(IntBits - 1)
      /\ (IF small THEN 0 ELSE shift - IntBits) \in 0..(IntBits - 1)
  BY <1>1, <1>8
<1> HIDE DEF small
<1> QED BY <1>7, <1>9 DEF InRange

(* Of the smaller operand of a sum of floats, which is aligned.             *)
LEMMA AlignInRange ==
  ASSUME NEW a \in Words(IntBits), NEW b \in Words(IntBits)
  PROVE  AlignShift(F32, a, b) \in 0..(IntBits - 1)
<1>1. F32.w = IntBits /\ IntBits \in Nat /\ IntBits >= 5
  BY FormatParts, IntPowers
<1>2. SumGap(F32, a, b) \in Nat
  BY <1>1, SumOrder
<1> DEFINE gap == SumGap(F32, a, b)
<1> HIDE DEF gap
<1>3. (IF gap > IntBits - 1 THEN IntBits - 1 ELSE gap) \in 0..(IntBits - 1)
  BY <1>1, <1>2 DEF gap
<1> QED BY <1>1, <1>3 DEF AlignShift, gap

(* Of a sum of floats that is brought to its place, also one that vanished  *)
(* and one whose arm is discarded.                                          *)
LEMMA NormaliseInRange ==
  ASSUME NEW re \in Int, NEW sum \in Words(IntBits)
  PROVE  NormaliseShift(F32, re, sum) \in 0..(IntBits - 1)
<1> DEFINE m == F32.m
           normal == IntBits - m - 4
           lz == CtlzF(F32, sum)
           a == IF lz > normal THEN lz - normal ELSE 0
           b == Sub(IntBits, re, 1)
           c == m + 3
           shift == NormaliseShift(F32, re, sum)
<1>1. /\ F32.w = IntBits /\ IntBits \in Nat /\ IntBits >= 5 /\ IntBits \in 1..(2 * IntBits)
      /\ m \in 1..(IntBits - 5) /\ F32 # F64
  <2>1. F32.w = IntBits /\ F64.w = 2 * IntBits /\ IntBits \in Nat /\ IntBits >= 5
        /\ m \in 1..(IntBits - 5)
    BY FormatParts, IntPowers
  <2>2. F32.w # F64.w
    <3> HIDE DEF m
    <3> QED BY <2>1
  <2> QED BY <2>1, <2>2
<1>2. lz \in Int
  <2>1. lz = Ctlz(IntBits, sum)
    BY <1>1 DEF CtlzF
  <2>2. CASE sum = 0
    BY <1>1, <2>1, <2>2 DEF Ctlz
  <2>3. CASE sum # 0
    <3>1. Ctlz(IntBits, sum) \in 0..(IntBits - 1)
      BY <1>1, <2>3, LeadingOne
    <3> HIDE DEF lz
    <3> QED BY <1>1, <2>1, <3>1
  <2> QED BY <2>2, <2>3
<1>3. b \in Nat
  <2> DEFINE full == 2^IntBits
  <2>1. full \in Nat \ {0}
    BY IntPowers
  <2> HIDE DEF full
  <2>2. (re - 1) % full \in Nat
    BY <2>1
  <2> QED BY <2>2 DEF Sub, full
<1>4. shift = Least({a, b, c})
  BY <1>1 DEF NormaliseShift
<1>5. a \in Nat /\ c \in Nat /\ c =< IntBits - 1
  <2> HIDE DEF lz, m
  <2> QED BY <1>1, <1>2
<1> HIDE DEF a, b, c, shift
<1>6. shift \in {a, b, c} /\ shift =< c
  <2>1. a \in Int /\ b \in Int /\ c \in Int
    BY <1>3, <1>5
  <2> QED BY <1>4, <2>1, LeastOfThree
<1>7. shift \in 0..(IntBits - 1)
  BY <1>1, <1>3, <1>5, <1>6
<1> QED BY <1>7 DEF shift

-----------------------------------------------------------------------------
(* Divisions and blocks, in a program that does other things too.           *)

(* A division keeps the invariant of the division helpers; a block keeps    *)
(* that of its memory, and there is none while the program runs no block.   *)
DividesInv == pc \in {"enter", "udiv", "loop", "leave", "returned"} => IInv /\ DivRight
BlockInv ==
  /\ pc = "block" => OrderInv
  /\ pc # "block" => NoBlock

(* The invariant of division holds in a compiled program.                   *)
LEMMA DividesInvariant == Spec => []DividesInv
<1>1. Init => DividesInv
  <2> SUFFICES ASSUME Init PROVE DividesInv
    OBVIOUS
  <2>1. CASE DivRemInit
    BY <2>1, InitIInv DEF DivRemInit, DivRight, DividesInv
  <2>2. CASE pc \in {"float", "inline", "block"}
    BY <2>2 DEF DividesInv
  <2> QED BY <2>1, <2>2 DEF Init
<1>2. DividesInv /\ [Next]_<<vars, floatVars, memVars>> => DividesInv'
  <2> SUFFICES ASSUME DividesInv, [Next]_<<vars, floatVars, memVars>> PROVE DividesInv'
    OBVIOUS
  <2>1. CASE UNCHANGED vars
    <3>1. pc' = pc
      BY <2>1 DEF vars
    <3> QED BY <2>1, <3>1, NextStep DEF DividesInv
  <2>2. CASE Divide
    BY <2>2, DivideSteps, NextStep DEF Divide, DividesInv
  <2>3. CASE FloatReturn \/ Compute
    BY <2>3 DEF FloatReturn, Compute, DividesInv
  <2>4. CASE RunBlock
    BY <2>1, <2>4 DEF RunBlock
  <2> QED BY <2>1, <2>2, <2>3, <2>4 DEF Next
<1> QED BY <1>1, <1>2, PTL DEF Spec

(* Whatever else the program calls, its divisions are right, for words of   *)
(* every width.                                                             *)
THEOREM DivisionsRight == Spec => []DivRight
<1>1. DividesInv => DivRight
  BY DEF DividesInv, DivRight
<1> QED BY <1>1, DividesInvariant, PTL

(* And so does that of a block.                                             *)
LEMMA BlockInvariant == Spec => []BlockInv
<1>1. Init => BlockInv
  <2> SUFFICES ASSUME Init PROVE BlockInv
    OBVIOUS
  <2>1. CASE NoBlock /\ pc # "block"
    BY <2>1 DEF BlockInv
  <2>2. CASE NarrowInit /\ pc = "block"
    BY <2>2, StartsInOrder DEF BlockInv
  <2> QED BY <2>1, <2>2 DEF Init, DivRemInit
<1>2. BlockInv /\ [Next]_<<vars, floatVars, memVars>> => BlockInv'
  <2> SUFFICES ASSUME BlockInv, [Next]_<<vars, floatVars, memVars>> PROVE BlockInv'
    OBVIOUS
  <2>1. CASE UNCHANGED memVars /\ (pc' = "block" <=> pc = "block")
    <3>1. block' = block /\ start' = start /\ mem' = mem /\ done' = done /\ words' = words
      BY <2>1 DEF memVars
    <3>2. pc # "block" => BlockInv'
      BY <2>1, <3>1 DEF BlockInv, NoBlock
    <3>3. OrderInv => OrderInv'
      <4>1. Instructions' = Instructions
        BY <3>1 DEF Instructions
      <4>2. \A k : Earlier(k)' = Earlier(k)
        BY <4>1 DEF Earlier
      <4> QED BY <3>1, <4>1, <4>2 DEF OrderInv, Closed, MemoryInOrder, LoadsInOrder
    <3> QED BY <2>1, <3>2, <3>3 DEF BlockInv
  <2>2. CASE Divide
    BY <2>1, <2>2, DivideSteps DEF Divide
  <2>3. CASE FloatReturn \/ Compute
    BY <2>1, <2>3 DEF FloatReturn, Compute
  <2>4. CASE RunBlock
    <3>1. pc' = pc /\ NarrowNext
      BY <2>4 DEF RunBlock, vars
    <3>2. CASE pc = "block"
      BY <3>1, <3>2, StoreStep, LoadStep DEF BlockInv, NarrowNext
    <3>3. CASE pc # "block"
      <4>1. Instructions = {}
        BY <3>3 DEF BlockInv, NoBlock, Instructions
      <4> QED BY <3>1, <4>1 DEF NarrowNext
    <3> QED BY <3>2, <3>3
  <2>5. CASE UNCHANGED <<vars, floatVars, memVars>>
    BY <2>1, <2>5 DEF vars
  <2> QED BY <2>2, <2>3, <2>4, <2>5 DEF Next
<1> QED BY <1>1, <1>2, PTL DEF Spec

(* The narrow accesses of every block of the program keep its order.        *)
THEOREM BlocksInOrder == Spec => []InOrder
<1>1. BlockInv => InOrder
  <2> SUFFICES ASSUME BlockInv PROVE InOrder
    OBVIOUS
  <2>1. CASE pc = "block"
    BY <2>1 DEF BlockInv, OrderInv, InOrder, MemoryInOrder, LoadsInOrder
  <2>2. CASE pc # "block"
    <3>1. Instructions = {} /\ done = {} /\ mem = start
      BY <2>2 DEF BlockInv, NoBlock, Instructions
    <3> QED BY <3>1 DEF InOrder, LastWritten
  <2> QED BY <2>1, <2>2
<1> QED BY <1>1, BlockInvariant, PTL

(* In every interleaving of a block the scheduler may choose, each load      *)
(* that is complete returns the field at its address as the program's order *)
(* leaves it, zero- or sign-extended: at every byte width, offset and       *)
(* alignment the lowering accepts.                                          *)
THEOREM LoadsAreRight == Spec => []LoadsRight
<1>1. BlockInv => LoadsRight
  <2> SUFFICES ASSUME BlockInv, NEW k \in DOMAIN block, Loaded(k)
               PROVE  LET signed == block[k].ext = "sext" /\ ~Whole(block[k])
                      IN LoadResult(k) = Word(WordBits, IF signed
                                                        THEN Signed(block[k].bits, FieldSeen(k))
                                                        ELSE FieldSeen(k))
    BY DEF LoadsRight
  <2> DEFINE t == block[k].bits
             u == WordBits - t
             z == FieldSeen(k)
             m == 2^t
             w == 2^WordBits
  <2>1. OrderInv
    <3>1. CASE pc = "block"
      BY <3>1 DEF BlockInv
    <3>2. CASE pc # "block"
      BY <3>2 DEF BlockInv, NoBlock
    <3> QED BY <3>1, <3>2
  <2>2. Raw(k) = z /\ z \in 0..(m - 1)
    BY <2>1, RawSeen
  <2>3. ByteBits \in Nat \ {0} /\ WordBits = 4 * ByteBits
    BY ByteAssumption DEF WordBits
  <2>4. t \in {1, ByteBits, 2 * ByteBits, 4 * ByteBits}
    <3>1. block[k] \in Accesses
      BY <2>1, BlocksAssumption DEF OrderInv
    <3> QED BY <3>1 DEF Accesses
  <2>5. t \in Nat \ {0} /\ u \in Nat /\ t + u = WordBits /\ WordBits \in Nat
    <3> HIDE DEF t
    <3> QED BY <2>3, <2>4
  <2>6. CASE block[k].ext = "sext" /\ ~Whole(block[k])
    <3>1. LoadResult(k) = Sra(Shl(WordBits, z, u), u)
      BY <2>2, <2>6 DEF LoadResult
    <3>2. Sra(Shl(WordBits, z, u), u) = Word(WordBits, Signed(t, z))
      <4> HIDE DEF t, u, z
      <4> QED BY <2>2, <2>5, SignExtends DEF m
    <3> QED BY <2>6, <3>1, <3>2
  <2>7. CASE ~(block[k].ext = "sext" /\ ~Whole(block[k]))
    <3>1. LoadResult(k) = z
      BY <2>2, <2>7 DEF LoadResult
    <3>2. PowersDouble(WordBits) /\ t \in 0..WordBits /\ u \in 0..WordBits
      <4> HIDE DEF t
      <4> QED BY <2>3, <2>5, WordPowers
    <3>3. w = m * 2^u /\ m \in Nat \ {0} /\ 2^u \in Nat \ {0}
      <4> HIDE DEF t, u
      <4> QED BY <2>5, <3>2, PowerAdds, PowerPositive
    <3>4. z % w = z
      <4> HIDE DEF t, u, z, m, w
      <4>1. m =< w /\ w \in Nat \ {0}
        <5>1. 1 * m =< 2^u * m /\ 2^u * m = m * 2^u /\ 2^u * m \in Nat /\ 1 * m = m
          BY <3>3, TimesMonotone
        <5> QED BY <3>3, <5>1
      <4>2. z \in 0..(w - 1)
        BY <2>2, <3>3, <4>1
      <4> QED BY <4>1, <4>2, SMT
    <3> QED BY <2>7, <3>1, <3>4 DEF Word
  <2> QED BY <2>6, <2>7
<1> QED BY <1>1, BlockInvariant, PTL

(* What the compiler expands in line means what it stands for, at every     *)
(* width of a word, for every predicate, arm and vector: comparisons,       *)
(* selects, minima and maxima, abs, sext and reductions.                    *)
THEOREM InlinesRight == Spec => []InlineRight
<1>1. CallInv => InlineRight
  <2> SUFFICES ASSUME CallInv, pc = "computed" PROVE StandsFor(call, args, out)
    BY DEF InlineRight
  <2>1. call \in InlineOps /\ args \in InlineArgs(call) /\ out \in Inlined(call, args)
    BY DEF CallInv, Computing
  <2>2. Operand(call, args)
    <3>1. CASE call.op \in {"icmp", "minmax"}
      BY <2>1, <3>1 DEF InlineArgs, Operand
    <3>2. CASE call.op = "select"
      BY <2>1, <3>2 DEF InlineArgs, Operand
    <3>3. CASE call.op = "abs"
      BY <2>1, <3>3 DEF InlineArgs, Operand
    <3>4. CASE call.op = "sext"
      BY <2>1, <3>4 DEF InlineArgs, Operand
    <3>5. CASE call.op = "reduce"
      <4>1. args \in Vectors
        BY <2>1, <3>5 DEF InlineArgs
      <4>2. args \in Seq(Words(ISelBits)) \ {<<>>}
        BY <4>1, OperandsAssumption
      <4> QED BY <3>5, <4>2 DEF Operand
    <3>6. call.op \in {"icmp", "minmax", "select", "abs", "sext", "reduce"}
      BY <2>1 DEF InlineOps
    <3> QED BY <3>1, <3>2, <3>3, <3>4, <3>5, <3>6
  <2> QED BY <2>1, <2>2, InlineMeans
<1> QED BY <1>1, CallInvariant, PTL

(* A float of either format becomes the integer it truncates to, of either  *)
(* width and signedness, and saturates, whatever the widths and the operand:*)
(* the fix helpers of llvm-mov-llc.                                         *)
THEOREM ToIntsRight == Spec => []ToIntRight
<1>1. CallInv => ToIntRight
  <2> SUFFICES ASSUME CallInv, pc = "floatReturned", call.op \in {"fix32", "fix64"}
               PROVE  out = RefToInt(fmt, IntWidth, call.kind = "signed", arg1)
    BY DEF ToIntRight, Returned
  <2> DEFINE signed == call.kind = "signed"
  <2>1. Called
    BY DEF CallInv
  <2>2. call \in Unary /\ call.fmt \in {"f32", "f64"}
    BY <2>1 DEF Called, Binary, Unary, Arithmetic, Compares, Roundings, FromInts, ToInts, Widths
  <2>3. /\ arg1 \in (IF call.fmt = "f32" THEN Words(IntBits) ELSE Words(2 * IntBits))
        /\ out = Apply1(call, arg1)
    BY <2>2, UnaryOperands
  <2>4. signed \in BOOLEAN
    OBVIOUS
  <2> HIDE DEF signed
  <2>5. F32.w = IntBits /\ F64.w = 2 * IntBits
    BY FormatParts
  <2>6. CASE call.op = "fix32" /\ call.fmt = "f32"
    <3>1. out = emitFloatToInt32Body(signed, arg1) /\ arg1 \in Words(IntBits)
      BY <2>3, <2>6 DEF Apply1, signed
    <3>2. fmt = F32 /\ IntWidth = IntBits
      BY <2>6 DEF fmt, IntWidth
    <3> QED BY <2>4, <3>1, <3>2, FloatToInt32Right DEF signed
  <2>7. CASE call.op = "fix32" /\ call.fmt = "f64"
    <3>1. out = emitDoubleToInt32Body(signed, arg1) /\ arg1 \in Words(2 * IntBits)
      BY <2>3, <2>7 DEF Apply1, signed
    <3>2. fmt = F64 /\ IntWidth = IntBits
      BY <2>7 DEF fmt, IntWidth
    <3> QED BY <2>4, <3>1, <3>2, DoubleToInt32Right DEF signed
  <2>8. CASE call.op = "fix64" /\ call.fmt = "f32"
    <3>1. out = ToInt64(F32, signed, arg1) /\ arg1 \in Words(F32.w)
      BY <2>3, <2>5, <2>8 DEF Apply1, signed, emitFloatToInt64Body
    <3>2. fmt = F32 /\ IntWidth = 2 * IntBits
      BY <2>8 DEF fmt, IntWidth
    <3> QED BY <2>4, <3>1, <3>2, ToInt64Right DEF signed
  <2>9. CASE call.op = "fix64" /\ call.fmt = "f64"
    <3>1. out = ToInt64(F64, signed, arg1) /\ arg1 \in Words(F64.w)
      BY <2>3, <2>5, <2>9 DEF Apply1, signed, emitDoubleToInt64Body
    <3>2. fmt = F64 /\ IntWidth = 2 * IntBits
      BY <2>9 DEF fmt, IntWidth
    <3> QED BY <2>4, <3>1, <3>2, ToInt64Right DEF signed
  <2> QED BY <2>2, <2>6, <2>7, <2>8, <2>9
<1> QED BY <1>1, CallInvariant, PTL

(* An integer of either signedness and either width becomes the nearest    *)
(* float of either format, ties to even, whatever the widths.               *)
THEOREM FromIntsRight == Spec => []FromIntRight
<1>1. CallInv => FromIntRight
  <2> SUFFICES ASSUME CallInv, pc = "floatReturned", call.op \in {"float32", "float64"}
               PROVE  out = RefFromInt(fmt, IntWidth, call.kind = "signed", arg1)
    BY DEF FromIntRight, Returned
  <2> DEFINE signed == call.kind = "signed"
  <2>1. Called
    BY DEF CallInv
  <2>2. call \in Unary /\ call.fmt \in {"f32", "f64"}
    BY <2>1 DEF Called, Binary, Unary, Arithmetic, Compares, Roundings, FromInts, ToInts, Widths
  <2>3. /\ call.op = "float32" => arg1 \in Words(IntBits)
        /\ call.op = "float64" => arg1 \in Words(2 * IntBits)
        /\ out = Apply1(call, arg1)
    BY <2>2, UnaryOperands, OperandsAssumption DEF Operands
  <2>4. signed \in BOOLEAN
    OBVIOUS
  <2> HIDE DEF signed
  <2>5. CASE call.op = "float32" /\ call.fmt = "f32"
    <3>1. out = emitInt32ToFloatBody(signed, arg1) /\ arg1 \in Words(IntBits)
      BY <2>3, <2>5 DEF Apply1, signed
    <3>2. fmt = F32 /\ IntWidth = IntBits
      BY <2>5 DEF fmt, IntWidth
    <3> QED BY <2>4, <3>1, <3>2, Int32ToFloatRight DEF signed
  <2>6. CASE call.op = "float32" /\ call.fmt = "f64"
    <3>1. out = emitInt32ToDoubleBody(signed, arg1) /\ arg1 \in Words(IntBits)
      BY <2>3, <2>6 DEF Apply1, signed
    <3>2. fmt = F64 /\ IntWidth = IntBits
      BY <2>6 DEF fmt, IntWidth
    <3> QED BY <2>4, <3>1, <3>2, Int32ToDoubleRight DEF signed
  <2>7. CASE call.op = "float64" /\ call.fmt = "f32"
    <3>1. out = FromInt64(F32, signed, arg1) /\ arg1 \in Words(2 * IntBits)
      BY <2>3, <2>7 DEF Apply1, signed, emitInt64ToFloatBody
    <3>2. fmt = F32 /\ IntWidth = 2 * IntBits
      BY <2>7 DEF fmt, IntWidth
    <3> QED BY <2>4, <3>1, <3>2, FromInt64Right DEF signed
  <2>8. CASE call.op = "float64" /\ call.fmt = "f64"
    <3>1. out = FromInt64(F64, signed, arg1) /\ arg1 \in Words(2 * IntBits)
      BY <2>3, <2>8 DEF Apply1, signed, emitInt64ToDoubleBody
    <3>2. fmt = F64 /\ IntWidth = 2 * IntBits
      BY <2>8 DEF fmt, IntWidth
    <3> QED BY <2>4, <3>1, <3>2, FromInt64Right DEF signed
  <2> QED BY <2>2, <2>5, <2>6, <2>7, <2>8
<1> QED BY <1>1, CallInvariant, PTL

(* float to double is exact and double to float rounds once, whatever the   *)
(* formats; a NaN stays a NaN.                                              *)
THEOREM WidthsRight == Spec => []WidthRight
<1>1. CallInv => WidthRight
  <2> SUFFICES ASSUME CallInv, pc = "floatReturned", call.op \in {"extend", "trunc"}
               PROVE  /\ call.op = "trunc" => out = RefConvert(F64, F32, arg1)
                      /\ call.op = "extend" =>
                           IF IsNaN(F32, arg1) THEN IsNaN(F64, out)
                           ELSE out = RefConvert(F32, F64, arg1)
    BY DEF WidthRight, Returned
  <2>1. Called
    BY DEF CallInv
  <2>2. call \in Unary /\ call.fmt = "f64"
    BY <2>1 DEF Called, Binary, Unary, Arithmetic, Compares, Roundings, FromInts, ToInts, Widths
  <2>3. /\ call.op = "extend" => arg1 \in Words(IntBits)
        /\ call.op = "trunc" => arg1 \in Words(2 * IntBits)
        /\ out = Apply1(call, arg1)
    BY <2>2, UnaryOperands, OperandsAssumption DEF Operands
  <2>4. call.op = "extend" => out = ExtendSfDf2(arg1)
    BY <2>3 DEF Apply1
  <2>5. call.op = "trunc" => out = TruncDfSf2(arg1)
    BY <2>3 DEF Apply1
  <2>6. CASE call.op = "extend"
    <3>1. IF IsNaN(F32, arg1) THEN IsNaN(F64, ExtendSfDf2(arg1))
          ELSE ExtendSfDf2(arg1) = RefConvert(F32, F64, arg1)
      BY <2>3, <2>6, ExtendRight
    <3> QED BY <2>4, <2>6, <3>1
  <2>7. CASE call.op = "trunc"
    BY <2>3, <2>5, <2>7, TruncRight
  <2> QED BY <2>6, <2>7
<1> QED BY <1>1, CallInvariant, PTL

(* floor, ceil, trunc and round return the integer in their direction,      *)
(* whatever the formats and even where the increment carries.               *)
THEOREM FRoundsRight == Spec => []FRoundRight
<1>1. CallInv => FRoundRight
  <2> SUFFICES ASSUME CallInv, pc = "floatReturned", call.op \in {"fround"}
               PROVE  out = IF IsNaN(fmt, arg1) \/ IsInf(fmt, arg1) THEN arg1
                            ELSE RefRound(fmt, call.kind, arg1)
    BY DEF FRoundRight, Returned
  <2> DEFINE kind == call.kind
  <2>1. Called
    BY DEF CallInv
  <2>2. call \in Unary /\ call.fmt \in {"f32", "f64"} /\ kind \in Kinds
    BY <2>1 DEF Called, Binary, Unary, Arithmetic, Compares, Roundings, FromInts, ToInts, Widths
  <2>3. /\ arg1 \in (IF call.fmt = "f32" THEN Words(IntBits) ELSE Words(2 * IntBits))
        /\ out = Apply1(call, arg1)
    BY <2>2, UnaryOperands
  <2> HIDE DEF kind
  <2>4. CASE call.fmt = "f32"
    <3>1. out = emitFRoundF32Body(kind, arg1) /\ arg1 \in Words(IntBits)
      BY <2>3, <2>4 DEF Apply1, kind
    <3>2. fmt = F32
      BY <2>4 DEF fmt
    <3> QED BY <2>2, <3>1, <3>2, FRoundF32Right DEF kind
  <2>5. CASE call.fmt = "f64"
    <3>1. out = emitFRoundF64Body(kind, arg1) /\ arg1 \in Words(2 * IntBits)
      BY <2>3, <2>5 DEF Apply1, kind
    <3>2. fmt = F64
      BY <2>5 DEF fmt
    <3> QED BY <2>2, <3>1, <3>2, FRoundF64Right DEF kind
  <2> QED BY <2>2, <2>4, <2>5
<1> QED BY <1>1, CallInvariant, PTL

(* A sum's operands are words of its format, and what it returns is the     *)
(* body of __addsf3 or __adddf3, applied to the addend.                     *)
LEMMA AddOperands ==
  ASSUME CallInv, pc = "floatReturned", call.op \in {"add", "sub"}
  PROVE  /\ fmt \in {F32, F64} /\ arg1 \in Words(fmt.w) /\ Addend \in Words(fmt.w)
         /\ out = AddSpecial(fmt, arg1, Addend, AddFinite(fmt, arg1, Addend))
<1>1. call \in Binary
  BY DEF CallInv, Called, Binary, Unary, Arithmetic, Compares, Roundings, FromInts, ToInts, Widths
<1>2. F32.w = IntBits /\ F64.w = 2 * IntBits
  BY FormatParts
<1>3. fmt \in {F32, F64} /\ arg1 \in Words(fmt.w) /\ arg2 \in Words(fmt.w)
      /\ (call.fmt = "f32" => fmt = F32) /\ (call.fmt # "f32" => fmt = F64)
  BY <1>1, <1>2, BinaryOperands
<1> DEFINE b == Addend
<1>4. b \in Words(fmt.w)
  BY <1>3, NegatedWord DEF Addend
<1>5. out = AddSpecial(fmt, arg1, b, AddFinite(fmt, arg1, b))
  <2>1. CASE call.op = "add"
    <3>1. out = IF call.fmt = "f32" THEN AddSf3(arg1, arg2) ELSE AddDf3(arg1, arg2)
      BY <1>1, <2>1, BinaryOperands DEF Apply2
    <3>2. b = arg2
      BY <2>1 DEF Addend
    <3> HIDE DEF b
    <3> QED BY <1>3, <3>1, <3>2 DEF AddSf3, AddDf3, AddFiniteDf3
  <2>2. CASE call.op = "sub"
    <3>1. out = IF call.fmt = "f32" THEN SubSf3(arg1, arg2) ELSE SubDf3(arg1, arg2)
      BY <1>1, <2>2, BinaryOperands DEF Apply2
    <3>2. b = Negated(fmt, arg2)
      BY <2>2 DEF Addend
    <3> HIDE DEF b
    <3> QED BY <1>3, <3>1, <3>2 DEF SubSf3, SubDf3, AddSf3, AddDf3, AddFiniteDf3
  <2> QED BY <2>1, <2>2
<1> QED BY <1>3, <1>4, <1>5

(* What a sum of floats is normalised from: an exponent and a word.         *)
LEMMA AlignedInt ==
  ASSUME NEW a \in Words(IntBits), NEW b \in Words(IntBits),
         NEW s, s = Aligned(F32, a, b)
  PROVE  s.re \in Int /\ s.sum \in Words(IntBits)
<1> DEFINE g == Greater(F32, a, b)
           sig == SumSig(F32, a, b)
           t == SumRest(F32, a, b)
           v == OrBit(sig, t)
           p == 2^F32.m
           full == 2^F32.w
<1>1. F32.w = IntBits /\ a \in Words(F32.w) /\ b \in Words(F32.w)
  BY FormatParts
<1>2. s.re = ExpOf(F32, g) /\ s.sum = v
  BY <1>1, AlignedIs
<1>3. s.re \in Int
  <2>1. g \in Words(F32.w)
    BY <1>1, SumOrder
  <2>2. MaxExp(F32) \in Int
    <3>1. Bias(F32) \in Nat /\ MaxExp(F32) = 2 * Bias(F32) + 1
      BY MantissaUnits
    <3> QED BY <3>1
  <2> HIDE DEF g
  <2>3. ExpOf(F32, g) \in 0..MaxExp(F32)
    BY <2>1, FloatParts
  <2> QED BY <1>2, <2>2, <2>3
<1>4. v \in Words(F32.w)
  <2>1. sig \in Nat /\ t \in BOOLEAN /\ sig < 32 * p
    BY <1>1, SumSigIs
  <2>2. p \in Nat \ {0} /\ 32 * p =< full
    BY GuardedWord
  <2>3. v \in Nat /\ v \div 2 = sig \div 2
    <3> HIDE DEF sig, t
    <3> QED BY <2>1, OrBitIs
  <2>4. full \in Nat
    BY FormatOf
  <2> HIDE DEF p, full, v, sig
  <2>5. v \in 0..(full - 1)
    BY <2>1, <2>2, <2>3, <2>4
  <2> QED BY <2>5 DEF Words, full
<1> QED BY <1>1, <1>2, <1>3, <1>4

(* No helper that computes an amount to shift an i32 by shifts by the width *)
(* or more, at every width and for every operand: not in an arm whose       *)
(* result a select discards either, as both arms are computed. The one      *)
(* exception is the 0 of i32 to f32, for which the amount is out of range.  *)
THEOREM ShiftsInRange == Spec => []ShiftsDefined
<1>1. CallInv => ShiftsDefined
  <2> SUFFICES ASSUME CallInv PROVE ShiftsDefined
    OBVIOUS
  <2>1. ASSUME pc = "floatReturned", call.op \in {"fix32", "float32", "fround"}
        PROVE  call \in Unary
    BY <2>1 DEF CallInv, Called, Binary, Unary, Arithmetic, Compares, Roundings, FromInts,
                ToInts, Widths
  <2>2. ASSUME Returned({"fix32"}), call.fmt = "f32"
        PROVE  InRange({FloatToInt32Shifts(arg1).left, FloatToInt32Shifts(arg1).right})
    BY <2>1, <2>2, UnaryOperands, FloatToInt32InRange DEF Returned
  <2>3. ASSUME Returned({"fix32"}), call.fmt = "f64"
        PROVE  InRange({DoubleToInt32Shifts(arg1).big, DoubleToInt32Shifts(arg1).left,
                        DoubleToInt32Shifts(arg1).right})
    BY <2>1, <2>3, UnaryOperands, DoubleToInt32InRange DEF Returned
  <2>4. ASSUME Returned({"float32"})
        PROVE  LET shift == Int32ToFloatShifts(call.kind = "signed", arg1)
               IN  InRange({shift.left, shift.right, shift.right - 1}) <=> arg1 # 0
    <3>1. CASE arg1 # 0
      BY <2>1, <2>4, <3>1, UnaryOperands, Int32ToFloatInRange DEF Returned
    <3>2. CASE arg1 = 0
      BY <3>2, ZeroOutOfRange DEF InRange
    <3> QED BY <3>1, <3>2
  <2>5. ASSUME Returned({"float32"})
        PROVE  LET shift == Int32ToDoubleShifts(call.kind = "signed", arg1)
               IN  InRange({shift.left, shift.right, shift.big})
    BY <2>1, <2>5, UnaryOperands, Int32ToDoubleInRange DEF Returned
  <2>6. ASSUME Returned({"fround"}), call.fmt = "f32"
        PROVE  InRange({FRoundShifts(arg1).frac, FRoundShifts(arg1).guard})
    BY <2>1, <2>6, UnaryOperands, FRoundInRange DEF Returned
  <2>7. ASSUME Returned({"add", "sub"}), call.fmt = "f32"
        PROVE  LET s == Aligned(F32, arg1, Addend)
               IN  InRange({AlignShift(F32, arg1, Addend), NormaliseShift(F32, s.re, s.sum)})
    <3> DEFINE b == Addend
               s == Aligned(F32, arg1, b)
    <3>1. pc = "floatReturned" /\ call.op \in {"add", "sub"}
      BY <2>7 DEF Returned
    <3>2. fmt = F32 /\ F32.w = IntBits
      BY <2>7, FormatParts DEF fmt
    <3>3. arg1 \in Words(IntBits) /\ b \in Words(IntBits)
      BY <3>1, <3>2, AddOperands
    <3> HIDE DEF b
    <3>4. s.re \in Int /\ s.sum \in Words(IntBits)
      BY <3>3, AlignedInt
    <3> HIDE DEF s
    <3>5. AlignShift(F32, arg1, b) \in 0..(IntBits - 1)
          /\ NormaliseShift(F32, s.re, s.sum) \in 0..(IntBits - 1)
      BY <3>3, <3>4, AlignInRange, NormaliseInRange
    <3> QED BY <3>5 DEF InRange, s, b
  <2> QED BY <2>2, <2>3, <2>4, <2>5, <2>6, <2>7 DEF ShiftsDefined
<1> QED BY <1>1, CallInvariant, PTL

(* The sum and the difference of floats and of doubles of every width are   *)
(* the exact ones rounded once, however far apart the exponents and however *)
(* much cancels; two zeros give a zero. Only sums that round below the      *)
(* smallest normal number are left out: the code packs those wrongly.       *)
THEOREM AddsRight == Spec => []AddRight
<1>1. CallInv => AddRight
  <2> SUFFICES ASSUME CallInv, pc = "floatReturned", call.op \in {"add", "sub"},
                      ~SumUnderflows(fmt, arg1, Addend)
               PROVE  \/ out = RefAdd(fmt, arg1, Addend)
                      \/ IsZero(fmt, arg1) /\ IsZero(fmt, Addend) /\ IsZero(fmt, out)
    BY DEF AddRight, Returned
  <2> QED BY AddOperands, AddIsRight
<1> QED BY <1>1, CallInvariant, PTL

(* The product of floats and of doubles of every width is the exact product *)
(* of their mantissas rounded once, whichever of its two places the leading *)
(* bit is in, and zeros, infinities and NaNs override it as they should.    *)
THEOREM MultipliesRight == Spec => []MulRight
<1>1. CallInv => MulRight
  <2> SUFFICES ASSUME CallInv, pc = "floatReturned", call.op \in {"mul"}
               PROVE  out = RefMul(fmt, arg1, arg2)
    BY DEF MulRight, Returned
  <2>1. call \in Binary
    BY DEF CallInv, Called, Binary, Unary, Arithmetic, Compares, Roundings, FromInts, ToInts, Widths
  <2>2. out = IF call.fmt = "f32" THEN MulSf3(arg1, arg2) ELSE MulDf3(arg1, arg2)
    BY <2>1, BinaryOperands DEF Apply2
  <2>3. CASE call.fmt = "f32"
    BY <2>1, <2>2, <2>3, BinaryOperands, MulSf3Right
  <2>4. CASE call.fmt = "f64"
    BY <2>1, <2>2, <2>4, BinaryOperands, MulDf3Right
  <2> QED BY <2>1, <2>3, <2>4, BinaryOperands
<1> QED BY <1>1, CallInvariant, PTL

(* The quotient of floats and of doubles of every width is the exact        *)
(* quotient of their mantissas, long division's last remainder kept as a    *)
(* sticky bit, rounded once; zeros, infinities and NaNs override it.        *)
THEOREM DividesRight == Spec => []QuotientRight
<1>1. CallInv => QuotientRight
  <2> SUFFICES ASSUME CallInv, pc = "floatReturned", call.op \in {"div"}
               PROVE  out = RefDiv(fmt, arg1, arg2)
    BY DEF QuotientRight, Returned
  <2>1. call \in Binary
    BY DEF CallInv, Called, Binary, Unary, Arithmetic, Compares, Roundings, FromInts, ToInts, Widths
  <2>2. out = IF call.fmt = "f32" THEN DivSf3(arg1, arg2) ELSE DivDf3(arg1, arg2)
    BY <2>1, BinaryOperands DEF Apply2
  <2>3. CASE call.fmt = "f32"
    BY <2>1, <2>2, <2>3, BinaryOperands, DivSf3Right
  <2>4. CASE call.fmt = "f64"
    BY <2>1, <2>2, <2>4, BinaryOperands, DivDf3Right
  <2> QED BY <2>1, <2>3, <2>4, BinaryOperands
<1> QED BY <1>1, CallInvariant, PTL

-----------------------------------------------------------------------------
(* Results are words. Specials, and a sign, an exponent and a mantissa of   *)
(* any value packed together, make a word of the format.                    *)
LEMMA SpecialWords ==
  ASSUME NEW f \in {F32, F64}, NEW s \in {0, 1}
  PROVE  /\ 0 \in Words(f.w) /\ Zero(f, s) \in Words(f.w) /\ Inf(f, s) \in Words(f.w)
         /\ QNaN(f) \in Words(f.w)
         /\ \A e \in Int, man \in Int : Pack(f, s, e, man) \in Words(f.w)
         /\ \A e \in Int, man \in Int : Fitted(f, s, e, man) \in Words(f.w)
<1>1. MaxExp(f) \in Int /\ f.m \in Nat
  <2>1. Bias(f) \in Nat /\ MaxExp(f) = 2 * Bias(f) + 1 /\ f.m \in Nat
    BY MantissaUnits
  <2> QED BY <2>1
<1>2. \A e \in Int, man \in Int : Pack(f, s, e, man) \in Words(f.w)
  BY PackIs
<1>3. Zero(f, s) \in Words(f.w) /\ Inf(f, s) \in Words(f.w)
  BY <1>1, <1>2 DEF Zero, Inf
<1>4. QNaN(f) \in Words(f.w)
  <2>1. f.m - 1 \in 0..WideBits
    <3>1. f.m \in Nat /\ f.m >= 1 /\ f.m + 5 =< f.w /\ f.w =< WideBits /\ f.w \in Nat /\ WideBits \in Nat
      BY GuardedWord, FormatOf
    <3> DEFINE m == f.m
               w == f.w
    <3> HIDE DEF m, w
    <3> QED BY <3>1 DEF m, w
  <2> DEFINE j == f.m - 1
  <2>2. j \in 0..WideBits
    BY <2>1
  <2> HIDE DEF j
  <2> DEFINE half == 2^j
  <2>3. half \in Int
    BY <2>2, WidePowers
  <2> DEFINE zero == 0
             top == MaxExp(f)
  <2>4. QNaN(f) = Pack(f, zero, top, half)
    BY DEF QNaN, j
  <2>5. zero \in {0, 1} /\ top \in Int
    BY <1>1
  <2> HIDE DEF half, zero, top
  <2>6. \A e \in Int, man \in Int : Pack(f, zero, e, man) \in Words(f.w)
    BY <2>5, PackIs
  <2> QED BY <2>3, <2>4, <2>5, <2>6
<1>5. \A e \in Int, man \in Int : Fitted(f, s, e, man) \in Words(f.w)
  BY <1>2, <1>3 DEF Fitted
<1>6. 0 \in Words(f.w)
  <2>1. 2^f.w \in Nat \ {0}
    BY FormatOf
  <2> DEFINE full == 2^f.w
  <2> HIDE DEF full
  <2>2. 0 \in 0..(full - 1)
    BY <2>1 DEF full
  <2> QED BY <2>2 DEF full, Words
<1> QED BY <1>2, <1>3, <1>4, <1>5, <1>6

(* Rounding makes an integer of an integer.                                 *)
LEMMA RoundedInt ==
  ASSUME NEW f \in {F32, F64}, NEW kept \in Nat, NEW guard, NEW sticky,
         NEW l, l = RoundNearest(f, kept, guard, sticky)
  PROVE  l.man \in Int /\ l.bump \in {0, 1}
<1> DEFINE up == IF guard = 1 /\ (sticky \/ kept % 2 = 1) THEN kept + 1 ELSE kept
           half == LShr(up, 1)
<1>1. up \in Nat
  OBVIOUS
<1>2. half \in Int
  <2> HIDE DEF up
  <2>1. 2^1 = 2
    BY WidePowers DEF PowersDouble
  <2> QED BY <1>1, <2>1 DEF LShr
<1>3. l = IF up = 2^(f.m + 1) THEN [man |-> half, bump |-> 1] ELSE [man |-> up, bump |-> 0]
  BY DEF RoundNearest
<1> HIDE DEF up, half
<1> QED BY <1>1, <1>2, <1>3

(* A shift by the word operations of a format makes a natural number.       *)
LEMMA ShiftedInt ==
  ASSUME NEW f \in {F32, F64}, NEW v \in Words(f.w), NEW k \in 0..(f.w - 1)
  PROVE  LslF(f, v, k) \in Nat
<1>1. F32.w = IntBits /\ F64.w = 2 * IntBits /\ IntBits \in Nat /\ IntBits >= 5
  BY FormatParts, IntPowers
<1>2. \A b \in Nat, j \in 0..IntBits : Shl(IntBits, b, j) \in Nat /\ LShr(b, j) \in Nat
  <2> TAKE b \in Nat, j \in 0..IntBits
  <2> DEFINE u == 2^j
             t == 2^(IntBits - j)
  <2>1. u \in Nat \ {0} /\ t \in Nat \ {0}
    <3>1. IntBits - j \in 0..WideBits /\ j \in 0..WideBits
      BY <1>1 DEF WideBits
    <3> QED BY <3>1, WidePowers
  <2> HIDE DEF u, t
  <2>2. (b % t) * u \in Nat /\ b \div u \in Nat
    BY <2>1
  <2> QED BY <2>2 DEF Shl, LShr, u, t
<1>3. CASE f # F64
  <2>1. v \in Nat /\ k \in 0..IntBits /\ LslF(f, v, k) = Shl(IntBits, v, k)
    <3>1. v \in Nat
      BY FloatParts
    <3> QED BY <1>1, <1>3, <3>1 DEF LslF
  <2> QED BY <1>2, <2>1
<1>4. CASE f = F64
  <2> DEFINE p == 2^IntBits
             hi == HiHalf(v)
             lo == LoHalf(v)
             big == k >= IntBits
             cross == IF k = 0 THEN 0 ELSE LShr(lo, Clamp31(IF big THEN 0 ELSE IntBits - k))
             left == Clamp31(IF big THEN 1 ELSE k)
             rest == Clamp31(IF big THEN k - IntBits ELSE 0)
  <2>1. p \in Nat \ {0} /\ v \in Nat
    BY IntPowers, FloatParts
  <2>2. hi \in Nat /\ lo \in Nat
    <3>1. hi = v \div p /\ lo = v % p
      BY DEF HiHalf, LoHalf, LShr, Low
    <3> HIDE DEF p, hi, lo
    <3> QED BY <2>1, <3>1
  <2>3. k \in Nat
    BY <1>1, <1>4
  <2>4. left \in 0..IntBits /\ rest \in 0..IntBits
        /\ Clamp31(IF big THEN 0 ELSE IntBits - k) \in 0..IntBits
    BY <1>1, <2>3 DEF Clamp31
  <2>5. cross \in Nat
    <3> HIDE DEF lo
    <3> QED BY <1>2, <2>2, <2>4
  <2>6. ShlPair(v, k) = IF big THEN Pair(Shl(IntBits, lo, rest), 0)
                        ELSE Pair(Shl(IntBits, hi, left) + cross, Shl(IntBits, lo, left))
    BY DEF ShlPair
  <2> HIDE DEF cross, left, rest, big, hi, lo
  <2>7. Shl(IntBits, lo, rest) \in Nat /\ Shl(IntBits, hi, left) \in Nat /\ Shl(IntBits, lo, left) \in Nat
    BY <1>2, <2>2, <2>4
  <2>8. \A c \in Nat, b \in Nat : Pair(c, b) \in Nat
    <3> TAKE c \in Nat, b \in Nat
    <3>1. c * p + b \in Nat
      <4> HIDE DEF p
      <4> QED BY <2>1
    <3> QED BY <3>1 DEF Pair
  <2>9. ShlPair(v, k) \in Nat
    <3>1. 0 \in Nat /\ Shl(IntBits, hi, left) + cross \in Nat
      BY <2>5, <2>7
    <3> QED BY <2>6, <2>7, <2>8, <3>1
  <2> QED BY <1>4, <2>9 DEF LslF
<1> QED BY <1>3, <1>4


(* Whatever it is normalised to, a sum has an exponent and a mantissa.      *)
LEMMA NormalisedInt ==
  ASSUME NEW f \in {F32, F64}, NEW E \in Int, NEW v \in Words(f.w) \ {0},
         NEW x2, x2 = Normalised(f, E, v)
  PROVE  x2.re \in Int /\ x2.man \in Nat
<1> DEFINE m == f.m
           w == f.w
           normal == w - m - 4
           lz == CtlzF(f, v)
           a == lz - normal
           b == Sub(IntBits, E, 1)
           c == m + 3
           shift == NormaliseShift(f, E, v)
           low == v % 2 = 1
           half == LShr(v, 1)
           one == [re |-> E + 1, man |-> OrBit(half, low)]
           two == [re |-> E - shift, man |-> LslF(f, v, shift)]
           three == [re |-> E, man |-> v]
<1>1. m \in Nat /\ m + 5 =< w /\ w \in Nat /\ v \in Nat
  BY GuardedWord, FloatParts
<1>2. lz \in Int
  BY FormatZeros
<1>3. b \in Nat
  <2> DEFINE full == 2^IntBits
  <2>1. full \in Nat \ {0}
    BY IntPowers
  <2> HIDE DEF full
  <2>2. (E - 1) % full \in Nat
    BY <2>1
  <2> QED BY <2>2 DEF Sub, full
<1>4. x2 = CASE lz = normal - 1 -> one [] lz > normal -> two [] OTHER -> three
  BY Zenon DEF Normalised
<1>5. OrBit(half, low) \in Nat
  <2>1. half \in Nat
    <3>1. 2^1 = 2
      BY WidePowers DEF PowersDouble
    <3> QED BY <1>1, <3>1 DEF LShr
  <2>2. low \in BOOLEAN
    OBVIOUS
  <2> HIDE DEF half, low
  <2> QED BY <2>1, <2>2, OrBitIs
<1>6. ASSUME lz > normal PROVE E - shift \in Int /\ LslF(f, v, shift) \in Nat
  <2>1. a \in Int /\ c \in Int /\ a >= 1 /\ c < w
    <3> HIDE DEF m, w, lz
    <3> QED BY <1>1, <1>2, <1>6
  <2>2. shift \in {a, b, c} /\ shift =< c
    <3>1. shift = Least({a, b, c})
      BY <1>6 DEF NormaliseShift
    <3> HIDE DEF a, b, c, shift
    <3>2. a \in Int /\ b \in Int /\ c \in Int
      BY <1>3, <2>1
    <3> QED BY <3>1, <3>2, LeastOfThree
  <2>3. shift \in 0..(f.w - 1) /\ shift \in Int
    <3>1. shift \in 0..(w - 1)
      <4>1. c >= 0 /\ c < w
        <5> HIDE DEF m, w
        <5> QED BY <1>1
      <4> HIDE DEF a, b, c, shift, w
      <4> QED BY <1>1, <1>3, <2>1, <2>2, <4>1
    <3> HIDE DEF shift
    <3> QED BY <1>1, <3>1
  <2> HIDE DEF shift
  <2> QED BY <2>3, ShiftedInt
<1> HIDE DEF lz, normal, shift, half, low, one, two, three
<1>7. x2 = one \/ x2 = three \/ (lz > normal /\ x2 = two)
  BY <1>4
<1>8. CASE x2 = one
  BY <1>5, <1>8 DEF one
<1>9. CASE x2 = three
  BY <1>1, <1>9 DEF three
<1>10. CASE lz > normal /\ x2 = two
  BY <1>6, <1>10 DEF two
<1> QED BY <1>7, <1>8, <1>9, <1>10

(* The word of a mantissa cut after k bits.                                 *)
LEMMA CutInt ==
  ASSUME NEW v \in Nat, NEW k \in 0..WideBits
  PROVE  LShr(v, k) \in Nat
<1> DEFINE u == 2^k
<1>1. u \in Nat \ {0}
  BY WidePowers
<1> HIDE DEF u
<1>2. v \div u \in Nat
  BY <1>1
<1> QED BY <1>2 DEF LShr, u

(* A sum is a word, also one below the smallest normal number.              *)
LEMMA AddTyped ==
  ASSUME NEW f \in {F32, F64}, NEW a \in Words(f.w), NEW b \in Words(f.w)
  PROVE  AddSpecial(f, a, b, AddFinite(f, a, b)) \in Words(f.w)
<1> DEFINE s == Aligned(f, a, b)
           x2 == Normalised(f, s.re, s.sum)
           g == Greater(f, a, b)
           sig == SumSig(f, a, b)
           t == SumRest(f, a, b)
           v == OrBit(sig, t)
           kept == LShr(x2.man, 3)
           guard == Bit(x2.man, 2)
           sticky == Low(x2.man, 2) # 0
           rnd == RoundNearest(f, kept, guard, sticky)
           re == x2.re + rnd.bump
<1>1. /\ s.re = ExpOf(f, g) /\ s.sign = Sign(f, g) /\ s.same = (Sign(f, a) = Sign(f, b))
      /\ s.sum = v
  BY AlignedIs
<1>2. sig \in Nat /\ t \in BOOLEAN /\ (v = 0 <=> sig = 0) /\ (Sign(f, a) = Sign(f, b) => sig # 0)
  BY SumVanishes
<1>3. v \in Words(f.w)
  <2> DEFINE p == 2^f.m
             full == 2^f.w
  <2>1. sig < 32 * p /\ p \in Nat \ {0} /\ 32 * p =< full
    BY SumSigIs, GuardedWord
  <2>2. v \in Nat /\ v \div 2 = sig \div 2
    BY <1>2, OrBitIs
  <2>3. full \in Nat
    BY FormatOf
  <2> HIDE DEF p, full, v, sig
  <2>4. v \in 0..(full - 1)
    BY <1>2, <2>1, <2>2, <2>3
  <2> QED BY <2>4 DEF Words, full
<1>4. g \in Words(f.w)
  BY SumOrder
<1>5. s.sign \in {0, 1} /\ s.re \in Int
  <2>1. Sign(f, g) \in {0, 1} /\ ExpOf(f, g) \in Int
    <3>1. MaxExp(f) \in Int
      <4>1. Bias(f) \in Nat /\ MaxExp(f) = 2 * Bias(f) + 1
        BY MantissaUnits
      <4> QED BY <4>1
    <3> HIDE DEF g
    <3>2. Sign(f, g) \in {0, 1} /\ ExpOf(f, g) \in 0..MaxExp(f)
      BY <1>4, FloatParts
    <3> QED BY <3>1, <3>2
  <2> QED BY <1>1, <2>1
<1>6. AddFinite(f, a, b) =
        IF ~s.same /\ s.sum = 0 THEN 0
        ELSE IF IsZero(f, b) THEN a
        ELSE IF IsZero(f, a) THEN b
        ELSE IF re >= MaxExp(f) THEN Inf(f, s.sign)
        ELSE Pack(f, s.sign, re, rnd.man)
  BY DEF AddFinite
<1>7. ASSUME s.sum # 0 PROVE re \in Int /\ rnd.man \in Int
  <2>1. s.sum \in Words(f.w) \ {0}
    BY <1>1, <1>3, <1>7
  <2>2. x2.re \in Int /\ x2.man \in Nat
    <3> HIDE DEF s
    <3> QED BY <1>5, <2>1, NormalisedInt
  <2>3. kept \in Nat
    <3>1. 3 \in 0..WideBits
      BY IntPowers DEF WideBits
    <3> DEFINE three == 3
    <3>2. three \in 0..WideBits /\ kept = LShr(x2.man, three)
      BY <3>1
    <3> HIDE DEF three, kept, x2
    <3> QED BY <2>2, <3>2, CutInt
  <2> HIDE DEF kept, guard, sticky
  <2>4. rnd.man \in Int /\ rnd.bump \in {0, 1}
    <3> DEFINE l == rnd
    <3>1. l = RoundNearest(f, kept, guard, sticky)
      OBVIOUS
    <3> HIDE DEF l
    <3>2. l.man \in Int /\ l.bump \in {0, 1}
      BY <2>3, <3>1, RoundedInt
    <3> QED BY <3>2 DEF l
  <2> HIDE DEF rnd, x2
  <2> QED BY <2>2, <2>4
<1>8. ~(~s.same /\ s.sum = 0) => s.sum # 0
  BY <1>1, <1>2
<1> HIDE DEF s, rnd, re
<1>9. AddFinite(f, a, b) \in Words(f.w)
  <2>1. /\ 0 \in Words(f.w) /\ Inf(f, s.sign) \in Words(f.w)
        /\ \A e \in Int, man \in Int : Pack(f, s.sign, e, man) \in Words(f.w)
    <3> DEFINE sg == s.sign
    <3>1. sg \in {0, 1}
      BY <1>5
    <3> HIDE DEF sg
    <3>2. /\ 0 \in Words(f.w) /\ Inf(f, sg) \in Words(f.w)
          /\ \A e \in Int, man \in Int : Pack(f, sg, e, man) \in Words(f.w)
      BY <3>1, SpecialWords
    <3> QED BY <3>2 DEF sg
  <2> QED BY <1>6, <1>7, <1>8, <2>1
<1>10. QNaN(f) \in Words(f.w)
  <2> DEFINE zero == 0
  <2>1. zero \in {0, 1}
    OBVIOUS
  <2> HIDE DEF zero
  <2> QED BY <2>1, SpecialWords
<1> QED BY <1>9, <1>10 DEF AddSpecial


(* A product is a word.                                                     *)
LEMMA MulTyped ==
  ASSUME NEW f \in {F32, F64}, NEW a \in Words(f.w), NEW b \in Words(f.w), NEW prod,
         prod.high \in Nat, prod.low \in Nat
  PROVE  MulSpecial(f, a, b, MulFinite(f, prod, a, b)) \in Words(f.w)
<1> DEFINE caseA == Bit(prod.high, 2 * f.m + 1 - f.w) = 1
           cut == IF caseA THEN f.m + 1 ELSE f.m
           up == f.w - cut
           kept == Shl(f.w, prod.high, up) + LShr(prod.low, cut)
           guard == Bit(prod.low, cut - 1)
           sticky == Low(prod.low, cut - 1) # 0
           rnd == RoundNearest(f, kept, guard, sticky)
           er == ExpOf(f, a) + ExpOf(f, b) - Bias(f) + (IF caseA THEN 1 ELSE 0) + rnd.bump
           sr == SignXor(f, a, b)
<1>1. /\ f.m \in Nat /\ f.m + 5 =< f.w /\ f.w \in Nat /\ f.w =< WideBits /\ WideBits \in Nat
      /\ Bias(f) \in Nat
  BY GuardedWord, MantissaUnits
<1>2. cut \in 0..WideBits /\ up \in 0..WideBits /\ f.w - up = cut
  <2> DEFINE m == f.m
             w == f.w
  <2> HIDE DEF m, w, caseA
  <2>1. m \in Nat /\ m + 5 =< w /\ w \in Nat /\ w =< WideBits /\ WideBits \in Nat
    BY <1>1 DEF m, w
  <2>2. cut = m \/ cut = m + 1
    BY DEF m
  <2> HIDE DEF cut
  <2>3. cut \in 0..WideBits /\ w - cut \in 0..WideBits /\ w - (w - cut) = cut
    BY <2>1, <2>2
  <2> QED BY <2>3 DEF w
<1>3. kept \in Nat
  <2>1. LShr(prod.low, cut) \in Nat
    <3> DEFINE j == cut
               v == prod.low
    <3>1. j \in 0..WideBits /\ v \in Nat
      BY <1>2
    <3> HIDE DEF j, v
    <3>2. LShr(v, j) \in Nat
      BY <3>1, CutInt
    <3> QED BY <3>2 DEF v, j
  <2>2. Shl(f.w, prod.high, up) \in Nat
    <3> DEFINE u == 2^up
               t == 2^cut
               v == prod.high
    <3>1. u \in Nat \ {0} /\ t \in Nat \ {0}
      <4> HIDE DEF cut, up
      <4> QED BY <1>2, WidePowers
    <3>2. Shl(f.w, prod.high, up) = (v % t) * u
      BY <1>2 DEF Shl
    <3>3. v \in Nat
      OBVIOUS
    <3> HIDE DEF u, t, v
    <3>4. (v % t) * u \in Nat
      BY <3>1, <3>3
    <3> QED BY <3>2, <3>4
  <2> QED BY <2>1, <2>2
<1> HIDE DEF kept, guard, sticky
<1>4. rnd.man \in Int /\ rnd.bump \in {0, 1}
  <2> DEFINE l == rnd
  <2>1. l = RoundNearest(f, kept, guard, sticky)
    OBVIOUS
  <2> HIDE DEF l
  <2>2. l.man \in Int /\ l.bump \in {0, 1}
    BY <1>3, <2>1, RoundedInt
  <2> QED BY <2>2 DEF l
<1>5. MulFinite(f, prod, a, b) =
        IF IsZero(f, a) \/ IsZero(f, b) \/ er =< 0 THEN Zero(f, sr)
        ELSE IF er >= MaxExp(f) THEN Inf(f, sr)
        ELSE Pack(f, sr, er, rnd.man)
  BY DEF MulFinite, kept, guard, sticky
<1> HIDE DEF rnd
<1>6. er \in Int
  <2>1. ExpOf(f, a) \in Nat /\ ExpOf(f, b) \in Nat /\ Bias(f) \in Nat
    BY Exponents, FormatOf
  <2> QED BY <1>4, <2>1
<1>7. sr \in {0, 1}
  BY DEF SignXor
<1> HIDE DEF er, sr
<1>8. QNaN(f) \in Words(f.w) /\ Zero(f, sr) \in Words(f.w) /\ Inf(f, sr) \in Words(f.w)
      /\ \A e \in Int, man \in Int : Pack(f, sr, e, man) \in Words(f.w)
  BY <1>7, SpecialWords
<1>9. MulFinite(f, prod, a, b) \in Words(f.w)
  BY <1>4, <1>5, <1>6, <1>8
<1> HIDE DEF sr
<1> QED BY <1>8, <1>9 DEF MulSpecial, sr

(* A quotient is a word.                                                    *)
LEMMA DivTyped ==
  ASSUME NEW f \in {F32, F64}, NEW a \in Words(f.w), NEW b \in Words(f.w)
  PROVE  DivSpecial(f, a, b, DivFinite(f, a, b)) \in Words(f.w)
<1> DEFINE p == 2^f.m
           ha == Hidden(f, a)
           hb == Hidden(f, b)
           renorm == ~UgeF(f, ha, hb)
           num == IF renorm THEN 2 * ha ELSE ha
           loop == DivLoop(f, hb, num - hb)
           last == DivStep(f, hb, loop)
           guard == Bit(last.q, 0)
           sticky == last.r # 0
           kept == loop.q
           rnd == RoundNearest(f, kept, guard, sticky)
           er == ExpOf(f, a) - ExpOf(f, b) + Bias(f) - (IF renorm THEN 1 ELSE 0) + rnd.bump
           sr == SignXor(f, a, b)
<1>1. p \in Nat \ {0} /\ ha \in p..(2 * p - 1) /\ hb \in p..(2 * p - 1)
  BY FormatOf, FloatParts
<1>2. renorm <=> ha < hb
  <2>1. ha \in Words(f.w) /\ hb \in Words(f.w)
    BY HiddenIsWord
  <2>2. ha \in Nat /\ hb \in Nat
    <3> HIDE DEF ha, hb, p
    <3> QED BY <1>1
  <2> HIDE DEF ha, hb
  <2>3. CASE f = F64
    <3>1. F64.w = 2 * IntBits
      BY FormatParts
    <3>2. UgePair(ha, hb) <=> ~(ha < hb)
      BY <2>1, <2>2, <2>3, <3>1, ComparePairs
    <3> QED BY <2>2, <2>3, <3>2 DEF UgeF
  <2>4. CASE f # F64
    BY <2>2, <2>4 DEF UgeF
  <2> QED BY <2>3, <2>4
<1>3. num \in hb..(2 * hb - 1)
  <2> HIDE DEF p, ha, hb, renorm
  <2> QED BY <1>1, <1>2
<1>4. kept \in Nat
  <2> DEFINE l == loop
  <2>1. l = DivLoop(f, hb, num - hb)
    OBVIOUS
  <2> HIDE DEF l, ha, hb, num
  <2>2. l.q \in Nat
    BY <1>1, <1>3, <2>1, DivLoopIs
  <2> QED BY <2>2 DEF l
<1> HIDE DEF kept, guard, sticky
<1>5. rnd.man \in Int /\ rnd.bump \in {0, 1}
  <2> DEFINE l == rnd
  <2>1. l = RoundNearest(f, kept, guard, sticky)
    OBVIOUS
  <2> HIDE DEF l
  <2>2. l.man \in Int /\ l.bump \in {0, 1}
    BY <1>4, <2>1, RoundedInt
  <2> QED BY <2>2 DEF l
<1>6. DivFinite(f, a, b) =
        IF IsZero(f, b) THEN Inf(f, sr)
        ELSE IF IsZero(f, a) \/ er =< 0 THEN Zero(f, sr)
        ELSE IF er >= MaxExp(f) THEN Inf(f, sr)
        ELSE Pack(f, sr, er, rnd.man)
  BY DEF DivFinite, kept, guard, sticky
<1> HIDE DEF rnd, renorm
<1>7. er \in Int
  <2>1. ExpOf(f, a) \in Nat /\ ExpOf(f, b) \in Nat /\ Bias(f) \in Nat
    BY Exponents, FormatOf
  <2> QED BY <1>5, <2>1
<1>8. sr \in {0, 1}
  BY DEF SignXor
<1> HIDE DEF er, sr
<1>9. QNaN(f) \in Words(f.w) /\ Zero(f, sr) \in Words(f.w) /\ Inf(f, sr) \in Words(f.w)
      /\ \A e \in Int, man \in Int : Pack(f, sr, e, man) \in Words(f.w)
  BY <1>8, SpecialWords
<1>10. DivFinite(f, a, b) \in Words(f.w)
  BY <1>5, <1>6, <1>7, <1>9
<1> DEFINE fin == DivFinite(f, a, b)
           sum == DivSpecial(f, a, b, fin)
           nan == IsNaN(f, a) \/ IsNaN(f, b) \/ (IsInf(f, a) /\ IsInf(f, b)) \/ (IsZero(f, a) /\ IsZero(f, b))
<1>11. sum = CASE nan -> QNaN(f)
               [] IsInf(f, a) /\ ~IsInf(f, b) /\ ~IsNaN(f, b) -> Inf(f, sr)
               [] IsInf(f, b) /\ ~IsInf(f, a) /\ ~IsNaN(f, a) -> Zero(f, sr)
               [] OTHER -> fin
  BY Zenon DEF DivSpecial, sr
<1> HIDE DEF fin, sum, nan
<1>12. sum \in {QNaN(f), Inf(f, sr), Zero(f, sr), fin}
  BY <1>11
<1> QED BY <1>9, <1>10, <1>12 DEF fin, sum


(* The number nearest to one of any length is a word.                       *)
LEMMA NearestWord ==
  ASSUME NEW f \in {F32, F64}, NEW s \in {0, 1}, NEW e \in Int, NEW sig \in Nat, NEW inexact,
         NEW k \in 0..WideBits, 2^k =< sig, sig < 2 * 2^k
  PROVE  Nearest(f, s, e, sig, inexact).word \in Words(f.w)
<1> DEFINE drop == BitLength(sig) - (f.m + 1)
           kept == Magnify(sig, -drop)
           rest == IF drop > 0 THEN sig % 2^drop ELSE 0
           half == IF drop > 0 THEN 2^(drop - 1) ELSE 1
           up == rest > half \/ (rest = half /\ (inexact \/ kept % 2 = 1))
           man == IF up THEN kept + 1 ELSE kept
           carry == IF man = 2^(f.m + 1) THEN 1 ELSE 0
           biased == e + drop + f.m + Bias(f) + carry
<1>1. f.m \in Nat /\ Bias(f) \in Nat /\ f.m + 5 =< WideBits /\ WideBits \in Nat
  <2>1. f.m \in Nat /\ Bias(f) \in Nat /\ f.m + 5 =< f.w /\ f.w =< WideBits /\ WideBits \in Nat /\ f.w \in Nat
    BY MantissaUnits, GuardedWord
  <2> DEFINE m == f.m
             w == f.w
  <2> HIDE DEF m, w
  <2>2. m + 5 =< WideBits
    BY <2>1 DEF m, w
  <2> QED BY <2>1, <2>2 DEF m
<1>2. BitLength(sig) = k + 1
  BY BitLengthIs
<1>3. drop = k - f.m /\ drop \in Int /\ (drop >= 0 => drop \in 0..WideBits) /\ (drop < 0 => -drop \in 0..WideBits)
  <2>1. drop = k + 1 - (f.m + 1)
    <3> DEFINE bits == BitLength(sig)
               m1 == f.m + 1
    <3>1. drop = bits - m1 /\ bits = k + 1 /\ m1 \in Int /\ k \in Int
      BY <1>1, <1>2
    <3> HIDE DEF drop, bits, m1
    <3>2. drop = k + 1 - m1
      BY <3>1
    <3> QED BY <3>2 DEF m1
  <2> HIDE DEF drop
  <2> DEFINE m == f.m
  <2> HIDE DEF m
  <2>2. m \in Nat /\ m + 5 =< WideBits /\ WideBits \in Nat /\ drop = k + 1 - (m + 1)
    BY <1>1, <2>1 DEF m
  <2>3. drop = k - m
    BY <2>2
  <2>4. drop \in Int /\ (drop >= 0 => drop \in 0..WideBits) /\ (drop < 0 => -drop \in 0..WideBits)
    BY <2>2, <2>3
  <2> QED BY <2>3, <2>4 DEF m
<1> HIDE DEF drop
<1>4. kept \in Nat
  <2> DEFINE back == -drop
  <2>1. back \in Int /\ (back >= 0 => back \in 0..WideBits) /\ (~(back >= 0) => -back \in 0..WideBits)
    BY <1>1, <1>3
  <2> HIDE DEF back
  <2>2. CASE back >= 0
    <3> DEFINE u == 2^back
    <3>1. u \in Nat
      BY <2>1, <2>2, WidePowers
    <3>2. Magnify(sig, back) = sig * u
      BY <2>2 DEF Magnify
    <3> HIDE DEF u
    <3>3. sig * u \in Nat
      BY <3>1
    <3> QED BY <3>2, <3>3 DEF back
  <2>3. CASE ~(back >= 0)
    <3> DEFINE j == -back
               u == 2^j
    <3>1. j \in 0..WideBits
      BY <2>1, <2>3
    <3>2. u \in Nat \ {0}
      <4> HIDE DEF j
      <4> QED BY <3>1, WidePowers
    <3>3. Magnify(sig, back) = sig \div u
      BY <2>3 DEF Magnify
    <3> HIDE DEF u
    <3>4. sig \div u \in Nat
      BY <3>2
    <3> QED BY <3>3, <3>4 DEF back
  <2> QED BY <2>2, <2>3
<1> HIDE DEF kept, rest, half
<1>5. man \in Int
  <2> HIDE DEF up
  <2> QED BY <1>4
<1>6. carry \in {0, 1}
  OBVIOUS
<1> HIDE DEF man, carry
<1>7. biased \in Int
  BY <1>1, <1>3, <1>6
<1>8. Nearest(f, s, e, sig, inexact).word =
        IF biased < 1 THEN Zero(f, s)
        ELSE IF biased >= MaxExp(f) THEN Inf(f, s)
        ELSE Pack(f, s, biased, man)
  BY DEF Nearest, drop, kept, rest, half, man, carry
<1> HIDE DEF biased
<1> QED BY <1>5, <1>7, <1>8, SpecialWords

(* So is the one nearest to an integer.                                     *)
LEMMA IntegerWord ==
  ASSUME NEW f \in {F32, F64}, NEW s \in {0, 1}, NEW v \in Words(2 * IntBits) \ {0}
  PROVE  Nearest(f, s, 0, v, FALSE).word \in Words(f.w)
<1> DEFINE k == 2 * IntBits - 1 - CtlzPair(v)
<1>1. k \in 0..(2 * IntBits - 1) /\ 2^k =< v /\ v < 2 * 2^k
  BY LeadingPair
<1>2. k \in 0..WideBits /\ v \in Nat
  <2>1. IntBits \in Nat /\ WideBits = 2 * IntBits + 2
    BY IntPowers DEF WideBits
  <2>2. F64.w = 2 * IntBits /\ F64 \in {F32, F64}
    BY FormatParts
  <2>3. v \in Words(F64.w)
    BY <2>2
  <2>4. v \in Nat
    BY <2>2, <2>3, FloatParts
  <2> HIDE DEF k
  <2> QED BY <1>1, <2>1, <2>4
<1> HIDE DEF k
<1> DEFINE e == 0
           no == FALSE
<1>3. e \in Int
  OBVIOUS
<1> HIDE DEF e, no
<1>4. Nearest(f, s, e, v, no).word \in Words(f.w)
  BY <1>1, <1>2, <1>3, NearestWord
<1> QED BY <1>4 DEF e, no

(* An integer made of a float is a word.                                    *)
LEMMA ToIntTyped ==
  ASSUME NEW f \in {F32, F64}, NEW w \in {IntBits, 2 * IntBits}, NEW signed \in BOOLEAN,
         NEW v \in Words(f.w)
  PROVE  RefToInt(f, w, signed, v) \in Words(w)
<1> DEFINE t == Truncated(f, w, v)
           k == IF Sign(f, v) = 1 THEN -t ELSE t
           least == IF signed THEN -(2^(w - 1)) ELSE 0
           most == IF signed THEN 2^(w - 1) - 1 ELSE 2^w - 1
           full == 2^w
           top == 2^(w - 1)
           kk == IF k < least THEN least ELSE IF k > most THEN most ELSE k
<1>1. full \in Nat \ {0} /\ top \in Nat \ {0} /\ w \in Nat
  <2>1. w \in 1..WideBits /\ w - 1 \in 0..WideBits
    BY IntPowers DEF WideBits
  <2>2. w \in 0..WideBits /\ w \in Nat
    BY <2>1, IntPowers DEF WideBits
  <2> DEFINE j == w - 1
  <2>3. j \in 0..WideBits
    BY <2>1
  <2> HIDE DEF j
  <2>4. 2^w \in Nat \ {0} /\ 2^j \in Nat \ {0}
    BY <2>2, <2>3, WidePowers
  <2> QED BY <2>2, <2>4 DEF j
<1>2. t \in Int
  <2> DEFINE j == ExpOf(f, v) - Bias(f)
             pj == 2^j
             pj2 == 2^(j + 1)
  <2>1. j < 0 => t = 0
    BY TruncatedIs
  <2>2. j \in 0..(w - 1) => t \in pj..(pj2 - 1)
    BY TruncatedIs
  <2>3. j >= w => t \in Nat
    BY TruncatedIs
  <2>4. j \in Int
    <3>1. ExpOf(f, v) \in Nat /\ Bias(f) \in Nat
      BY Exponents, FormatOf
    <3> QED BY <3>1
  <2> HIDE DEF j, pj, pj2, t
  <2>5. j < 0 \/ j \in 0..(w - 1) \/ j >= w
    BY <1>1, <2>4
  <2>6. j \in 0..(w - 1) => pj \in Int /\ pj2 \in Int
    <3> SUFFICES ASSUME j \in 0..(w - 1) PROVE pj \in Int /\ pj2 \in Int
      OBVIOUS
    <3>1. j \in 0..WideBits /\ j + 1 \in 0..WideBits
      BY IntPowers DEF WideBits
    <3> DEFINE j1 == j + 1
    <3>2. j1 \in 0..WideBits
      BY <3>1
    <3> HIDE DEF j1
    <3>3. 2^j \in Int /\ 2^j1 \in Int
      BY <3>1, <3>2, WidePowers
    <3> QED BY <3>3 DEF pj, pj2, j1
  <2> QED BY <2>1, <2>2, <2>3, <2>5, <2>6
<1> HIDE DEF t, full, top
<1>3. k \in Int
  BY <1>2
<1>4. least \in Int /\ most \in Int
  BY <1>1 DEF full, top
<1> HIDE DEF k, least, most
<1>5. kk \in Int
  BY <1>3, <1>4
<1>6. RefToInt(f, w, signed, v) = IF IsNaN(f, v) THEN 0 ELSE Word(w, kk)
  BY DEF RefToInt, t, k, least, most
<1> HIDE DEF kk
<1>7. kk % full \in 0..(full - 1) /\ 0 \in 0..(full - 1)
  BY <1>1, <1>5
<1> QED BY <1>6, <1>7 DEF Word, Words, full


(* A float made of an integer is a word.                                    *)
LEMMA FromIntTyped ==
  ASSUME NEW f \in {F32, F64}, NEW w \in {IntBits, 2 * IntBits}, NEW signed \in BOOLEAN,
         NEW v \in Words(w)
  PROVE  RefFromInt(f, w, signed, v) \in Words(f.w)
<1> DEFINE k == IF signed THEN Signed(w, v) ELSE v
           full == 2^w
           wide == 2^(2 * IntBits)
           top == 2^(w - 1)
<1>1. full \in Nat \ {0} /\ top \in Nat \ {0} /\ full = 2 * top /\ full =< wide /\ wide \in Nat
  <2>1. w - 1 \in 0..(WideBits - 1) /\ (w - 1) + 1 = w /\ w \in 0..(2 * IntBits) /\ 2 * IntBits \in 0..WideBits
    BY IntPowers DEF WideBits
  <2> DEFINE j == w - 1
             ww == 2 * IntBits
  <2>2. j \in 0..(WideBits - 1) /\ j + 1 = w /\ w \in 0..ww /\ ww \in 0..WideBits
    BY <2>1
  <2> HIDE DEF j, ww
  <2>3. 2^(j + 1) = 2 * 2^j
    BY <2>2, WidePowers DEF PowersDouble
  <2>4. 2^w =< 2^ww
    BY <2>2, PowerSplit
  <2>5. 2^j \in Nat \ {0} /\ 2^ww \in Nat
    <3>1. WideBits \in Nat
      BY IntPowers DEF WideBits
    <3>2. j \in 0..WideBits
      BY <2>2, <3>1
    <3> QED BY <2>2, <3>2, WidePowers
  <2>6. 2^w = 2 * 2^j
    BY <2>2, <2>3
  <2> DEFINE pj == 2^j
  <2> HIDE DEF pj
  <2>7. pj \in Nat \ {0} /\ 2^w = 2 * pj
    BY <2>5, <2>6 DEF pj
  <2>8. 2^w \in Nat \ {0}
    BY <2>7
  <2> QED BY <2>4, <2>5, <2>7, <2>8 DEF pj, j, ww
<1>2. v \in 0..(full - 1)
  BY DEF Words
<1>3. k = IF signed THEN (IF v < top THEN v ELSE v - full) ELSE v
  BY DEF Signed
<1> HIDE DEF full, top, wide
<1>4. k \in Int /\ k < full /\ -k < full
  <2> HIDE DEF k
  <2> QED BY <1>1, <1>2, <1>3
<1>5. \A l \in Int : l > 0 /\ l < full => l \in Words(2 * IntBits) \ {0}
  <2> TAKE l \in Int
  <2>1. l > 0 /\ l < full => l \in 0..(wide - 1) /\ l # 0
    BY <1>1
  <2> QED BY <2>1 DEF Words, wide
<1>9. RefFromInt(f, w, signed, v) =
        CASE k = 0 -> Zero(f, 0)
          [] k > 0 -> Nearest(f, 0, 0, k, FALSE).word
          [] k < 0 -> Nearest(f, 1, 0, -k, FALSE).word
  BY Zenon DEF RefFromInt
<1> HIDE DEF k
<1>6. CASE k = 0
  <2>1. RefFromInt(f, w, signed, v) = Zero(f, 0)
    BY <1>6, <1>9
  <2> DEFINE s == 0
  <2>2. s \in {0, 1} /\ RefFromInt(f, w, signed, v) = Zero(f, s)
    BY <2>1
  <2> HIDE DEF s
  <2> QED BY <2>2, SpecialWords
<1>7. CASE k > 0
  <2> DEFINE s == 0
  <2>1. RefFromInt(f, w, signed, v) = Nearest(f, s, 0, k, FALSE).word
    <3>1. k # 0 /\ ~(k < 0)
      BY <1>4, <1>7
    <3>2. RefFromInt(f, w, signed, v) = Nearest(f, 0, 0, k, FALSE).word
      BY <1>7, <1>9, <3>1, Zenon
    <3> QED BY <3>2
  <2>2. s \in {0, 1}
    OBVIOUS
  <2>3. k \in Words(2 * IntBits) \ {0}
    BY <1>4, <1>5, <1>7
  <2> HIDE DEF s
  <2> QED BY <2>1, <2>2, <2>3, IntegerWord
<1>8. CASE k < 0
  <2> DEFINE s == 1
             l == -k
  <2>1. RefFromInt(f, w, signed, v) = Nearest(f, s, 0, l, FALSE).word
    BY <1>4, <1>8, <1>9
  <2>2. s \in {0, 1} /\ l \in Int /\ l > 0 /\ l < full
    BY <1>4, <1>8
  <2> HIDE DEF s, l
  <2>3. l \in Words(2 * IntBits) \ {0}
    BY <1>5, <2>2
  <2> QED BY <2>1, <2>2, <2>3, IntegerWord
<1> QED BY <1>4, <1>6, <1>7, <1>8

(* A float rounded to an integer is a word.                                 *)
LEMMA RoundTyped ==
  ASSUME NEW f \in {F32, F64}, NEW kind \in Kinds, NEW v \in Words(f.w)
  PROVE  RefRound(f, kind, v) \in Words(f.w)
<1> DEFINE e == UnitExp(f, v)
           s == Sign(f, v)
           n1 == -e
           n2 == f.m + 2
           unit == 2^Least({n1, n2})
           sig == IF IsZero(f, v) THEN ManOf(f, v) ELSE Hidden(f, v)
           whole == sig \div unit
           rest == sig % unit
           up == CASE kind = "trunc" -> FALSE
                   [] kind = "floor" -> rest # 0 /\ s = 1
                   [] kind = "ceil"  -> rest # 0 /\ s = 0
                   [] kind = "round" -> 2 * rest >= unit
           int == IF up THEN whole + 1 ELSE whole
           p == 2^f.m
<1>1. /\ f.m \in Nat /\ f.m + 5 =< WideBits /\ WideBits \in Nat /\ p \in Nat \ {0} /\ e \in Int
      /\ s \in {0, 1}
  <2>1. f.m \in Nat /\ f.m + 5 =< f.w /\ f.w =< WideBits /\ WideBits \in Nat /\ f.w \in Nat /\ p \in Nat \ {0}
    BY GuardedWord
  <2> DEFINE m == f.m
             w == f.w
  <2>2. m + 5 =< WideBits
    <3> HIDE DEF m, w, p
    <3> QED BY <2>1 DEF m, w
  <2>3. e \in Int
    <3>1. ExpOf(f, v) \in Nat /\ Bias(f) \in Nat
      BY Exponents, FormatOf
    <3> QED BY <2>1, <3>1 DEF UnitExp
  <2>4. s \in {0, 1}
    BY FloatParts
  <2> QED BY <2>1, <2>2, <2>3, <2>4
<1>2. sig \in 0..(2 * p - 1)
  <2>1. ManOf(f, v) \in 0..(p - 1) /\ Hidden(f, v) \in p..(2 * p - 1)
    BY FloatParts
  <2> DEFINE mv == ManOf(f, v)
             hv == Hidden(f, v)
  <2> HIDE DEF p, mv, hv
  <2>2. mv \in 0..(2 * p - 1) /\ hv \in 0..(2 * p - 1)
    BY <1>1, <2>1 DEF mv, hv
  <2> QED BY <2>2 DEF mv, hv
<1>3. RefRound(f, kind, v) =
        IF e >= 0 THEN v
        ELSE IF int = 0 THEN Zero(f, s)
        ELSE Nearest(f, s, 0, int, FALSE).word
  BY Zenon DEF RefRound
<1>4. CASE e >= 0
  BY <1>3, <1>4
<1>5. CASE ~(e >= 0)
  <2>1. unit \in Nat \ {0}
    <3> DEFINE j == Least({n1, n2})
    <3>1. n1 \in Int /\ n2 \in Int /\ n1 >= 1 /\ n2 >= 1 /\ n2 =< WideBits
      <4> DEFINE m == f.m
      <4> HIDE DEF m, p, e
      <4>1. -e \in Int /\ -e >= 1 /\ m + 2 \in Int /\ m + 2 >= 1 /\ m + 2 =< WideBits
        BY <1>1, <1>5 DEF m
      <4> QED BY <4>1 DEF m
    <3> HIDE DEF n1, n2
    <3>2. j = IF n1 =< n2 THEN n1 ELSE n2
      BY <3>1, LeastOfTwo
    <3> HIDE DEF j
    <3>3. j \in 0..WideBits
      BY <1>1, <3>1, <3>2
    <3>4. 2^j \in Nat \ {0}
      BY <3>3, WidePowers
    <3> QED BY <3>4 DEF j
  <2> HIDE DEF unit, sig, e
  <2>2. whole \in 0..(2 * p - 1)
    <3> HIDE DEF p
    <3>1. sig \in Nat /\ whole \in Nat /\ whole =< sig
      BY <1>1, <1>2, <2>1
    <3> HIDE DEF whole
    <3> QED BY <1>1, <1>2, <3>1
  <2>3. int \in 0..(2 * p)
    <3> HIDE DEF p, whole, up
    <3> QED BY <1>1, <2>2
  <2> HIDE DEF int
  <2>4. int # 0 => int \in Words(2 * IntBits) \ {0}
    <3> DEFINE full == 2^f.w
               wide == 2^(2 * IntBits)
    <3>1. 32 * p =< full
      BY GuardedWord
    <3>2. full =< wide /\ full \in Nat /\ wide \in Nat
      <4>1. f.w \in 0..(2 * IntBits) /\ 2 * IntBits \in 0..WideBits
        <5>1. f.w \in Nat /\ f.w =< 2 * IntBits /\ IntBits \in Nat /\ WideBits = 2 * IntBits + 2
          BY GuardedWord, IntPowers DEF WideBits
        <5> DEFINE w == f.w
        <5> HIDE DEF w
        <5>2. w \in 0..(2 * IntBits) /\ 2 * IntBits \in 0..WideBits
          BY <5>1 DEF w
        <5> QED BY <5>2 DEF w
      <4> DEFINE w == f.w
                 ww == 2 * IntBits
      <4>2. w \in 0..ww /\ ww \in 0..WideBits
        BY <4>1
      <4> HIDE DEF w, ww
      <4>3. 2^w =< 2^ww
        BY <4>2, PowerSplit
      <4>4. 2^w \in Nat /\ 2^ww \in Nat
        <5>1. w \in 0..WideBits
          BY <1>1, <4>2
        <5> QED BY <4>2, <5>1, WidePowers
      <4> QED BY <4>3, <4>4 DEF w, ww
    <3> HIDE DEF full, wide, p
    <3>3. int # 0 => int \in 0..(wide - 1) /\ int # 0
      BY <1>1, <2>3, <3>1, <3>2
    <3> QED BY <3>3 DEF wide, Words
  <2> HIDE DEF s
  <2>5. Zero(f, s) \in Words(f.w)
    BY <1>1, SpecialWords
  <2>6. int # 0 => Nearest(f, s, 0, int, FALSE).word \in Words(f.w)
    BY <1>1, <2>4, IntegerWord
  <2> QED BY <1>3, <1>5, <2>5, <2>6
<1> QED BY <1>4, <1>5


(* A double cut to a float, and a float widened to a double, are words.     *)
LEMMA WidthTyped ==
  /\ \A v \in Words(2 * IntBits) : TruncDfSf2(v) \in Words(IntBits)
  /\ \A v \in Words(IntBits) : ExtendSfDf2(v) \in Words(2 * IntBits)
<1>1. F32 \in {F32, F64} /\ F64 \in {F32, F64} /\ F32.w = IntBits /\ F64.w = 2 * IntBits
  BY FormatParts
<1>2. ASSUME NEW v \in Words(2 * IntBits) PROVE TruncDfSf2(v) \in Words(IntBits)
  <2> DEFINE cut == F64.m - F32.m
             s == Sign(F64, v)
             hv == Hidden(F64, v)
             kept == LShr(hv, cut)
             guard == Bit(LoHalf(v), cut - 1)
             sticky == Low(LoHalf(v), cut - 1) # 0
             rnd == RoundNearest(F32, kept, guard, sticky)
             e == ExpOf(F64, v) - (Bias(F64) - Bias(F32)) + rnd.bump
  <2>1. v \in Words(F64.w)
    BY <1>1
  <2>2. s \in {0, 1} /\ hv \in Nat
    <3> DEFINE p == 2^F64.m
    <3>1. s \in {0, 1} /\ hv \in p..(2 * p - 1)
      BY <1>1, <2>1, FloatParts
    <3>2. p \in Nat \ {0}
      BY <1>1, FormatOf
    <3> HIDE DEF p, s, hv
    <3> QED BY <3>1, <3>2
  <2>3. cut \in 0..WideBits
    BY <1>1, FormatGap
  <2>4. kept \in Nat
    <3> HIDE DEF hv, cut
    <3> QED BY <2>2, <2>3, CutInt
  <2> HIDE DEF kept, guard, sticky
  <2>5. rnd.man \in Int /\ rnd.bump \in {0, 1}
    <3> DEFINE l == rnd
    <3>1. l = RoundNearest(F32, kept, guard, sticky)
      OBVIOUS
    <3> HIDE DEF l
    <3>2. l.man \in Int /\ l.bump \in {0, 1}
      BY <1>1, <2>4, <3>1, RoundedInt
    <3> QED BY <3>2 DEF l
  <2>6. TruncDfSf2(v) =
          IF IsZero(F64, v) THEN Zero(F32, s)
          ELSE IF IsNaN(F64, v) THEN QNaN(F32)
          ELSE IF IsInf(F64, v) THEN Inf(F32, s)
          ELSE IF e =< 0 THEN Zero(F32, s)
          ELSE IF e >= MaxExp(F32) THEN Inf(F32, s)
          ELSE Pack(F32, s, e, rnd.man)
    BY DEF TruncDfSf2, kept, guard, sticky
  <2> HIDE DEF rnd
  <2>7. e \in Int
    <3>1. ExpOf(F64, v) \in Nat
      BY <1>1, <2>1, Exponents
    <3>2. Bias(F64) \in Nat /\ Bias(F32) \in Nat
      BY <1>1, FormatOf
    <3> QED BY <2>5, <3>1, <3>2
  <2> HIDE DEF e, s
  <2>8. TruncDfSf2(v) \in Words(F32.w)
    <3>1. /\ Zero(F32, s) \in Words(F32.w) /\ Inf(F32, s) \in Words(F32.w) /\ QNaN(F32) \in Words(F32.w)
          /\ \A j \in Int, man \in Int : Pack(F32, s, j, man) \in Words(F32.w)
      BY <1>1, <2>2, SpecialWords
    <3> QED BY <2>5, <2>6, <2>7, <3>1
  <2> QED BY <1>1, <2>8
<1>3. ASSUME NEW v \in Words(IntBits) PROVE ExtendSfDf2(v) \in Words(2 * IntBits)
  <2> DEFINE s == Sign(F32, v)
             e == ExpOf(F32, v)
             shifted == Shl(2 * IntBits, ManOf(F32, v), F64.m - F32.m)
             re == IF e = MaxExp(F32) THEN MaxExp(F64) ELSE e + (Bias(F64) - Bias(F32))
  <2>1. v \in Words(F32.w)
    BY <1>1
  <2>2. s \in {0, 1} /\ e \in Nat /\ ManOf(F32, v) \in Nat
    <3>1. s \in {0, 1} /\ ManOf(F32, v) \in 0..(2^F32.m - 1)
      BY <1>1, <2>1, FloatParts
    <3>2. e \in Nat
      BY <1>1, <2>1, Exponents
    <3> QED BY <3>1, <3>2
  <2>3. shifted \in Int
    <3> DEFINE cut == F64.m - F32.m
               rest == 2 * IntBits - cut
               u == 2^cut
               t == 2^rest
               man == ManOf(F32, v)
    <3>1. cut \in 0..WideBits
      BY <1>1, FormatGap
    <3>2. rest \in 0..WideBits
      <4>1. F64.m \in Nat /\ F64.m + 5 =< F64.w /\ F32.m \in Nat
        BY <1>1, GuardedWord
      <4> DEFINE m64 == F64.m
                 m32 == F32.m
      <4> HIDE DEF m64, m32
      <4>2. m64 \in Nat /\ m64 + 5 =< 2 * IntBits /\ m32 \in Nat /\ cut = m64 - m32 /\ cut >= 0
        BY <1>1, <3>1, <4>1 DEF m64, m32
      <4>3. IntBits \in Nat /\ WideBits = 2 * IntBits + 2
        BY IntPowers DEF WideBits
      <4> HIDE DEF cut
      <4> QED BY <4>2, <4>3
    <3> HIDE DEF cut, rest
    <3>3. u \in Nat \ {0} /\ t \in Nat \ {0}
      BY <3>1, <3>2, WidePowers
    <3>4. shifted = (man % t) * u
      BY DEF Shl, cut, rest
    <3> HIDE DEF u, t, man, shifted
    <3>5. (man % t) * u \in Int
      BY <2>2, <3>3 DEF man
    <3> QED BY <3>4, <3>5
  <2>4. re \in Int
    <3>1. Bias(F64) \in Nat /\ Bias(F32) \in Nat /\ MaxExp(F64) \in Int
      <4>1. Bias(F64) \in Nat /\ Bias(F32) \in Nat /\ MaxExp(F64) = 2 * Bias(F64) + 1
        BY <1>1, MantissaUnits
      <4> QED BY <4>1
    <3> HIDE DEF e
    <3> QED BY <2>2, <3>1
  <2>5. ExtendSfDf2(v) = IF e = 0 THEN Zero(F64, s) ELSE Pack(F64, s, re, shifted)
    BY DEF ExtendSfDf2
  <2> HIDE DEF s, e, re, shifted
  <2>6. Zero(F64, s) \in Words(F64.w) /\ \A j \in Int, man \in Int : Pack(F64, s, j, man) \in Words(F64.w)
    BY <1>1, <2>2, SpecialWords
  <2>7. ExtendSfDf2(v) \in Words(F64.w)
    BY <2>3, <2>4, <2>5, <2>6
  <2> QED BY <1>1, <2>7
<1> QED BY <1>2, <1>3

(* Every helper returns a word of the type its caller expects, whatever the *)
(* widths and the operands: no sum, product, quotient or conversion carries *)
(* out of its format, a comparison answers -1, 0 or 1, and the variables of *)
(* a division keep to i32 and its counter to the bits of one.               *)
THEOREM RuntimeTyped == Spec => []RuntimeTypeOK
<1>1. CallInv /\ DividesInv /\ FRoundRight /\ FromIntRight /\ ToIntRight => RuntimeTypeOK
  <2> SUFFICES ASSUME CallInv, DividesInv, FRoundRight, FromIntRight, ToIntRight
               PROVE  RuntimeTypeOK
    OBVIOUS
  <2>1. F32.w = IntBits /\ F64.w = 2 * IntBits
    BY FormatParts
  <2>2. fmt \in {F32, F64}
    BY DEF fmt
  <2>3. ASSUME pc \in {"enter", "udiv", "loop", "leave", "returned"} PROVE DivRemTypeOK
    BY <2>3 DEF DividesInv, IInv
  <2>4. ASSUME Returned({"add", "sub"}) PROVE out \in Words(fmt.w)
    BY <2>4, AddOperands, AddTyped DEF Returned
  <2>5. ASSUME pc = "floatReturned", call.op \in {"mul", "div", "unord", "cmp"}
        PROVE  /\ call \in Binary /\ out = Apply2(call, arg1, arg2)
               /\ arg1 \in Words(fmt.w) /\ arg2 \in Words(fmt.w)
               /\ (call.fmt = "f32" => fmt = F32) /\ (call.fmt # "f32" => fmt = F64)
    <3>1. call \in Binary
      BY <2>5 DEF CallInv, Called, Binary, Unary, Arithmetic, Compares, Roundings, FromInts,
                  ToInts, Widths
    <3> QED BY <2>1, <2>5, <3>1, BinaryOperands
  <2>6. ASSUME Returned({"mul"}) PROVE out \in Words(fmt.w)
    <3> DEFINE ha == Hidden(fmt, arg1)
               hb == Hidden(fmt, arg2)
    <3>1. pc = "floatReturned" /\ call.op = "mul"
      BY <2>6 DEF Returned
    <3>2. out = IF call.fmt = "f32" THEN MulSf3(arg1, arg2) ELSE MulDf3(arg1, arg2)
      BY <2>5, <3>1 DEF Apply2
    <3>3. ha \in Words(fmt.w) /\ hb \in Words(fmt.w)
      BY <2>2, <2>5, <3>1, HiddenIsWord
    <3>4. CASE call.fmt = "f32"
      <4> DEFINE prod == ProductSf3(ha, hb)
      <4>1. fmt = F32
        BY <2>5, <3>1, <3>4
      <4>2. out = MulSpecial(fmt, arg1, arg2, MulFinite(fmt, prod, arg1, arg2))
        BY <3>2, <3>4, <4>1 DEF MulSf3
      <4> HIDE DEF ha, hb
      <4>3. ExactProduct(F32, prod, ha, hb)
        BY <2>1, <3>3, <4>1, ProductSf3Is
      <4> HIDE DEF prod
      <4>4. prod.high \in Nat /\ prod.low \in Nat
        BY <4>3 DEF ExactProduct
      <4> QED BY <2>2, <2>5, <3>1, <4>2, <4>4, MulTyped
    <3>5. CASE call.fmt # "f32"
      <4> DEFINE prod == ProductDf3(ha, hb)
      <4>1. fmt = F64
        BY <2>5, <3>1, <3>5
      <4>2. out = MulSpecial(fmt, arg1, arg2, MulFinite(fmt, prod, arg1, arg2))
        BY <3>2, <3>5, <4>1 DEF MulDf3, MulFiniteDf3
      <4> HIDE DEF ha, hb
      <4>3. ExactProduct(F64, prod, ha, hb)
        BY <2>1, <3>3, <4>1, ProductDf3Is
      <4> HIDE DEF prod
      <4>4. prod.high \in Nat /\ prod.low \in Nat
        BY <4>3 DEF ExactProduct
      <4> QED BY <2>2, <2>5, <3>1, <4>2, <4>4, MulTyped
    <3> QED BY <3>4, <3>5
  <2>7. ASSUME Returned({"div"}) PROVE out \in Words(fmt.w)
    <3>1. pc = "floatReturned" /\ call.op = "div"
      BY <2>7 DEF Returned
    <3>2. out = IF call.fmt = "f32" THEN DivSf3(arg1, arg2) ELSE DivDf3(arg1, arg2)
      BY <2>5, <3>1 DEF Apply2
    <3>3. out = DivSpecial(fmt, arg1, arg2, DivFinite(fmt, arg1, arg2))
      BY <2>5, <3>1, <3>2 DEF DivSf3, DivDf3, DivFiniteDf3
    <3> QED BY <2>2, <2>5, <3>1, <3>3, DivTyped
  <2>8. ASSUME Returned({"unord"}) PROVE out \in -1..1
    <3>1. pc = "floatReturned" /\ call.op = "unord"
      BY <2>8 DEF Returned
    <3>2. out = IF call.fmt = "f32" THEN UnordSf2(arg1, arg2) ELSE UnordDf2(arg1, arg2)
      BY <2>5, <3>1 DEF Apply2
    <3> QED BY <3>2 DEF UnordSf2, UnordDf2
  <2>9. ASSUME Returned({"cmp"}) PROVE out \in -1..1
    <3>1. pc = "floatReturned" /\ call.op = "cmp"
      BY <2>9 DEF Returned
    <3>2. out = IF call.fmt = "f32" THEN FloatCompare(call.kind, arg1, arg2)
                                    ELSE DoubleCompare(call.kind, arg1, arg2)
      BY <2>5, <3>1 DEF Apply2
    <3>3. \A lt, gt : ThreeWay(lt, gt) \in -1..1
      BY DEF ThreeWay
    <3>4. UnordReturn(call.kind) \in -1..1
      BY DEF UnordReturn
    <3>5. FloatCompare(call.kind, arg1, arg2) \in -1..1
      BY <3>3, <3>4 DEF FloatCompare, emitFloatCompareBody
    <3>6. DoubleCompare(call.kind, arg1, arg2) \in -1..1
      BY <3>3, <3>4 DEF DoubleCompare, emitDoubleCompareBody
    <3> QED BY <3>2, <3>5, <3>6
  <2>10. ASSUME pc = "floatReturned",
                call.op \in {"fround", "float32", "float64", "fix32", "fix64", "trunc", "extend"}
         PROVE  /\ call \in Unary /\ out = Apply1(call, arg1)
                /\ call.op \in {"fround", "fix32", "fix64"} => arg1 \in Words(fmt.w)
                /\ call.op \in {"float32", "float64"} => arg1 \in Words(IntWidth)
                /\ call.op = "trunc" => arg1 \in Words(2 * IntBits)
                /\ call.op = "extend" => arg1 \in Words(IntBits)
    <3>1. call \in Unary
      BY <2>10 DEF CallInv, Called, Binary, Unary, Arithmetic, Compares, Roundings, FromInts,
                   ToInts, Widths
    <3>2. call.op \in {"trunc", "extend"} => call.fmt = "f64"
      BY <3>1 DEF Unary, Roundings, FromInts, ToInts, Widths
    <3>3. arg1 \in Operands(call) /\ out = Apply1(call, arg1)
      BY <2>10, <3>1, UnaryOperands
    <3>4. call.op \in {"fround", "fix32", "fix64"} => arg1 \in Words(fmt.w)
      BY <2>1, <3>3, OperandsAssumption DEF Operands, fmt
    <3>5. call.op \in {"float32", "float64"} => arg1 \in Words(IntWidth)
      BY <3>3, OperandsAssumption DEF Operands, IntWidth
    <3>6. call.op = "trunc" => arg1 \in Words(2 * IntBits)
      BY <3>2, <3>3, OperandsAssumption DEF Operands
    <3>7. call.op = "extend" => arg1 \in Words(IntBits)
      BY <3>3, OperandsAssumption DEF Operands
    <3> QED BY <3>1, <3>3, <3>4, <3>5, <3>6, <3>7
  <2>11. ASSUME Returned({"fround"}) PROVE out \in Words(fmt.w)
    <3>1. pc = "floatReturned" /\ call.op = "fround"
      BY <2>11 DEF Returned
    <3>2. call.kind \in Kinds /\ arg1 \in Words(fmt.w)
      BY <2>10, <3>1 DEF Unary, Roundings, FromInts, ToInts, Widths
    <3>3. out = IF IsNaN(fmt, arg1) \/ IsInf(fmt, arg1) THEN arg1
                ELSE RefRound(fmt, call.kind, arg1)
      BY <2>11 DEF FRoundRight
    <3> QED BY <2>2, <3>2, <3>3, RoundTyped
  <2>12. IntWidth \in {IntBits, 2 * IntBits} /\ (call.kind = "signed") \in BOOLEAN
    BY DEF IntWidth
  <2>13. ASSUME Returned({"float32", "float64"}) PROVE out \in Words(fmt.w)
    <3>1. arg1 \in Words(IntWidth)
      BY <2>10, <2>13 DEF Returned
    <3>2. out = RefFromInt(fmt, IntWidth, call.kind = "signed", arg1)
      BY <2>13 DEF FromIntRight
    <3> QED BY <2>2, <2>12, <3>1, <3>2, FromIntTyped
  <2>14. ASSUME Returned({"fix32", "fix64"}) PROVE out \in Words(IntWidth)
    <3>1. arg1 \in Words(fmt.w)
      BY <2>10, <2>14 DEF Returned
    <3>2. out = RefToInt(fmt, IntWidth, call.kind = "signed", arg1)
      BY <2>14 DEF ToIntRight
    <3> QED BY <2>2, <2>12, <3>1, <3>2, ToIntTyped
  <2>15. Returned({"fix32"}) => out \in Words(IntBits)
    BY <2>14 DEF Returned, IntWidth
  <2>16. Returned({"fix64"}) => out \in Words(2 * IntBits)
    BY <2>14 DEF Returned, IntWidth
  <2>17. Returned({"trunc"}) => out \in Words(IntBits)
    BY <2>10, WidthTyped DEF Returned, Apply1
  <2>18. Returned({"extend"}) => out \in Words(2 * IntBits)
    BY <2>10, WidthTyped DEF Returned, Apply1
  <2>19. Returned({"add", "sub", "mul", "div", "fround", "float32", "float64"}) =>
           out \in Words(fmt.w)
    BY <2>4, <2>6, <2>7, <2>11, <2>13 DEF Returned
  <2> QED
    BY <2>3, <2>8, <2>9, <2>15, <2>16, <2>17, <2>18, <2>19 DEF RuntimeTypeOK, Returned
<1> QED BY <1>1, CallInvariant, DividesInvariant, FRoundsRight, FromIntsRight, ToIntsRight, PTL
=============================================================================
