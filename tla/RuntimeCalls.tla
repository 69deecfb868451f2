---------------------------- MODULE RuntimeCalls ----------------------------
(***************************************************************************)
(* A program compiled by llvm-mov-llc calls its runtime: the integer       *)
(* divisions of DivRem step by step, and the straight-line bodies of       *)
(* SoftFloat and FloatConvert, each in one step. Between the calls it runs *)
(* code the compiler expanded in line: the operations of MovISel, each in  *)
(* one step, and the blocks of NarrowMemory.                               *)
(***************************************************************************)
EXTENDS DivRem, FloatReference, NarrowMemory, MovISel

CONSTANTS
  Floats, Doubles,     \* the f32 and f64 operands the program uses
  Ints, Longs,         \* the i32 and i64 operands it converts
  Vectors              \* the vectors it reduces

ASSUME OperandsAssumption ==
  /\ Floats \subseteq Words(IntBits) /\ Ints \subseteq Words(IntBits)
  /\ Doubles \subseteq Words(2 * IntBits) /\ Longs \subseteq Words(2 * IntBits)
  /\ Vectors \subseteq Seq(Words(ISelBits)) \ {<<>>}

Preds == {"eq", "ne", "lt", "le", "gt", "ge"}

(* op stands for the name of the helper; fmt is its float format, "f64" if *)
(* it is a conversion between the two; kind is the predicate, the rounding *)
(* or the signedness it is built with.                                     *)
Arithmetic == [op : {"add", "sub", "mul", "div", "unord"}, fmt : {"f32", "f64"}, kind : {"-"}]
Compares == [op : {"cmp"}, fmt : {"f32", "f64"}, kind : Preds]
Roundings == [op : {"fround"}, fmt : {"f32", "f64"}, kind : Kinds]
FromInts == [op : {"float32", "float64"}, fmt : {"f32", "f64"}, kind : {"signed", "unsigned"}]
ToInts == [op : {"fix32", "fix64"}, fmt : {"f32", "f64"}, kind : {"signed", "unsigned"}]
Widths == [op : {"extend", "trunc"}, fmt : {"f64"}, kind : {"-"}]

Binary == Arithmetic \cup Compares
Unary == Roundings \cup FromInts \cup ToInts \cup Widths

Operands(c) ==
  CASE c.op = "float32" -> Ints
    [] c.op = "float64" -> Longs
    [] c.op = "extend" -> Floats
    [] OTHER -> IF c.fmt = "f32" THEN Floats ELSE Doubles

(* A pointer may be poison: an inbounds GEP that its condition guards. An   *)
(* i32 that is poison is left out, as its select is not frozen (README).    *)
InlineArgs(c) ==
  LET i32 == Words(ISelBits)
      arm == IF c.kind = "ptr" THEN i32 \cup {Poison} ELSE i32
  IN CASE c.op \in {"icmp", "minmax"} -> i32 \X i32
       [] c.op = "select" -> (0..1) \X arm \X arm
       [] c.op = "abs" -> {<<a>> : a \in i32}
       [] c.op = "sext" -> {<<0>>, <<1>>}
       [] c.op = "reduce" -> Vectors

(* The helper a call resolves to, applied. *)
Apply2(c, a, b) ==
  CASE c.op = "add" -> IF c.fmt = "f32" THEN AddSf3(a, b) ELSE AddDf3(a, b)
    [] c.op = "sub" -> IF c.fmt = "f32" THEN SubSf3(a, b) ELSE SubDf3(a, b)
    [] c.op = "mul" -> IF c.fmt = "f32" THEN MulSf3(a, b) ELSE MulDf3(a, b)
    [] c.op = "div" -> IF c.fmt = "f32" THEN DivSf3(a, b) ELSE DivDf3(a, b)
    [] c.op = "unord" -> IF c.fmt = "f32" THEN UnordSf2(a, b) ELSE UnordDf2(a, b)
    [] c.op = "cmp" -> IF c.fmt = "f32" THEN FloatCompare(c.kind, a, b)
                                        ELSE DoubleCompare(c.kind, a, b)

Apply1(c, a) ==
  LET signed == c.kind = "signed"
  IN  CASE c.op = "fround" -> IF c.fmt = "f32" THEN emitFRoundF32Body(c.kind, a)
                                               ELSE emitFRoundF64Body(c.kind, a)
        [] c.op = "float32" -> IF c.fmt = "f32" THEN emitInt32ToFloatBody(signed, a)
                                                ELSE emitInt32ToDoubleBody(signed, a)
        [] c.op = "float64" -> IF c.fmt = "f32" THEN emitInt64ToFloatBody(signed, a)
                                                ELSE emitInt64ToDoubleBody(signed, a)
        [] c.op = "fix32" -> IF c.fmt = "f32" THEN emitFloatToInt32Body(signed, a)
                                              ELSE emitDoubleToInt32Body(signed, a)
        [] c.op = "fix64" -> IF c.fmt = "f32" THEN emitFloatToInt64Body(signed, a)
                                              ELSE emitDoubleToInt64Body(signed, a)
        [] c.op = "extend" -> ExtendSfDf2(a)
        [] c.op = "trunc" -> TruncDfSf2(a)

VARIABLES
  call,     \* the float helper being called, or the operation in its place
  args,     \* its operands
  out       \* what it returned

floatVars == <<call, args, out>>
NoCall == [op |-> "none", fmt |-> "-", kind |-> "-"]

NoDivision ==
  /\ fn = "none" /\ x = 0 /\ y = 0 /\ n = 0 /\ d = 0 /\ i = 0 /\ r = 0 /\ q = 0 /\ result = 0
NoFloat == call = NoCall /\ args = <<>> /\ out = 0
NoBlock ==
  block = <<>> /\ start = [b \in Addresses |-> 0] /\ mem = start /\ done = {} /\ words = <<>>

(* What the program does next: divide, call a float helper, compute in line *)
(* or run a block.                                                          *)
Init ==
  \/ DivRemInit /\ NoFloat /\ NoBlock
  \/ /\ pc = "float" /\ out = 0 /\ NoDivision /\ NoBlock
     /\ \/ call \in Binary /\ args \in Operands(call) \X Operands(call)
        \/ call \in Unary /\ args \in {<<a>> : a \in Operands(call)}
  \/ /\ pc = "inline" /\ out = 0 /\ NoDivision /\ NoBlock
     /\ call \in InlineOps /\ args \in InlineArgs(call)
  \/ pc = "block" /\ NarrowInit /\ NoDivision /\ NoFloat

Divide == DivRemNext /\ UNCHANGED <<floatVars, memVars>>
RunBlock == NarrowNext /\ UNCHANGED <<vars, floatVars>>

FloatReturn ==
  /\ pc = "float"
  /\ out' = IF Len(args) = 2 THEN Apply2(call, args[1], args[2]) ELSE Apply1(call, args[1])
  /\ pc' = "floatReturned"
  /\ UNCHANGED <<call, args, fn, x, y, n, d, i, r, q, result, memVars>>

Compute ==
  /\ pc = "inline"
  /\ out' \in Inlined(call, args)
  /\ pc' = "computed"
  /\ UNCHANGED <<call, args, fn, x, y, n, d, i, r, q, result, memVars>>

Next == Divide \/ FloatReturn \/ Compute \/ RunBlock

(* Compiled code runs on until it returns: a division takes its next step. *)
Spec == Init /\ [][Next]_<<vars, floatVars, memVars>> /\ WF_vars(Divide)

-----------------------------------------------------------------------------
fmt == IF call.fmt = "f32" THEN F32 ELSE F64
Returned(ops) == pc = "floatReturned" /\ call.op \in ops
arg1 == args[1]
arg2 == args[2]

(* Every variable keeps to its type: above all, a result is a word of the  *)
(* type its helper returns.                                                *)
RuntimeTypeOK ==
  /\ pc \in {"enter", "udiv", "loop", "leave", "returned"} => DivRemTypeOK
  /\ Returned({"add", "sub", "mul", "div", "fround", "float32", "float64"}) =>
       out \in Words(fmt.w)
  /\ Returned({"unord", "cmp"}) => out \in -1..1
  /\ Returned({"fix32", "trunc"}) => out \in Words(IntBits)
  /\ Returned({"fix64", "extend"}) => out \in Words(2 * IntBits)

(* __addsf3, __subsf3 and their f64 twins return the correctly rounded sum *)
(* of their operands, whatever the exponents' distance and whatever        *)
(* cancels; of two zeros, a zero. A sum below the smallest normal number   *)
(* is left out: the code packs it with a zero or wrapped exponent (README).*)
Addend == IF call.op = "sub" THEN Negated(fmt, arg2) ELSE arg2
AddRight ==
  Returned({"add", "sub"}) /\ ~SumUnderflows(fmt, arg1, Addend) =>
    \/ out = RefAdd(fmt, arg1, Addend)
    \/ IsZero(fmt, arg1) /\ IsZero(fmt, Addend) /\ IsZero(fmt, out)

(* __mulsf3 and __muldf3 return the correctly rounded product, from four   *)
(* partial products and their carries; out of range, an infinity or zero.  *)
MulRight == Returned({"mul"}) => out = RefMul(fmt, arg1, arg2)

(* __divsf3 and __divdf3 return the correctly rounded quotient, one bit a  *)
(* pass, and the specials of IEEE 754.                                     *)
QuotientRight == Returned({"div"}) => out = RefDiv(fmt, arg1, arg2)

(* What a program tests after a comparison (__eqsf2 is called for ==, and  *)
(* its result compared with 0) holds exactly when the relation does, for   *)
(* subnormals, zeros of both signs and NaNs too.                           *)
Holds(pred, k) ==
  CASE pred = "eq" -> k = 0
    [] pred = "ne" -> k # 0
    [] pred = "lt" -> k < 0
    [] pred = "le" -> k =< 0
    [] pred = "gt" -> k > 0
    [] pred = "ge" -> k >= 0
CompareRight ==
  /\ Returned({"cmp"}) => Holds(call.kind, out) = RefHolds(fmt, call.kind, arg1, arg2)
  /\ Returned({"unord"}) => (out # 0) = (IsNaN(fmt, arg1) \/ IsNaN(fmt, arg2))

(* An integer of either signedness and either width becomes the nearest    *)
(* float, INT_MIN and zero included.                                       *)
IntWidth == IF call.op \in {"float32", "fix32"} THEN IntBits ELSE 2 * IntBits
FromIntRight ==
  Returned({"float32", "float64"}) =>
    out = RefFromInt(fmt, IntWidth, call.kind = "signed", arg1)

(* A float becomes the integer it truncates to, and saturates: no wrapped  *)
(* result for a number just outside the range.                             *)
ToIntRight ==
  Returned({"fix32", "fix64"}) =>
    out = RefToInt(fmt, IntWidth, call.kind = "signed", arg1)

(* Widening a float is exact, and narrowing it rounds once; a NaN stays a  *)
(* NaN.                                                                    *)
WidthRight ==
  /\ Returned({"trunc"}) => out = RefConvert(F64, F32, arg1)
  /\ Returned({"extend"}) =>
       IF IsNaN(F32, arg1) THEN IsNaN(F64, out) ELSE out = RefConvert(F32, F64, arg1)

(* floor, ceil, trunc and round return the integer in their direction,     *)
(* also where the increment carries into the exponent.                     *)
FRoundRight ==
  Returned({"fround"}) =>
    out = IF IsNaN(fmt, arg1) \/ IsInf(fmt, arg1) THEN arg1 ELSE RefRound(fmt, call.kind, arg1)

(* No helper that computes an amount to shift an i32 by shifts by the width *)
(* or more, not even in an arm that its selects discard: the shift would be *)
(* undefined, and selects are lowered to blends of both arms. The amounts   *)
(* are those of the sums of floats (alignment and normalisation), of i32 to *)
(* and from either format, and of the rounding of a float. A division       *)
(* shifts by its counter, which RuntimeTypeOK bounds; the other bodies      *)
(* shift by constants, or shift i64 pairs by LshrPair and ShlPair, which    *)
(* clamp every amount. One operand is the exception, against the comment at *)
(* main.cpp:1367: 0 to f32. Its leading one would be at bit -1, which the   *)
(* unsigned test against m takes for one above m, and the discarded arm     *)
(* does shift out of range: by -24 and -25 in the 32 bits of the code.      *)
InRange(amounts) == \A k \in amounts : k \in 0..(IntBits - 1)
ShiftsDefined ==
  /\ Returned({"add", "sub"}) /\ call.fmt = "f32" =>
       LET s == Aligned(F32, arg1, Addend)
       IN  InRange({AlignShift(F32, arg1, Addend), NormaliseShift(F32, s.re, s.sum)})
  /\ Returned({"fix32"}) /\ call.fmt = "f32" =>
       InRange({FloatToInt32Shifts(arg1).left, FloatToInt32Shifts(arg1).right})
  /\ Returned({"fix32"}) /\ call.fmt = "f64" =>
       InRange({DoubleToInt32Shifts(arg1).big, DoubleToInt32Shifts(arg1).left,
                DoubleToInt32Shifts(arg1).right})
  /\ Returned({"float32"}) /\ call.fmt = "f32" =>
       LET shift == Int32ToFloatShifts(call.kind = "signed", arg1)
       IN  InRange({shift.left, shift.right, shift.right - 1}) <=> arg1 # 0
  /\ Returned({"float32"}) /\ call.fmt = "f64" =>
       LET shift == Int32ToDoubleShifts(call.kind = "signed", arg1)
       IN  InRange({shift.left, shift.right, shift.big})
  /\ Returned({"fround"}) /\ call.fmt = "f32" =>
       InRange({FRoundShifts(arg1).frac, FRoundShifts(arg1).guard})

(* What the compiler expands in line means what it stands for, over every   *)
(* pair of words: comparisons whose difference overflows, unsigned ones     *)
(* biased into signed ones, the minimum, the maximum and the absolute value *)
(* made of them (that of INT_MIN is itself), and reductions of every shape. *)
(* A select returns the arm its condition chooses, and poison in the other  *)
(* arm does not reach the result.                                           *)
InlineRight == pc = "computed" => StandsFor(call, args, out)

(* A division returns, whatever its operands: the loop's counter is signed *)
(* and steps through zero.                                                 *)
DivisionReturns == pc = "enter" ~> pc = "returned"
=============================================================================
