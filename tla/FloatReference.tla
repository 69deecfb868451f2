--------------------------- MODULE FloatReference ---------------------------
(***************************************************************************)
(* What IEEE 754 asks of the operations of SoftFloat and FloatConvert,     *)
(* with the scope their comments give them: subnormal operands count as    *)
(* zeros, and a result below the smallest normal number is a zero.         *)
(*                                                                         *)
(* A finite number is sig * 2^e exactly; an operation is done on those     *)
(* integers and rounded once.                                              *)
(***************************************************************************)
EXTENDS FloatConvert

(* The bits of n > 0: the numbers below are of an i64 and three bits more   *)
(* at most.                                                                 *)
BitLength(n) == CHOOSE k \in 1..(2 * IntBits + 3) : n \div 2^(k - 1) = 1

Magnify(n, k) == IF k >= 0 THEN n * 2^k ELSE n \div 2^(-k)

(* The word of f nearest to (sig + eps) * 2^e, ties to even, where sig > 0 *)
(* and eps is 0, or anything between 0 and 1 when inexact; and whether     *)
(* that is below the smallest normal number.                               *)
Nearest(f, s, e, sig, inexact) ==
  LET drop == BitLength(sig) - (f.m + 1)
      kept == Magnify(sig, -drop)
      rest == IF drop > 0 THEN sig % 2^drop ELSE 0
      half == IF drop > 0 THEN 2^(drop - 1) ELSE 1
      up == rest > half \/ (rest = half /\ (inexact \/ kept % 2 = 1))
      man == IF up THEN kept + 1 ELSE kept
      carry == IF man = 2^(f.m + 1) THEN 1 ELSE 0
      biased == e + drop + f.m + Bias(f) + carry
  IN  [tiny |-> biased < 1,
       word |-> IF biased < 1 THEN Zero(f, s)
                ELSE IF biased >= MaxExp(f) THEN Inf(f, s)
                ELSE Pack(f, s, biased, man)]

(* The exponent of the last bit of a normal number's mantissa. *)
UnitExp(f, x) == ExpOf(f, x) - Bias(f) - f.m

(* The exact sum of two normal numbers, as the larger exponent's mantissa  *)
(* with `extra` more bits and the floor of the other one: below the last   *)
(* of these bits only whether anything is left matters.                    *)
ExactSum(f, a, b) ==
  LET extra == 3
      hi == IF ExpOf(f, a) >= ExpOf(f, b) THEN a ELSE b
      lo == IF hi = a THEN b ELSE a
      gap == ExpOf(f, hi) - ExpOf(f, lo)
      same == Sign(f, a) = Sign(f, b)
      term == IF same THEN Hidden(f, lo) ELSE -Hidden(f, lo)
      cut == 2^Least({gap - extra, f.m + 2})
      total == Hidden(f, hi) * 2^extra
               + (IF gap > extra THEN term \div cut ELSE term * 2^(extra - gap))
  IN  [e |-> UnitExp(f, hi) - extra,
       sig |-> IF total < 0 THEN -total ELSE total,
       neg |-> IF total < 0 THEN 1 - Sign(f, hi) ELSE Sign(f, hi),
       inexact |-> gap > extra /\ term % cut # 0]

RoundedSum(f, a, b) ==
  LET s == ExactSum(f, a, b) IN Nearest(f, s.neg, s.e, s.sig, s.inexact)

Normal(f, x) == ExpOf(f, x) \in 1..(MaxExp(f) - 1)

(* Two normal numbers whose sum falls below the normal numbers. *)
SumUnderflows(f, a, b) ==
  /\ Normal(f, a) /\ Normal(f, b) /\ ExactSum(f, a, b).sig # 0
  /\ RoundedSum(f, a, b).tiny

RefAdd(f, a, b) ==
  CASE IsNaN(f, a) \/ IsNaN(f, b) -> QNaN(f)
    [] IsInf(f, a) /\ ~IsNaN(f, b) ->
         IF IsInf(f, b) /\ Sign(f, a) # Sign(f, b) THEN QNaN(f) ELSE a
    [] IsInf(f, b) /\ ~IsNaN(f, a) /\ ~IsInf(f, a) -> b
    [] IsZero(f, a) /\ Normal(f, b) -> b
    [] Normal(f, a) /\ IsZero(f, b) -> a
    [] IsZero(f, a) /\ IsZero(f, b) -> 0
    [] Normal(f, a) /\ Normal(f, b) ->
         IF ExactSum(f, a, b).sig = 0 THEN 0 ELSE RoundedSum(f, a, b).word

(* The product of two mantissas, cut after `low` bits. *)
RefMul(f, a, b) ==
  LET s == SignXor(f, a, b)
      k == f.m - f.e
      upper == Hidden(f, a) * (Hidden(f, b) \div 2^k)
      lower == Hidden(f, a) * (Hidden(f, b) % 2^k)
  IN  CASE IsNaN(f, a) \/ IsNaN(f, b) -> QNaN(f)
        [] Normal(f, a) /\ Normal(f, b) ->
             Nearest(f, s, UnitExp(f, a) + UnitExp(f, b) + k, upper + lower \div 2^k,
                     lower % 2^k # 0).word
        [] {a, b} \cap {Inf(f, 0), Inf(f, 1)} # {} /\ ~IsNaN(f, a) /\ ~IsNaN(f, b) ->
             IF IsZero(f, a) \/ IsZero(f, b) THEN QNaN(f) ELSE Inf(f, s)
        [] OTHER -> Zero(f, s)

(* The quotient of two mantissas, in two long divisions, to more places    *)
(* than a mantissa has.                                                    *)
RefDiv(f, a, b) ==
  LET s == SignXor(f, a, b)
      k == (f.m + 4) \div 2
      first == (Hidden(f, a) * 2^k) \div Hidden(f, b)
      left == ((Hidden(f, a) * 2^k) % Hidden(f, b)) * 2^k
      quotient == first * 2^k + left \div Hidden(f, b)
  IN  CASE IsNaN(f, a) \/ IsNaN(f, b) -> QNaN(f)
        [] Normal(f, a) /\ Normal(f, b) ->
             Nearest(f, s, UnitExp(f, a) - UnitExp(f, b) - 2 * k, quotient,
                     left % Hidden(f, b) # 0).word
        [] (IsInf(f, a) /\ IsInf(f, b)) \/ (IsZero(f, a) /\ IsZero(f, b)) -> QNaN(f)
        [] IsInf(f, a) /\ (IsZero(f, b) \/ Normal(f, b)) -> Inf(f, s)
        [] IsZero(f, b) /\ Normal(f, a) -> Inf(f, s)
        [] OTHER -> Zero(f, s)

(* The order of the numbers, subnormals included; -0 equals +0. *)
Order(f, x) == IF Sign(f, x) = 1 THEN -Magnitude(f, x) ELSE Magnitude(f, x)

RefHolds(f, pred, a, b) ==
  IF IsNaN(f, a) \/ IsNaN(f, b) THEN pred = "ne"
  ELSE CASE pred = "eq" -> Order(f, a) = Order(f, b)
         [] pred = "ne" -> Order(f, a) # Order(f, b)
         [] pred = "lt" -> Order(f, a) < Order(f, b)
         [] pred = "le" -> Order(f, a) =< Order(f, b)
         [] pred = "gt" -> Order(f, a) > Order(f, b)
         [] pred = "ge" -> Order(f, a) >= Order(f, b)

-----------------------------------------------------------------------------
(* An integer, rounded to the format. *)
RefFromInt(f, w, signed, v) ==
  LET k == IF signed THEN Signed(w, v) ELSE v
  IN  CASE k = 0 -> Zero(f, 0)
        [] k > 0 -> Nearest(f, 0, 0, k, FALSE).word
        [] k < 0 -> Nearest(f, 1, 0, -k, FALSE).word

(* |x| truncated; 2^w stands for whatever is beyond the words of w bits.    *)
Truncated(f, w, x) ==
  LET e == UnitExp(f, x)
  IN  CASE IsZero(f, x) \/ e < -f.m -> 0
        [] ~IsZero(f, x) /\ e \in (-f.m)..0 -> Hidden(f, x) \div 2^(-e)
        [] e > 0 -> IF e + f.m >= w THEN 2^w ELSE Hidden(f, x) * 2^e

(* Truncation that saturates, as llvm.fptosi.sat and llvm.fptoui.sat do. *)
RefToInt(f, w, signed, x) ==
  LET k == IF Sign(f, x) = 1 THEN -Truncated(f, w, x) ELSE Truncated(f, w, x)
      least == IF signed THEN -(2^(w - 1)) ELSE 0
      most == IF signed THEN 2^(w - 1) - 1 ELSE 2^w - 1
  IN  IF IsNaN(f, x) THEN 0
      ELSE Word(w, IF k < least THEN least ELSE IF k > most THEN most ELSE k)

(* A number of format f in format g. *)
RefConvert(f, g, x) ==
  CASE IsZero(f, x) -> Zero(g, Sign(f, x))
    [] IsInf(f, x) -> Inf(g, Sign(f, x))
    [] Normal(f, x) -> Nearest(g, Sign(f, x), UnitExp(f, x), Hidden(f, x), FALSE).word
    [] IsNaN(f, x) -> QNaN(g)

(* x to an integer in the direction of the kind; round goes away from zero *)
(* on a tie.                                                               *)
RefRound(f, kind, x) ==
  LET e == UnitExp(f, x)
      unit == 2^Least({-e, f.m + 2})
      sig == IF IsZero(f, x) THEN ManOf(f, x) ELSE Hidden(f, x)
      whole == sig \div unit
      rest == sig % unit
      up == CASE kind = "trunc" -> FALSE
              [] kind = "floor" -> rest # 0 /\ Sign(f, x) = 1
              [] kind = "ceil"  -> rest # 0 /\ Sign(f, x) = 0
              [] kind = "round" -> 2 * rest >= unit
      int == IF up THEN whole + 1 ELSE whole
  IN  IF e >= 0 THEN x
      ELSE IF int = 0 THEN Zero(f, Sign(f, x))
      ELSE Nearest(f, Sign(f, x), 0, int, FALSE).word
=============================================================================
