------------------------------- MODULE DivRem -------------------------------
(***************************************************************************)
(* Integer division for a machine without a divide instruction: the bodies *)
(* injectDivRemHelpers generates for __udivsi3, __umodsi3, __divsi3 and    *)
(* __modsi3. The first is a restoring long division, one bit a pass; the   *)
(* other three call it.                                                    *)
(*                                                                         *)
(* A call takes its arguments, calls __udivsi3 on the dividend n and the   *)
(* divisor d, loops, and returns. Words have Width bits, 32 in the code;   *)
(* Pow2 is the table of powers of two, a constant so that what is proved   *)
(* needs to know only how it grows.                                        *)
(***************************************************************************)
EXTENDS Integers

CONSTANTS Width, Pow2

ASSUME WidthAssumption == Width \in Nat \ {0}
ASSUME Pow2Assumption ==
  /\ Pow2 \in [0..Width -> Nat \ {0}]
  /\ Pow2[0] = 1
  /\ \A k \in 1..Width : Pow2[k] = 2 * Pow2[k - 1]

Full == Pow2[Width]
Half == Pow2[Width - 1]
I32 == 0..(Full - 1)

DivRemFns == {"__udivsi3", "__umodsi3", "__divsi3", "__modsi3"}

(* Subtraction, product and bitwise or with 1 << k, of words. *)
WrapSub(x, y) == IF x >= y THEN x - y ELSE x - y + Full
WrapMul(x, y) == (x * y) % Full
SetBit(x, k) == IF (x \div Pow2[k]) % 2 = 1 THEN x ELSE x + Pow2[k]

Negative(x) == x >= Half
Abs(x) == IF Negative(x) THEN WrapSub(0, x) ELSE x

VARIABLES
  fn,         \* the function called
  x, y,       \* its arguments
  pc,         \* "enter", "udiv", "loop", "leave" or "returned"
  n, d,       \* the arguments of __udivsi3
  i, r, q,    \* the loop's phis
  result

vars == <<fn, x, y, pc, n, d, i, r, q, result>>

DivRemInit ==
  /\ fn \in DivRemFns /\ x \in I32 /\ y \in I32
  /\ pc = "enter"
  /\ n = 0 /\ d = 0 /\ i = 0 /\ r = 0 /\ q = 0 /\ result = 0

SignedFn == fn \in {"__divsi3", "__modsi3"}

(* The signed functions divide the absolute values. *)
Enter ==
  /\ pc = "enter"
  /\ n' = IF SignedFn THEN Abs(x) ELSE x
  /\ d' = IF SignedFn THEN Abs(y) ELSE y
  /\ pc' = "udiv"
  /\ UNCHANGED <<fn, x, y, i, r, q, result>>

(* "if d == 0: return 0" *)
DivideByZero ==
  /\ pc = "udiv" /\ d = 0
  /\ pc' = "leave"
  /\ UNCHANGED <<fn, x, y, n, d, i, r, q, result>>

StartLoopHigh ==
  /\ pc = "udiv" /\ d # 0
  /\ i' = Width /\ r' = 0 /\ q' = 0
  /\ pc' = "loop"
  /\ UNCHANGED <<fn, x, y, n, d, result>>

StartLoop ==
  /\ pc = "udiv" /\ d # 0
  /\ i' = Width - 1 /\ r' = 0 /\ q' = 0
  /\ pc' = "loop"
  /\ UNCHANGED <<fn, x, y, n, d, result>>

RCand == ((2 * r) % Full) + ((n \div Pow2[i]) % 2)
TakeStrict == RCand > d
Take == RCand >= d

LoopUnsigned ==
  /\ pc = "loop"
  /\ r' = IF Take THEN WrapSub(RCand, d) ELSE RCand
  /\ q' = IF Take THEN SetBit(q, i) ELSE q
  /\ i' = IF i = 0 THEN Width - 1 ELSE i - 1
  /\ UNCHANGED <<fn, x, y, n, d, result, pc>>

Loop ==
  /\ pc = "loop"
  /\ r' = IF Take THEN WrapSub(RCand, d) ELSE RCand
  /\ q' = IF Take THEN SetBit(q, i) ELSE q
  /\ i' = i - 1
  /\ pc' = IF i - 1 < 0 THEN "leave" ELSE "loop"
  /\ UNCHANGED <<fn, x, y, n, d, result>>

Remainder == WrapSub(n, WrapMul(q, d))

Return ==
  /\ pc = "leave"
  /\ result' = CASE fn = "__udivsi3" -> q
                 [] fn = "__umodsi3" -> Remainder
                 [] fn = "__divsi3"  -> IF Negative(x) # Negative(y) THEN WrapSub(0, q) ELSE q
                 [] fn = "__modsi3"  -> IF Negative(x) THEN WrapSub(0, Remainder) ELSE Remainder
  /\ pc' = "returned"
  /\ UNCHANGED <<fn, x, y, n, d, i, r, q>>

DivRemNext == Enter \/ DivideByZero \/ StartLoop \/ Loop \/ Return

DivRemSpec == DivRemInit /\ [][DivRemNext]_vars

-----------------------------------------------------------------------------
(* Every variable keeps to its type. *)
DivRemTypeOK ==
  /\ fn \in DivRemFns /\ x \in I32 /\ y \in I32
  /\ pc \in {"enter", "udiv", "loop", "leave", "returned"}
  /\ n \in I32 /\ d \in I32 /\ r \in I32 /\ q \in I32 /\ result \in I32
  /\ i \in -1..(Width - 1)

(* The number a word stands for in two's complement. *)
SignedValue(w) == IF Negative(w) THEN w - Full ELSE w

(* What C and Rust say of integer division, for a divisor other than zero: *)
(* the quotient is truncated towards zero and the remainder has the sign   *)
(* of the dividend, so that x = q * y + r with |r| < |y|. As words: the    *)
(* result is congruent to that (INT_MIN / -1 has no other answer).         *)
Quotient(u, v) == IF Negative(u) = Negative(v) THEN Abs(u) \div Abs(v)
                                              ELSE -(Abs(u) \div Abs(v))
Rest(u, v) == IF Negative(u) THEN -(Abs(u) % Abs(v)) ELSE Abs(u) % Abs(v)
IsWordOf(w, k) == w = k \/ w = k + Full \/ w = k - Full

(* A division that returns has divided, whatever the bits of its operands: *)
(* no borrow, no bit lost off the top of the residue, no sign mistaken.    *)
DivRight ==
  pc = "returned" /\ y # 0 =>
    CASE fn = "__udivsi3" -> result = x \div y
      [] fn = "__umodsi3" -> result = x % y
      [] fn = "__divsi3"  -> IsWordOf(result, Quotient(x, y))
      [] fn = "__modsi3"  -> IsWordOf(result, Rest(x, y))
=============================================================================
