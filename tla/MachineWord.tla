---------------------------- MODULE MachineWord ----------------------------
(***************************************************************************)
(* Machine words of w bits as naturals below 2^w, and the operations that  *)
(* LLVM IR has on them. A shift is defined for amounts below w only; the   *)
(* models keep every amount in that range, as the generated code must.     *)
(***************************************************************************)
EXTENDS Integers

Words(w) == 0..(2^w - 1)

LShr(x, k) == x \div 2^k
Shl(w, x, k) == (x % 2^(w - k)) * 2^k
Add(w, x, y) == (x + y) % 2^w
Sub(w, x, y) == (x - y) % 2^w
Mul(w, x, y) == (x * y) % 2^w

(* x & (2^k - 1), one bit of x, ~x, and x | p for an i1 p. *)
Low(x, k) == x % 2^k
Bit(x, k) == (x \div 2^k) % 2
Not(w, x) == 2^w - 1 - x
OrBit(x, p) == IF p /\ x % 2 = 0 THEN x + 1 ELSE x

(* The value of a word in two's complement, and the word of an integer. *)
Signed(w, x) == IF x < 2^(w - 1) THEN x ELSE x - 2^w
Word(w, v) == v % 2^w

(* ctlz with the defined result w for zero. *)
Ctlz(w, x) ==
  IF x = 0 THEN w ELSE CHOOSE k \in 0..(w - 1) : 2^(w - 1 - k) =< x /\ x < 2^(w - k)

(* How powers of two grow, up to that of w: what proofs about words rest on. *)
PowersDouble(w) == 2^0 = 1 /\ \A k \in 0..(w - 1) : 2^(k + 1) = 2 * 2^k

Least(S) == CHOOSE x \in S : \A y \in S : x =< y
===============================================================================
