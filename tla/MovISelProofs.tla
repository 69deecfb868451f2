---------------------------- MODULE MovISelProofs ----------------------------
(***************************************************************************)
(* The division helpers divide, and what llvm-mov expands in line means    *)
(* what it stands for, for words of every width and, of a reduction, any   *)
(* number of lanes: TLC's run takes narrow words, these theorems the       *)
(* 32-bit words of the code too. The arithmetic of products, quotients and *)
(* powers of two comes first, then the divisions, then the bits of a       *)
(* number and the operations that MovISel expands.                         *)
(***************************************************************************)
EXTENDS MovISel, DivRem, WellFoundedInduction, FiniteSetTheorems, TLAPS


-----------------------------------------------------------------------------
(* Facts about products, quotients and powers of two. *)

(* Multiplying by a natural number keeps the order of the other factors. *)
LEMMA TimesMonotone ==
  ASSUME NEW a \in Nat, NEW b \in Nat, NEW p \in Nat, a =< b
  PROVE  a * p =< b * p
<1>1. PICK c \in Nat : b = a + c
  BY b - a \in Nat, b = a + (b - a)
<1>2. b * p = a * p + c * p
  BY <1>1
<1>3. a * p \in Nat /\ c * p \in Nat
  BY <1>1
<1> QED
  BY <1>2, <1>3

(* A quotient and a remainder are the only ones. *)
LEMMA DivUnique ==
  ASSUME NEW m \in Nat, NEW p \in Nat \ {0}, NEW h \in Nat, NEW l \in Nat,
         m = h * p + l, l < p
  PROVE  m \div p = h /\ m % p = l
<1> DEFINE a == m \div p
           c == m % p
<1>1. a \in Nat /\ c \in Nat /\ c < p /\ m = a * p + c
  BY SMT
<1> HIDE DEF a, c
<1>2. ~ (a < h)
  <2>1. SUFFICES ASSUME a < h PROVE FALSE
    OBVIOUS
  <2>2. (a + 1) * p =< h * p
    BY <1>1, <2>1, TimesMonotone
  <2>3. (a + 1) * p = a * p + p
    BY <1>1
  <2>4. a * p \in Nat /\ h * p \in Nat
    BY <1>1
  <2> QED
    BY <1>1, <2>2, <2>3, <2>4
<1>3. ~ (h < a)
  <2>1. SUFFICES ASSUME h < a PROVE FALSE
    OBVIOUS
  <2>2. (h + 1) * p =< a * p
    BY <1>1, <2>1, TimesMonotone
  <2>3. (h + 1) * p = h * p + p
    OBVIOUS
  <2>4. a * p \in Nat /\ h * p \in Nat
    BY <1>1
  <2> QED
    BY <1>1, <2>2, <2>3, <2>4
<1>4. a = h
  BY <1>1, <1>2, <1>3
<1>5. c = l
  <2>1. h * p \in Nat
    OBVIOUS
  <2> QED
    BY <1>1, <1>4, <2>1
<1> QED
  BY <1>4, <1>5 DEF a, c

(* A number below the modulus is its own remainder. *)
LEMMA ModSmall ==
  ASSUME NEW m \in Nat, NEW p \in Nat, m < p
  PROVE  m % p = m
  BY SMT

(* The parity of a doubled number and of its successor. *)
LEMMA Parity ==
  ASSUME NEW h \in Nat
  PROVE  (2 * h) % 2 = 0 /\ (2 * h + 1) % 2 = 1
  BY SMT

(* The powers of two are positive, and each is twice the one before. *)
LEMMA Pow2Facts ==
  /\ \A k \in 0..Width : Pow2[k] \in Nat \ {0}
  /\ Pow2[0] = 1
  /\ \A k \in 0..(Width - 1) : Pow2[k + 1] = 2 * Pow2[k]
<1>1. Width \in Nat /\ Pow2[0] = 1
  BY WidthAssumption, Pow2Assumption
<1>2. \A k \in 0..Width : Pow2[k] \in Nat \ {0}
  BY Pow2Assumption
<1>3. ASSUME NEW k \in 0..(Width - 1) PROVE Pow2[k + 1] = 2 * Pow2[k]
  <2>1. k + 1 \in 1..Width /\ (k + 1) - 1 = k
    BY <1>1
  <2>2. Pow2[k + 1] = 2 * Pow2[(k + 1) - 1]
    BY <2>1, Pow2Assumption
  <2> QED
    BY <2>1, <2>2
<1> QED
  BY <1>1, <1>2, <1>3

(* The size of the words, and where the negative ones start. *)
LEMMA FullFacts ==
  Width \in Nat \ {0} /\ Full \in Nat \ {0} /\ Half \in Nat \ {0} /\ Full = 2 * Half
<1>1. Width \in 0..Width /\ Width - 1 \in 0..(Width - 1) /\ Width - 1 \in 0..Width
      /\ (Width - 1) + 1 = Width
  BY WidthAssumption
<1> QED
  BY <1>1, Pow2Facts, WidthAssumption DEF Full, Half

-----------------------------------------------------------------------------
(* The loop invariant of long division. The bits of n above i are h, those *)
(* not yet looked at are l; c is the quotient of h by d, its bits already   *)
(* in their final place in q, and r is the remainder.                      *)
Divided(h, l, c) ==
  /\ n = h * Pow2[i + 1] + l /\ l < Pow2[i + 1]
  /\ q = c * Pow2[i + 1]
  /\ h = c * d + r /\ r < d

LoopInv ==
  pc = "loop" => /\ i \in 0..(Width - 1) /\ d \in Nat \ {0}
                 /\ \E h, l, c \in Nat : Divided(h, l, c)

(* What the loop has computed when it is left. *)
LeaveInv ==
  pc = "leave" /\ d # 0 => n = q * d + r /\ r < d

(* __udivsi3 works on what Enter gave it. *)
OperandsInv ==
  pc # "enter" =>
    /\ n = IF SignedFn THEN Abs(x) ELSE x
    /\ d = IF SignedFn THEN Abs(y) ELSE y

IInv == DivRemTypeOK /\ LoopInv /\ LeaveInv /\ OperandsInv

(* A difference of words is a word, and the plain difference if there is no *)
(* borrow.                                                                  *)
LEMMA WrapSubTyped ==
  ASSUME NEW a \in I32, NEW b \in I32
  PROVE  WrapSub(a, b) \in I32 /\ (b =< a => WrapSub(a, b) = a - b)
BY FullFacts DEF WrapSub, I32

(* The absolute value of a word is a word, and zero for zero alone. *)
LEMMA AbsTyped ==
  ASSUME NEW a \in I32
  PROVE  Abs(a) \in I32 /\ (a # 0 => Abs(a) # 0)
<1>1. 0 \in I32 /\ Full \in Nat /\ Half \in Nat
  BY FullFacts DEF I32
<1> QED
  BY <1>1, FullFacts DEF Abs, WrapSub, I32, Negative

(* One pass of the loop: what n, the candidate and the bit that is set are. *)
LEMMA PassFacts ==
  ASSUME IInv, pc = "loop", NEW h \in Nat, NEW l \in Nat, NEW c \in Nat, Divided(h, l, c)
  PROVE  \E b \in {0, 1}, m \in Nat :
           /\ RCand = 2 * r + b
           /\ n = (2 * h + b) * Pow2[i] + m /\ m < Pow2[i]
           /\ 2 * h + b = 2 * (c * d) + RCand
           /\ q = (2 * c) * Pow2[i]
           /\ SetBit(q, i) = (2 * c + 1) * Pow2[i]
<1> DEFINE P == Pow2[i]
<1>1. /\ i \in 0..(Width - 1) /\ d \in Nat \ {0} /\ n \in Nat /\ n < Full /\ r \in Nat
      /\ n = h * Pow2[i + 1] + l /\ l < Pow2[i + 1] /\ q = c * Pow2[i + 1]
      /\ h = c * d + r /\ r < d
  BY FullFacts DEF IInv, LoopInv, DivRemTypeOK, I32, Divided
<1>2. P \in Nat \ {0} /\ Pow2[i + 1] = 2 * P
  BY <1>1, Pow2Facts, FullFacts
<1> HIDE DEF P
<1>3. n = (2 * h) * P + l /\ l < 2 * P /\ q = (2 * c) * P
  <2>1. h * (2 * P) = (2 * h) * P /\ c * (2 * P) = (2 * c) * P
    BY <1>2
  <2> QED
    BY <1>1, <1>2, <2>1
<1>4. PICK b \in {0, 1}, m \in Nat : n = (2 * h + b) * P + m /\ m < P
  <2>1. CASE l < P
    <3>1. (2 * h + 0) * P = (2 * h) * P
      BY <1>2
    <3> QED
      BY <1>3, <2>1, <3>1
  <2>2. CASE ~ (l < P)
    <3>1. (2 * h + 1) * P = (2 * h) * P + P
      BY <1>2
    <3>2. (2 * h) * P \in Nat /\ l - P \in Nat /\ l - P < P
      BY <1>2, <1>3, <2>2
    <3>3. n = (2 * h + 1) * P + (l - P)
      BY <1>2, <1>3, <3>1, <3>2
    <3> QED
      BY <3>2, <3>3
  <2> QED
    BY <2>1, <2>2
<1>5. n \div P = 2 * h + b
  <2>1. 2 * h + b \in Nat
    BY <1>4
  <2> QED
    BY <1>1, <1>2, <1>4, <2>1, DivUnique
<1>6. (n \div P) % 2 = b
  BY <1>4, <1>5, Parity
<1>7. c * d \in Nat
  BY <1>1
<1>8. 2 * r < Full
  <2>1. r =< h
    BY <1>1, <1>7
  <2>2. (2 * h + b) * 1 =< (2 * h + b) * P
    BY <1>2, <1>4, TimesMonotone
  <2>3. (2 * h + b) * P \in Nat /\ (2 * h + b) * 1 = 2 * h + b
    BY <1>2, <1>4
  <2>4. 2 * h + b =< n
    BY <1>1, <1>4, <2>2, <2>3
  <2> QED
    BY <1>1, <1>4, <2>1, <2>4, FullFacts
<1>9. (2 * r) % Full = 2 * r
  BY <1>1, <1>8, FullFacts, ModSmall
<1>10. RCand = 2 * r + b
  BY <1>6, <1>9 DEF RCand, P
<1>11. 2 * h + b = 2 * (c * d) + RCand
  BY <1>1, <1>4, <1>7, <1>10
<1>12. SetBit(q, i) = (2 * c + 1) * P
  <2>1. q \div P = 2 * c
    <3>1. q = (2 * c) * P + 0 /\ 2 * c \in Nat /\ q \in Nat
      BY <1>2, <1>3
    <3> QED
      BY <1>2, <3>1, DivUnique
  <2>2. (q \div P) % 2 # 1
    BY <2>1, Parity
  <2>3. (2 * c + 1) * P = (2 * c) * P + P
    BY <1>2
  <2> QED
    BY <1>3, <2>2, <2>3 DEF SetBit, P
<1> QED
  BY <1>3, <1>4, <1>10, <1>11, <1>12 DEF P

(* The product of the quotient so far and what it counts stays below n. *)
LEMMA PartsFit ==
  ASSUME NEW h \in Nat, NEW l \in Nat, NEW c \in Nat, NEW e \in Nat \ {0}, NEW p \in Nat \ {0},
         NEW s \in Nat, NEW m \in Nat, m = h * p + l, h = c * e + s
  PROVE  c * p =< m /\ c * e \in Nat
<1>1. c * 1 =< c * e
  <2>1. 1 * c =< e * c
    BY TimesMonotone
  <2> QED
    BY <2>1
<1>2. c * e \in Nat
  OBVIOUS
<1>3. c =< h
  BY <1>1, <1>2
<1>4. c * p =< h * p
  BY <1>3, TimesMonotone
<1>5. h * p \in Nat /\ c * p \in Nat
  OBVIOUS
<1> QED
  BY <1>2, <1>4, <1>5

-----------------------------------------------------------------------------
(* The initial states satisfy the inductive invariant. *)
LEMMA InitIInv == DivRemInit => IInv
<1> SUFFICES ASSUME DivRemInit PROVE IInv
  OBVIOUS
<1>1. pc = "enter"
  BY DEF DivRemInit
<1>2. DivRemTypeOK
  <2>1. 0 \in I32 /\ 0 \in -1..(Width - 1)
    BY FullFacts DEF I32
  <2>2. fn \in DivRemFns /\ x \in I32 /\ y \in I32
        /\ n = 0 /\ d = 0 /\ i = 0 /\ r = 0 /\ q = 0 /\ result = 0
    BY DEF DivRemInit
  <2> QED
    BY <1>1, <2>1, <2>2 DEF DivRemTypeOK
<1>3. LoopInv /\ LeaveInv /\ OperandsInv
  BY <1>1 DEF LoopInv, LeaveInv, OperandsInv
<1> QED
  BY <1>2, <1>3 DEF IInv

(* Entering: the operands are words. *)
LEMMA EnterStep == IInv /\ Enter => IInv'
<1> SUFFICES ASSUME IInv, Enter PROVE IInv'
  OBVIOUS
<1>1. pc' = "udiv" /\ UNCHANGED <<fn, x, y, i, r, q, result>>
  BY DEF Enter
<1>2. /\ n' = IF SignedFn THEN Abs(x) ELSE x
      /\ d' = IF SignedFn THEN Abs(y) ELSE y
  BY DEF Enter
<1>3. x \in I32 /\ y \in I32 /\ Abs(x) \in I32 /\ Abs(y) \in I32
  BY AbsTyped DEF IInv, DivRemTypeOK
<1>4. n' \in I32 /\ d' \in I32
  BY <1>2, <1>3
<1>5. DivRemTypeOK'
  BY <1>1, <1>4 DEF IInv, DivRemTypeOK, I32, Full
<1>6. OperandsInv'
  BY <1>1, <1>2 DEF OperandsInv, SignedFn, Abs, Negative, WrapSub, Half, Full
<1>7. LoopInv' /\ LeaveInv'
  BY <1>1 DEF LoopInv, LeaveInv
<1> QED
  BY <1>5, <1>6, <1>7 DEF IInv

(* What a step that leaves the operands alone keeps. *)
LEMMA OperandsKept ==
  ASSUME OperandsInv, pc # "enter", UNCHANGED <<fn, x, y, n, d>>
  PROVE  OperandsInv'
BY DEF OperandsInv, SignedFn, Abs, Negative, WrapSub, Half, Full

(* Division by zero skips the loop. *)
LEMMA DivideByZeroStep == IInv /\ DivideByZero => IInv'
<1> SUFFICES ASSUME IInv, DivideByZero PROVE IInv'
  OBVIOUS
<1>1. pc = "udiv" /\ pc' = "leave" /\ d = 0 /\ UNCHANGED <<fn, x, y, n, d, i, r, q, result>>
  BY DEF DivideByZero
<1>2. DivRemTypeOK'
  BY <1>1 DEF IInv, DivRemTypeOK, I32, Full
<1>3. OperandsInv'
  BY <1>1, OperandsKept DEF IInv
<1>4. LoopInv' /\ LeaveInv'
  BY <1>1 DEF LoopInv, LeaveInv
<1> QED
  BY <1>2, <1>3, <1>4 DEF IInv

(* The loop starts with all of n to be looked at. *)
LEMMA StartLoopStep == IInv /\ StartLoop => IInv'
<1> SUFFICES ASSUME IInv, StartLoop PROVE IInv'
  OBVIOUS
<1>1. pc = "udiv" /\ pc' = "loop" /\ d # 0 /\ UNCHANGED <<fn, x, y, n, d, result>>
  BY DEF StartLoop
<1>2. i' = Width - 1 /\ r' = 0 /\ q' = 0
  BY DEF StartLoop
<1>3. n \in Nat /\ n < Full /\ d \in Nat \ {0} /\ Width \in Nat \ {0}
  BY <1>1, FullFacts DEF IInv, DivRemTypeOK, I32
<1>4. i' \in 0..(Width - 1) /\ i' \in -1..(Width - 1) /\ i' + 1 = Width
  BY <1>2, <1>3
<1>5. DivRemTypeOK'
  <2>1. r' \in I32 /\ q' \in I32
    BY <1>2, FullFacts DEF I32
  <2> QED
    BY <1>1, <1>4, <2>1 DEF IInv, DivRemTypeOK, I32, Full
<1>6. Pow2[i' + 1] = Full
  BY <1>4 DEF Full
<1>7. Divided(0, n, 0)'
  <2>1. 0 * Full = 0 /\ 0 * d = 0
    BY <1>3, FullFacts
  <2> QED
    BY <1>1, <1>2, <1>3, <1>6, <2>1 DEF Divided
<1>8. LoopInv'
  <2>1. Divided(0, n, 0)' => \E h, l, c \in Nat : Divided(h, l, c)'
    BY <1>3, <1>1 DEF Divided
  <2> QED
    BY <1>1, <1>3, <1>4, <1>7, <2>1 DEF LoopInv
<1>9. OperandsInv'
  BY <1>1, OperandsKept DEF IInv
<1>10. LeaveInv'
  BY <1>1 DEF LeaveInv
<1> QED
  BY <1>5, <1>8, <1>9, <1>10 DEF IInv

(* A pass of the loop keeps its invariant, and the last one leaves n divided. *)
LEMMA LoopStep == IInv /\ Loop => IInv'
<1> SUFFICES ASSUME IInv, Loop PROVE IInv'
  OBVIOUS
<1>1. pc = "loop" /\ UNCHANGED <<fn, x, y, n, d, result>>
  BY DEF Loop
<1>2. /\ r' = IF Take THEN WrapSub(RCand, d) ELSE RCand
      /\ q' = IF Take THEN SetBit(q, i) ELSE q
      /\ i' = i - 1
      /\ pc' = IF i - 1 < 0 THEN "leave" ELSE "loop"
  BY DEF Loop
<1>3. i \in 0..(Width - 1) /\ d \in Nat \ {0} /\ n \in Nat /\ n < Full /\ r \in Nat /\ d \in I32
  BY <1>1, FullFacts DEF IInv, LoopInv, DivRemTypeOK, I32
<1>4. PICK h \in Nat, l \in Nat, c \in Nat : Divided(h, l, c)
  BY <1>1 DEF IInv, LoopInv
<1>5. PICK b \in {0, 1}, m \in Nat :
        /\ RCand = 2 * r + b
        /\ n = (2 * h + b) * Pow2[i] + m /\ m < Pow2[i]
        /\ 2 * h + b = 2 * (c * d) + RCand
        /\ q = (2 * c) * Pow2[i]
        /\ SetBit(q, i) = (2 * c + 1) * Pow2[i]
  BY <1>1, <1>4, PassFacts
<1> DEFINE P == Pow2[i]
           H == 2 * h + b
           C == IF Take THEN 2 * c + 1 ELSE 2 * c
<1>6. P \in Nat \ {0} /\ Width \in Nat \ {0}
  BY <1>3, Pow2Facts, FullFacts
<1>7. H \in Nat /\ C \in Nat /\ RCand \in Nat /\ r < d
  BY <1>3, <1>4, <1>5 DEF Divided
<1>8. n = H * P + m /\ m < P /\ q' = C * P
  BY <1>2, <1>5
<1>9. c * d \in Nat /\ (2 * c) * d = 2 * (c * d) /\ (2 * c + 1) * d = 2 * (c * d) + d
  BY <1>3
<1>10. RCand =< H
  BY <1>5, <1>7, <1>9
<1>11. H =< n
  <2>1. H * 1 =< H * P
    BY <1>6, <1>7, TimesMonotone
  <2>2. H * P \in Nat /\ H * 1 = H
    BY <1>6, <1>7
  <2> QED
    BY <1>3, <1>7, <1>8, <2>1, <2>2
<1>12. RCand \in I32
  BY <1>3, <1>7, <1>10, <1>11, FullFacts DEF I32
<1>13. H = C * d + r' /\ r' \in Nat /\ r' < d
  <2>1. CASE Take
    <3>1. d =< RCand
      BY <1>3, <1>7, <2>1 DEF Take
    <3>2. r' = RCand - d
      BY <1>2, <1>3, <1>12, <2>1, <3>1, WrapSubTyped
    <3>3. RCand < 2 * d
      BY <1>3, <1>5, <1>7
    <3>4. C = 2 * c + 1
      BY <2>1
    <3> QED
      BY <1>3, <1>5, <1>7, <1>9, <3>1, <3>2, <3>3, <3>4
  <2>2. CASE ~ Take
    <3>1. RCand < d
      BY <1>3, <1>7, <2>2 DEF Take
    <3>2. r' = RCand /\ C = 2 * c
      BY <1>2, <2>2
    <3> QED
      BY <1>3, <1>5, <1>7, <1>9, <3>1, <3>2
  <2> QED
    BY <2>1, <2>2
<1> HIDE DEF P, H, C
<1>14. r' \in I32 /\ q' \in I32
  <2>1. q' =< n
    BY <1>3, <1>6, <1>7, <1>8, <1>13, PartsFit
  <2>2. q' \in Nat
    BY <1>6, <1>7, <1>8
  <2>3. r' < Full
    BY <1>3, <1>13, FullFacts DEF I32
  <2> QED
    BY <1>3, <1>13, <2>1, <2>2, <2>3, FullFacts DEF I32
<1>15. i' \in -1..(Width - 1) /\ i' + 1 = i
  BY <1>2, <1>3, <1>6
<1>16. pc' \in {"loop", "leave"}
  BY <1>2
<1>17. DivRemTypeOK'
  <2>1. fn' \in DivRemFns /\ x' \in I32 /\ y' \in I32 /\ n' \in I32 /\ d' \in I32
        /\ result' \in I32
    BY <1>1 DEF IInv, DivRemTypeOK
  <2>2. I32' = I32 /\ (DivRemFns)' = DivRemFns
    BY DEF I32, Full, DivRemFns
  <2>3. pc' \in {"enter", "udiv", "loop", "leave", "returned"}
    BY <1>16
  <2> QED
    BY <1>14, <1>15, <2>1, <2>2, <2>3 DEF DivRemTypeOK
<1>18. OperandsInv'
  BY <1>1, OperandsKept DEF IInv
<1>19. LoopInv'
  <2>1. SUFFICES ASSUME pc' = "loop" PROVE LoopInv'
    BY DEF LoopInv
  <2>2. ~ (i - 1 < 0)
    BY <1>2, <2>1
  <2>3. i' \in 0..(Width - 1)
    BY <1>2, <1>3, <1>6, <2>2
  <2>4. n' = H * Pow2[i' + 1] + m /\ m < Pow2[i' + 1] /\ q' = C * Pow2[i' + 1]
        /\ H = C * d' + r' /\ r' < d'
    BY <1>1, <1>8, <1>13, <1>15 DEF P
  <2>5. PICK hh \in Nat, cc \in Nat : hh = H /\ cc = C
    BY <1>7
  <2>6. Divided(hh, m, cc)'
    BY <2>4, <2>5 DEF Divided
  <2> QED
    BY <1>1, <1>3, <2>1, <2>3, <2>6 DEF LoopInv
<1>20. LeaveInv'
  <2>1. SUFFICES ASSUME pc' = "leave" PROVE n' = q' * d' + r' /\ r' < d'
    BY DEF LeaveInv
  <2>2. i = 0
    <3>1. CASE i - 1 < 0
      BY <1>3, <3>1
    <3>2. CASE ~ (i - 1 < 0)
      BY <1>2, <2>1, <3>2
    <3> QED
      BY <3>1, <3>2
  <2>3. P = 1
    BY <2>2, Pow2Facts DEF P
  <2>4. m = 0 /\ n = H /\ q' = C
    BY <1>7, <1>8, <2>3
  <2> QED
    BY <1>1, <1>13, <2>4
<1> QED
  BY <1>17, <1>18, <1>19, <1>20 DEF IInv

(* After the loop q and the remainder are what C says they are. *)
LEMMA LeaveFacts ==
  ASSUME IInv, pc = "leave"
  PROVE  /\ Remainder \in I32
         /\ d # 0 => q = n \div d /\ Remainder = n % d
<1>1. n \in I32 /\ d \in I32 /\ q \in I32 /\ r \in I32
  BY DEF IInv, DivRemTypeOK
<1>2. n \in Nat /\ d \in Nat /\ q \in Nat /\ r \in Nat /\ n < Full
  BY <1>1, FullFacts DEF I32
<1>3. WrapMul(q, d) \in I32
  <2>1. q * d \in Nat
    BY <1>2
  <2>2. (q * d) % Full \in 0..(Full - 1)
    BY <2>1, FullFacts
  <2> QED
    BY <2>2 DEF WrapMul, I32
<1>4. Remainder \in I32
  BY <1>1, <1>3, WrapSubTyped DEF Remainder
<1>5. ASSUME d # 0 PROVE q = n \div d /\ Remainder = n % d
  <2>1. n = q * d + r /\ r < d
    BY <1>5 DEF IInv, LeaveInv
  <2>2. q = n \div d /\ r = n % d
    BY <1>2, <1>5, <2>1, DivUnique
  <2>3. q * d \in Nat /\ q * d =< n /\ n - q * d = r
    BY <1>2, <2>1
  <2>4. WrapMul(q, d) = q * d
    BY <1>2, <2>3, FullFacts, ModSmall DEF WrapMul
  <2>5. Remainder = n - q * d
    BY <1>1, <1>3, <2>3, <2>4, WrapSubTyped DEF Remainder
  <2> QED
    BY <2>2, <2>3, <2>5
<1> QED
  BY <1>4, <1>5

(* What the four functions return, as words. *)
LEMMA ReturnedWord ==
  ASSUME IInv, Return
  PROVE  result' \in I32 /\ DivRight'
<1>1. pc = "leave" /\ UNCHANGED <<fn, x, y, n, d, i, r, q>>
  BY DEF Return
<1>2. result' = CASE fn = "__udivsi3" -> q
                  [] fn = "__umodsi3" -> Remainder
                  [] fn = "__divsi3" -> IF Negative(x) # Negative(y) THEN WrapSub(0, q) ELSE q
                  [] fn = "__modsi3" -> IF Negative(x) THEN WrapSub(0, Remainder) ELSE Remainder
  BY DEF Return
<1>3. fn \in DivRemFns /\ x \in I32 /\ y \in I32 /\ q \in I32 /\ n \in I32 /\ d \in I32
  BY DEF IInv, DivRemTypeOK
<1>4. Remainder \in I32 /\ (d # 0 => q = n \div d /\ Remainder = n % d)
  BY <1>1, LeaveFacts
<1>5. /\ n = IF SignedFn THEN Abs(x) ELSE x
      /\ d = IF SignedFn THEN Abs(y) ELSE y
  BY <1>1 DEF IInv, OperandsInv
<1>6. y # 0 => d # 0
  BY <1>3, <1>5, AbsTyped
<1>7. 0 \in I32
  BY FullFacts DEF I32
<1>8. ASSUME NEW w \in I32
      PROVE  WrapSub(0, w) \in I32 /\ (WrapSub(0, w) = -w \/ WrapSub(0, w) = -w + Full)
  <2>1. WrapSub(0, w) = -w \/ WrapSub(0, w) = -w + Full
    BY FullFacts DEF WrapSub, I32
  <2> QED
    BY <1>7, <2>1, WrapSubTyped
<1>9. fn' = fn /\ x' = x /\ y' = y
  BY <1>1
<1>10. CASE fn = "__udivsi3"
  <2>1. result' = q
    BY <1>2, <1>10
  <2>2. ~ SignedFn
    BY <1>10 DEF SignedFn
  <2>3. y # 0 => result' = x \div y
    BY <1>4, <1>5, <1>6, <2>1, <2>2
  <2> QED
    BY <1>3, <1>9, <1>10, <2>1, <2>3 DEF DivRight
<1>11. CASE fn = "__umodsi3"
  <2>1. result' = Remainder
    BY <1>2, <1>11
  <2>2. ~ SignedFn
    BY <1>11 DEF SignedFn
  <2>3. y # 0 => result' = x % y
    BY <1>4, <1>5, <1>6, <2>1, <2>2
  <2> QED
    BY <1>4, <1>9, <1>11, <2>1, <2>3 DEF DivRight
<1>12. CASE fn = "__divsi3"
  <2>1. result' = IF Negative(x) # Negative(y) THEN WrapSub(0, q) ELSE q
    BY <1>2, <1>12
  <2>2. SignedFn
    BY <1>12 DEF SignedFn
  <2>3. result' \in I32
    BY <1>3, <1>8, <2>1
  <2>4. ASSUME y # 0 PROVE IsWordOf(result', Quotient(x, y))
    <3>1. q = Abs(x) \div Abs(y)
      BY <1>4, <1>5, <1>6, <2>2, <2>4
    <3>2. CASE Negative(x) = Negative(y)
      <4>1. result' = q /\ Quotient(x, y) = q
        BY <2>1, <3>1, <3>2 DEF Quotient
      <4> QED
        BY <4>1 DEF IsWordOf
    <3>3. CASE Negative(x) # Negative(y)
      <4>1. result' = WrapSub(0, q) /\ Quotient(x, y) = -q
        BY <2>1, <3>1, <3>3 DEF Quotient
      <4> QED
        BY <1>3, <1>8, <4>1 DEF IsWordOf
    <3> QED
      BY <3>2, <3>3
  <2> QED
    BY <1>9, <1>12, <2>3, <2>4 DEF DivRight
<1>13. CASE fn = "__modsi3"
  <2>1. result' = IF Negative(x) THEN WrapSub(0, Remainder) ELSE Remainder
    BY <1>2, <1>13
  <2>2. SignedFn
    BY <1>13 DEF SignedFn
  <2>3. result' \in I32
    BY <1>4, <1>8, <2>1
  <2>4. ASSUME y # 0 PROVE IsWordOf(result', Rest(x, y))
    <3>1. Remainder = Abs(x) % Abs(y)
      BY <1>4, <1>5, <1>6, <2>2, <2>4
    <3>2. CASE Negative(x)
      <4>1. result' = WrapSub(0, Remainder) /\ Rest(x, y) = -Remainder
        BY <2>1, <3>1, <3>2 DEF Rest
      <4> QED
        BY <1>4, <1>8, <4>1 DEF IsWordOf
    <3>3. CASE ~ Negative(x)
      <4>1. result' = Remainder /\ Rest(x, y) = Remainder
        BY <2>1, <3>1, <3>3 DEF Rest
      <4> QED
        BY <4>1 DEF IsWordOf
    <3> QED
      BY <3>2, <3>3
  <2> QED
    BY <1>9, <1>13, <2>3, <2>4 DEF DivRight
<1> QED
  BY <1>3, <1>10, <1>11, <1>12, <1>13 DEF DivRemFns

(* Returning keeps the invariant, and returns the right word. *)
LEMMA ReturnStep == IInv /\ Return => IInv' /\ DivRight'
<1> SUFFICES ASSUME IInv, Return PROVE IInv' /\ DivRight'
  OBVIOUS
<1>1. pc = "leave" /\ pc' = "returned" /\ UNCHANGED <<fn, x, y, n, d, i, r, q>>
  BY DEF Return
<1>2. result' \in I32 /\ DivRight'
  BY ReturnedWord
<1>3. DivRemTypeOK'
  BY <1>1, <1>2 DEF IInv, DivRemTypeOK, I32, Full
<1>4. OperandsInv'
  BY <1>1, OperandsKept DEF IInv
<1>5. LoopInv' /\ LeaveInv'
  BY <1>1 DEF LoopInv, LeaveInv
<1> QED
  BY <1>2, <1>3, <1>4, <1>5 DEF IInv

(* Every step keeps the invariant and the correctness of what was returned. *)
LEMMA NextStep == IInv /\ DivRight /\ [DivRemNext]_vars => IInv' /\ DivRight'
<1> SUFFICES ASSUME IInv, DivRight, [DivRemNext]_vars PROVE IInv' /\ DivRight'
  OBVIOUS
<1>1. CASE Enter
  <2>1. DivRight'
    BY <1>1 DEF Enter, DivRight
  <2> QED
    BY <1>1, <2>1, EnterStep
<1>2. CASE DivideByZero
  <2>1. DivRight'
    BY <1>2 DEF DivideByZero, DivRight
  <2> QED
    BY <1>2, <2>1, DivideByZeroStep
<1>3. CASE StartLoop
  <2>1. DivRight'
    BY <1>3 DEF StartLoop, DivRight
  <2> QED
    BY <1>3, <2>1, StartLoopStep
<1>4. CASE Loop
  <2>1. pc' # "returned"
    BY <1>4 DEF Loop
  <2>2. DivRight'
    BY <2>1 DEF DivRight
  <2> QED
    BY <1>4, <2>2, LoopStep
<1>5. CASE Return
  BY <1>5, ReturnStep
<1>6. CASE UNCHANGED vars
  <2>1. UNCHANGED <<fn, x, y, pc, n, d, i, r, q, result>>
    BY <1>6 DEF vars
  <2>2. DivRemTypeOK' /\ OperandsInv' /\ LeaveInv'
    BY <2>1 DEF IInv, DivRemTypeOK, OperandsInv, LeaveInv, SignedFn, Abs, Negative, WrapSub,
                I32, Half, Full
  <2>3. LoopInv'
    BY <2>1 DEF IInv, LoopInv, Divided
  <2>4. DivRight'
    BY <2>1 DEF DivRight, IsWordOf, Quotient, Rest, Abs, Negative, WrapSub, Half, Full
  <2> QED
    BY <2>2, <2>3, <2>4 DEF IInv
<1> QED
  BY <1>1, <1>2, <1>3, <1>4, <1>5, <1>6 DEF DivRemNext

(* The inductive invariant holds in every reachable state. *)
THEOREM DivisionInvariant == DivRemSpec => [](IInv /\ DivRight)
<1>1. DivRemInit => DivRight
  BY DEF DivRemInit, DivRight
<1> QED
  BY <1>1, InitIInv, NextStep, PTL DEF DivRemSpec

(* The division helpers keep every word within the width of the machine:   *)
(* the residue never loses a bit off its top (injectDivRemHelpers).        *)
THEOREM DivisionTyped == DivRemSpec => []DivRemTypeOK
<1>1. IInv => DivRemTypeOK
  BY DEF IInv
<1> QED
  BY <1>1, DivisionInvariant, PTL

(* For words of every width and all operands, __udivsi3, __umodsi3,        *)
(* __divsi3 and __modsi3 return what C says of / and %.                    *)
THEOREM DivisionRight == DivRemSpec => []DivRight
<1> QED
  BY DivisionInvariant, PTL


-----------------------------------------------------------------------------
(* Induction, as the least of the numbers that have a property, the powers  *)
(* of two and the parts of a word.                                          *)

(* The pairs of numbers in ascending order, which is well-founded.          *)
Lower == {p \in Nat \X Nat : p[1] < p[2]}

(* A set of natural numbers that has a member has a least one.              *)
LEMMA LeastNumber ==
  ASSUME NEW T \in SUBSET Nat, T # {}
  PROVE  \E k \in T : \A m \in T : k =< m
<1>1. IsWellFoundedOn(Lower, Nat)
  BY NatLessThanWellFounded DEF OpToRel, Lower
<1>2. PICK k \in T : \A m \in T : ~(<<m, k>> \in Lower)
  BY <1>1, WFMin
<1>3. ASSUME NEW m \in T PROVE k =< m
  <2>1. m \in Nat /\ k \in Nat
    OBVIOUS
  <2>2. <<m, k>> \notin Lower
    BY <1>2
  <2>3. ~(m < k)
    BY <2>1, <2>2 DEF Lower
  <2> QED BY <2>1, <2>3
<1> QED BY <1>3

(* A power of two is a number, and larger than its exponent.                *)
LEMMA PowerPositive ==
  ASSUME NEW w \in Nat, PowersDouble(w)
  PROVE  \A k \in 0..w : 2^k \in Nat /\ 2^k > k
<1> DEFINE Bad == {k \in 0..w : ~(2^k \in Nat /\ 2^k > k)}
<1> SUFFICES ASSUME Bad # {} PROVE FALSE
  OBVIOUS
<1>1. PICK k \in Bad : \A m \in Bad : k =< m
  <2>1. Bad \in SUBSET Nat
    OBVIOUS
  <2> HIDE DEF Bad
  <2> QED BY <2>1, LeastNumber
<1>2. CASE k = 0
  BY <1>1, <1>2 DEF PowersDouble
<1>3. CASE k # 0
  <2>1. k - 1 \in 0..(w - 1) /\ k - 1 \notin Bad /\ (k - 1) + 1 = k
    BY <1>1, <1>3
  <2>2. 2^(k - 1) \in Nat /\ 2^(k - 1) > k - 1
    BY <2>1
  <2>3. 2^k = 2 * 2^(k - 1)
    BY <2>1 DEF PowersDouble
  <2>4. 2^k \in Nat /\ 2^k > k
    BY <2>1, <2>2, <2>3
  <2> QED BY <2>4
<1> QED BY <1>2, <1>3

(* Exponents add up.                                                        *)
LEMMA PowerAdds ==
  ASSUME NEW w \in Nat, PowersDouble(w), NEW a \in Nat, NEW b \in Nat, a + b =< w
  PROVE  2^(a + b) = 2^a * 2^b
<1> DEFINE Bad == {k \in 0..(w - a) : 2^(a + k) # 2^a * 2^k}
<1>1. (\A k \in 0..w : 2^k \in Nat) /\ b \in 0..(w - a)
  BY PowerPositive
<1> SUFFICES ASSUME Bad # {} PROVE FALSE
  BY <1>1
<1>2. PICK k \in Bad : \A m \in Bad : k =< m
  <2>1. Bad \in SUBSET Nat
    OBVIOUS
  <2> HIDE DEF Bad
  <2> QED BY <2>1, LeastNumber
<1>3. CASE k = 0
  <2>1. 2^0 = 1 /\ 2^a \in Nat /\ a + 0 = a
    BY <1>1 DEF PowersDouble
  <2> QED BY <1>2, <1>3, <2>1
<1>4. CASE k # 0
  <2>1. k \in 1..(w - a) /\ k - 1 \in 0..(w - a) /\ k - 1 \notin Bad
    BY <1>2, <1>4
  <2>2. 2^(a + (k - 1)) = 2^a * 2^(k - 1)
    BY <2>1
  <2>3. /\ (a + (k - 1)) + 1 = a + k /\ (k - 1) + 1 = k
        /\ k - 1 \in 0..(w - 1) /\ a + (k - 1) \in 0..(w - 1)
    BY <2>1
  <2>4. 2^k = 2 * 2^(k - 1) /\ 2^(a + k) = 2 * 2^(a + (k - 1))
    BY <2>3 DEF PowersDouble
  <2>5. 2^a \in Nat /\ 2^(k - 1) \in Nat
    BY <1>1, <2>1
  <2>6. 2^(a + k) = 2^a * 2^k
    BY <2>2, <2>4, <2>5
  <2> QED BY <1>2, <2>6
<1> QED BY <1>3, <1>4

(* A quotient and its remainder.                                            *)
LEMMA Division ==
  ASSUME NEW v \in Nat, NEW p \in Nat \ {0}
  PROVE  v \div p \in Nat /\ v % p \in 0..(p - 1) /\ v = (v \div p) * p + (v % p)
  BY SMT

(* A word of two parts.                                                     *)
LEMMA Parted ==
  ASSUME NEW p \in Nat \ {0}, NEW c \in Nat, NEW v \in 0..(c * p - 1)
  PROVE  /\ v \div p \in 0..(c - 1) /\ v % p \in 0..(p - 1)
         /\ v = (v \div p) * p + (v % p)
<1>1. v \in Nat /\ c * p \in Nat /\ v < c * p
  OBVIOUS
<1>2. v \div p \in Nat /\ v % p \in 0..(p - 1) /\ v = (v \div p) * p + (v % p)
  BY <1>1, Division
<1>3. v \div p < c
  <2> SUFFICES ASSUME c =< v \div p PROVE FALSE
    BY <1>2
  <2> DEFINE k == v \div p
  <2>1. k \in Nat /\ v >= k * p
    BY <1>2
  <2>2. k * p >= c * p
    <3> HIDE DEF k
    <3> QED BY <2>1, TimesMonotone
  <2>3. k * p \in Nat
    BY <2>1
  <2> QED BY <1>1, <2>1, <2>2, <2>3
<1> QED BY <1>2, <1>3

(* The lowest bit of a number above an even one.                            *)
LEMMA LowestBit ==
  ASSUME NEW k \in Nat, NEW h \in Nat, NEW c \in Nat
  PROVE  (k * (2 * h) + c) % 2 = c % 2
<1>1. c \div 2 \in Nat /\ c % 2 \in 0..1 /\ c = (c \div 2) * 2 + (c % 2)
  BY SMT
<1> DEFINE l == k * h + (c \div 2)
<1>2. l \in Nat /\ k * (2 * h) + c = l * 2 + (c % 2)
  BY <1>1
<1> HIDE DEF l
<1>3. l * 2 + (c % 2) \in Nat /\ c % 2 \in Nat
  BY <1>1, <1>2
<1>4. (l * 2 + (c % 2)) % 2 = c % 2
  BY <1>1, <1>2, <1>3, DivUnique
<1> QED BY <1>2, <1>4

(* A multiple divided by what it is a multiple of, negative or not.         *)
LEMMA Multiple ==
  ASSUME NEW k \in Int, NEW p \in Nat \ {0}
  PROVE  (k * p) \div p = k
<1> DEFINE c == (k * p) \div p
           l == (k * p) % p
<1>1. c \in Int /\ l \in 0..(p - 1) /\ k * p = c * p + l
  <2>1. k * p \in Int
    OBVIOUS
  <2> QED BY <2>1, SMT
<1> HIDE DEF c, l
<1>2. ~(c < k)
  <2> SUFFICES ASSUME c < k PROVE FALSE
    OBVIOUS
  <2>1. k - c \in Nat /\ 1 =< k - c /\ 1 * p =< (k - c) * p
    BY <1>1, TimesMonotone
  <2>2. (k - c) * p = k * p - c * p
    BY <1>1
  <2>3. k * p \in Int /\ c * p \in Int
    BY <1>1
  <2> QED BY <1>1, <2>1, <2>2, <2>3
<1>3. ~(k < c)
  <2> SUFFICES ASSUME k < c PROVE FALSE
    OBVIOUS
  <2>1. c - k \in Nat /\ 1 =< c - k /\ 1 * p =< (c - k) * p
    BY <1>1, TimesMonotone
  <2>2. (c - k) * p = c * p - k * p
    BY <1>1
  <2>3. k * p \in Int /\ c * p \in Int
    BY <1>1
  <2> QED BY <1>1, <2>1, <2>2, <2>3
<1> QED BY <1>1, <1>2, <1>3 DEF c

-----------------------------------------------------------------------------
(* The bits of a word.                                                      *)

(* A bit is 0 or 1.                                                         *)
LEMMA BitTyped ==
  ASSUME NEW v \in Nat, NEW k \in 0..ISelBits
  PROVE  Bit(v, k) \in {0, 1}
<1>1. 2^k \in Nat \ {0}
  BY ISelPowers, ISelBitsAssumption, PowerPositive
<1>2. v \div 2^k \in Nat
  <2> DEFINE p == 2^k
  <2>1. p \in Nat \ {0}
    BY <1>1
  <2> HIDE DEF p
  <2>2. v \div p \in Nat
    BY <2>1, SMT
  <2> QED BY <2>2 DEF p
<1>3. (v \div 2^k) % 2 \in {0, 1}
  <2> DEFINE l == v \div 2^k
  <2>1. l \in Nat
    BY <1>2
  <2> HIDE DEF l
  <2>2. l % 2 \in {0, 1}
    BY <2>1, SMT
  <2> QED BY <2>2 DEF l
<1> QED BY <1>3 DEF Bit

(* A word of one bit more: its top bit, and the others.                     *)
LEMMA BitAbove ==
  ASSUME NEW m \in Nat, m =< ISelBits, NEW h \in {0, 1}, NEW l \in 0..(2^m - 1)
  PROVE  /\ h * 2^m + l \in Nat
         /\ Bit(h * 2^m + l, m) = h
         /\ \A k \in 0..(m - 1) : Bit(h * 2^m + l, k) = Bit(l, k)
<1>1. ISelBits \in Nat /\ PowersDouble(ISelBits)
  BY ISelBitsAssumption, ISelPowers
<1> DEFINE v == h * 2^m + l
<1>2. 2^m \in Nat \ {0}
  BY <1>1, PowerPositive
<1>3. l \in Nat /\ l < 2^m
  BY <1>2
<1>4. v \in Nat
  BY <1>2, <1>3
<1>5. Bit(v, m) = h
  <2> DEFINE p == 2^m
  <2>1. p \in Nat \ {0} /\ l < p /\ v = h * p + l
    BY <1>2, <1>3
  <2> HIDE DEF p, v
  <2>2. v \div p = h
    BY <1>3, <1>4, <2>1, DivUnique
  <2>3. h % 2 = h
    OBVIOUS
  <2> QED BY <2>2, <2>3 DEF Bit, p
<1>6. ASSUME NEW k \in 0..(m - 1)
      PROVE  Bit(v, k) = Bit(l, k)
  <2> DEFINE p == 2^k
             e == 2^(m - 1 - k)
             c == l \div p
             t == l % p
  <2>1. p \in Nat \ {0} /\ e \in Nat \ {0}
    BY <1>1, PowerPositive
  <2>2. 2^m = (2 * e) * p
    <3>1. 2^m = 2^(m - k) * p
      <4>1. m - k \in Nat /\ k \in Nat /\ (m - k) + k = m
        OBVIOUS
      <4> QED BY <1>1, <4>1, PowerAdds
    <3>2. 2^(m - k) = 2 * e
      <4>1. m - 1 - k \in 0..(ISelBits - 1) /\ (m - 1 - k) + 1 = m - k
        BY <1>1
      <4> QED BY <1>1, <4>1 DEF PowersDouble
    <3> QED BY <3>1, <3>2
  <2>3. c \in Nat /\ t \in Nat /\ t < p /\ l = c * p + t
    <3> HIDE DEF p
    <3> QED BY <1>3, <2>1, SMT
  <2>4. v = (h * (2 * e) + c) * p + t
    <3>1. v = h * ((2 * e) * p) + (c * p + t)
      BY <2>2, <2>3
    <3> HIDE DEF p, e, c, t, v
    <3> QED BY <2>1, <2>3, <3>1
  <2> HIDE DEF p, e, c, t, v
  <2>5. h * (2 * e) + c \in Nat
    BY <2>1, <2>3
  <2>6. v \div p = h * (2 * e) + c
    BY <1>4, <2>1, <2>3, <2>4, <2>5, DivUnique
  <2>7. (h * (2 * e) + c) % 2 = c % 2
    <3>1. h \in Nat /\ e \in Nat
      BY <2>1
    <3> QED BY <2>3, <3>1, LowestBit
  <2> QED BY <2>6, <2>7 DEF Bit, p, c
<1> QED BY <1>4, <1>5, <1>6

(* Every word of one bit more is such a one.                                *)
LEMMA BitsSplit ==
  ASSUME NEW m \in Nat, m + 1 =< ISelBits, NEW v \in 0..(2^(m + 1) - 1)
  PROVE  \E h \in {0, 1}, l \in 0..(2^m - 1) : v = h * 2^m + l
<1>1. ISelBits \in Nat /\ PowersDouble(ISelBits)
  BY ISelBitsAssumption, ISelPowers
<1> DEFINE p == 2^m
<1>2. p \in Nat \ {0} /\ 2^(m + 1) = 2 * p
  BY <1>1, PowerPositive DEF PowersDouble
<1>3. v \in Nat /\ v < 2 * p
  <2>1. v \in 0..(2 * p - 1)
    BY <1>2
  <2> HIDE DEF p
  <2> QED BY <1>2, <2>1
<1> HIDE DEF p
<1>4. CASE v < p
  <2>1. v \in 0..(p - 1) /\ v = 0 * p + v
    BY <1>2, <1>3, <1>4
  <2> QED BY <2>1 DEF p
<1>5. CASE p =< v
  <2>1. v - p \in 0..(p - 1) /\ v = 1 * p + (v - p)
    BY <1>2, <1>3, <1>5
  <2> QED BY <2>1 DEF p
<1> QED BY <1>2, <1>3, <1>4, <1>5

(* There is a word for every set of bits.                                   *)
LEMMA WordExists ==
  ASSUME NEW S \in SUBSET (0..(ISelBits - 1))
  PROVE  \E v \in Words(ISelBits) : Ones(v) = S
<1>1. ISelBits \in Nat \ {0} /\ PowersDouble(ISelBits)
  BY ISelBitsAssumption, ISelPowers
<1> DEFINE has(m) == \E v \in 0..(2^m - 1) : \A k \in 0..(m - 1) : Bit(v, k) = 1 <=> k \in S
           Bad == {m \in 0..ISelBits : ~has(m)}
<1>2. Bad = {}
  <2> SUFFICES ASSUME Bad # {} PROVE FALSE
    OBVIOUS
  <2>1. PICK m \in Bad : \A k \in Bad : m =< k
    <3>1. Bad \in SUBSET Nat
      OBVIOUS
    <3> HIDE DEF Bad
    <3> QED BY <3>1, LeastNumber
  <2>2. CASE m = 0
    <3>1. 2^0 = 1
      BY <1>1 DEF PowersDouble
    <3>2. has(0)
      BY <3>1
    <3> QED BY <2>1, <2>2, <3>2
  <2>3. CASE m # 0
    <3> DEFINE o == m - 1
               h == IF o \in S THEN 1 ELSE 0
    <3>1. o \in 0..ISelBits /\ o \in Nat /\ o + 1 = m /\ o =< ISelBits /\ o + 1 =< ISelBits /\ o < m
      BY <1>1, <2>3
    <3>2. has(o)
      <4>1. o \notin Bad
        <5> HIDE DEF Bad, o
        <5> QED BY <2>1, <3>1
      <4> QED BY <3>1, <4>1
    <3>3. PICK l \in 0..(2^o - 1) : \A k \in 0..(o - 1) : Bit(l, k) = 1 <=> k \in S
      BY <3>2
    <3>4. /\ Bit(h * 2^o + l, o) = h
          /\ \A k \in 0..(o - 1) : Bit(h * 2^o + l, k) = Bit(l, k)
      BY <3>1, <3>3, BitAbove
    <3>5. h * 2^o + l \in 0..(2^m - 1)
      <4>1. 2^m = 2 * 2^o /\ 2^o \in Nat \ {0}
        <5>1. o \in 0..(ISelBits - 1)
          BY <1>1, <3>1
        <5>2. 2^(o + 1) = 2 * 2^o
          BY <1>1, <5>1 DEF PowersDouble
        <5>3. 2^o \in Nat \ {0}
          BY <1>1, <3>1, PowerPositive
        <5> QED BY <3>1, <5>2, <5>3
      <4> DEFINE p == 2^o
      <4>2. l \in 0..(p - 1) /\ p \in Nat \ {0} /\ h \in {0, 1} /\ 2^m = 2 * p
        BY <3>3, <4>1
      <4> HIDE DEF p, h
      <4>3. h * p + l \in 0..(2 * p - 1)
        BY <4>2
      <4> QED BY <4>2, <4>3 DEF p
    <3>6. ASSUME NEW k \in 0..(m - 1)
          PROVE  Bit(h * 2^o + l, k) = 1 <=> k \in S
      <4>1. CASE k = o
        BY <3>4, <4>1
      <4>2. CASE k # o
        <5>1. k \in 0..(o - 1)
          BY <3>1, <4>2
        <5> QED BY <3>3, <3>4, <5>1
      <4> QED BY <4>1, <4>2
    <3>7. has(m)
      BY <3>5, <3>6
    <3> QED BY <2>1, <3>7
  <2> QED BY <2>2, <2>3
<1>3. has(ISelBits)
  <2>1. ISelBits \in 0..ISelBits
    BY <1>1
  <2> QED BY <1>2, <2>1
<1> QED BY <1>3 DEF Words, Ones

(* And only one.                                                            *)
LEMMA SameBits ==
  ASSUME NEW v \in Words(ISelBits), NEW w \in Words(ISelBits), Ones(v) = Ones(w)
  PROVE  v = w
<1>1. ISelBits \in Nat \ {0} /\ PowersDouble(ISelBits)
  BY ISelBitsAssumption, ISelPowers
<1> DEFINE same(s, t, m) == \A k \in 0..(m - 1) : Bit(s, k) = Bit(t, k)
           one(m) == \A s, t \in 0..(2^m - 1) : same(s, t, m) => s = t
           Bad == {m \in 0..ISelBits : ~one(m)}
<1>2. Bad = {}
  <2> SUFFICES ASSUME Bad # {} PROVE FALSE
    OBVIOUS
  <2>1. PICK m \in Bad : \A k \in Bad : m =< k
    <3>1. Bad \in SUBSET Nat
      OBVIOUS
    <3> HIDE DEF Bad
    <3> QED BY <3>1, LeastNumber
  <2>2. CASE m = 0
    <3>1. 2^0 = 1
      BY <1>1 DEF PowersDouble
    <3>2. one(0)
      BY <3>1
    <3> QED BY <2>1, <2>2, <3>2
  <2>3. CASE m # 0
    <3> DEFINE o == m - 1
    <3>1. o \in 0..ISelBits /\ o \in Nat /\ o + 1 = m /\ o =< ISelBits /\ o + 1 =< ISelBits /\ o < m
      BY <1>1, <2>3
    <3>2. one(o)
      <4>1. o \notin Bad
        <5> HIDE DEF Bad, o
        <5> QED BY <2>1, <3>1
      <4> QED BY <3>1, <4>1
    <3>3. ASSUME NEW s \in 0..(2^m - 1), NEW t \in 0..(2^m - 1), same(s, t, m)
          PROVE  s = t
      <4>1. PICK h \in {0, 1}, l \in 0..(2^o - 1) : s = h * 2^o + l
        BY <3>1, BitsSplit
      <4>2. PICK g \in {0, 1}, c \in 0..(2^o - 1) : t = g * 2^o + c
        BY <3>1, BitsSplit
      <4>3. Bit(s, o) = h /\ \A k \in 0..(o - 1) : Bit(s, k) = Bit(l, k)
        BY <3>1, <4>1, BitAbove
      <4>4. Bit(t, o) = g /\ \A k \in 0..(o - 1) : Bit(t, k) = Bit(c, k)
        BY <3>1, <4>2, BitAbove
      <4>5. h = g
        BY <3>1, <3>3, <4>3, <4>4
      <4>6. same(l, c, o)
        <5> SUFFICES ASSUME NEW k \in 0..(o - 1) PROVE Bit(l, k) = Bit(c, k)
          OBVIOUS
        <5>1. k \in 0..(m - 1)
          BY <3>1
        <5> QED BY <3>3, <4>3, <4>4, <5>1
      <4>7. l = c
        BY <3>2, <4>6
      <4> QED BY <4>1, <4>2, <4>5, <4>7
    <3>4. one(m)
      BY <3>3
    <3> QED BY <2>1, <3>4
  <2> QED BY <2>2, <2>3
<1>3. one(ISelBits)
  <2>1. ISelBits \in 0..ISelBits
    BY <1>1
  <2> QED BY <1>2, <2>1
<1>4. same(v, w, ISelBits)
  <2> SUFFICES ASSUME NEW k \in 0..(ISelBits - 1) PROVE Bit(v, k) = Bit(w, k)
    OBVIOUS
  <2>1. v \in Nat /\ w \in Nat /\ k \in 0..ISelBits
    <3>1. 2^ISelBits \in Nat \ {0}
      BY <1>1, PowerPositive
    <3> QED BY <1>1, <3>1 DEF Words
  <2>2. Bit(v, k) \in {0, 1} /\ Bit(w, k) \in {0, 1}
    BY <2>1, BitTyped
  <2>3. Bit(v, k) = 1 <=> Bit(w, k) = 1
    BY DEF Ones
  <2> QED BY <2>2, <2>3
<1> QED BY <1>3, <1>4 DEF Words

(* What And, Or and Xor make of words: a word, by its bits.                 *)
LEMMA BitwiseWords ==
  ASSUME NEW a \in Words(ISelBits), NEW b \in Words(ISelBits)
  PROVE  /\ And(a, b) \in Words(ISelBits) /\ Ones(And(a, b)) = Ones(a) \cap Ones(b)
         /\ Or(a, b) \in Words(ISelBits) /\ Ones(Or(a, b)) = Ones(a) \cup Ones(b)
         /\ Xor(a, b) \in Words(ISelBits)
         /\ Ones(Xor(a, b)) = (Ones(a) \ Ones(b)) \cup (Ones(b) \ Ones(a))
<1>1. \A S \in SUBSET (0..(ISelBits - 1)) :
        OfOnes(S) \in Words(ISelBits) /\ Ones(OfOnes(S)) = S
  <2> SUFFICES ASSUME NEW S \in SUBSET (0..(ISelBits - 1))
               PROVE  OfOnes(S) \in Words(ISelBits) /\ Ones(OfOnes(S)) = S
    OBVIOUS
  <2>1. \E v \in Words(ISelBits) : Ones(v) = S
    BY WordExists
  <2> QED BY <2>1 DEF OfOnes
<1>2. Ones(a) \subseteq 0..(ISelBits - 1) /\ Ones(b) \subseteq 0..(ISelBits - 1)
  BY DEF Ones
<1> QED BY <1>1, <1>2 DEF And, Or, Xor

(* An i32 and half of it.                                                   *)
LEMMA ISelFacts ==
  /\ ISelBits \in Nat /\ ISelBits >= 2 /\ PowersDouble(ISelBits)
  /\ 2^(ISelBits - 1) \in Nat /\ 2^(ISelBits - 1) >= 2
  /\ 2^ISelBits = 2 * 2^(ISelBits - 1)
<1>1. ISelBits \in Nat /\ ISelBits >= 2 /\ PowersDouble(ISelBits)
  BY ISelBitsAssumption, ISelPowers
<1>2. 2^(ISelBits - 1) \in Nat /\ 2^(ISelBits - 1) > ISelBits - 1
  BY <1>1, PowerPositive
<1>3. 2^((ISelBits - 1) + 1) = 2 * 2^(ISelBits - 1)
  BY <1>1 DEF PowersDouble
<1>4. (ISelBits - 1) + 1 = ISelBits
  BY <1>1
<1> DEFINE h == 2^(ISelBits - 1)
<1>5. h \in Nat /\ h > ISelBits - 1 /\ 2^ISelBits = 2 * h
  BY <1>2, <1>3, <1>4
<1> HIDE DEF h
<1>6. h >= 2
  BY <1>1, <1>5
<1> QED BY <1>1, <1>5, <1>6 DEF h

(* The sign bit of a word, which is its top bit.                            *)
LEMMA SignBitIs ==
  ASSUME NEW a \in Words(ISelBits)
  PROVE  /\ SignBit(a) = IF a < 2^(ISelBits - 1) THEN 0 ELSE 1
         /\ SignBit(a) = 1 <=> ISelBits - 1 \in Ones(a)
<1> DEFINE m == ISelBits - 1
           p == 2^m
<1>1. ISelBits \in Nat /\ m \in Nat /\ m + 1 = ISelBits /\ m =< ISelBits /\ p \in Nat \ {0}
  <2>1. p \in Nat \ {0}
    BY ISelFacts
  <2> HIDE DEF p
  <2> QED BY <2>1, ISelFacts
<1>2. PICK g \in {0, 1}, l \in 0..(p - 1) : a = g * p + l
  <2>1. a \in 0..(2^(m + 1) - 1) /\ m + 1 =< ISelBits
    BY <1>1 DEF Words
  <2> QED BY <1>1, <2>1, BitsSplit
<1>3. Bit(a, m) = g
  BY <1>1, <1>2, BitAbove
<1>4. a \div p = g /\ (a < p <=> g = 0)
  <2> HIDE DEF p
  <2>1. g * p + l \in Nat /\ l \in Nat /\ g \in Nat /\ l < p
    BY <1>1, <1>2
  <2>2. a \div p = g
    BY <1>1, <1>2, <2>1, DivUnique
  <2> QED BY <1>1, <1>2, <2>2
<1>5. SignBit(a) = g
  BY <1>4 DEF SignBit, LShr
<1>6. m \in Ones(a) <=> g = 1
  BY <1>1, <1>3 DEF Ones
<1> QED BY <1>4, <1>5, <1>6

(* The bits of 0, of 1 and of the least negative word.                      *)
LEMMA BitsOfConstants ==
  /\ 0 \in Words(ISelBits) /\ Ones(0) = {}
  /\ 1 \in Words(ISelBits) /\ Ones(1) = {0}
  /\ 2^(ISelBits - 1) \in Words(ISelBits) /\ Ones(2^(ISelBits - 1)) = {ISelBits - 1}
<1>1. \A k \in 0..ISelBits : 2^k \in Nat /\ 2^k > k
  BY ISelFacts, PowerPositive
<1>2. \A k \in 0..(ISelBits - 1) : Bit(0, k) = 0
  <2> SUFFICES ASSUME NEW k \in 0..(ISelBits - 1) PROVE Bit(0, k) = 0
    OBVIOUS
  <2> DEFINE p == 2^k
  <2>1. p \in Nat \ {0}
    BY <1>1, ISelFacts
  <2> HIDE DEF p
  <2>2. 0 \div p = 0
    BY <2>1, SMT
  <2>3. 0 % 2 = 0
    BY SMT
  <2> QED BY <2>2, <2>3, Zenon DEF Bit, p
<1>3. \A k \in 0..(ISelBits - 1) : Bit(1, k) = IF k = 0 THEN 1 ELSE 0
  <2> SUFFICES ASSUME NEW k \in 0..(ISelBits - 1) PROVE Bit(1, k) = IF k = 0 THEN 1 ELSE 0
    OBVIOUS
  <2> DEFINE p == 2^k
  <2>1. CASE k = 0
    <3>1. p = 1
      BY <2>1, ISelFacts DEF PowersDouble
    <3> QED BY <2>1, <3>1, SMT DEF Bit
  <2>2. CASE k # 0
    <3>1. p \in Nat \ {0} /\ 1 < p
      <4>1. p \in Nat /\ p > k /\ k >= 1
        BY <1>1, <2>2, ISelFacts
      <4> HIDE DEF p
      <4> QED BY <2>2, <4>1
    <3> HIDE DEF p
    <3>2. 1 \div p = 0
      BY <3>1, SMT
    <3>3. 0 % 2 = 0
      BY SMT
    <3> QED BY <2>2, <3>2, <3>3, Zenon DEF Bit, p
  <2> QED BY <2>1, <2>2
<1> DEFINE m == ISelBits - 1
           h == 2^m
<1>4. /\ Bit(1 * h + 0, m) = 1
      /\ \A k \in 0..(m - 1) : Bit(1 * h + 0, k) = Bit(0, k)
  <2>1. m \in Nat /\ m =< ISelBits /\ 0 \in 0..(h - 1)
    BY ISelFacts
  <2> QED BY <2>1, BitAbove
<1>5. 1 * h + 0 = h
  BY ISelFacts
<1>6. \A k \in 0..m : Bit(h, k) = IF k = m THEN 1 ELSE 0
  <2>1. \A k \in 0..m : k = m \/ k \in 0..(m - 1)
    BY ISelFacts
  <2>2. \A k \in 0..(m - 1) : k \in 0..(ISelBits - 1) /\ k # m
    BY ISelFacts
  <2> HIDE DEF h, m
  <2> QED BY <1>2, <1>4, <1>5, <2>1, <2>2
<1>7. 0 \in Words(ISelBits) /\ 1 \in Words(ISelBits) /\ h \in Words(ISelBits)
  <2>1. h \in Nat /\ h >= 2 /\ 2^ISelBits = 2 * h
    BY ISelFacts
  <2> HIDE DEF h
  <2> QED BY <2>1 DEF Words
<1>8. Ones(0) = {}
  BY <1>2 DEF Ones
<1>9. Ones(1) = {0}
  <2>1. 0 \in 0..(ISelBits - 1)
    BY ISelFacts
  <2> QED BY <1>3, <2>1 DEF Ones
<1>10. Ones(h) = {m}
  <2>1. m \in 0..m
    BY ISelFacts
  <2> QED BY <1>6, <2>1 DEF Ones
<1> QED BY <1>7, <1>8, <1>9, <1>10

(* The complement of a word has the other bits.                             *)
LEMMA BitsOfNot ==
  ASSUME NEW a \in Words(ISelBits)
  PROVE  /\ Not(ISelBits, a) \in Words(ISelBits)
         /\ Ones(Not(ISelBits, a)) = (0..(ISelBits - 1)) \ Ones(a)
<1> DEFINE w == 2^ISelBits
           v == w - 1 - a
<1>1. w \in Nat \ {0} /\ a \in Nat /\ a < w
  <2>1. w \in Nat \ {0}
    BY ISelFacts
  <2> HIDE DEF w
  <2>2. a \in 0..(w - 1)
    BY DEF Words, w
  <2> QED BY <2>1, <2>2
<1>2. v \in Nat /\ v \in 0..(w - 1)
  <2> HIDE DEF w
  <2> QED BY <1>1
<1>3. ASSUME NEW k \in 0..(ISelBits - 1)
      PROVE  Bit(v, k) = 1 <=> ~(Bit(a, k) = 1)
  <2> DEFINE p == 2^k
             e == 2^(ISelBits - 1 - k)
             c == a \div p
             t == a % p
  <2>1. p \in Nat \ {0} /\ e \in Nat \ {0}
    BY ISelFacts, PowerPositive
  <2>2. w = (2 * e) * p
    <3>1. 2^ISelBits = 2^(ISelBits - k) * p
      <4>1. ISelBits - k \in Nat /\ k \in Nat /\ (ISelBits - k) + k = ISelBits
        BY ISelFacts
      <4> QED BY ISelFacts, <4>1, PowerAdds
    <3>2. 2^(ISelBits - k) = 2 * e
      <4>1. ISelBits - 1 - k \in 0..(ISelBits - 1) /\ (ISelBits - 1 - k) + 1 = ISelBits - k
        BY ISelFacts
      <4> QED BY ISelFacts, <4>1 DEF PowersDouble
    <3> QED BY <3>1, <3>2
  <2>3. c \in Nat /\ t \in Nat /\ t < p /\ a = c * p + t
    <3> HIDE DEF p
    <3> QED BY <1>1, <2>1, SMT
  <2> HIDE DEF p, e, c, t, v, w
  <2>4. c < 2 * e
    <3> SUFFICES ASSUME 2 * e =< c PROVE FALSE
      BY <2>1, <2>3
    <3>1. (2 * e) * p =< c * p
      BY <2>1, <2>3, TimesMonotone
    <3>2. (2 * e) * p \in Nat /\ c * p \in Nat
      BY <2>1, <2>3
    <3> QED BY <1>1, <2>2, <2>3, <3>1, <3>2
  <2>5. v = (2 * e - 1 - c) * p + (p - 1 - t)
    <3>1. (2 * e - 1 - c) * p = (2 * e) * p - p - c * p
      BY <2>1, <2>3
    <3>2. (2 * e) * p \in Int /\ c * p \in Int
      BY <2>1, <2>3
    <3> QED BY <1>1, <2>1, <2>2, <2>3, <3>1, <3>2 DEF v
  <2>6. v \div p = 2 * e - 1 - c
    <3>1. 2 * e - 1 - c \in Nat /\ p - 1 - t \in Nat /\ p - 1 - t < p
      BY <2>1, <2>3, <2>4
    <3> QED BY <1>2, <2>1, <2>5, <3>1, DivUnique
  <2>7. (2 * e - 1 - c) % 2 = 1 <=> ~(c % 2 = 1)
    BY <2>1, <2>3, <2>4, SMT
  <2> QED BY <2>6, <2>7 DEF Bit, p, c
<1>4. Ones(v) = (0..(ISelBits - 1)) \ Ones(a)
  BY <1>3 DEF Ones
<1> QED BY <1>2, <1>4 DEF Not, Words

-----------------------------------------------------------------------------
(* Comparisons, selects and what is made of them.                           *)

(* A difference of words, and the sign that a word has.                     *)
LEMMA MinusIs ==
  ASSUME NEW a \in Words(ISelBits), NEW b \in Words(ISelBits)
  PROVE  /\ Minus(a, b) \in Words(ISelBits)
         /\ Minus(a, b) = IF b =< a THEN a - b ELSE a - b + 2^ISelBits
<1> DEFINE w == 2^ISelBits
           v == IF b =< a THEN a - b ELSE a - b + w
<1>1. w \in Nat \ {0}
  <2>1. 2^(ISelBits - 1) \in Nat /\ 2^(ISelBits - 1) >= 2 /\ w = 2 * 2^(ISelBits - 1)
    BY ISelFacts
  <2> HIDE DEF w
  <2> QED BY <2>1
<1>2. a \in 0..(w - 1) /\ b \in 0..(w - 1)
  BY DEF Words
<1> HIDE DEF w
<1>3. v \in 0..(w - 1)
  BY <1>1, <1>2
<1>4. (a - b) % w = v
  BY <1>1, <1>2, SMT
<1> QED BY <1>3, <1>4 DEF Minus, Sub, Words, w

(* Exclusive or with the least negative word adds or subtracts it.          *)
LEMMA FlipTop ==
  ASSUME NEW a \in Words(ISelBits)
  PROVE  LET h == 2^(ISelBits - 1)
         IN  /\ Xor(a, h) \in Words(ISelBits)
             /\ Xor(a, h) = IF a < h THEN a + h ELSE a - h
<1> DEFINE m == ISelBits - 1
           h == 2^m
<1>1. ISelBits \in Nat /\ m \in Nat /\ m + 1 = ISelBits /\ m =< ISelBits /\ h \in Nat \ {0}
      /\ 2^ISelBits = 2 * h
  <2>1. h \in Nat \ {0}
    BY ISelFacts
  <2> HIDE DEF h
  <2>2. m \in Nat /\ m + 1 = ISelBits /\ m =< ISelBits
    BY ISelFacts
  <2>3. 2^ISelBits = 2 * h
    BY ISelFacts DEF h
  <2> QED BY <2>1, <2>2, <2>3, ISelFacts
<1>2. PICK g \in {0, 1}, l \in 0..(h - 1) : a = g * h + l
  <2>1. a \in 0..(2^(m + 1) - 1) /\ m + 1 =< ISelBits
    BY <1>1 DEF Words
  <2> QED BY <1>1, <2>1, BitsSplit
<1> DEFINE v == (1 - g) * h + l
<1>3. Bit(a, m) = g /\ \A k \in 0..(m - 1) : Bit(a, k) = Bit(l, k)
  BY <1>1, <1>2, BitAbove
<1>4. Bit(v, m) = 1 - g /\ \A k \in 0..(m - 1) : Bit(v, k) = Bit(l, k)
  <2>1. 1 - g \in {0, 1}
    BY <1>2
  <2> QED BY <1>1, <2>1, BitAbove
<1>5. v \in Words(ISelBits) /\ v = IF a < h THEN a + h ELSE a - h
  <2> HIDE DEF h
  <2>1. v \in 0..(2 * h - 1) /\ v = IF a < h THEN a + h ELSE a - h
    BY <1>1, <1>2
  <2> QED BY <1>1, <2>1 DEF Words
<1>6. Ones(v) = (Ones(a) \ {m}) \cup ({m} \ Ones(a))
  <2> HIDE DEF v, h
  <2>1. \A k \in 0..m : k = m \/ (k \in 0..(m - 1) /\ k # m)
    BY <1>1
  <2>2. m \in 0..m /\ 0..(ISelBits - 1) = 0..m
    BY <1>1
  <2>3. \A k \in 0..m : Bit(v, k) = IF k = m THEN 1 - g ELSE Bit(a, k)
    BY <1>3, <1>4, <2>1
  <2>4. g = 0 \/ g = 1
    BY <1>2
  <2>5. (Bit(v, m) = 1) <=> ~(Bit(a, m) = 1)
    BY <1>3, <1>4, <2>4
  <2> HIDE DEF m
  <2> QED BY <2>2, <2>3, <2>5 DEF Ones
<1>7. Xor(a, h) \in Words(ISelBits) /\ Ones(Xor(a, h)) = (Ones(a) \ {m}) \cup ({m} \ Ones(a))
  BY BitsOfConstants, BitwiseWords
<1>8. Xor(a, h) = v
  BY <1>5, <1>6, <1>7, SameBits
<1> QED BY <1>5, <1>7, <1>8

(* The negation of an i1 that is held in an i32.                            *)
LEMMA Inverse1Is ==
  ASSUME NEW p \in {0, 1}
  PROVE  Inverse1(p) = 1 - p
<1>1. p \in Words(ISelBits) /\ 1 - p \in Words(ISelBits)
  BY BitsOfConstants
<1>2. /\ Xor(p, 1) \in Words(ISelBits)
      /\ Ones(Xor(p, 1)) = (Ones(p) \ Ones(1)) \cup (Ones(1) \ Ones(p))
  BY <1>1, BitsOfConstants, BitwiseWords
<1>3. Ones(Xor(p, 1)) = Ones(1 - p)
  <2>1. CASE p = 0
    <3>1. 1 - p = 1
      BY <2>1
    <3> QED BY <1>2, <2>1, <3>1, BitsOfConstants, Zenon
  <2>2. CASE p = 1
    <3>1. 1 - p = 0
      BY <2>2
    <3> QED BY <1>2, <2>2, <3>1, BitsOfConstants, Zenon
  <2> QED BY <2>1, <2>2
<1>4. Xor(p, 1) = 1 - p
  BY <1>1, <1>2, <1>3, SameBits
<1> QED BY <1>4 DEF Inverse1

(* The comparisons LowerSETCC makes: less than, signed and unsigned, and    *)
(* equal.                                                                   *)
LEMMA SltIs ==
  ASSUME NEW a \in Words(ISelBits), NEW b \in Words(ISelBits)
  PROVE  Slt(a, b) = IF Signed(ISelBits, a) < Signed(ISelBits, b) THEN 1 ELSE 0
<1> DEFINE h == 2^(ISelBits - 1)
           s == Minus(a, b)
           neg(v) == ISelBits - 1 \in Ones(v)
           v == Xor(s, And(Xor(a, b), Xor(s, a)))
<1>1. s \in Words(ISelBits) /\ s = IF b =< a THEN a - b ELSE a - b + 2 * h
  BY MinusIs, ISelFacts
<1>2. v \in Words(ISelBits) /\ (neg(v) <=> ~(neg(s) <=> (~(neg(a) <=> neg(b)) /\ ~(neg(s) <=> neg(a)))))
  <2> DEFINE t == Xor(a, b)
             u == Xor(s, a)
             z == And(t, u)
  <2>1. t \in Words(ISelBits) /\ (neg(t) <=> ~(neg(a) <=> neg(b)))
    BY BitwiseWords
  <2>2. u \in Words(ISelBits) /\ (neg(u) <=> ~(neg(s) <=> neg(a)))
    BY <1>1, BitwiseWords
  <2> HIDE DEF t, u
  <2>3. z \in Words(ISelBits) /\ (neg(z) <=> neg(t) /\ neg(u))
    BY <2>1, <2>2, BitwiseWords
  <2> HIDE DEF z, s
  <2>4. Xor(s, z) \in Words(ISelBits) /\ (neg(Xor(s, z)) <=> ~(neg(s) <=> neg(z)))
    BY <1>1, <2>3, BitwiseWords
  <2> QED BY <2>1, <2>2, <2>3, <2>4 DEF t, u, z
<1>3. \A z \in {a, b, s, v} : (neg(z) <=> ~(z < h)) /\ SignBit(z) = IF neg(z) THEN 1 ELSE 0
  BY <1>1, <1>2, SignBitIs
<1>4. a \in 0..(2 * h - 1) /\ b \in 0..(2 * h - 1) /\ h \in Nat
  <2>1. h \in Nat /\ 2^ISelBits = 2 * h
    BY ISelFacts
  <2> QED BY <2>1 DEF Words
<1>5. Slt(a, b) = IF neg(v) THEN 1 ELSE 0
  BY <1>3 DEF Slt
<1>6. Signed(ISelBits, a) = (IF a < h THEN a ELSE a - 2 * h)
      /\ Signed(ISelBits, b) = IF b < h THEN b ELSE b - 2 * h
  BY ISelFacts DEF Signed
<1> HIDE DEF h, s, v, neg
<1>7. neg(v) <=> ~(~(s < h) <=> (~(~(a < h) <=> ~(b < h)) /\ ~(~(s < h) <=> ~(a < h))))
  BY <1>2, <1>3
<1>8. neg(v) <=> Signed(ISelBits, a) < Signed(ISelBits, b)
  BY <1>1, <1>4, <1>6, <1>7
<1> QED BY <1>5, <1>8

(* With both sign bits flipped, it compares without signs.                  *)
LEMMA UltIs ==
  ASSUME NEW a \in Words(ISelBits), NEW b \in Words(ISelBits)
  PROVE  Ult(a, b) = IF a < b THEN 1 ELSE 0
<1> DEFINE h == 2^(ISelBits - 1)
           s == Xor(a, h)
           t == Xor(b, h)
<1>1. /\ s \in Words(ISelBits) /\ t \in Words(ISelBits)
      /\ s = (IF a < h THEN a + h ELSE a - h) /\ t = (IF b < h THEN b + h ELSE b - h)
  BY FlipTop
<1>2. Ult(a, b) = IF Signed(ISelBits, s) < Signed(ISelBits, t) THEN 1 ELSE 0
  BY <1>1, SltIs DEF Ult
<1>3. a \in 0..(2 * h - 1) /\ b \in 0..(2 * h - 1) /\ h \in Nat
  <2>1. h \in Nat /\ 2^ISelBits = 2 * h
    BY ISelFacts
  <2> QED BY <2>1 DEF Words
<1>4. Signed(ISelBits, s) = (IF s < h THEN s ELSE s - 2 * h)
      /\ Signed(ISelBits, t) = IF t < h THEN t ELSE t - 2 * h
  BY ISelFacts DEF Signed
<1> HIDE DEF h, s, t
<1>5. Signed(ISelBits, s) < Signed(ISelBits, t) <=> a < b
  BY <1>1, <1>3, <1>4
<1> QED BY <1>2, <1>5

(* Words are equal when their exclusive or is zero.                         *)
LEMMA EqIs ==
  ASSUME NEW a \in Words(ISelBits), NEW b \in Words(ISelBits)
  PROVE  Eq(a, b) = IF a = b THEN 1 ELSE 0
<1> DEFINE h == 2^(ISelBits - 1)
           s == Xor(a, b)
           t == Minus(0, s)
           v == Or(s, t)
<1>1. s \in Words(ISelBits) /\ Ones(s) = (Ones(a) \ Ones(b)) \cup (Ones(b) \ Ones(a))
  BY BitwiseWords
<1>2. s = 0 <=> a = b
  <2>1. a = b => s = 0
    <3> SUFFICES ASSUME a = b PROVE s = 0
      OBVIOUS
    <3>1. Ones(s) = Ones(0)
      BY <1>1, BitsOfConstants
    <3> QED BY <1>1, <3>1, BitsOfConstants, SameBits
  <2>2. s = 0 => a = b
    <3> SUFFICES ASSUME s = 0 PROVE a = b
      OBVIOUS
    <3>1. Ones(s) = {}
      BY BitsOfConstants
    <3>2. Ones(a) = Ones(b)
      BY <1>1, <3>1
    <3> QED BY <3>2, SameBits
  <2> QED BY <2>1, <2>2
<1> HIDE DEF s
<1>3. t \in Words(ISelBits) /\ t = IF s =< 0 THEN 0 - s ELSE 0 - s + 2 * h
  BY <1>1, BitsOfConstants, MinusIs, ISelFacts
<1> HIDE DEF t
<1>4. v \in Words(ISelBits) /\ Ones(v) = Ones(s) \cup Ones(t)
  BY <1>1, <1>3, BitwiseWords
<1>5. SignBit(v) = IF s < h /\ t < h THEN 0 ELSE 1
  <2>1. \A z \in {s, t, v} : /\ SignBit(z) = IF z < h THEN 0 ELSE 1
                             /\ SignBit(z) = 1 <=> ISelBits - 1 \in Ones(z)
    BY <1>1, <1>3, <1>4, SignBitIs
  <2> HIDE DEF v, h
  <2> QED BY <1>4, <2>1
<1>6. s \in 0..(2 * h - 1) /\ h \in Nat /\ h >= 2
  <2>1. h \in Nat /\ h >= 2 /\ 2^ISelBits = 2 * h
    BY ISelFacts
  <2> QED BY <1>1, <2>1 DEF Words
<1>7. NeZ(s) = SignBit(v)
  BY DEF NeZ, t
<1> HIDE DEF h, v
<1>8. NeZ(s) = IF a = b THEN 0 ELSE 1
  <2>1. s < h /\ t < h <=> s = 0
    BY <1>3, <1>6
  <2> QED BY <1>2, <1>5, <1>7, <2>1
<1>9. Inverse1(0) = 1 /\ Inverse1(1) = 0
  BY Inverse1Is
<1> QED BY <1>8, <1>9 DEF Eq, s

(* What LowerSETCC makes of every predicate of icmp is 1 where the relation *)
(* holds and 0 where it does not, at every width: also where the difference *)
(* of the operands overflows.                                               *)
THEOREM SetCCRight ==
  \A cc \in CondCodes, a, b \in Words(ISelBits) :
    LowerSETCC(cc, a, b) = IF Related(cc, a, b) THEN 1 ELSE 0
<1> SUFFICES ASSUME NEW cc \in CondCodes, NEW a \in Words(ISelBits), NEW b \in Words(ISelBits)
             PROVE  LowerSETCC(cc, a, b) = IF Related(cc, a, b) THEN 1 ELSE 0
  OBVIOUS
<1> DEFINE sa == Signed(ISelBits, a)
           sb == Signed(ISelBits, b)
<1>1. a \in Int /\ b \in Int /\ sa \in Int /\ sb \in Int
  <2> DEFINE w == 2^ISelBits
             h == 2^(ISelBits - 1)
  <2>1. h \in Nat /\ w = 2 * h
    BY ISelFacts
  <2>2. a \in 0..(w - 1) /\ b \in 0..(w - 1)
    BY DEF Words
  <2>3. sa = (IF a < h THEN a ELSE a - w) /\ sb = IF b < h THEN b ELSE b - w
    BY DEF Signed
  <2> HIDE DEF w, h, sa, sb
  <2> QED BY <2>1, <2>2, <2>3
<1>2. /\ Slt(a, b) = (IF sa < sb THEN 1 ELSE 0) /\ Slt(b, a) = IF sb < sa THEN 1 ELSE 0
      /\ Ult(a, b) = (IF a < b THEN 1 ELSE 0) /\ Ult(b, a) = IF b < a THEN 1 ELSE 0
      /\ Eq(a, b) = IF a = b THEN 1 ELSE 0
  BY SltIs, UltIs, EqIs
<1>3. Inverse1(0) = 1 /\ Inverse1(1) = 0
  BY Inverse1Is
<1>4. /\ Related("eq", a, b) = (a = b) /\ Related("ne", a, b) = (a # b)
      /\ Related("ult", a, b) = (a < b) /\ Related("ule", a, b) = (a =< b)
      /\ Related("ugt", a, b) = (a > b) /\ Related("uge", a, b) = (a >= b)
      /\ Related("slt", a, b) = (sa < sb) /\ Related("sle", a, b) = (sa =< sb)
      /\ Related("sgt", a, b) = (sa > sb) /\ Related("sge", a, b) = (sa >= sb)
  BY DEF Related
<1>5. /\ LowerSETCC("slt", a, b) = Slt(a, b) /\ LowerSETCC("sgt", a, b) = Slt(b, a)
      /\ LowerSETCC("sle", a, b) = Inverse1(Slt(b, a))
      /\ LowerSETCC("sge", a, b) = Inverse1(Slt(a, b))
      /\ LowerSETCC("ult", a, b) = Ult(a, b) /\ LowerSETCC("ugt", a, b) = Ult(b, a)
      /\ LowerSETCC("ule", a, b) = Inverse1(Ult(b, a))
      /\ LowerSETCC("uge", a, b) = Inverse1(Ult(a, b))
      /\ LowerSETCC("eq", a, b) = Eq(a, b) /\ LowerSETCC("ne", a, b) = Inverse1(Eq(a, b))
  BY DEF LowerSETCC
<1> HIDE DEF sa, sb
<1>6. /\ LowerSETCC("slt", a, b) = (IF sa < sb THEN 1 ELSE 0)
      /\ LowerSETCC("sgt", a, b) = (IF sa > sb THEN 1 ELSE 0)
      /\ LowerSETCC("sle", a, b) = (IF sa =< sb THEN 1 ELSE 0)
      /\ LowerSETCC("sge", a, b) = IF sa >= sb THEN 1 ELSE 0
  BY <1>1, <1>2, <1>3, <1>5
<1>7. /\ LowerSETCC("ult", a, b) = (IF a < b THEN 1 ELSE 0)
      /\ LowerSETCC("ugt", a, b) = (IF a > b THEN 1 ELSE 0)
      /\ LowerSETCC("ule", a, b) = (IF a =< b THEN 1 ELSE 0)
      /\ LowerSETCC("uge", a, b) = IF a >= b THEN 1 ELSE 0
  BY <1>1, <1>2, <1>3, <1>5
<1>8. /\ LowerSETCC("eq", a, b) = (IF a = b THEN 1 ELSE 0)
      /\ LowerSETCC("ne", a, b) = IF a # b THEN 1 ELSE 0
  BY <1>2, <1>3, <1>5
<1>9. cc \in {"slt", "sgt", "sle", "sge", "ult", "ugt", "ule", "uge", "eq", "ne"}
  BY DEF CondCodes
<1> QED BY <1>4, <1>6, <1>7, <1>8, <1>9

(* A word is the only one with its bits.                                    *)
LEMMA BitsMakeWord ==
  ASSUME NEW a \in Words(ISelBits), NEW b \in Words(ISelBits)
  PROVE  /\ (Ones(b) = 0..(ISelBits - 1) => And(a, b) = a)
         /\ (Ones(b) = {} => And(a, b) = 0 /\ Or(a, b) = a /\ Or(b, a) = a /\ Xor(a, b) = a)
         /\ (Ones(b) = 0..(ISelBits - 1) => Xor(a, b) = Not(ISelBits, a))
<1> DEFINE D == 0..(ISelBits - 1)
<1>1. Ones(a) \subseteq D
  BY DEF Ones
<1>2. /\ And(a, b) \in Words(ISelBits) /\ Ones(And(a, b)) = Ones(a) \cap Ones(b)
      /\ Or(a, b) \in Words(ISelBits) /\ Ones(Or(a, b)) = Ones(a) \cup Ones(b)
      /\ Or(b, a) \in Words(ISelBits) /\ Ones(Or(b, a)) = Ones(b) \cup Ones(a)
      /\ Xor(a, b) \in Words(ISelBits)
      /\ Ones(Xor(a, b)) = (Ones(a) \ Ones(b)) \cup (Ones(b) \ Ones(a))
  BY BitwiseWords
<1>3. Not(ISelBits, a) \in Words(ISelBits) /\ Ones(Not(ISelBits, a)) = D \ Ones(a)
  BY BitsOfNot
<1> HIDE DEF D
<1>4. ASSUME Ones(b) = D PROVE And(a, b) = a
  <2>1. And(a, b) \in Words(ISelBits) /\ Ones(And(a, b)) = Ones(a)
    BY <1>1, <1>4, <1>2
  <2> QED BY <2>1, SameBits
<1>5. ASSUME Ones(b) = {} PROVE And(a, b) = 0 /\ Or(a, b) = a /\ Or(b, a) = a /\ Xor(a, b) = a
  <2>1. /\ And(a, b) \in Words(ISelBits) /\ Ones(And(a, b)) = {}
        /\ Or(a, b) \in Words(ISelBits) /\ Ones(Or(a, b)) = Ones(a)
        /\ Or(b, a) \in Words(ISelBits) /\ Ones(Or(b, a)) = Ones(a)
        /\ Xor(a, b) \in Words(ISelBits) /\ Ones(Xor(a, b)) = Ones(a)
    BY <1>5, <1>2
  <2> QED BY <2>1, BitsOfConstants, SameBits
<1>6. ASSUME Ones(b) = D PROVE Xor(a, b) = Not(ISelBits, a)
  <2>1. /\ Xor(a, b) \in Words(ISelBits) /\ Ones(Xor(a, b)) = D \ Ones(a)
    BY <1>1, <1>6, <1>2
  <2> QED BY <1>3, <2>1, SameBits
<1> QED BY <1>4, <1>5, <1>6 DEF D

(* All ones: the complement of 0, and what 0 - 1 is.                        *)
LEMMA AllOnes ==
  /\ 2^ISelBits - 1 \in Words(ISelBits) /\ Ones(2^ISelBits - 1) = 0..(ISelBits - 1)
  /\ Not(ISelBits, 0) = 2^ISelBits - 1 /\ Not(ISelBits, 2^ISelBits - 1) = 0
  /\ Minus(0, 0) = 0 /\ Minus(0, 1) = 2^ISelBits - 1
<1> DEFINE w == 2^ISelBits
<1>1. w \in Nat /\ w >= 4
  <2>1. 2^(ISelBits - 1) \in Nat /\ 2^(ISelBits - 1) >= 2 /\ w = 2 * 2^(ISelBits - 1)
    BY ISelFacts
  <2> DEFINE h == 2^(ISelBits - 1)
  <2>2. h \in Nat /\ h >= 2 /\ w = 2 * h
    BY <2>1
  <2> HIDE DEF w, h
  <2> QED BY <2>2
<1>2. Not(ISelBits, 0) = w - 1 - 0 /\ Not(ISelBits, w - 1) = w - 1 - (w - 1)
  BY DEF Not
<1>3. Minus(0, 0) = (IF 0 =< 0 THEN 0 - 0 ELSE 0 - 0 + w)
      /\ Minus(0, 1) = IF 1 =< 0 THEN 0 - 1 ELSE 0 - 1 + w
  BY BitsOfConstants, MinusIs
<1>4. Not(ISelBits, 0) \in Words(ISelBits)
      /\ Ones(Not(ISelBits, 0)) = (0..(ISelBits - 1)) \ Ones(0)
  BY BitsOfConstants, BitsOfNot
<1>5. Ones(0) = {}
  BY BitsOfConstants
<1> HIDE DEF w
<1>6. Not(ISelBits, 0) = w - 1 /\ Not(ISelBits, w - 1) = 0 /\ Minus(0, 0) = 0 /\ Minus(0, 1) = w - 1
  BY <1>1, <1>2, <1>3
<1>7. w - 1 \in Words(ISelBits) /\ Ones(w - 1) = 0..(ISelBits - 1)
  BY <1>4, <1>5, <1>6
<1> QED BY <1>6, <1>7 DEF w

(* A blend of two words is the one its condition chooses.                   *)
LEMMA BlendIs ==
  ASSUME NEW a \in Words(ISelBits), NEW b \in Words(ISelBits), NEW c \in {0, 1}
  PROVE  Blend(c, a, b) = IF c = 1 THEN a ELSE b
<1> DEFINE w == 2^ISelBits - 1
<1>1. a # Poison /\ b # Poison
  <2> DEFINE u == 2^ISelBits
  <2>1. a \in 0..(u - 1) /\ b \in 0..(u - 1) /\ u \in Nat
    BY ISelFacts DEF Words
  <2> HIDE DEF u
  <2> QED BY <2>1 DEF Poison
<1>2. Blend(c, a, b) = Or(And(a, Minus(0, c)), And(b, Not(ISelBits, Minus(0, c))))
  BY <1>1 DEF Blend
<1>3. w \in Words(ISelBits) /\ Ones(w) = 0..(ISelBits - 1) /\ 0 \in Words(ISelBits) /\ Ones(0) = {}
  BY AllOnes, BitsOfConstants
<1>4. CASE c = 1
  <2>1. Blend(c, a, b) = Or(And(a, w), And(b, 0))
    BY <1>2, <1>4, AllOnes
  <2> HIDE DEF w
  <2>2. And(a, w) = a /\ And(b, 0) = 0 /\ Or(a, 0) = a
    BY <1>3, BitsMakeWord
  <2> QED BY <1>4, <2>1, <2>2
<1>5. CASE c = 0
  <2>1. Blend(c, a, b) = Or(And(a, 0), And(b, w))
    BY <1>2, <1>5, AllOnes
  <2> HIDE DEF w
  <2>2. And(b, w) = b /\ And(a, 0) = 0 /\ Or(0, b) = b
    BY <1>3, BitsMakeWord
  <2> QED BY <1>5, <2>1, <2>2
<1> QED BY <1>4, <1>5

(* A select means the arm it chooses, poison in the other or not.           *)
LEMMA SelectRight ==
  ASSUME NEW isPtr \in BOOLEAN, NEW c \in {0, 1},
         NEW s \in Words(ISelBits) \cup {Poison}, NEW t \in Words(ISelBits) \cup {Poison},
         ~isPtr => Poison \notin {s, t},
         NEW v \in SelectRewrite(isPtr, c, s, t)
  PROVE  LET chosen == IF c = 1 THEN s ELSE t
         IN  chosen # Poison => v = chosen
<1>1. PICK sv \in Frozen(isPtr, s), tv \in Frozen(isPtr, t) : v = Blend(c, sv, tv)
  BY DEF SelectRewrite
<1>2. /\ sv \in Words(ISelBits) /\ (s # Poison => sv = s)
      /\ tv \in Words(ISelBits) /\ (t # Poison => tv = t)
  BY DEF Frozen
<1>3. v = IF c = 1 THEN sv ELSE tv
  BY <1>1, <1>2, BlendIs
<1> QED BY <1>2, <1>3

(* abs of a word is its absolute value, and of INT_MIN itself.              *)
LEMMA AbsRight ==
  ASSUME NEW a \in Words(ISelBits)
  PROVE  LET s == Signed(ISelBits, a)
         IN  AbsRewrite(a) = Word(ISelBits, IF s < 0 THEN -s ELSE s)
<1> DEFINE h == 2^(ISelBits - 1)
           w == 2^ISelBits
           m == AddMask(a)
<1>1. h \in Nat /\ h >= 2 /\ w = 2 * h
  BY ISelFacts
<1>2. a \in 0..(w - 1)
  BY DEF Words
<1>3. Signed(ISelBits, a) = IF a < h THEN a ELSE a - w
  BY DEF Signed
<1>4. SignBit(a) = IF a < h THEN 0 ELSE 1
  BY SignBitIs
<1>5. AbsRewrite(a) = Minus(Xor(a, m), m)
  BY DEF AbsRewrite
<1>6. CASE a < h
  <2>1. m = 0
    BY <1>4, <1>6 DEF AddMask
  <2>2. Xor(a, 0) = a
    BY BitsMakeWord, BitsOfConstants
  <2>3. Minus(a, 0) = IF 0 =< a THEN a - 0 ELSE a - 0 + w
    BY BitsOfConstants, MinusIs
  <2>4. Word(ISelBits, a) = a % w
    BY DEF Word
  <2> HIDE DEF h, w, m
  <2>5. a % w = a /\ Minus(a, 0) = a
    BY <1>1, <1>2, <2>3, SMT
  <2>6. Signed(ISelBits, a) = a /\ ~(a < 0)
    BY <1>1, <1>2, <1>3, <1>6
  <2> QED BY <1>5, <2>1, <2>2, <2>4, <2>5, <2>6
<1>7. CASE h =< a
  <2>1. m = w - 1
    BY <1>1, <1>2, <1>4, <1>7 DEF AddMask
  <2>2. Xor(a, w - 1) = w - 1 - a /\ w - 1 - a \in Words(ISelBits)
    <3>1. Xor(a, w - 1) = Not(ISelBits, a)
      BY BitsMakeWord, AllOnes
    <3> QED BY <3>1, BitsOfNot DEF Not
  <2>3. Minus(w - 1 - a, w - 1) = IF w - 1 =< w - 1 - a THEN w - 1 - a - (w - 1)
                                  ELSE w - 1 - a - (w - 1) + w
    <3> DEFINE u == w - 1
               v == w - 1 - a
    <3>1. u \in Words(ISelBits) /\ v \in Words(ISelBits)
      BY <2>2, AllOnes
    <3> HIDE DEF u, v
    <3>2. Minus(v, u) = IF u =< v THEN v - u ELSE v - u + w
      BY <3>1, MinusIs
    <3> QED BY <3>2 DEF u, v
  <2>4. Word(ISelBits, w - a) = (w - a) % w
    BY DEF Word
  <2> HIDE DEF h, w, m
  <2>5. (w - a) % w = w - a /\ Minus(w - 1 - a, w - 1) = w - a
    <3> DEFINE v == w - a
    <3>1. v \in 0..(w - 1) /\ Minus(w - 1 - a, w - 1) = v
      BY <1>1, <1>2, <1>7, <2>3
    <3> HIDE DEF v
    <3>2. v % w = v
      BY <1>1, <3>1, SMT
    <3> QED BY <3>1, <3>2 DEF v
  <2>6. Signed(ISelBits, a) < 0 /\ -Signed(ISelBits, a) = w - a
    BY <1>1, <1>2, <1>3, <1>7
  <2> QED BY <1>5, <2>1, <2>2, <2>4, <2>5, <2>6
<1>8. a < h \/ h =< a
  <2> HIDE DEF h, w
  <2> QED BY <1>1, <1>2
<1> QED BY <1>6, <1>7, <1>8

(* sext of an i1 is 0 or -1.                                                *)
LEMMA SExtRight ==
  ASSUME NEW p \in {0, 1}
  PROVE  Signed(ISelBits, SExtRewrite(p)) = -p
<1> DEFINE h == 2^(ISelBits - 1)
           w == 2^ISelBits
<1>1. h \in Nat /\ h >= 2 /\ w = 2 * h
  BY ISelFacts
<1>2. SExtRewrite(p) = IF p = 0 THEN 0 ELSE w - 1
  BY AllOnes DEF SExtRewrite
<1>3. Signed(ISelBits, 0) = (IF 0 < h THEN 0 ELSE 0 - w)
      /\ Signed(ISelBits, w - 1) = IF w - 1 < h THEN w - 1 ELSE w - 1 - w
  BY DEF Signed
<1> HIDE DEF h, w
<1>4. Signed(ISelBits, 0) = 0 /\ Signed(ISelBits, w - 1) = -1
  BY <1>1, <1>3
<1>5. CASE p = 0
  BY <1>2, <1>4, <1>5
<1>6. CASE p = 1
  BY <1>2, <1>4, <1>6
<1> QED BY <1>5, <1>6

-----------------------------------------------------------------------------
(* Reductions. Folding neighbours, round by round, is folding one lane      *)
(* after another, as the operations are associative; and that is the sum,   *)
(* or a count of each bit.                                                  *)
Reductions == {"xor", "add", "and", "or"}

(* f has at each place what the lanes up to it fold to, from the left.      *)
IsFold(kind, lanes, f) ==
  /\ f \in [1..Len(lanes) -> Words(ISelBits)]
  /\ f[1] = lanes[1]
  /\ \A j \in 1..(Len(lanes) - 1) : f[j + 1] = Fold2(kind, f[j], lanes[j + 1])

(* A multiple added to a number does not change its remainder.              *)
LEMMA MultipleAdded ==
  ASSUME NEW k \in Nat, NEW w \in Nat \ {0}, NEW c \in Nat
  PROVE  (k * w + c) % w = c % w
<1> DEFINE l == c \div w
           t == c % w
<1>1. l \in Nat /\ t \in Nat /\ t < w /\ c = l * w + t
  BY SMT
<1> HIDE DEF l, t
<1>2. k * w + c = (k + l) * w + t /\ k + l \in Nat /\ k * w + c \in Nat
  BY <1>1
<1>3. (k * w + c) % w = t
  BY <1>1, <1>2, DivUnique
<1> QED BY <1>3 DEF t

(* So a remainder may be taken of a summand first.                          *)
LEMMA SumOfRemainder ==
  ASSUME NEW w \in Nat \ {0}, NEW a \in Nat, NEW c \in Nat
  PROVE  ((a % w) + c) % w = (a + c) % w /\ (c + (a % w)) % w = (c + a) % w
<1> DEFINE l == a \div w
           t == a % w
<1>1. l \in Nat /\ t \in Nat /\ t < w /\ a = l * w + t
  BY SMT
<1> HIDE DEF l, t
<1>2. a + c = l * w + (t + c) /\ t + c \in Nat /\ c + a = a + c /\ c + t = t + c
  BY <1>1
<1>3. (l * w + (t + c)) % w = (t + c) % w
  BY <1>1, <1>2, MultipleAdded
<1> QED BY <1>2, <1>3 DEF t

(* Each of the operations makes a word of two words, and is associative.    *)
LEMMA Fold2Facts ==
  ASSUME NEW kind \in Reductions,
         NEW a \in Words(ISelBits), NEW b \in Words(ISelBits), NEW c \in Words(ISelBits)
  PROVE  /\ Fold2(kind, a, b) \in Words(ISelBits)
         /\ Fold2(kind, Fold2(kind, a, b), c) = Fold2(kind, a, Fold2(kind, b, c))
<1>1. CASE kind = "add"
  <2> DEFINE w == 2^ISelBits
  <2>1. w \in Nat \ {0}
    <3>1. 2^(ISelBits - 1) \in Nat /\ 2^(ISelBits - 1) >= 2 /\ w = 2 * 2^(ISelBits - 1)
      BY ISelFacts
    <3> HIDE DEF w
    <3> QED BY <3>1
  <2>2. \A u, v : Fold2(kind, u, v) = (u + v) % w
    BY <1>1 DEF Fold2, Add
  <2>3. Words(ISelBits) = 0..(w - 1)
    BY DEF Words
  <2> HIDE DEF w
  <2>4. a \in Nat /\ b \in Nat /\ c \in Nat /\ (a + b) % w \in 0..(w - 1)
    BY <2>1, <2>3, SMT
  <2>5. (((a + b) % w) + c) % w = (a + ((b + c) % w)) % w
    <3>1. (((a + b) % w) + c) % w = ((a + b) + c) % w
      <4>1. a + b \in Nat
        BY <2>4
      <4> QED BY <2>1, <2>4, <4>1, SumOfRemainder
    <3>2. (a + ((b + c) % w)) % w = (a + (b + c)) % w
      <4>1. b + c \in Nat
        BY <2>4
      <4> QED BY <2>1, <2>4, <4>1, SumOfRemainder
    <3>3. (a + b) + c = a + (b + c)
      BY <2>4
    <3> QED BY <3>1, <3>2, <3>3
  <2> QED BY <2>2, <2>3, <2>4, <2>5
<1>2. CASE kind = "and"
  <2> DEFINE u == And(a, b)
             v == And(b, c)
  <2>1. /\ u \in Words(ISelBits) /\ Ones(u) = Ones(a) \cap Ones(b)
        /\ v \in Words(ISelBits) /\ Ones(v) = Ones(b) \cap Ones(c)
    BY BitwiseWords
  <2>2. Fold2(kind, a, b) = u /\ Fold2(kind, b, c) = v
        /\ Fold2(kind, u, c) = And(u, c) /\ Fold2(kind, a, v) = And(a, v)
    BY <1>2 DEF Fold2
  <2> HIDE DEF u, v
  <2>3. /\ And(u, c) \in Words(ISelBits) /\ Ones(And(u, c)) = Ones(u) \cap Ones(c)
        /\ And(a, v) \in Words(ISelBits) /\ Ones(And(a, v)) = Ones(a) \cap Ones(v)
    BY <2>1, BitwiseWords
  <2>4. Ones(And(u, c)) = Ones(And(a, v))
    BY <2>1, <2>3
  <2>5. And(u, c) = And(a, v)
    BY <2>3, <2>4, SameBits
  <2> QED BY <2>1, <2>2, <2>5
<1>3. CASE kind = "or"
  <2> DEFINE u == Or(a, b)
             v == Or(b, c)
  <2>1. /\ u \in Words(ISelBits) /\ Ones(u) = Ones(a) \cup Ones(b)
        /\ v \in Words(ISelBits) /\ Ones(v) = Ones(b) \cup Ones(c)
    BY BitwiseWords
  <2>2. Fold2(kind, a, b) = u /\ Fold2(kind, b, c) = v
        /\ Fold2(kind, u, c) = Or(u, c) /\ Fold2(kind, a, v) = Or(a, v)
    BY <1>3 DEF Fold2
  <2> HIDE DEF u, v
  <2>3. /\ Or(u, c) \in Words(ISelBits) /\ Ones(Or(u, c)) = Ones(u) \cup Ones(c)
        /\ Or(a, v) \in Words(ISelBits) /\ Ones(Or(a, v)) = Ones(a) \cup Ones(v)
    BY <2>1, BitwiseWords
  <2>4. Ones(Or(u, c)) = Ones(Or(a, v))
    BY <2>1, <2>3
  <2>5. Or(u, c) = Or(a, v)
    BY <2>3, <2>4, SameBits
  <2> QED BY <2>1, <2>2, <2>5
<1>4. CASE kind = "xor"
  <2> DEFINE u == Xor(a, b)
             v == Xor(b, c)
             differ(s, t) == (s \ t) \cup (t \ s)
  <2>1. /\ u \in Words(ISelBits) /\ Ones(u) = differ(Ones(a), Ones(b))
        /\ v \in Words(ISelBits) /\ Ones(v) = differ(Ones(b), Ones(c))
    BY BitwiseWords
  <2>2. Fold2(kind, a, b) = u /\ Fold2(kind, b, c) = v
        /\ Fold2(kind, u, c) = Xor(u, c) /\ Fold2(kind, a, v) = Xor(a, v)
    BY <1>4 DEF Fold2
  <2> HIDE DEF u, v
  <2>3. /\ Xor(u, c) \in Words(ISelBits) /\ Ones(Xor(u, c)) = differ(Ones(u), Ones(c))
        /\ Xor(a, v) \in Words(ISelBits) /\ Ones(Xor(a, v)) = differ(Ones(a), Ones(v))
    BY <2>1, BitwiseWords
  <2>4. Ones(Xor(u, c)) = Ones(Xor(a, v))
    BY <2>1, <2>3
  <2>5. Xor(u, c) = Xor(a, v)
    BY <2>3, <2>4, SameBits
  <2> QED BY <2>1, <2>2, <2>5
<1> QED BY <1>1, <1>2, <1>3, <1>4 DEF Reductions

(* A round leaves fewer lanes, unless there is one, and they fold to what   *)
(* the lanes before folded to.                                              *)
LEMMA RoundFolds ==
  ASSUME NEW kind \in Reductions, NEW s \in Seq(Words(ISelBits)), Len(s) >= 1,
         NEW f, IsFold(kind, s, f)
  PROVE  LET t == NextLanes(kind, s)
         IN  /\ t \in Seq(Words(ISelBits)) /\ Len(t) >= 1
             /\ Len(s) > 1 => Len(t) < Len(s)
             /\ \E g : IsFold(kind, t, g) /\ g[Len(t)] = f[Len(s)]
<1> DEFINE len == Len(s)
           half == len \div 2
           t == NextLanes(kind, s)
           g == [j \in 1..Len(t) |-> IF 2 * j =< len THEN f[2 * j] ELSE f[len]]
<1>1. len \in Nat /\ len >= 1 /\ \A j \in 1..len : s[j] \in Words(ISelBits)
  OBVIOUS
<1>2. half \in Nat /\ (len = 2 * half \/ len = 2 * half + 1) /\ (len % 2 = 1 <=> len = 2 * half + 1)
  <2> HIDE DEF len
  <2> QED BY <1>1, SMT
<1>3. /\ Len(t) = len - half
      /\ \A j \in 1..half : t[j] = Fold2(kind, s[2 * j - 1], s[2 * j]) /\ t[j] \in Words(ISelBits)
      /\ len # 2 * half => t[half + 1] = s[len]
      /\ t \in Seq(Words(ISelBits))
  <2> DEFINE pairs == [j \in 1..half |-> Fold2(kind, s[2 * j - 1], s[2 * j])]
  <2>1. \A j \in 1..half : Fold2(kind, s[2 * j - 1], s[2 * j]) \in Words(ISelBits)
    <3> SUFFICES ASSUME NEW j \in 1..half
                 PROVE  Fold2(kind, s[2 * j - 1], s[2 * j]) \in Words(ISelBits)
      OBVIOUS
    <3>1. 2 * j - 1 \in 1..len /\ 2 * j \in 1..len
      <4> HIDE DEF half, len
      <4> QED BY <1>2
    <3> QED BY <1>1, <3>1, Fold2Facts
  <2>2. pairs \in Seq(Words(ISelBits)) /\ Len(pairs) = half
    <3> HIDE DEF half
    <3>1. pairs \in [1..half -> Words(ISelBits)]
      BY <2>1
    <3> QED BY <1>2, <3>1
  <2>3. t = IF len % 2 = 1 THEN Append(pairs, s[len]) ELSE pairs
    BY DEF NextLanes
  <2> HIDE DEF t
  <2>4. CASE len = 2 * half
    <3>1. t = pairs
      BY <1>2, <2>3, <2>4
    <3>2. len - half = half
      <4> HIDE DEF half, len
      <4> QED BY <1>2, <2>4
    <3> QED BY <2>1, <2>2, <2>4, <3>1, <3>2
  <2>5. CASE len = 2 * half + 1
    <3>1. t = Append(pairs, s[len])
      BY <1>2, <2>3, <2>5
    <3>2. len - half = half + 1 /\ len # 2 * half
      <4> HIDE DEF half, len
      <4> QED BY <1>2, <2>5
    <3>3. s[len] \in Words(ISelBits)
      BY <1>1
    <3>4. \A j \in 1..half : pairs[j] = Fold2(kind, s[2 * j - 1], s[2 * j])
      OBVIOUS
    <3> HIDE DEF half, len, pairs
    <3>5. /\ t \in Seq(Words(ISelBits)) /\ Len(t) = half + 1 /\ t[half + 1] = s[len]
          /\ \A j \in 1..half : t[j] = pairs[j]
      BY <1>2, <2>2, <3>1, <3>3
    <3> QED BY <2>1, <3>2, <3>4, <3>5
  <2> QED BY <1>2, <2>4, <2>5
<1>4. /\ f \in [1..len -> Words(ISelBits)] /\ f[1] = s[1]
      /\ \A j \in 1..(len - 1) : f[j + 1] = Fold2(kind, f[j], s[j + 1])
  BY DEF IsFold
<1> DEFINE m == Len(t)
<1>5. m = len - half /\ g \in [1..m -> Words(ISelBits)]
  <2>1. m = len - half
    BY <1>3
  <2> HIDE DEF half, len, t, m
  <2>2. \A j \in 1..m : f[len] \in Words(ISelBits)
                        /\ (2 * j =< len => f[2 * j] \in Words(ISelBits))
    BY <1>1, <1>2, <1>4, <2>1
  <2> QED BY <2>1, <2>2 DEF m
<1> HIDE DEF len, half, t, m
<1>6. \A j \in 1..m : g[j] = IF 2 * j =< len THEN f[2 * j] ELSE f[len]
  BY DEF m
<1> HIDE DEF g
<1>7. g[1] = t[1]
  <2>1. CASE len = 1
    <3>1. half = 0 /\ m = 1 /\ len # 2 * half
      BY <1>2, <1>5, <2>1
    <3>2. t[1] = s[1]
      BY <1>3, <2>1, <3>1
    <3>3. g[1] = f[1]
      BY <1>6, <2>1, <3>1
    <3> QED BY <1>4, <3>2, <3>3
  <2>2. CASE len # 1
    <3>1. 1 \in 1..half /\ 1 \in 1..m /\ 2 =< len /\ 1 \in 1..(len - 1)
      BY <1>1, <1>2, <1>5, <2>2
    <3>2. g[1] = f[2]
      BY <1>6, <3>1
    <3>3. f[1 + 1] = Fold2(kind, f[1], s[1 + 1])
      BY <1>4, <3>1
    <3>4. t[1] = Fold2(kind, s[1], s[2])
      <4>1. t[1] = Fold2(kind, s[2 * 1 - 1], s[2 * 1])
        BY <1>3, <3>1
      <4> QED BY <4>1
    <3> QED BY <1>4, <3>2, <3>3, <3>4
  <2> QED BY <2>1, <2>2
<1>8. ASSUME NEW j \in 1..(m - 1)
      PROVE  g[j + 1] = Fold2(kind, g[j], t[j + 1])
  <2>1. /\ j \in 1..m /\ j + 1 \in 1..m /\ j \in 1..half /\ 2 * j =< len
        /\ 2 * j \in 1..len /\ 2 * j \in 1..(len - 1)
    BY <1>1, <1>2, <1>5
  <2>2. g[j] = f[2 * j] /\ g[j] \in Words(ISelBits)
    BY <1>4, <1>6, <2>1
  <2>3. f[2 * j + 1] = Fold2(kind, f[2 * j], s[2 * j + 1])
    BY <1>4, <2>1
  <2>4. CASE 2 * (j + 1) =< len
    <3>1. /\ 2 * j + 1 \in 1..(len - 1) /\ (2 * j + 1) + 1 = 2 * (j + 1) /\ j + 1 \in 1..half
          /\ 2 * (j + 1) - 1 = 2 * j + 1 /\ 2 * (j + 1) \in 1..len /\ 2 * j + 1 \in 1..len
      BY <1>1, <1>2, <2>1, <2>4
    <3>2. g[j + 1] = f[2 * (j + 1)]
      BY <1>6, <2>1, <2>4
    <3>3. f[2 * (j + 1)] = Fold2(kind, f[2 * j + 1], s[2 * (j + 1)])
      <4>1. f[(2 * j + 1) + 1] = Fold2(kind, f[2 * j + 1], s[(2 * j + 1) + 1])
        BY <1>4, <3>1
      <4> QED BY <3>1, <4>1
    <3>4. t[j + 1] = Fold2(kind, s[2 * j + 1], s[2 * (j + 1)])
      <4>1. t[j + 1] = Fold2(kind, s[2 * (j + 1) - 1], s[2 * (j + 1)])
        BY <1>3, <3>1
      <4> QED BY <3>1, <4>1
    <3> DEFINE a == g[j]
               b == s[2 * j + 1]
               c == s[2 * (j + 1)]
    <3>5. a \in Words(ISelBits) /\ b \in Words(ISelBits) /\ c \in Words(ISelBits)
      BY <1>1, <2>2, <3>1 DEF len
    <3>6. g[j + 1] = Fold2(kind, Fold2(kind, a, b), c) /\ t[j + 1] = Fold2(kind, b, c)
      BY <2>2, <2>3, <3>2, <3>3, <3>4
    <3> HIDE DEF a, b, c
    <3>7. Fold2(kind, Fold2(kind, a, b), c) = Fold2(kind, a, Fold2(kind, b, c))
      BY <3>5, Fold2Facts
    <3> QED BY <3>6, <3>7 DEF a
  <2>5. CASE ~(2 * (j + 1) =< len)
    <3>1. 2 * j + 1 = len /\ half = j /\ len # 2 * half
      BY <1>1, <1>2, <1>5, <2>1, <2>5
    <3>2. g[j + 1] = f[len] /\ t[j + 1] = s[len]
      BY <1>3, <1>6, <2>1, <2>5, <3>1
    <3> QED BY <2>2, <2>3, <3>1, <3>2
  <2> QED BY <2>4, <2>5
<1>9. IsFold(kind, t, g)
  BY <1>5, <1>7, <1>8 DEF IsFold, m
<1>10. g[m] = f[len]
  <2>1. m \in 1..m /\ (2 * m =< len => 2 * m = len)
    BY <1>1, <1>2, <1>5
  <2> QED BY <1>6, <2>1
<1>11. m >= 1 /\ (len > 1 => m < len)
  BY <1>1, <1>2, <1>5
<1> QED BY <1>3, <1>9, <1>10, <1>11 DEF m, t, len

(* Every sequence of lanes folds to something.                              *)
LEMMA FoldExists ==
  ASSUME NEW kind \in Reductions, NEW s \in Seq(Words(ISelBits)), Len(s) >= 1
  PROVE  \E f : IsFold(kind, s, f)
<1> DEFINE len == Len(s)
           upto(m) == \E f \in [1..m -> Words(ISelBits)] :
                        /\ f[1] = s[1]
                        /\ \A j \in 1..(m - 1) : f[j + 1] = Fold2(kind, f[j], s[j + 1])
           Bad == {m \in 1..len : ~upto(m)}
<1>1. len \in Nat /\ len >= 1 /\ \A j \in 1..len : s[j] \in Words(ISelBits)
  OBVIOUS
<1>2. Bad = {}
  <2> SUFFICES ASSUME Bad # {} PROVE FALSE
    OBVIOUS
  <2>1. PICK m \in Bad : \A k \in Bad : m =< k
    <3>1. Bad \in SUBSET Nat
      OBVIOUS
    <3> HIDE DEF Bad
    <3> QED BY <3>1, LeastNumber
  <2>2. CASE m = 1
    <3> DEFINE f == [j \in 1..1 |-> s[1]]
    <3>1. f \in [1..1 -> Words(ISelBits)] /\ f[1] = s[1]
      BY <1>1
    <3>2. \A j \in 1..(1 - 1) : f[j + 1] = Fold2(kind, f[j], s[j + 1])
      OBVIOUS
    <3> HIDE DEF f
    <3>3. upto(1)
      BY <3>1, <3>2
    <3> QED BY <2>1, <2>2, <3>3
  <2>3. CASE m # 1
    <3> DEFINE o == m - 1
    <3>1. o \in 1..len /\ o + 1 = m /\ o < m /\ m \in 1..len
      BY <1>1, <2>1, <2>3
    <3>2. upto(o)
      <4>1. o \notin Bad
        <5> HIDE DEF Bad, o
        <5> QED BY <2>1, <3>1
      <4> QED BY <3>1, <4>1
    <3>3. PICK f \in [1..o -> Words(ISelBits)] :
            /\ f[1] = s[1]
            /\ \A j \in 1..(o - 1) : f[j + 1] = Fold2(kind, f[j], s[j + 1])
      BY <3>2
    <3> DEFINE last == Fold2(kind, f[o], s[m])
               g == [j \in 1..m |-> IF j =< o THEN f[j] ELSE last]
    <3>4. last \in Words(ISelBits)
      BY <1>1, <3>1, Fold2Facts
    <3> HIDE DEF last, o
    <3>5. g \in [1..m -> Words(ISelBits)] /\ g[1] = s[1]
      BY <3>1, <3>3, <3>4
    <3>6. \A j \in 1..(m - 1) : g[j + 1] = Fold2(kind, g[j], s[j + 1])
      <4> SUFFICES ASSUME NEW j \in 1..(m - 1) PROVE g[j + 1] = Fold2(kind, g[j], s[j + 1])
        OBVIOUS
      <4>1. g[j] = f[j]
        BY <3>1
      <4>2. CASE j = o
        <5>1. g[j + 1] = last
          BY <3>1, <4>2
        <5> QED BY <3>1, <4>1, <4>2, <5>1 DEF last
      <4>3. CASE j # o
        <5>1. j \in 1..(o - 1) /\ g[j + 1] = f[j + 1]
          BY <3>1, <4>3
        <5> QED BY <3>3, <4>1, <5>1
      <4> QED BY <4>2, <4>3
    <3>7. upto(m)
      BY <3>5, <3>6
    <3> QED BY <2>1, <3>7
  <2> QED BY <2>2, <2>3
<1>3. upto(len)
  BY <1>1, <1>2
<1> QED BY <1>3 DEF IsFold

(* The rounds there are: as many as lanes, each made of the one before.     *)
LEMMA RoundsExist ==
  ASSUME NEW kind, NEW s \in Seq(Words(ISelBits))
  PROVE  \E g : g = [k \in 0..Len(s) |->
                       IF k = 0 THEN s
                       ELSE IF Len(g[k - 1]) = 1 THEN g[k - 1] ELSE NextLanes(kind, g[k - 1])]
<1> DEFINE len == Len(s)
           next(v) == IF Len(v) = 1 THEN v ELSE NextLanes(kind, v)
           rounds(m, g) == g = [k \in 0..m |-> IF k = 0 THEN s ELSE next(g[k - 1])]
           Bad == {m \in 0..len : ~(\E g : rounds(m, g))}
<1>1. len \in Nat
  OBVIOUS
<1>2. Bad = {}
  <2> SUFFICES ASSUME Bad # {} PROVE FALSE
    OBVIOUS
  <2>1. PICK m \in Bad : \A k \in Bad : m =< k
    <3>1. Bad \in SUBSET Nat
      OBVIOUS
    <3> HIDE DEF Bad
    <3> QED BY <3>1, LeastNumber
  <2>2. CASE m = 0
    <3> DEFINE g == [k \in 0..0 |-> s]
    <3>1. g = [k \in 0..0 |-> IF k = 0 THEN s ELSE next(g[k - 1])]
      <4>1. \A k \in 0..0 : k = 0
        OBVIOUS
      <4> HIDE DEF next
      <4> QED BY <4>1
    <3> QED BY <2>1, <2>2, <3>1
  <2>3. CASE m # 0
    <3> DEFINE o == m - 1
    <3>1. o \in 0..len /\ o \in Nat /\ o + 1 = m /\ o < m /\ m \in Nat
      BY <1>1, <2>1, <2>3
    <3>2. \E g : rounds(o, g)
      <4>1. o \notin Bad
        <5> HIDE DEF Bad, o
        <5> QED BY <2>1, <3>1
      <4> QED BY <3>1, <4>1
    <3>3. PICK g : rounds(o, g)
      BY <3>2
    <3> DEFINE last == next(g[o])
               h == [k \in 0..m |-> IF k =< o THEN g[k] ELSE last]
    <3> HIDE DEF o, next
    <3>4. \A k \in 0..o : g[k] = IF k = 0 THEN s ELSE next(g[k - 1])
      BY <3>3
    <3> HIDE DEF last
    <3>5. \A k \in 0..m : h[k] = IF k =< o THEN g[k] ELSE last
      OBVIOUS
    <3>6. DOMAIN h = 0..m /\ h = [k \in 0..m |-> h[k]]
      OBVIOUS
    <3> HIDE DEF h
    <3>7. \A k \in 0..m : h[k] = IF k = 0 THEN s ELSE next(h[k - 1])
      <4> SUFFICES ASSUME NEW k \in 0..m PROVE h[k] = IF k = 0 THEN s ELSE next(h[k - 1])
        OBVIOUS
      <4>1. CASE k = 0
        BY <3>1, <3>4, <3>5, <4>1
      <4>2. CASE k # 0 /\ k =< o
        <5>1. k - 1 \in 0..m /\ k - 1 =< o /\ k \in 0..o
          BY <3>1, <4>2
        <5>2. h[k] = g[k] /\ h[k - 1] = g[k - 1]
          BY <3>5, <4>2, <5>1
        <5> QED BY <3>4, <4>2, <5>1, <5>2
      <4>3. CASE ~(k =< o)
        <5>1. k = m /\ k # 0 /\ k - 1 = o /\ o \in 0..m
          BY <3>1, <4>3
        <5>2. h[k] = last /\ h[k - 1] = g[o]
          BY <3>1, <3>5, <4>3, <5>1
        <5> QED BY <5>1, <5>2 DEF last
      <4> QED BY <4>1, <4>2, <4>3
    <3>8. h = [k \in 0..m |-> IF k = 0 THEN s ELSE next(h[k - 1])]
      BY <3>6, <3>7
    <3>9. \E f : rounds(m, f)
      BY <3>8
    <3> QED BY <2>1, <3>9
  <2> QED BY <2>2, <2>3
<1>3. \E g : rounds(len, g)
  BY <1>1, <1>2
<1> QED BY <1>3

(* What the rounds leave is what the lanes fold to.                         *)
LEMMA ReduceFolds ==
  ASSUME NEW kind \in Reductions, NEW s \in Seq(Words(ISelBits)), Len(s) >= 1
  PROVE  \E f : IsFold(kind, s, f) /\ Reduce(kind, s) = f[Len(s)]
<1> DEFINE len == Len(s)
           round[k \in 0..len] ==
             IF k = 0 THEN s
             ELSE IF Len(round[k - 1]) = 1 THEN round[k - 1] ELSE NextLanes(kind, round[k - 1])
<1>1. len \in Nat /\ len >= 1
  OBVIOUS
<1>2. Reduce(kind, s) = round[len][1]
  BY DEF Reduce
<1>3. round = [k \in 0..len |->
                 IF k = 0 THEN s
                 ELSE IF Len(round[k - 1]) = 1 THEN round[k - 1] ELSE NextLanes(kind, round[k - 1])]
  <2>1. \E g : g = [k \in 0..len |->
                      IF k = 0 THEN s
                      ELSE IF Len(g[k - 1]) = 1 THEN g[k - 1] ELSE NextLanes(kind, g[k - 1])]
    BY RoundsExist
  <2> QED BY <2>1
<1> HIDE DEF round
<1>4. \A k \in 0..len : round[k] =
        IF k = 0 THEN s
        ELSE IF Len(round[k - 1]) = 1 THEN round[k - 1] ELSE NextLanes(kind, round[k - 1])
  BY <1>3
<1>5. PICK f : IsFold(kind, s, f)
  BY FoldExists
<1> DEFINE good(k) == /\ round[k] \in Seq(Words(ISelBits)) /\ Len(round[k]) >= 1
                      /\ Len(round[k]) = 1 \/ Len(round[k]) =< len - k
                      /\ \E g : IsFold(kind, round[k], g) /\ g[Len(round[k])] = f[len]
           Bad == {k \in 0..len : ~good(k)}
<1>6. good(0)
  <2>1. round[0] = s
    BY <1>1, <1>4
  <2>2. Len(s) =< len - 0
    OBVIOUS
  <2> QED BY <1>1, <1>5, <2>1, <2>2
<1>7. ASSUME NEW k \in 0..len, k # 0, good(k - 1)
      PROVE  good(k)
  <2> DEFINE o == k - 1
             t == round[o]
  <2>1. /\ t \in Seq(Words(ISelBits)) /\ Len(t) >= 1
        /\ Len(t) = 1 \/ Len(t) =< len - o
        /\ \E g : IsFold(kind, t, g) /\ g[Len(t)] = f[len]
    BY <1>7
  <2>2. round[k] = IF Len(t) = 1 THEN t ELSE NextLanes(kind, t)
    BY <1>4, <1>7
  <2>3. o \in Int /\ k = o + 1 /\ Len(t) \in Nat
    BY <2>1
  <2> HIDE DEF t, o
  <2>4. CASE Len(t) = 1
    <3>1. round[k] = t
      BY <2>2, <2>4
    <3> QED BY <2>1, <2>4, <3>1
  <2>5. CASE Len(t) # 1
    <3>1. round[k] = NextLanes(kind, t)
      BY <2>2, <2>5
    <3> DEFINE u == NextLanes(kind, t)
    <3>2. PICK g : IsFold(kind, t, g) /\ g[Len(t)] = f[len]
      BY <2>1
    <3>3. /\ u \in Seq(Words(ISelBits)) /\ Len(u) >= 1 /\ (Len(t) > 1 => Len(u) < Len(t))
          /\ \E h : IsFold(kind, u, h) /\ h[Len(u)] = g[Len(t)]
      BY <2>1, <3>2, RoundFolds
    <3>4. Len(u) \in Nat
      BY <3>3
    <3> HIDE DEF u
    <3>5. Len(u) =< len - k
      <4> DEFINE a == Len(t)
                 b == Len(u)
      <4>1. a \in Nat /\ b \in Nat /\ a >= 1 /\ a # 1 /\ (a = 1 \/ a =< len - o) /\ (a > 1 => b < a)
        BY <2>1, <2>3, <2>5, <3>3, <3>4
      <4> HIDE DEF a, b, len
      <4>2. b =< len - k
        BY <1>1, <2>3, <4>1
      <4> QED BY <4>2 DEF b
    <3>6. \E h : IsFold(kind, u, h) /\ h[Len(u)] = f[len]
      BY <3>2, <3>3
    <3>7. round[k] = u
      BY <3>1 DEF u
    <3>8. /\ u \in Seq(Words(ISelBits)) /\ Len(u) >= 1
          /\ Len(u) = 1 \/ Len(u) =< len - k
          /\ \E h : IsFold(kind, u, h) /\ h[Len(u)] = f[len]
      BY <3>3, <3>5, <3>6
    <3> QED BY <3>7, <3>8, Zenon
  <2> QED BY <2>4, <2>5
<1> HIDE DEF good
<1>8. Bad = {}
  <2> SUFFICES ASSUME Bad # {} PROVE FALSE
    OBVIOUS
  <2>1. PICK k \in Bad : \A j \in Bad : k =< j
    <3>1. Bad \in SUBSET Nat
      OBVIOUS
    <3> HIDE DEF Bad
    <3> QED BY <3>1, LeastNumber
  <2>2. k \in 0..len /\ ~good(k) /\ k # 0
    BY <1>6, <2>1
  <2>3. k - 1 \in 0..len /\ k - 1 < k
    BY <1>1, <2>2
  <2>4. k - 1 \notin Bad
    <3> HIDE DEF Bad
    <3> QED BY <2>1, <2>2, <2>3
  <2>5. good(k - 1)
    BY <2>3, <2>4
  <2> QED BY <1>7, <2>2, <2>5
<1>9. good(len)
  BY <1>1, <1>8
<1>10. Len(round[len]) = 1
  <2>1. /\ Len(round[len]) >= 1 /\ Len(round[len]) \in Nat
        /\ Len(round[len]) = 1 \/ Len(round[len]) =< len - len
    BY <1>9 DEF good
  <2> DEFINE m == Len(round[len])
  <2> HIDE DEF m
  <2>2. m >= 1 /\ m \in Nat /\ (m = 1 \/ m =< len - len)
    BY <2>1 DEF m
  <2>3. m = 1
    BY <1>1, <2>2
  <2> QED BY <2>3 DEF m
<1>11. PICK g : IsFold(kind, round[len], g) /\ g[1] = f[len]
  BY <1>9, <1>10 DEF good
<1>12. g[1] = round[len][1]
  BY <1>11 DEF IsFold
<1> QED BY <1>2, <1>5, <1>11, <1>12

(* One lane more has a bit, or it has not.                                  *)
LEMMA CountGrows ==
  ASSUME NEW s \in Seq(Words(ISelBits)), NEW k, NEW j \in Nat
  PROVE  LET count(m) == {l \in 1..m : k \in Ones(s[l])}
         IN  /\ Cardinality(count(j)) \in 0..j
             /\ Cardinality(count(j + 1)) =
                  IF k \in Ones(s[j + 1]) THEN Cardinality(count(j)) + 1 ELSE Cardinality(count(j))
<1> DEFINE count(m) == {l \in 1..m : k \in Ones(s[l])}
<1>1. IsFiniteSet(1..j) /\ Cardinality(1..j) = j
  <2>1. IsFiniteSet(1..j) /\ Cardinality(1..j) = IF 1 > j THEN 0 ELSE j - 1 + 1
    BY FS_Interval
  <2>2. (IF 1 > j THEN 0 ELSE j - 1 + 1) = j
    OBVIOUS
  <2> QED BY <2>1, <2>2
<1>2. count(j) \in SUBSET (1..j)
  OBVIOUS
<1>3. IsFiniteSet(count(j)) /\ Cardinality(count(j)) =< j /\ Cardinality(count(j)) \in Nat
  <2> DEFINE C == count(j)
             D == 1..j
  <2>1. IsFiniteSet(D) /\ C \in SUBSET D /\ Cardinality(D) = j
    BY <1>1, <1>2
  <2> HIDE DEF C, D
  <2>2. IsFiniteSet(C) /\ Cardinality(C) =< j
    BY <2>1, FS_Subset
  <2>3. Cardinality(C) \in Nat
    BY <2>2, FS_CardinalityType
  <2> QED BY <2>2, <2>3 DEF C
<1>4. \A l : l \in 1..(j + 1) <=> l \in 1..j \/ l = j + 1
  OBVIOUS
<1>5. ~(j + 1 \in count(j))
  OBVIOUS
<1>6. CASE k \in Ones(s[j + 1])
  <2>1. count(j + 1) = count(j) \cup {j + 1}
    BY <1>4, <1>6
  <2> HIDE DEF count
  <2>2. Cardinality(count(j) \cup {j + 1}) = Cardinality(count(j)) + 1
    BY <1>3, <1>5, FS_AddElement
  <2>3. Cardinality(count(j)) \in 0..j
    BY <1>3
  <2> QED BY <1>6, <2>1, <2>2, <2>3 DEF count
<1>7. CASE ~(k \in Ones(s[j + 1]))
  <2>1. count(j + 1) = count(j)
    BY <1>4, <1>7
  <2> HIDE DEF count
  <2>2. Cardinality(count(j)) \in 0..j
    BY <1>3
  <2> QED BY <1>7, <2>1, <2>2 DEF count
<1> QED BY <1>6, <1>7

(* The lanes folded so far have a bit as the number of those that have it   *)
(* says.                                                                    *)
LEMMA FoldCounts ==
  ASSUME NEW kind \in {"xor", "and", "or"}, NEW s \in Seq(Words(ISelBits)), Len(s) >= 1,
         NEW f, IsFold(kind, s, f), NEW k \in 0..(ISelBits - 1)
  PROVE  k \in Ones(f[Len(s)]) <=> ReducedBit(kind, Cardinality(LanesWith(s, k)), Len(s))
<1> DEFINE len == Len(s)
           count(m) == {l \in 1..m : k \in Ones(s[l])}
           card(m) == Cardinality(count(m))
           counted(m) == k \in Ones(f[m]) <=> ReducedBit(kind, card(m), m)
           Bad == {m \in 1..len : ~counted(m)}
<1>1. len \in Nat /\ len >= 1 /\ \A j \in 1..len : s[j] \in Words(ISelBits)
  OBVIOUS
<1>2. /\ f \in [1..len -> Words(ISelBits)] /\ f[1] = s[1]
      /\ \A j \in 1..(len - 1) : f[j + 1] = Fold2(kind, f[j], s[j + 1])
  BY DEF IsFold
<1>3. \A j \in Nat : /\ card(j) \in 0..j
                     /\ card(j + 1) = IF k \in Ones(s[j + 1]) THEN card(j) + 1 ELSE card(j)
  BY CountGrows
<1> HIDE DEF card
<1>4. counted(1)
  <2>1. card(0) = 0 /\ card(1) = IF k \in Ones(s[1]) THEN card(0) + 1 ELSE card(0)
    <3>1. 0 \in Nat /\ 0 + 1 = 1
      OBVIOUS
    <3>2. card(0) \in 0..0
      BY <1>3, <3>1
    <3>3. card(0 + 1) = IF k \in Ones(s[0 + 1]) THEN card(0) + 1 ELSE card(0)
      BY <1>3, <3>1
    <3> QED BY <3>1, <3>2, <3>3
  <2>2. card(1) = IF k \in Ones(s[1]) THEN 1 ELSE 0
    BY <2>1
  <2>3. 1 % 2 = 1 /\ 0 % 2 = 0
    BY SMT
  <2>4. ReducedBit(kind, 1, 1) /\ ~ReducedBit(kind, 0, 1)
    <3>1. CASE kind = "xor"
      BY <2>3, <3>1 DEF ReducedBit
    <3>2. CASE kind = "and"
      BY <3>2 DEF ReducedBit
    <3>3. CASE kind = "or"
      BY <3>3 DEF ReducedBit
    <3> QED BY <3>1, <3>2, <3>3
  <2> QED BY <1>2, <2>2, <2>4
<1>5. ASSUME NEW j \in 1..(len - 1), counted(j)
      PROVE  counted(j + 1)
  <2> DEFINE has == k \in Ones(s[j + 1])
             had == k \in Ones(f[j])
             c == card(j)
  <2>1. /\ f[j] \in Words(ISelBits) /\ s[j + 1] \in Words(ISelBits)
        /\ f[j + 1] = Fold2(kind, f[j], s[j + 1])
    BY <1>1, <1>2
  <2>2. c \in 0..j /\ card(j + 1) = IF has THEN c + 1 ELSE c
    <3>1. j \in Nat
      OBVIOUS
    <3> HIDE DEF len
    <3> QED BY <1>3, <3>1
  <2>3. had <=> ReducedBit(kind, c, j)
    BY <1>5
  <2>4. CASE kind = "xor"
    <3>1. f[j + 1] = Xor(f[j], s[j + 1])
      BY <2>1, <2>4 DEF Fold2
    <3>2. k \in Ones(f[j + 1]) <=> ~(had <=> has)
      BY <2>1, <3>1, BitwiseWords
    <3>3. had <=> c % 2 = 1
      BY <2>3, <2>4 DEF ReducedBit
    <3>4. ReducedBit(kind, card(j + 1), j + 1) = (card(j + 1) % 2 = 1)
      BY <2>4 DEF ReducedBit
    <3>5. (c + 1) % 2 = 1 <=> ~(c % 2 = 1)
      BY <2>2, SMT
    <3> QED BY <2>2, <3>2, <3>3, <3>4, <3>5
  <2>5. CASE kind = "and"
    <3>1. f[j + 1] = And(f[j], s[j + 1])
      BY <2>1, <2>5 DEF Fold2
    <3>2. k \in Ones(f[j + 1]) <=> had /\ has
      BY <2>1, <3>1, BitwiseWords
    <3>3. had <=> c = j
      BY <2>3, <2>5 DEF ReducedBit
    <3>4. ReducedBit(kind, card(j + 1), j + 1) = (card(j + 1) = j + 1)
      BY <2>5 DEF ReducedBit
    <3>5. (c + 1 = j + 1 <=> c = j) /\ c # j + 1
      BY <2>2
    <3> QED BY <2>2, <3>2, <3>3, <3>4, <3>5
  <2>6. CASE kind = "or"
    <3>1. f[j + 1] = Or(f[j], s[j + 1])
      BY <2>1, <2>6 DEF Fold2
    <3>2. k \in Ones(f[j + 1]) <=> had \/ has
      BY <2>1, <3>1, BitwiseWords
    <3>3. had <=> c > 0
      BY <2>3, <2>6 DEF ReducedBit
    <3>4. ReducedBit(kind, card(j + 1), j + 1) = (card(j + 1) > 0)
      BY <2>6 DEF ReducedBit
    <3>5. c + 1 > 0
      BY <2>2
    <3> QED BY <2>2, <3>2, <3>3, <3>4, <3>5
  <2> QED BY <2>4, <2>5, <2>6
<1> HIDE DEF counted
<1>6. Bad = {}
  <2> SUFFICES ASSUME Bad # {} PROVE FALSE
    OBVIOUS
  <2>1. PICK m \in Bad : \A j \in Bad : m =< j
    <3>1. Bad \in SUBSET Nat
      OBVIOUS
    <3> HIDE DEF Bad
    <3> QED BY <3>1, LeastNumber
  <2>2. m \in 1..len /\ ~counted(m) /\ m # 1
    BY <1>4, <2>1
  <2>3. m - 1 \in 1..len /\ m - 1 < m /\ m - 1 \in 1..(len - 1) /\ (m - 1) + 1 = m
    BY <1>1, <2>2
  <2>4. m - 1 \notin Bad
    <3> HIDE DEF Bad
    <3> QED BY <2>1, <2>2, <2>3
  <2>5. counted(m - 1)
    BY <2>3, <2>4
  <2>6. counted((m - 1) + 1)
    BY <1>5, <2>3, <2>5
  <2> QED BY <2>2, <2>3, <2>6
<1>7. counted(len)
  BY <1>1, <1>6
<1>8. LanesWith(s, k) = count(len)
  BY DEF LanesWith
<1> QED BY <1>7, <1>8 DEF counted, card

(* The sums of the first lanes there are.                                   *)
LEMMA SumsExist ==
  ASSUME NEW s \in Seq(Words(ISelBits))
  PROVE  \E g : /\ g = [k \in 0..Len(s) |-> IF k = 0 THEN 0 ELSE g[k - 1] + s[k]]
                /\ g \in [0..Len(s) -> Nat]
<1> DEFINE len == Len(s)
           upto(m) == \E g \in [0..m -> Nat] : g[0] = 0 /\ \A k \in 1..m : g[k] = g[k - 1] + s[k]
           Bad == {m \in 0..len : ~upto(m)}
<1>1. len \in Nat /\ \A k \in 1..len : s[k] \in Nat
  <2> DEFINE w == 2^ISelBits
  <2>1. w \in Nat
    <3>1. 2^(ISelBits - 1) \in Nat /\ w = 2 * 2^(ISelBits - 1)
      BY ISelFacts
    <3> HIDE DEF w
    <3> QED BY <3>1
  <2>2. \A k \in 1..len : s[k] \in 0..(w - 1)
    <3>1. \A k \in 1..len : s[k] \in Words(ISelBits)
      OBVIOUS
    <3>2. Words(ISelBits) = 0..(w - 1)
      BY DEF Words
    <3> QED BY <3>1, <3>2, Zenon
  <2>3. len \in Nat
    OBVIOUS
  <2> HIDE DEF w
  <2> QED BY <2>1, <2>2, <2>3
<1>2. Bad = {}
  <2> SUFFICES ASSUME Bad # {} PROVE FALSE
    OBVIOUS
  <2>1. PICK m \in Bad : \A k \in Bad : m =< k
    <3>1. Bad \in SUBSET Nat
      OBVIOUS
    <3> HIDE DEF Bad
    <3> QED BY <3>1, LeastNumber
  <2>2. CASE m = 0
    <3> DEFINE g == [k \in 0..0 |-> 0]
    <3>1. g \in [0..0 -> Nat] /\ g[0] = 0
      OBVIOUS
    <3>2. \A k \in 1..0 : g[k] = g[k - 1] + s[k]
      OBVIOUS
    <3> HIDE DEF g
    <3>3. upto(0)
      BY <3>1, <3>2
    <3> QED BY <2>1, <2>2, <3>3
  <2>3. CASE m # 0
    <3> DEFINE o == m - 1
    <3>1. o \in 0..len /\ o + 1 = m /\ o < m /\ m \in 1..len
      BY <1>1, <2>1, <2>3
    <3>2. upto(o)
      <4>1. o \notin Bad
        <5> HIDE DEF Bad, o
        <5> QED BY <2>1, <3>1
      <4> QED BY <3>1, <4>1
    <3>3. PICK g \in [0..o -> Nat] : g[0] = 0 /\ \A k \in 1..o : g[k] = g[k - 1] + s[k]
      BY <3>2
    <3> DEFINE last == g[o] + s[m]
               h == [k \in 0..m |-> IF k =< o THEN g[k] ELSE last]
    <3> HIDE DEF o, len
    <3>4. last \in Nat
      BY <1>1, <3>1, <3>3
    <3> HIDE DEF last
    <3>5. h \in [0..m -> Nat] /\ h[0] = 0
      BY <3>1, <3>3, <3>4, <1>1
    <3>6. \A k \in 1..m : h[k] = h[k - 1] + s[k]
      <4> SUFFICES ASSUME NEW k \in 1..m PROVE h[k] = h[k - 1] + s[k]
        OBVIOUS
      <4>1. CASE k = m
        <5>1. h[k] = last /\ h[k - 1] = g[o]
          BY <1>1, <3>1, <4>1
        <5> QED BY <4>1, <5>1 DEF last
      <4>2. CASE k # m
        <5>1. k \in 1..o /\ h[k] = g[k] /\ h[k - 1] = g[k - 1]
          BY <1>1, <3>1, <4>2
        <5> QED BY <3>3, <5>1
      <4> QED BY <4>1, <4>2
    <3> HIDE DEF h
    <3>7. upto(m)
      BY <3>5, <3>6
    <3> QED BY <2>1, <3>7
  <2> QED BY <2>2, <2>3
<1>3. PICK g \in [0..len -> Nat] : g[0] = 0 /\ \A k \in 1..len : g[k] = g[k - 1] + s[k]
  <2>1. len \in 0..len
    BY <1>1
  <2>2. upto(len)
    <3> HIDE DEF upto
    <3> QED BY <1>2, <2>1
  <2> QED BY <2>2
<1>4. g = [k \in 0..len |-> IF k = 0 THEN 0 ELSE g[k - 1] + s[k]]
  <2>1. g = [k \in 0..len |-> g[k]]
    BY <1>3
  <2>2. \A k \in 0..len : g[k] = IF k = 0 THEN 0 ELSE g[k - 1] + s[k]
    BY <1>1, <1>3
  <2> QED BY <2>1, <2>2
<1> QED BY <1>3, <1>4

(* Lanes added up, each sum cut to a word, are the sum cut to a word.       *)
LEMMA FoldSums ==
  ASSUME NEW s \in Seq(Words(ISelBits)), Len(s) >= 1, NEW f, IsFold("add", s, f)
  PROVE  f[Len(s)] = Word(ISelBits, SumOf(s))
<1> DEFINE len == Len(s)
           w == 2^ISelBits
           sum[k \in 0..len] == IF k = 0 THEN 0 ELSE sum[k - 1] + s[k]
<1>1. /\ len \in Nat /\ len >= 1 /\ w \in Nat \ {0}
      /\ \A k \in 1..len : s[k] \in 0..(w - 1) /\ s[k] \in Nat
  <2>1. w \in Nat \ {0}
    <3>1. 2^(ISelBits - 1) \in Nat /\ 2^(ISelBits - 1) >= 2 /\ w = 2 * 2^(ISelBits - 1)
      BY ISelFacts
    <3> HIDE DEF w
    <3> QED BY <3>1
  <2>2. \A k \in 1..len : s[k] \in 0..(w - 1)
    <3>1. \A k \in 1..len : s[k] \in Words(ISelBits)
      OBVIOUS
    <3>2. Words(ISelBits) = 0..(w - 1)
      BY DEF Words
    <3> QED BY <3>1, <3>2, Zenon
  <2>3. len \in Nat /\ len >= 1
    OBVIOUS
  <2> HIDE DEF w
  <2> QED BY <2>1, <2>2, <2>3
<1>2. SumOf(s) = sum[len]
  BY DEF SumOf
<1>3. sum = [k \in 0..len |-> IF k = 0 THEN 0 ELSE sum[k - 1] + s[k]]
  <2>1. \E g : g = [k \in 0..len |-> IF k = 0 THEN 0 ELSE g[k - 1] + s[k]]
    BY SumsExist
  <2> QED BY <2>1
<1> HIDE DEF sum
<1>4. \A k \in 0..len : sum[k] = IF k = 0 THEN 0 ELSE sum[k - 1] + s[k]
  BY <1>3
<1>5. f[1] = s[1] /\ \A j \in 1..(len - 1) : f[j + 1] = (f[j] + s[j + 1]) % w
  <2>1. \A u, v : Fold2("add", u, v) = (u + v) % w
    BY DEF Fold2, Add
  <2> QED BY <2>1 DEF IsFold
<1> HIDE DEF w, len
<1>6. sum[0] = 0 /\ \A j \in 1..len : sum[j] = sum[j - 1] + s[j]
  BY <1>1, <1>4
<1> DEFINE fine(m) == sum[m] \in Nat /\ f[m] = sum[m] % w
           Wrong == {m \in 1..len : ~fine(m)}
<1>7. fine(1)
  <2>1. sum[1] = sum[0] + s[1] /\ s[1] \in 0..(w - 1) /\ s[1] \in Nat
    <3>1. 1 \in 1..len /\ 1 - 1 = 0
      BY <1>1
    <3> QED BY <1>1, <1>6, <3>1
  <2>2. sum[1] = s[1]
    BY <1>6, <2>1
  <2>3. s[1] % w = s[1]
    BY <1>1, <2>1, SMT
  <2> QED BY <1>5, <2>1, <2>2, <2>3
<1>8. ASSUME NEW j \in 1..(len - 1), fine(j)
      PROVE  fine(j + 1)
  <2>1. sum[j + 1] = sum[j] + s[j + 1] /\ s[j + 1] \in Nat
    <3>1. j + 1 \in 1..len /\ (j + 1) - 1 = j
      BY <1>1
    <3>2. sum[j + 1] = sum[(j + 1) - 1] + s[j + 1]
      BY <1>6, <3>1
    <3> QED BY <1>1, <3>1, <3>2
  <2>2. f[j + 1] = ((sum[j] % w) + s[j + 1]) % w
    BY <1>5, <1>8
  <2>3. ((sum[j] % w) + s[j + 1]) % w = (sum[j] + s[j + 1]) % w
    BY <1>1, <1>8, <2>1, SumOfRemainder
  <2>4. sum[j + 1] \in Nat
    BY <1>8, <2>1
  <2> QED BY <2>1, <2>2, <2>3, <2>4
<1> HIDE DEF fine
<1>9. Wrong = {}
  <2> SUFFICES ASSUME Wrong # {} PROVE FALSE
    OBVIOUS
  <2>1. PICK m \in Wrong : \A j \in Wrong : m =< j
    <3>1. Wrong \in SUBSET Nat
      BY <1>1
    <3> HIDE DEF Wrong
    <3> QED BY <3>1, LeastNumber
  <2>2. m \in 1..len /\ ~fine(m) /\ m # 1
    BY <1>7, <2>1
  <2>3. m - 1 \in 1..len /\ m - 1 < m /\ m - 1 \in 1..(len - 1) /\ (m - 1) + 1 = m
    BY <1>1, <2>2
  <2>4. m - 1 \notin Wrong
    <3> HIDE DEF Wrong
    <3> QED BY <1>1, <2>1, <2>2, <2>3
  <2>5. fine(m - 1)
    BY <2>3, <2>4
  <2>6. fine((m - 1) + 1)
    BY <1>8, <2>3, <2>5
  <2> QED BY <2>2, <2>3, <2>6
<1>10. fine(len)
  BY <1>1, <1>9
<1> QED BY <1>2, <1>10 DEF fine, Word, w, len

(* What a reduction returns is a word: the sum of the lanes, or bit for bit *)
(* what the number of lanes that have the bit says.                         *)
LEMMA ReduceRight ==
  ASSUME NEW kind \in Reductions, NEW s \in Seq(Words(ISelBits)), Len(s) >= 1
  PROVE  ReducedTo(kind, s, Reduce(kind, s))
<1>1. PICK f : IsFold(kind, s, f) /\ Reduce(kind, s) = f[Len(s)]
  BY ReduceFolds
<1>2. f[Len(s)] \in Words(ISelBits)
  <2>1. f \in [1..Len(s) -> Words(ISelBits)]
    BY <1>1 DEF IsFold
  <2>2. Len(s) \in 1..Len(s)
    OBVIOUS
  <2> QED BY <2>1, <2>2
<1>3. CASE kind = "add"
  <2>1. f[Len(s)] = Word(ISelBits, SumOf(s))
    BY <1>1, <1>3, FoldSums
  <2> QED BY <1>1, <1>3, <2>1 DEF ReducedTo
<1>4. CASE kind # "add"
  <2>1. kind \in {"xor", "and", "or"}
    BY <1>4 DEF Reductions
  <2>2. \A k \in 0..(ISelBits - 1) :
          k \in Ones(f[Len(s)]) <=> ReducedBit(kind, Cardinality(LanesWith(s, k)), Len(s))
    BY <1>1, <2>1, FoldCounts
  <2> QED BY <1>1, <1>2, <1>4, <2>2 DEF ReducedTo
<1> QED BY <1>3, <1>4

(* The operands an operation can have.                                      *)
Operand(c, w) ==
  LET i32 == Words(ISelBits)
      arm == IF c.kind = "ptr" THEN i32 \cup {Poison} ELSE i32
  IN CASE c.op \in {"icmp", "minmax"} -> w \in i32 \X i32
       [] c.op = "select" -> w \in (0..1) \X arm \X arm
       [] c.op = "abs" -> \E a \in i32 : w = <<a>>
       [] c.op = "sext" -> w \in {<<0>>, <<1>>}
       [] c.op = "reduce" -> w \in Seq(i32) \ {<<>>}

(* Whatever the code in place of an operation may return is what the        *)
(* operation means, for every operand of every word width: LowerSETCC,      *)
(* LowerSELECT and the driver's rewrites of abs, min, max, sext, select and *)
(* vector.reduce.                                                           *)
THEOREM InlineMeans ==
  \A c \in InlineOps : \A w : Operand(c, w) =>
    \A v \in Inlined(c, w) : StandsFor(c, w, v)
<1> SUFFICES ASSUME NEW c \in InlineOps, NEW w, Operand(c, w), NEW v \in Inlined(c, w)
             PROVE  StandsFor(c, w, v)
  OBVIOUS
<1>1. c.op \in {"icmp", "minmax", "select", "abs", "sext", "reduce"}
  BY DEF InlineOps
<1>2. CASE c.op = "icmp"
  <2>1. c.kind \in CondCodes
    BY <1>2 DEF InlineOps
  <2>2. w \in Words(ISelBits) \X Words(ISelBits)
    BY <1>2 DEF Operand
  <2>3. w[1] \in Words(ISelBits) /\ w[2] \in Words(ISelBits)
    BY <2>2
  <2>4. v = LowerSETCC(c.kind, w[1], w[2])
    BY <1>2 DEF Inlined
  <2>5. v = IF Related(c.kind, w[1], w[2]) THEN 1 ELSE 0
    BY <2>1, <2>3, <2>4, SetCCRight
  <2> QED BY <1>2, <2>5 DEF StandsFor
<1>3. CASE c.op = "minmax"
  <2>1. c.kind \in CondCodes
    BY <1>3 DEF InlineOps, MinMax, CondCodes
  <2>2. w \in Words(ISelBits) \X Words(ISelBits)
    BY <1>3 DEF Operand
  <2>3. w[1] \in Words(ISelBits) /\ w[2] \in Words(ISelBits)
    BY <2>2
  <2>4. v = BlendOnCmp(c.kind, w[1], w[2])
    BY <1>3 DEF Inlined
  <2> DEFINE holds == LowerSETCC(c.kind, w[1], w[2])
  <2>5. holds = IF Related(c.kind, w[1], w[2]) THEN 1 ELSE 0
    BY <2>1, <2>3, SetCCRight
  <2>6. v = Blend(holds, w[1], w[2])
    BY <2>4 DEF BlendOnCmp
  <2> HIDE DEF holds
  <2>7. holds \in {0, 1}
    BY <2>5
  <2>8. v = IF holds = 1 THEN w[1] ELSE w[2]
    BY <2>3, <2>6, <2>7, BlendIs
  <2>9. v = IF Related(c.kind, w[1], w[2]) THEN w[1] ELSE w[2]
    BY <2>5, <2>8
  <2> QED BY <1>3, <2>9 DEF StandsFor
<1>4. CASE c.op = "select"
  <2> DEFINE isPtr == c.kind = "ptr"
             arm == IF isPtr THEN Words(ISelBits) \cup {Poison} ELSE Words(ISelBits)
  <2>1. w \in (0..1) \X arm \X arm
    BY <1>4 DEF Operand
  <2>2. w[1] \in 0..1 /\ w[2] \in arm /\ w[3] \in arm
    <3> HIDE DEF arm
    <3> QED BY <2>1
  <2>3. w[1] \in {0, 1}
    BY <2>2
  <2>4. w[2] \in Words(ISelBits) \cup {Poison} /\ w[3] \in Words(ISelBits) \cup {Poison}
    BY <2>2
  <2>5. ~isPtr => Poison \notin {w[2], w[3]}
    <3>1. Poison \notin Words(ISelBits)
      BY DEF Poison, Words
    <3> QED BY <2>2, <3>1
  <2>6. v \in SelectRewrite(isPtr, w[1], w[2], w[3])
    BY <1>4 DEF Inlined
  <2>7. isPtr \in BOOLEAN
    OBVIOUS
  <2> HIDE DEF isPtr, arm
  <2>8. LET chosen == IF w[1] = 1 THEN w[2] ELSE w[3]
        IN  chosen # Poison => v = chosen
    BY <2>3, <2>4, <2>5, <2>6, <2>7, SelectRight
  <2> QED BY <1>4, <2>8 DEF StandsFor
<1>5. CASE c.op = "abs"
  <2>1. PICK a \in Words(ISelBits) : w = <<a>>
    BY <1>5 DEF Operand
  <2>2. w[1] = a
    BY <2>1
  <2>3. v = AbsRewrite(a)
    BY <1>5, <2>2 DEF Inlined
  <2>4. LET sa == Signed(ISelBits, w[1])
        IN  v = Word(ISelBits, IF sa < 0 THEN -sa ELSE sa)
    BY <2>2, <2>3, AbsRight
  <2> QED BY <1>5, <2>4 DEF StandsFor
<1>6. CASE c.op = "sext"
  <2>1. w[1] \in {0, 1}
    BY <1>6 DEF Operand
  <2>2. v = SExtRewrite(w[1])
    BY <1>6 DEF Inlined
  <2>3. Signed(ISelBits, v) = -w[1]
    BY <2>1, <2>2, SExtRight
  <2> QED BY <1>6, <2>3 DEF StandsFor
<1>7. CASE c.op = "reduce"
  <2>1. c.kind \in Reductions
    BY <1>7 DEF InlineOps, Reductions
  <2>2. w \in Seq(Words(ISelBits)) /\ w # <<>>
    BY <1>7 DEF Operand
  <2>3. Len(w) >= 1
    BY <2>2
  <2>4. v = Reduce(c.kind, w)
    BY <1>7 DEF Inlined
  <2>5. ReducedTo(c.kind, w, v)
    BY <2>1, <2>2, <2>3, <2>4, ReduceRight
  <2> QED BY <1>7, <2>5 DEF StandsFor
<1> QED BY <1>1, <1>2, <1>3, <1>4, <1>5, <1>6, <1>7

(* A remainder is below its divisor, also that of a negative number.        *)
LEMMA Remainders ==
  ASSUME NEW a \in Int, NEW p \in Nat \ {0}
  PROVE  a % p \in 0..(p - 1)
  BY SMT
=============================================================================
