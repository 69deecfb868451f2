------------------------------ MODULE MovISel ------------------------------
(***************************************************************************)
(* Comparisons, selects and the operations made of them, which llvm-mov    *)
(* expands into straight-line arithmetic: a conditional branch would be    *)
(* legalized back into them. LowerSETCC and LowerSELECT do so during       *)
(* instruction selection; the driver rewrites the IR first.                *)
(***************************************************************************)
EXTENDS MachineWord, Sequences, FiniteSets

CONSTANT ISelBits      \* the width of an i32: 32 in the code
ASSUME ISelBitsAssumption == ISelBits \in Nat \ {0, 1}
ASSUME ISelPowers == PowersDouble(ISelBits)

(* The ones of a word, and the word that has these ones. *)
Ones(a) == {k \in 0..(ISelBits - 1) : Bit(a, k) = 1}
OfOnes(S) == CHOOSE v \in Words(ISelBits) : Ones(v) = S
And(a, b) == OfOnes(Ones(a) \cap Ones(b))
Or(a, b) == OfOnes(Ones(a) \cup Ones(b))
Xor(a, b) == OfOnes((Ones(a) \ Ones(b)) \cup (Ones(b) \ Ones(a)))
Minus(a, b) == Sub(ISelBits, a, b)
Inverse1(p) == Xor(p, 1)                       \* of an i1 in an i32

-----------------------------------------------------------------------------
(* LowerSETCC: 1 or 0 for each predicate of icmp.                          *)
SignBit(a) == LShr(a, ISelBits - 1)

(* The sign of the difference, corrected where the difference overflows.   *)
(* Mutant: not corrected.                                                  *)
SltOverflows(a, b) == SignBit(Minus(a, b))
Slt(a, b) ==
  LET sub == Minus(a, b)
  IN SignBit(Xor(sub, And(Xor(a, b), Xor(sub, a))))
Ult(a, b) == Slt(Xor(a, 2^(ISelBits - 1)), Xor(b, 2^(ISelBits - 1)))
NeZ(a) == SignBit(Or(a, Minus(0, a)))
Eq(a, b) == Inverse1(NeZ(Xor(a, b)))

CondCodes == {"slt", "sgt", "sle", "sge", "ult", "ugt", "ule", "uge", "eq", "ne"}
LowerSETCC(cc, a, b) ==
  CASE cc = "slt" -> Slt(a, b)
    [] cc = "sgt" -> Slt(b, a)
    [] cc = "sle" -> Inverse1(Slt(b, a))
    [] cc = "sge" -> Inverse1(Slt(a, b))
    [] cc = "ult" -> Ult(a, b)
    [] cc = "ugt" -> Ult(b, a)
    [] cc = "ule" -> Inverse1(Ult(b, a))
    [] cc = "uge" -> Inverse1(Ult(a, b))
    [] cc = "eq" -> Eq(a, b)
    [] cc = "ne" -> Inverse1(Eq(a, b))

-----------------------------------------------------------------------------
(* The blend that LowerSELECT and the driver put in place of a select: both *)
(* arms are computed and combined, so that poison in either taints it.      *)
Poison == -1
Blend(cond, t, f) ==
  LET mask == Minus(0, cond)
  IN IF Poison \in {t, f} THEN Poison
     ELSE Or(And(t, mask), And(f, Not(ISelBits, mask)))

(* freeze gives a poison arm some fixed value. The driver freezes the arms  *)
(* of a select of pointers only.                                            *)
Frozen(isPtr, v) == IF isPtr /\ v = Poison THEN Words(ISelBits) ELSE {v}
SelectRewrite(isPtr, cond, t, f) ==
  {Blend(cond, tv, fv) : tv \in Frozen(isPtr, t), fv \in Frozen(isPtr, f)}

(* The driver's abs, min and max, and sext of an i1.                        *)
AddMask(a) == IF SignBit(a) = 1 THEN 2^ISelBits - 1 ELSE 0
AbsRewrite(a) == Minus(Xor(a, AddMask(a)), AddMask(a))
BlendOnCmp(cc, a, b) == Blend(LowerSETCC(cc, a, b), a, b)
SExtRewrite(p) == Minus(0, p)

(* vector.reduce.*: neighbours are folded until one lane is left; the last  *)
(* of an odd number of lanes waits for the next round.                      *)
Fold2(kind, a, b) ==
  CASE kind = "xor" -> Xor(a, b)
    [] kind = "add" -> Add(ISelBits, a, b)
    [] kind = "and" -> And(a, b)
    [] kind = "or" -> Or(a, b)
NextLanes(kind, lanes) ==
  LET n == Len(lanes)
      pairs == [k \in 1..(n \div 2) |-> Fold2(kind, lanes[2 * k - 1], lanes[2 * k])]
  IN IF n % 2 = 1 THEN Append(pairs, lanes[n]) ELSE pairs
Reduce(kind, lanes) ==
  LET round[k \in 0..Len(lanes)] ==
        IF k = 0 THEN lanes
        ELSE IF Len(round[k - 1]) = 1 THEN round[k - 1] ELSE NextLanes(kind, round[k - 1])
  IN  round[Len(lanes)][1]

(* The operations, and what the code in place of one may return.            *)
MinMax == {"ult", "ugt", "slt", "sgt"}         \* umin, umax, smin, smax
InlineOps ==
  [op : {"icmp"}, fmt : {"i32"}, kind : CondCodes]
  \cup [op : {"minmax"}, fmt : {"i32"}, kind : MinMax]
  \cup [op : {"select"}, fmt : {"i32"}, kind : {"int", "ptr"}]
  \cup [op : {"abs", "sext"}, fmt : {"i32"}, kind : {"-"}]
  \cup [op : {"reduce"}, fmt : {"i32"}, kind : {"xor", "add", "and", "or"}]

Inlined(c, v) ==
  CASE c.op = "icmp" -> {LowerSETCC(c.kind, v[1], v[2])}
    [] c.op = "minmax" -> {BlendOnCmp(c.kind, v[1], v[2])}
    [] c.op = "select" -> SelectRewrite(c.kind = "ptr", v[1], v[2], v[3])
    [] c.op = "abs" -> {AbsRewrite(v[1])}
    [] c.op = "sext" -> {SExtRewrite(v[1])}
    [] c.op = "reduce" -> {Reduce(c.kind, v)}

-----------------------------------------------------------------------------
(* What they stand for: relations between words as numbers of either kind,  *)
(* and of each bit how many lanes have it.                                  *)
Related(cc, a, b) ==
  LET sa == Signed(ISelBits, a)
      sb == Signed(ISelBits, b)
  IN CASE cc = "eq" -> a = b     [] cc = "ne" -> a # b
       [] cc = "ult" -> a < b    [] cc = "ule" -> a =< b
       [] cc = "ugt" -> a > b    [] cc = "uge" -> a >= b
       [] cc = "slt" -> sa < sb  [] cc = "sle" -> sa =< sb
       [] cc = "sgt" -> sa > sb  [] cc = "sge" -> sa >= sb

ReducedBit(kind, count, lanes) ==
  CASE kind = "xor" -> count % 2 = 1
    [] kind = "and" -> count = lanes
    [] kind = "or" -> count > 0
LanesWith(lanes, k) == {j \in DOMAIN lanes : k \in Ones(lanes[j])}
SumOf(lanes) ==
  LET sum[k \in 0..Len(lanes)] == IF k = 0 THEN 0 ELSE sum[k - 1] + lanes[k]
  IN  sum[Len(lanes)]
ReducedTo(kind, lanes, v) ==
  IF kind = "add" THEN v = Word(ISelBits, SumOf(lanes))
  ELSE /\ v \in Words(ISelBits)
       /\ \A k \in 0..(ISelBits - 1) :
            k \in Ones(v) <=> ReducedBit(kind, Cardinality(LanesWith(lanes, k)), Len(lanes))

(* v is what operation c of operands w means. An i32 arm of a select is not *)
(* poison; a pointer that is may be returned as anything if it is chosen.   *)
StandsFor(c, w, v) ==
  CASE c.op = "icmp" -> v = IF Related(c.kind, w[1], w[2]) THEN 1 ELSE 0
    [] c.op = "minmax" -> v = IF Related(c.kind, w[1], w[2]) THEN w[1] ELSE w[2]
    [] c.op = "abs" -> LET s == Signed(ISelBits, w[1])
                       IN  v = Word(ISelBits, IF s < 0 THEN -s ELSE s)
    [] c.op = "sext" -> Signed(ISelBits, v) = -w[1]
    [] c.op = "reduce" -> ReducedTo(c.kind, w, v)
    [] c.op = "select" -> LET chosen == IF w[1] = 1 THEN w[2] ELSE w[3]
                          IN  chosen # Poison => v = chosen
=============================================================================
