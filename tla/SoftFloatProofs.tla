--------------------------- MODULE SoftFloatProofs ---------------------------
(***************************************************************************)
(* The bodies of SoftFloat and FloatConvert against FloatReference, for    *)
(* words and formats of every width: comparisons, conversions from and to  *)
(* integers and between the formats, and roundings to an integer.          *)
(***************************************************************************)
EXTENDS FloatReference, MovISelProofs

-----------------------------------------------------------------------------
(* The i32 and the i64 of the float helpers.                                *)

(* Half an i32, an i32, half an i64 and an i64.                             *)
LEMMA IntPowers ==
  /\ IntBits \in Nat /\ IntBits >= 5
  /\ \A k \in 0..(2 * IntBits) : 2^k \in Nat \ {0} /\ 2^k > k
  /\ 2^IntBits = 2 * 2^(IntBits - 1)
  /\ 2^(2 * IntBits) = 2^IntBits * 2^IntBits
  /\ 2^(2 * IntBits - 1) = 2^(IntBits - 1) * 2^IntBits
<1>1. IntBits \in Nat /\ F32.m + 5 =< F32.w /\ F32.w < 2 * (F32.m + 1)
  BY FormatsFit
<1>2. IntBits >= 5
  <2>1. F32.w = IntBits /\ F32.m = IntBits - 1 - Exp32 /\ Exp32 \in Nat
    BY FormatsFit DEF F32
  <2> QED BY <1>1, <2>1
<1>3. PowersDouble(2 * IntBits) /\ 2 * IntBits \in Nat
  BY <1>1, LongPowers DEF PowersDouble
<1>4. \A k \in 0..(2 * IntBits) : 2^k \in Nat \ {0} /\ 2^k > k
  <2>1. \A k \in 0..(2 * IntBits) : 2^k \in Nat /\ 2^k > k
    BY <1>3, PowerPositive
  <2> QED BY <2>1
<1>5. 2^IntBits = 2 * 2^(IntBits - 1)
  <2>1. IntBits - 1 \in 0..(2 * IntBits - 1) /\ (IntBits - 1) + 1 = IntBits
    BY <1>1, <1>2
  <2> QED BY <1>3, <2>1 DEF PowersDouble
<1>6. 2^(2 * IntBits) = 2^IntBits * 2^IntBits
  <2>1. IntBits + IntBits = 2 * IntBits
    BY <1>1
  <2>2. 2^(IntBits + IntBits) = 2^IntBits * 2^IntBits
    BY <1>1, <1>3, <2>1, PowerAdds
  <2> QED BY <2>1, <2>2
<1>7. 2^(2 * IntBits - 1) = 2^(IntBits - 1) * 2^IntBits
  <2>1. IntBits - 1 \in Nat /\ (IntBits - 1) + IntBits = 2 * IntBits - 1
        /\ (IntBits - 1) + IntBits =< 2 * IntBits
    BY <1>1, <1>2
  <2>2. 2^((IntBits - 1) + IntBits) = 2^(IntBits - 1) * 2^IntBits
    BY <1>1, <1>3, <2>1, PowerAdds
  <2> QED BY <2>1, <2>2
<1> QED BY <1>1, <1>2, <1>4, <1>5, <1>6, <1>7

(* The top bit of a word, and what is below it.                             *)
LEMMA TopBit ==
  ASSUME NEW h \in Nat \ {0}, NEW v \in 0..(2 * h - 1)
  PROVE  /\ v \div h = IF v < h THEN 0 ELSE 1
         /\ v % h = IF v < h THEN v ELSE v - h
<1>1. CASE v < h
  <2>1. v = 0 * h + v
    OBVIOUS
  <2> QED BY <1>1, <2>1, DivUnique
<1>2. CASE ~(v < h)
  <2>1. v - h \in Nat /\ v - h < h /\ v = 1 * h + (v - h)
    BY <1>2
  <2> QED BY <1>2, <2>1, DivUnique
<1> QED BY <1>1, <1>2

(* Words of two parts are ordered as their high parts, then their low ones. *)
LEMMA Lexicographic ==
  ASSUME NEW p \in Nat \ {0}, NEW a \in Nat, NEW b \in Nat,
         NEW k \in 0..(p - 1), NEW l \in 0..(p - 1)
  PROVE  /\ a * p + k < b * p + l <=> a < b \/ (a = b /\ k < l)
         /\ a * p + k = b * p + l <=> a = b /\ k = l
<1>1. a * p \in Nat /\ b * p \in Nat
  OBVIOUS
<1>2. CASE a < b
  <2>1. (a + 1) * p =< b * p
    BY <1>2, TimesMonotone
  <2>2. (a + 1) * p = a * p + p
    OBVIOUS
  <2> QED BY <1>1, <1>2, <2>1, <2>2
<1>3. CASE b < a
  <2>1. (b + 1) * p =< a * p
    BY <1>3, TimesMonotone
  <2>2. (b + 1) * p = b * p + p
    OBVIOUS
  <2> QED BY <1>1, <1>3, <2>1, <2>2
<1>4. CASE a = b
  BY <1>1, <1>4
<1> QED BY <1>2, <1>3, <1>4

-----------------------------------------------------------------------------
(* Comparisons.                                                             *)

(* The key of a float, and where the float is in the order.                 *)
LEMMA FloatKey ==
  ASSUME NEW v \in Words(IntBits)
  PROVE  LET h == 2^(IntBits - 1)
         IN  /\ Signed(IntBits, FlipIfNegative(IntBits, v)) = IF v < h THEN v ELSE h - 1 - v
             /\ Order(F32, v) = IF v < h THEN v ELSE h - v
             /\ Magnitude(F32, v) = IF v < h THEN v ELSE v - h
<1> DEFINE h == 2^(IntBits - 1)
<1>1. h \in Nat \ {0} /\ 2^IntBits = 2 * h
  BY IntPowers
<1>2. v \in 0..(2 * h - 1)
  BY <1>1 DEF Words
<1>3. /\ v \div h = IF v < h THEN 0 ELSE 1
      /\ v % h = IF v < h THEN v ELSE v - h
  BY <1>1, <1>2, TopBit
<1>4. F32.w = IntBits
  BY DEF F32
<1>5. Sign(F32, v) = v \div h /\ Magnitude(F32, v) = v % h
  BY <1>4 DEF Sign, Magnitude, LShr, Low
<1>6. Order(F32, v) = IF v < h THEN v ELSE h - v
  <2> HIDE DEF h
  <2> QED BY <1>1, <1>2, <1>3, <1>5 DEF Order
<1>7. FlipIfNegative(IntBits, v) = IF v \div h = 1 THEN h + ((2 * h - 1 - v) % h) ELSE v
  <2>1. \A u : Not(IntBits, u) = 2 * h - 1 - u
    BY <1>1 DEF Not
  <2> HIDE DEF h
  <2> QED BY <2>1 DEF FlipIfNegative, LShr, Low, h
<1>8. ASSUME ~(v < h) PROVE (2 * h - 1 - v) % h = 2 * h - 1 - v
  <2> HIDE DEF h
  <2>1. 2 * h - 1 - v \in 0..(2 * h - 1) /\ 2 * h - 1 - v < h
    BY <1>1, <1>2, <1>8
  <2> QED BY <1>1, <2>1, TopBit
<1>9. FlipIfNegative(IntBits, v) = IF v < h THEN v ELSE 3 * h - 1 - v
  <2> HIDE DEF h
  <2>1. CASE v < h
    BY <1>1, <1>2, <1>3, <1>7, <2>1
  <2>2. CASE ~(v < h)
    <3>1. v \div h = 1 /\ (2 * h - 1 - v) % h = 2 * h - 1 - v
      BY <1>3, <1>8, <2>2
    <3>2. h + (2 * h - 1 - v) = 3 * h - 1 - v
      BY <1>1, <1>2
    <3> QED BY <1>7, <2>2, <3>1, <3>2
  <2> QED BY <2>1, <2>2
<1>10. Signed(IntBits, FlipIfNegative(IntBits, v)) = IF v < h THEN v ELSE h - 1 - v
  <2>1. \A u : Signed(IntBits, u) = IF u < h THEN u ELSE u - 2 * h
    BY <1>1 DEF Signed
  <2> HIDE DEF h
  <2> QED BY <1>1, <1>2, <1>9, <2>1
<1> QED BY <1>3, <1>5, <1>6, <1>10

(* The two halves of a double and its sign: the sign is that of the high    *)
(* half.                                                                    *)
LEMMA DoubleHalves ==
  ASSUME NEW v \in Words(2 * IntBits)
  PROVE  LET h == 2^(IntBits - 1)
             p == 2^IntBits
         IN  /\ HiHalf(v) \in 0..(2 * h - 1) /\ LoHalf(v) \in 0..(p - 1)
             /\ v = HiHalf(v) * p + LoHalf(v)
             /\ v < h * p <=> HiHalf(v) < h
             /\ Sign(F64, v) = IF HiHalf(v) < h THEN 0 ELSE 1
             /\ Magnitude(F64, v) = IF HiHalf(v) < h THEN v ELSE v - h * p
<1> DEFINE h == 2^(IntBits - 1)
           p == 2^IntBits
<1>1. /\ h \in Nat \ {0} /\ p \in Nat \ {0} /\ p = 2 * h
      /\ 2^(2 * IntBits) = p * p /\ 2^(2 * IntBits - 1) = h * p
  BY IntPowers
<1>2. HiHalf(v) = v \div p /\ LoHalf(v) = v % p
  BY DEF HiHalf, LoHalf, LShr, Low
<1>3. F64.w = 2 * IntBits
  BY DEF F64
<1>4. Sign(F64, v) = v \div (h * p) /\ Magnitude(F64, v) = v % (h * p)
  BY <1>1, <1>3 DEF Sign, Magnitude, LShr, Low
<1>5. v \in 0..(p * p - 1)
  BY <1>1 DEF Words
<1> HIDE DEF h, p
<1>6. v \div p \in 0..(p - 1) /\ v % p \in 0..(p - 1) /\ v = (v \div p) * p + (v % p)
  BY <1>1, <1>5, Parted
<1>7. h * p \in Nat \ {0} /\ p * p = 2 * (h * p)
  BY <1>1
<1>8. /\ v \div (h * p) = IF v < h * p THEN 0 ELSE 1
      /\ v % (h * p) = IF v < h * p THEN v ELSE v - h * p
  BY <1>5, <1>7, TopBit
<1>9. v < h * p <=> v \div p < h
  <2>1. h * p + 0 = h * p /\ 0 \in 0..(p - 1) /\ v \div p \in Nat
    BY <1>1, <1>6, <1>7
  <2>2. (v \div p) * p + (v % p) < h * p + 0 <=> v \div p < h \/ (v \div p = h /\ v % p < 0)
    <3> DEFINE a == v \div p
               k == v % p
    <3>1. a \in Nat /\ h \in Nat /\ k \in 0..(p - 1) /\ 0 \in 0..(p - 1)
      BY <1>1, <1>6, <2>1
    <3> HIDE DEF a, k
    <3>2. a * p + k < h * p + 0 <=> a < h \/ (a = h /\ k < 0)
      BY <1>1, <3>1, Lexicographic
    <3> QED BY <3>2 DEF a, k
  <2>3. ~(v % p < 0)
    BY <1>6
  <2> QED BY <1>6, <2>1, <2>2, <2>3
<1>10. v \div p \in 0..(2 * h - 1)
  BY <1>1, <1>6
<1> QED BY <1>1, <1>2, <1>4, <1>6, <1>8, <1>9, <1>10 DEF h, p

(* The key of a double: a signed high half and an unsigned low half.        *)
LEMMA DoubleKeyParts ==
  ASSUME NEW v \in Words(2 * IntBits)
  PROVE  LET h == 2^(IntBits - 1)
             p == 2^IntBits
         IN  /\ DoubleKey(v).hi = IF HiHalf(v) < h THEN HiHalf(v) ELSE h - 1 - HiHalf(v)
             /\ DoubleKey(v).lo = IF HiHalf(v) < h THEN LoHalf(v) ELSE p - 1 - LoHalf(v)
             /\ Order(F64, v) = IF HiHalf(v) < h THEN v ELSE h * p - v
<1> DEFINE h == 2^(IntBits - 1)
           p == 2^IntBits
<1>1. h \in Nat \ {0} /\ p \in Nat \ {0} /\ p = 2 * h
  BY IntPowers
<1>2. /\ HiHalf(v) \in 0..(2 * h - 1) /\ LoHalf(v) \in 0..(p - 1)
      /\ Sign(F64, v) = IF HiHalf(v) < h THEN 0 ELSE 1
      /\ Magnitude(F64, v) = IF HiHalf(v) < h THEN v ELSE v - h * p
  BY DoubleHalves
<1>3. HiHalf(v) \in Words(IntBits)
  BY <1>1, <1>2 DEF Words
<1>4. Signed(IntBits, FlipIfNegative(IntBits, HiHalf(v))) =
        IF HiHalf(v) < h THEN HiHalf(v) ELSE h - 1 - HiHalf(v)
  BY <1>3, FloatKey
<1>5. Not(IntBits, LoHalf(v)) = p - 1 - LoHalf(v)
  BY DEF Not
<1>6. v \in Nat /\ h * p \in Nat
  BY <1>1, IntPowers DEF Words
<1> HIDE DEF h, p
<1>7. Order(F64, v) = IF HiHalf(v) < h THEN v ELSE h * p - v
  BY <1>2, <1>6 DEF Order
<1> QED BY <1>2, <1>4, <1>5, <1>7 DEF DoubleKey, h, p

(* What is compared of two floats and of two doubles is compared as their   *)
(* order, but for two zeros, which are told apart before.                   *)
LEMMA FloatsCompare ==
  ASSUME NEW a \in Words(IntBits), NEW b \in Words(IntBits), NEW u,
         ~IsNaN(F32, a), ~IsNaN(F32, b)
  PROVE  /\ Order(F32, a) \in Int /\ Order(F32, b) \in Int
         /\ emitFloatCompareBody(u, a, b) =
              ThreeWay(Order(F32, a) < Order(F32, b), Order(F32, a) > Order(F32, b))
<1> DEFINE h == 2^(IntBits - 1)
           key(v) == Signed(IntBits, FlipIfNegative(IntBits, v))
<1>1. h \in Nat \ {0} /\ a \in Nat /\ b \in Nat
  BY IntPowers DEF Words
<1>2. \A v \in {a, b} : /\ key(v) = IF v < h THEN v ELSE h - 1 - v
                        /\ Order(F32, v) = IF v < h THEN v ELSE h - v
                        /\ Magnitude(F32, v) = IF v < h THEN v ELSE v - h
  BY FloatKey
<1>3. emitFloatCompareBody(u, a, b) =
        IF Magnitude(F32, a) = 0 /\ Magnitude(F32, b) = 0 THEN 0
        ELSE ThreeWay(key(a) < key(b), key(a) > key(b))
  BY DEF emitFloatCompareBody
<1> HIDE DEF h, key
<1>4. Order(F32, a) \in Int /\ Order(F32, b) \in Int
  BY <1>1, <1>2
<1>5. CASE Magnitude(F32, a) = 0 /\ Magnitude(F32, b) = 0
  <2>1. Order(F32, a) = 0 /\ Order(F32, b) = 0
    BY <1>1, <1>2, <1>5
  <2>2. ThreeWay(Order(F32, a) < Order(F32, b), Order(F32, a) > Order(F32, b)) = 0
    BY <2>1 DEF ThreeWay
  <2> QED BY <1>3, <1>4, <1>5, <2>2
<1>6. CASE ~(Magnitude(F32, a) = 0 /\ Magnitude(F32, b) = 0)
  <2>1. key(a) < key(b) <=> Order(F32, a) < Order(F32, b)
    BY <1>1, <1>2, <1>6
  <2>2. key(a) > key(b) <=> Order(F32, a) > Order(F32, b)
    BY <1>1, <1>2, <1>6
  <2> QED BY <1>3, <1>4, <1>6, <2>1, <2>2 DEF ThreeWay
<1> QED BY <1>5, <1>6, <1>4

(* Of doubles: the same, by their halves.                                   *)
LEMMA DoublesCompare ==
  ASSUME NEW a \in Words(2 * IntBits), NEW b \in Words(2 * IntBits), NEW u,
         ~IsNaN(F64, a), ~IsNaN(F64, b)
  PROVE  /\ Order(F64, a) \in Int /\ Order(F64, b) \in Int
         /\ emitDoubleCompareBody(u, a, b) =
              ThreeWay(Order(F64, a) < Order(F64, b), Order(F64, a) > Order(F64, b))
<1> DEFINE h == 2^(IntBits - 1)
           p == 2^IntBits
           less(v, w) == DoubleKey(v).hi < DoubleKey(w).hi
                         \/ (DoubleKey(v).hi = DoubleKey(w).hi /\ DoubleKey(v).lo < DoubleKey(w).lo)
           more(v, w) == DoubleKey(v).hi > DoubleKey(w).hi
                         \/ (DoubleKey(v).hi = DoubleKey(w).hi /\ DoubleKey(v).lo > DoubleKey(w).lo)
<1>1. h \in Nat \ {0} /\ p \in Nat \ {0} /\ p = 2 * h /\ a \in Nat /\ b \in Nat
  BY IntPowers DEF Words
<1>2. \A v \in {a, b} :
        /\ HiHalf(v) \in 0..(2 * h - 1) /\ LoHalf(v) \in 0..(p - 1)
        /\ v = HiHalf(v) * p + LoHalf(v) /\ (v < h * p <=> HiHalf(v) < h)
        /\ Magnitude(F64, v) = IF HiHalf(v) < h THEN v ELSE v - h * p
  BY DoubleHalves
<1>3. \A v \in {a, b} :
        /\ DoubleKey(v).hi = IF HiHalf(v) < h THEN HiHalf(v) ELSE h - 1 - HiHalf(v)
        /\ DoubleKey(v).lo = IF HiHalf(v) < h THEN LoHalf(v) ELSE p - 1 - LoHalf(v)
        /\ Order(F64, v) = IF HiHalf(v) < h THEN v ELSE h * p - v
  BY DoubleKeyParts
<1>4. emitDoubleCompareBody(u, a, b) =
        IF Magnitude(F64, a) = 0 /\ Magnitude(F64, b) = 0 THEN 0
        ELSE ThreeWay(less(a, b), more(a, b))
  BY DEF emitDoubleCompareBody
<1> HIDE DEF h, p
<1>5. h * p \in Nat
  BY <1>1
<1>6. Order(F64, a) \in Int /\ Order(F64, b) \in Int
  BY <1>1, <1>3, <1>5
<1>7. CASE Magnitude(F64, a) = 0 /\ Magnitude(F64, b) = 0
  <2>1. ASSUME NEW v \in {a, b}, Magnitude(F64, v) = 0 PROVE Order(F64, v) = 0
    <3>1. v \in Nat /\ (v < h * p <=> HiHalf(v) < h)
          /\ Magnitude(F64, v) = (IF HiHalf(v) < h THEN v ELSE v - h * p)
          /\ Order(F64, v) = (IF HiHalf(v) < h THEN v ELSE h * p - v)
      BY <1>1, <1>2, <1>3
    <3> QED BY <1>5, <2>1, <3>1
  <2>2. ThreeWay(Order(F64, a) < Order(F64, b), Order(F64, a) > Order(F64, b)) = 0
    BY <1>7, <2>1 DEF ThreeWay
  <2> QED BY <1>4, <1>6, <1>7, <2>2
<1>8. CASE ~(Magnitude(F64, a) = 0 /\ Magnitude(F64, b) = 0)
  <2>1. \A v \in {a, b}, w \in {a, b} :
          v < w <=> HiHalf(v) < HiHalf(w) \/ (HiHalf(v) = HiHalf(w) /\ LoHalf(v) < LoHalf(w))
    <3> TAKE v \in {a, b}, w \in {a, b}
    <3> DEFINE V == HiHalf(v)
               W == HiHalf(w)
               j == LoHalf(v)
               k == LoHalf(w)
    <3>1. V \in Nat /\ W \in Nat /\ j \in 0..(p - 1) /\ k \in 0..(p - 1)
          /\ v = V * p + j /\ w = W * p + k
      BY <1>1, <1>2
    <3> HIDE DEF V, W, j, k
    <3>2. V * p + j < W * p + k <=> V < W \/ (V = W /\ j < k)
      BY <1>1, <3>1, Lexicographic
    <3> QED BY <3>1, <3>2 DEF V, W, j, k
  <2>2. ASSUME NEW v \in {a, b}, NEW w \in {a, b},
               ~(Magnitude(F64, v) = 0 /\ Magnitude(F64, w) = 0)
        PROVE  less(v, w) <=> Order(F64, v) < Order(F64, w)
    <3> DEFINE V == HiHalf(v)
               W == HiHalf(w)
    <3>1. V \in 0..(2 * h - 1) /\ W \in 0..(2 * h - 1) /\ LoHalf(v) \in 0..(p - 1)
          /\ LoHalf(w) \in 0..(p - 1) /\ v \in Nat /\ w \in Nat
      BY <1>1, <1>2
    <3>2. CASE V < h /\ W < h
      <4>1. less(v, w) <=> V < W \/ (V = W /\ LoHalf(v) < LoHalf(w))
        BY <1>3, <3>2
      <4>2. Order(F64, v) = v /\ Order(F64, w) = w
        BY <1>3, <3>2
      <4> QED BY <2>1, <4>1, <4>2
    <3>3. CASE ~(V < h) /\ ~(W < h)
      <4>1. less(v, w) <=> W < V \/ (V = W /\ LoHalf(w) < LoHalf(v))
        <5>1. less(v, w) <=> h - 1 - V < h - 1 - W
                             \/ (h - 1 - V = h - 1 - W /\ p - 1 - LoHalf(v) < p - 1 - LoHalf(w))
          BY <1>3, <3>3
        <5> HIDE DEF less, V, W
        <5> QED BY <1>1, <3>1, <5>1
      <4>2. Order(F64, v) = h * p - v /\ Order(F64, w) = h * p - w
        BY <1>3, <3>3
      <4>3. Order(F64, v) < Order(F64, w) <=> w < v
        BY <1>5, <3>1, <4>2
      <4> QED BY <2>1, <4>1, <4>3
    <3>4. CASE V < h /\ ~(W < h)
      <4>1. DoubleKey(v).hi = V /\ DoubleKey(w).hi = h - 1 - W
        BY <1>3, <3>4
      <4>2. ~less(v, w)
        BY <1>1, <3>1, <3>4, <4>1
      <4>3. Order(F64, v) = v /\ Order(F64, w) = h * p - w /\ ~(w < h * p)
        BY <1>2, <1>3, <3>4
      <4> QED BY <1>5, <3>1, <4>2, <4>3
    <3>5. CASE ~(V < h) /\ W < h
      <4>1. DoubleKey(w).hi = W /\ DoubleKey(v).hi = h - 1 - V
        BY <1>3, <3>5
      <4>2. less(v, w)
        BY <1>1, <3>1, <3>5, <4>1
      <4>3. Order(F64, w) = w /\ Order(F64, v) = h * p - v /\ ~(v < h * p)
            /\ Magnitude(F64, w) = w /\ Magnitude(F64, v) = v - h * p
        BY <1>2, <1>3, <3>5
      <4> QED BY <1>5, <2>2, <3>1, <4>2, <4>3
    <3> QED BY <3>2, <3>3, <3>4, <3>5
  <2>3. more(a, b) <=> less(b, a)
    <3>1. \A v \in {a, b} : DoubleKey(v).hi \in Int /\ DoubleKey(v).lo \in Int
      BY <1>1, <1>2, <1>3
    <3> QED BY <3>1
  <2> HIDE DEF less, more
  <2>4. less(a, b) <=> Order(F64, a) < Order(F64, b)
    BY <1>8, <2>2
  <2>5. more(a, b) <=> Order(F64, a) > Order(F64, b)
    <3>1. less(b, a) <=> Order(F64, b) < Order(F64, a)
      BY <1>8, <2>2
    <3> QED BY <1>6, <2>3, <3>1
  <2> QED BY <1>4, <1>6, <1>8, <2>4, <2>5 DEF ThreeWay
<1> QED BY <1>6, <1>7, <1>8

(* The smaller of two numbers.                                              *)
LEMMA LeastOfTwo ==
  ASSUME NEW a \in Int, NEW b \in Int
  PROVE  Least({a, b}) \in {a, b} /\ Least({a, b}) =< a /\ Least({a, b}) =< b
<1>1. \E k \in {a, b} : \A l \in {a, b} : k =< l
  BY a =< b \/ b =< a
<1>2. Least({a, b}) \in {a, b} /\ \A l \in {a, b} : Least({a, b}) =< l
  BY <1>1 DEF Least
<1> QED BY <1>2

(* A word other than zero has a leading one.                                *)
LEMMA LeadingOne ==
  ASSUME NEW w \in 1..(2 * IntBits), NEW v \in Words(w) \ {0}
  PROVE  /\ Ctlz(w, v) \in 0..(w - 1)
         /\ 2^(w - 1 - Ctlz(w, v)) =< v /\ v < 2^(w - Ctlz(w, v))
<1> DEFINE Above == {k \in 0..w : v < 2^k}
<1>1. /\ IntBits \in Nat
      /\ \A k \in 0..w : 2^k \in Nat
      /\ 2^0 = 1
  BY IntPowers, LongPowers DEF PowersDouble
<1>2. v \in Nat \ {0} /\ v < 2^w
  BY <1>1 DEF Words
<1>3. Above \in SUBSET Nat /\ w \in Above
  BY <1>2
<1>4. PICK k \in Above : \A l \in Above : k =< l
  <2> HIDE DEF Above
  <2> QED BY <1>3, LeastNumber
<1>5. k \in 0..w /\ v < 2^k
  BY <1>4
<1>6. k # 0
  <2> SUFFICES ASSUME k = 0 PROVE FALSE
    OBVIOUS
  <2>1. v < 2^0
    BY <1>5
  <2> QED BY <1>1, <1>2, <2>1
<1>7. k - 1 \in 0..w /\ k - 1 \notin Above
  <2>1. k - 1 \in 0..w
    BY <1>5, <1>6
  <2>2. ~(k =< k - 1)
    BY <1>5
  <2> HIDE DEF Above
  <2> QED BY <1>4, <2>1, <2>2
<1>8. 2^(k - 1) =< v
  BY <1>1, <1>2, <1>7
<1> DEFINE leading(c) == 2^(w - 1 - c) =< v /\ v < 2^(w - c)
<1>9. w - k \in 0..(w - 1) /\ w - 1 - (w - k) = k - 1 /\ w - (w - k) = k
  BY <1>5, <1>6
<1>10. leading(w - k)
  BY <1>5, <1>8, <1>9
<1>11. Ctlz(w, v) = CHOOSE c \in 0..(w - 1) : leading(c)
  BY <1>2 DEF Ctlz
<1> HIDE DEF leading
<1>12. Ctlz(w, v) \in 0..(w - 1) /\ leading(Ctlz(w, v))
  BY <1>9, <1>10, <1>11
<1> QED BY <1>12 DEF leading

(* The parts of the two formats.                                            *)
LEMMA FormatParts ==
  /\ F32.w = IntBits /\ F32.e = Exp32 /\ F32.m = IntBits - 1 - Exp32
  /\ F64.w = 2 * IntBits /\ F64.e = Exp64 /\ F64.m = 2 * IntBits - 1 - Exp64
  /\ F32.e \in 2..(IntBits - 5) /\ F32.m \in 1..(IntBits - 5)
  /\ F64.e \in 2..(2 * IntBits - 5) /\ F64.m \in 1..(2 * IntBits - 5)
<1>1. /\ F32.w = IntBits /\ F32.e = Exp32 /\ F32.m = IntBits - 1 - Exp32
      /\ F64.w = 2 * IntBits /\ F64.e = Exp64 /\ F64.m = 2 * IntBits - 1 - Exp64
  BY DEF F32, F64
<1>2. /\ IntBits \in Nat /\ Exp32 \in Nat \ {0, 1} /\ Exp64 \in Nat \ {0, 1}
      /\ F32.m + 5 =< F32.w /\ F32.w < 2 * (F32.m + 1)
      /\ F64.m + 5 =< F64.w /\ F64.w < 2 * (F64.m + 1)
  BY FormatsFit
<1>3. IntBits >= 5
  BY IntPowers
<1> QED BY <1>1, <1>2, <1>3

(* The exponent of a word is a number, and so is the bias.                  *)
LEMMA Exponents ==
  ASSUME NEW f \in {F32, F64}, NEW v \in Words(f.w)
  PROVE  Bias(f) + f.m \in Int /\ ExpOf(f, v) \in Nat /\ ExpOf(f, v) < 2^f.e
<1>1. f.e - 1 \in 0..(2 * IntBits) /\ f.e \in 0..(2 * IntBits) /\ f.m \in 0..(2 * IntBits)
      /\ f.w \in 0..(2 * IntBits) /\ IntBits \in Nat
  BY FormatParts, IntPowers
<1>2. 2^(f.e - 1) \in Nat /\ 2^f.e \in Nat \ {0} /\ 2^f.m \in Nat \ {0} /\ 2^f.w \in Nat
  BY <1>1, IntPowers
<1>3. v \in Nat
  BY <1>2 DEF Words
<1>4. v \div 2^f.m \in Nat
  BY <1>2, <1>3, Division
<1>5. ExpOf(f, v) = (v \div 2^f.m) % 2^f.e
  BY DEF ExpOf, Low, LShr
<1>6. ExpOf(f, v) \in 0..(2^f.e - 1)
  <2> DEFINE k == v \div 2^f.m
             p == 2^f.e
  <2>1. k \in Int /\ p \in Nat \ {0}
    BY <1>2, <1>4
  <2> HIDE DEF k, p
  <2>2. k % p \in 0..(p - 1)
    BY <2>1, Remainders
  <2> QED BY <1>5, <2>2 DEF k, p
<1>7. Bias(f) + f.m \in Int
  BY <1>1, <1>2 DEF Bias
<1> QED BY <1>2, <1>6, <1>7

(* An amount that is clamped is in range.                                   *)
LEMMA Clamped == ASSUME NEW k \in Nat PROVE Clamp31(k) \in 0..(IntBits - 1)
<1>1. IntBits \in Nat /\ IntBits >= 5
  BY IntPowers
<1> QED BY <1>1 DEF Clamp31

-----------------------------------------------------------------------------
(* Powers of two up to that of an i64 and two bits more.                    *)
WideBits == 2 * IntBits + 2

LEMMA WidePowers ==
  /\ WideBits \in Nat /\ WideBits >= 12 /\ PowersDouble(WideBits)
  /\ \A k \in 0..WideBits : 2^k \in Nat \ {0}
  /\ \A a, b \in 0..WideBits : a + b =< WideBits => 2^(a + b) = 2^a * 2^b
<1>1. WideBits \in Nat /\ WideBits >= 12 /\ PowersDouble(WideBits)
  BY IntPowers, LongPowers DEF WideBits
<1>2. \A k \in 0..WideBits : 2^k \in Nat /\ 2^k > k
  BY <1>1, PowerPositive
<1>3. \A a, b \in 0..WideBits : a + b =< WideBits => 2^(a + b) = 2^a * 2^b
  <2> SUFFICES ASSUME NEW a \in 0..WideBits, NEW b \in 0..WideBits, a + b =< WideBits
               PROVE  2^(a + b) = 2^a * 2^b
    OBVIOUS
  <2>1. a \in Nat /\ b \in Nat
    BY <1>1
  <2> QED BY <1>1, <2>1, PowerAdds
<1> QED BY <1>1, <1>2, <1>3

(* A power of two by a smaller one.                                         *)
LEMMA PowerSplit ==
  ASSUME NEW b \in 0..WideBits, NEW a \in 0..b
  PROVE  2^b = 2^(b - a) * 2^a /\ 2^b = 2^a * 2^(b - a) /\ 2^a =< 2^b
<1>1. WideBits \in Nat
  BY WidePowers
<1>2. b - a \in 0..WideBits /\ a \in 0..WideBits /\ (b - a) + a = b /\ (b - a) + a =< WideBits
  BY <1>1
<1>3. 2^((b - a) + a) = 2^(b - a) * 2^a
  BY <1>2, WidePowers
<1>4. 2^(b - a) \in Nat \ {0} /\ 2^a \in Nat \ {0}
  BY <1>2, WidePowers
<1> DEFINE p == 2^(b - a)
           u == 2^a
<1>5. 2^b = p * u
  BY <1>2, <1>3
<1>6. p * u = u * p /\ u =< p * u
  <2> HIDE DEF p, u
  <2> SUFFICES ASSUME p \in Nat \ {0}, u \in Nat \ {0} PROVE p * u = u * p /\ u =< p * u
    BY <1>4 DEF p, u
  <2>1. 1 =< p /\ 1 * u =< p * u
    BY TimesMonotone
  <2> QED BY <2>1
<1> QED BY <1>5, <1>6

(* Dividing twice is dividing by the product.                               *)
LEMMA DivideTwice ==
  ASSUME NEW v \in Nat, NEW p \in Nat \ {0}, NEW u \in Nat \ {0}
  PROVE  (v \div p) \div u = v \div (p * u)
<1> DEFINE c == v \div p
           l == v % p
           d1 == c \div u
           s == c % u
<1>1. c \in Nat /\ l \in 0..(p - 1) /\ v = c * p + l
  BY Division
<1>2. d1 \in Nat /\ s \in 0..(u - 1) /\ c = d1 * u + s
  <2> HIDE DEF c
  <2> QED BY <1>1, Division
<1> HIDE DEF c, l, d1, s
<1>3. s * p + l \in 0..(p * u - 1)
  <2>1. s =< u - 1 /\ s * p =< (u - 1) * p
    BY <1>2, TimesMonotone
  <2>2. (u - 1) * p = p * u - p /\ s * p \in Nat /\ p * u \in Nat
    BY <1>2
  <2> QED BY <1>1, <2>1, <2>2
<1>4. v = d1 * (p * u) + (s * p + l)
  <2>1. c * p = d1 * (p * u) + s * p
    BY <1>2
  <2>2. c * p \in Nat /\ d1 * (p * u) \in Nat /\ s * p \in Nat
    BY <1>1, <1>2
  <2> QED BY <1>1, <2>1, <2>2
<1>5. p * u \in Nat \ {0}
  OBVIOUS
<1>6. v \div (p * u) = d1
  <2> DEFINE pq == p * u
             t == s * p + l
  <2>1. pq \in Nat \ {0} /\ t \in 0..(pq - 1) /\ v = d1 * pq + t
    BY <1>3, <1>4, <1>5
  <2> HIDE DEF pq, t
  <2>2. t \in Nat /\ t < pq
    BY <2>1
  <2>3. v \div pq = d1
    BY <1>2, <2>1, <2>2, DivUnique
  <2> QED BY <2>3 DEF pq
<1> QED BY <1>6 DEF c, d1

(* A quotient within bounds of multiples.                                   *)
LEMMA QuotientBounds ==
  ASSUME NEW v \in Nat, NEW p \in Nat \ {0}, NEW lo \in Nat, NEW hi \in Nat,
         lo * p =< v, v < hi * p
  PROVE  v \div p \in lo..(hi - 1)
<1> DEFINE c == v \div p
           l == v % p
<1>1. c \in Nat /\ l \in 0..(p - 1) /\ v = c * p + l
  BY Division
<1> HIDE DEF c, l
<1>2. lo =< c
  <2> SUFFICES ASSUME c + 1 =< lo PROVE FALSE
    BY <1>1
  <2>1. (c + 1) * p =< lo * p
    BY <1>1, TimesMonotone
  <2>2. (c + 1) * p = c * p + p /\ c * p \in Nat /\ lo * p \in Nat
    BY <1>1
  <2> QED BY <1>1, <2>1, <2>2
<1>3. c < hi
  <2> SUFFICES ASSUME hi =< c PROVE FALSE
    BY <1>1
  <2>1. hi * p =< c * p
    BY <1>1, TimesMonotone
  <2>2. hi * p \in Nat /\ c * p \in Nat
    BY <1>1
  <2> QED BY <1>1, <2>1, <2>2
<1> QED BY <1>1, <1>2, <1>3 DEF c

(* The bodies' shifts of an i64 by i32 halves are shifts of an i64.         *)
LEMMA LshrPairIs ==
  ASSUME NEW v \in Words(2 * IntBits), NEW k \in 0..(2 * IntBits - 1)
  PROVE  LshrPair(v, k) = v \div 2^k
<1> DEFINE w == IntBits
           p == 2^w
           hi == HiHalf(v)
           lo == LoHalf(v)
<1>1. w \in Nat /\ w >= 5 /\ p \in Nat \ {0}
  BY IntPowers
<1>2. hi \in 0..(p - 1) /\ lo \in 0..(p - 1) /\ v = hi * p + lo /\ v \in Nat
      /\ hi \in Nat /\ lo \in Nat
  <2>1. hi = v \div p /\ lo = v % p
    BY DEF HiHalf, LoHalf, LShr, Low
  <2>2. v \in 0..(p * p - 1)
    BY IntPowers DEF Words
  <2> HIDE DEF hi, lo, p
  <2>3. v \div p \in 0..(p - 1) /\ v % p \in 0..(p - 1) /\ v = (v \div p) * p + (v % p)
    BY <1>1, <2>2, Parted
  <2> QED BY <1>1, <2>1, <2>2, <2>3
<1>3. CASE k = 0
  <2>1. LshrPair(v, k) = Pair(LShr(hi, 0), LShr(lo, 0) + 0)
    BY <1>1, <1>3 DEF LshrPair, Clamp31
  <2>2. 2^0 = 1
    BY WidePowers DEF PowersDouble
  <2>3. LShr(hi, 0) = hi /\ LShr(lo, 0) = lo
    <3> HIDE DEF hi, lo
    <3>1. hi \div 1 = hi /\ lo \div 1 = lo
      BY <1>1, <1>2
    <3> QED BY <2>2, <3>1 DEF LShr
  <2>4. v \div 1 = v
    BY <1>2
  <2> HIDE DEF hi, lo
  <2>5. Pair(hi, lo + 0) = v
    BY <1>1, <1>2 DEF Pair
  <2> QED BY <1>3, <2>1, <2>2, <2>3, <2>4, <2>5
<1>4. CASE k # 0 /\ k < w
  <2> DEFINE pk == 2^k
             po == 2^(w - k)
  <2>1. k \in 0..w /\ w \in 0..WideBits /\ k \in 0..WideBits /\ w - k \in 0..WideBits
    BY <1>1, <1>4 DEF WideBits
  <2>2. pk \in Nat \ {0} /\ po \in Nat \ {0} /\ p = po * pk
    BY <2>1, WidePowers, PowerSplit
  <2>3. LshrPair(v, k) = Pair(LShr(hi, k), LShr(lo, k) + Shl(w, hi, w - k))
    <3>1. ~(k >= w) /\ Clamp31(w - k) = w - k /\ Clamp31(k) = k
      BY <1>1, <1>4 DEF Clamp31
    <3> QED BY <1>4, <3>1 DEF LshrPair
  <2>4. w - (w - k) = k
    BY <1>1
  <2>5. LshrPair(v, k) = (hi \div pk) * p + ((lo \div pk) + (hi % pk) * po)
    BY <2>3, <2>4 DEF Pair, LShr, Shl
  <2> DEFINE a == hi \div pk
             b == hi % pk
             c == lo \div pk
             l == lo % pk
  <2> HIDE DEF hi, lo, p, pk, po
  <2>6. a \in Nat /\ b \in 0..(pk - 1) /\ hi = a * pk + b
    BY <1>1, <1>2, <2>2, Division
  <2>7. c \in Nat /\ l \in 0..(pk - 1) /\ lo = c * pk + l
    BY <1>1, <1>2, <2>2, Division
  <2> HIDE DEF a, b, c, l
  <2>8. v = (a * p + (c + b * po)) * pk + l
    <3>1. hi * p = (a * pk + b) * p /\ (a * pk + b) * p = (a * pk) * p + b * p
      BY <1>1, <2>2, <2>6
    <3>2. b * p = b * (po * pk) /\ b * (po * pk) = (b * po) * pk
      BY <2>2, <2>6
    <3>3. (a * pk) * p = (a * p) * pk
      BY <1>1, <2>2, <2>6
    <3>4. (a * p + (c + b * po)) * pk = (a * p) * pk + (c * pk + (b * po) * pk)
      BY <1>1, <2>2, <2>6, <2>7
    <3>5. (a * p) * pk \in Int /\ c * pk \in Int /\ (b * po) * pk \in Int /\ l \in Int
      BY <1>1, <2>2, <2>6, <2>7
    <3> QED BY <1>2, <2>7, <3>1, <3>2, <3>3, <3>4, <3>5
  <2>9. a * p + (c + b * po) \in Nat
    BY <1>1, <2>2, <2>6, <2>7
  <2> DEFINE e == a * p + (c + b * po)
  <2>10. v \div pk = e
    <3>1. e \in Nat /\ v = e * pk + l /\ l \in Nat /\ l < pk
      BY <2>2, <2>7, <2>8, <2>9
    <3> HIDE DEF e
    <3> QED BY <1>2, <2>2, <3>1, DivUnique
  <2> QED BY <2>5, <2>10 DEF a, b, c, pk
<1>5. CASE k >= w
  <2>1. k - w \in 0..(w - 1) /\ k - w \in 0..WideBits /\ w \in 0..WideBits
        /\ k \in 0..WideBits /\ w \in 0..k
    BY <1>1, <1>5 DEF WideBits
  <2>2. LshrPair(v, k) = Pair(0, LShr(hi, k - w))
    <3>1. Clamp31(k - w) = k - w
      BY <1>1, <2>1 DEF Clamp31
    <3> QED BY <1>5, <3>1 DEF LshrPair
  <2> DEFINE po == 2^(k - w)
  <2>3. po \in Nat \ {0} /\ 2^k = p * po
    BY <2>1, WidePowers, PowerSplit
  <2>4. LshrPair(v, k) = (v \div p) \div po
    <3>1. Pair(0, LShr(hi, k - w)) = 0 * p + (hi \div po)
      BY DEF Pair, LShr
    <3>2. hi = v \div p
      BY DEF HiHalf, LShr
    <3>3. hi \div po \in Nat
      <4> HIDE DEF hi, po
      <4> QED BY <1>2, <2>3, Division
    <3>4. 0 * p = 0 /\ 0 + (hi \div po) = hi \div po
      BY <1>1, <3>3
    <3> QED BY <2>2, <3>1, <3>2, <3>4
  <2> HIDE DEF p, po
  <2>5. (v \div p) \div po = v \div (p * po)
    BY <1>1, <1>2, <2>3, DivideTwice
  <2> QED BY <2>3, <2>4, <2>5
<1> QED BY <1>1, <1>3, <1>4, <1>5

LEMMA ShlPairIs ==
  ASSUME NEW v \in Words(2 * IntBits), NEW k \in 0..(2 * IntBits - 1), v < 2^(2 * IntBits - k)
  PROVE  ShlPair(v, k) = v * 2^k
<1> DEFINE w == IntBits
           p == 2^w
           hi == HiHalf(v)
           lo == LoHalf(v)
<1>1. w \in Nat /\ w >= 5 /\ p \in Nat \ {0}
  BY IntPowers
<1>2. hi \in 0..(p - 1) /\ lo \in 0..(p - 1) /\ v = hi * p + lo /\ v \in Nat
      /\ hi \in Nat /\ lo \in Nat
  <2>1. hi = v \div p /\ lo = v % p
    BY DEF HiHalf, LoHalf, LShr, Low
  <2>2. v \in 0..(p * p - 1)
    BY IntPowers DEF Words
  <2> HIDE DEF hi, lo, p
  <2>3. v \div p \in 0..(p - 1) /\ v % p \in 0..(p - 1) /\ v = (v \div p) * p + (v % p)
    BY <1>1, <2>2, Parted
  <2> QED BY <1>1, <2>1, <2>2, <2>3
<1>3. CASE k = 0
  <2>1. ShlPair(v, k) = Pair(Shl(w, hi, 0) + 0, Shl(w, lo, 0))
    BY <1>1, <1>3 DEF ShlPair, Clamp31
  <2>2. 2^0 = 1 /\ w - 0 = w
    BY <1>1, WidePowers DEF PowersDouble
  <2>3. Shl(w, hi, 0) = (hi % p) * 1 /\ Shl(w, lo, 0) = (lo % p) * 1
    BY <2>2 DEF Shl
  <2> HIDE DEF hi, lo, p
  <2>4. hi % p = hi /\ lo % p = lo
    BY <1>1, <1>2, ModSmall
  <2>5. hi * 1 + 0 = hi /\ lo * 1 = lo /\ v * 1 = v
    BY <1>1, <1>2
  <2>6. Pair(hi, lo) = v
    BY <1>2 DEF Pair, p
  <2> QED BY <1>3, <2>1, <2>2, <2>3, <2>4, <2>5, <2>6
<1>4. CASE k # 0 /\ k < w
  <2> DEFINE pk == 2^k
             po == 2^(w - k)
  <2>1. k \in 0..w /\ w \in 0..WideBits /\ k \in 0..WideBits /\ w - k \in 0..WideBits
        /\ 2 * w - k \in 0..WideBits /\ w \in 0..(2 * w - k) /\ (2 * w - k) - w = w - k
    BY <1>1, <1>4 DEF WideBits
  <2>2. pk \in Nat \ {0} /\ po \in Nat \ {0} /\ p = po * pk /\ 2^(2 * w - k) = po * p
    BY <2>1, WidePowers, PowerSplit
  <2>3. ShlPair(v, k) = Pair(Shl(w, hi, k) + LShr(lo, w - k), Shl(w, lo, k))
    <3>1. ~(k >= w) /\ Clamp31(w - k) = w - k /\ Clamp31(k) = k
      BY <1>1, <1>4 DEF Clamp31
    <3> QED BY <1>4, <3>1 DEF ShlPair
  <2>4. ShlPair(v, k) = ((hi % po) * pk + (lo \div po)) * p + (lo % po) * pk
    BY <2>3 DEF Pair, LShr, Shl
  <2> DEFINE c == lo \div po
             l == lo % po
  <2>5. v < po * p
    BY <2>2
  <2> HIDE DEF hi, lo, p, pk, po
  <2>6. c \in Nat /\ l \in 0..(po - 1) /\ lo = c * po + l
    BY <1>1, <1>2, <2>2, Division
  <2>7. hi < po
    <3> SUFFICES ASSUME po =< hi PROVE FALSE
      BY <1>2, <2>2
    <3>1. po * p =< hi * p
      BY <1>1, <1>2, <2>2, TimesMonotone
    <3>2. po * p \in Nat /\ hi * p \in Nat
      BY <1>1, <1>2, <2>2
    <3> QED BY <1>2, <2>5, <3>1, <3>2
  <2>8. hi % po = hi
    BY <1>2, <2>2, <2>7, ModSmall
  <2> HIDE DEF c, l
  <2>9. (hi * pk + c) * p + l * pk = v * pk
    <3>1. (hi * pk + c) * p = (hi * p) * pk + c * p
      BY <1>1, <1>2, <2>2, <2>6
    <3>2. c * p = c * (po * pk) /\ c * (po * pk) = (c * po) * pk
      BY <2>2, <2>6
    <3>3. v * pk = (hi * p) * pk + lo * pk
      BY <1>1, <1>2, <2>2
    <3>4. lo * pk = (c * po) * pk + l * pk
      BY <2>2, <2>6
    <3>5. (hi * p) * pk \in Int /\ (c * po) * pk \in Int /\ l * pk \in Int
      BY <1>1, <1>2, <2>2, <2>6
    <3> QED BY <3>1, <3>2, <3>3, <3>4, <3>5
  <2> QED BY <2>4, <2>8, <2>9 DEF c, l, pk
<1>5. CASE k >= w
  <2> DEFINE j == k - w
             pj == 2^j
             po == 2^(w - j)
  <2>1. /\ j \in 0..(w - 1) /\ j \in 0..WideBits /\ w \in 0..WideBits /\ w - j \in 0..WideBits
        /\ k \in 0..WideBits /\ w \in 0..k /\ 2 * w - k = w - j /\ j \in 0..w
        /\ w - j \in 0..w /\ w - (w - j) = j
    BY <1>1, <1>5 DEF WideBits
  <2>2. ShlPair(v, k) = Pair(Shl(w, lo, j), 0)
    <3>1. Clamp31(j) = j
      BY <1>1, <2>1 DEF Clamp31
    <3> QED BY <1>5, <3>1 DEF ShlPair
  <2>3. pj \in Nat \ {0} /\ po \in Nat \ {0} /\ 2^k = pj * p /\ p = pj * po
    <3>1. pj \in Nat \ {0} /\ po \in Nat \ {0}
      BY <2>1, WidePowers
    <3>2. 2^k = 2^(k - w) * 2^w
      BY <2>1, PowerSplit
    <3>3. 2^w = 2^j * 2^(w - j)
      <4> HIDE DEF j
      <4> QED BY <2>1, PowerSplit
    <3> QED BY <3>1, <3>2, <3>3
  <2>4. ShlPair(v, k) = ((lo % po) * pj) * p + 0
    BY <2>2 DEF Pair, Shl
  <2>5. v < po
    BY <2>1
  <2> HIDE DEF j, hi, lo, p, pj, po
  <2>6. po =< p
    <3>1. 1 * po =< pj * po
      BY <2>3, TimesMonotone
    <3> QED BY <2>3, <3>1
  <2>7. hi = 0
    <3> SUFFICES ASSUME 1 =< hi PROVE FALSE
      BY <1>2
    <3>1. 1 * p =< hi * p
      BY <1>1, <1>2, TimesMonotone
    <3>2. hi * p \in Nat
      BY <1>1, <1>2
    <3> QED BY <1>1, <1>2, <2>3, <2>5, <2>6, <3>1, <3>2
  <2>8. lo = v /\ lo % po = v
    <3>1. lo = v
      <4>1. hi * p = 0
        BY <1>1, <2>7
      <4> QED BY <1>2, <4>1
    <3> QED BY <1>2, <2>3, <2>5, <3>1, ModSmall
  <2>9. (v * pj) * p + 0 = v * (pj * p)
    BY <1>1, <1>2, <2>3
  <2> QED BY <2>3, <2>4, <2>8, <2>9
<1> QED BY <1>1, <1>3, <1>4, <1>5

-----------------------------------------------------------------------------
(* The parts of a format and of its words.                                  *)
LEMMA FormatOf ==
  ASSUME NEW f \in {F32, F64}
  PROVE  /\ f.w \in Nat /\ f.e \in Nat /\ f.m \in Nat /\ f.w = 1 + f.e + f.m
         /\ f.e >= 2 /\ f.m >= 1 /\ f.w =< 2 * IntBits /\ f.m + 5 =< f.w /\ f.e =< f.m
         /\ 2^f.m \in Nat \ {0} /\ 2^(f.m + 1) = 2 * 2^f.m
         /\ Bias(f) \in Nat \ {0} /\ MaxExp(f) = 2 * Bias(f) + 1 /\ 2^f.e = 2 * Bias(f) + 2
         /\ 2^(f.w - 1) \in Nat \ {0} /\ 2^f.w = 2 * 2^(f.w - 1)
         /\ 2^(f.w - 1) = 2^f.e * 2^f.m
<1>1. /\ f.w \in Nat /\ f.e \in Nat /\ f.m \in Nat /\ f.w = 1 + f.e + f.m
      /\ f.e >= 2 /\ f.m >= 1 /\ f.w =< 2 * IntBits /\ f.m + 5 =< f.w
      /\ IntBits \in Nat /\ IntBits >= 5
  BY FormatParts, IntPowers
<1>2. f.e =< f.m
  <2>1. f.w < 2 * (f.m + 1)
    BY FormatsFit
  <2> QED BY <1>1, <2>1
<1>3. /\ f.m \in 0..(WideBits - 1) /\ f.e \in 0..WideBits /\ f.e - 1 \in 0..(WideBits - 1)
      /\ f.w - 1 \in 0..(WideBits - 1) /\ f.m \in 0..WideBits /\ f.w - 1 \in 0..WideBits
      /\ (f.e - 1) + 1 = f.e /\ (f.w - 1) + 1 = f.w /\ f.e - 1 \in 0..WideBits
      /\ f.e + f.m = f.w - 1 /\ f.e + f.m =< WideBits
  BY <1>1 DEF WideBits
<1>4. 2^f.m \in Nat \ {0} /\ 2^(f.e - 1) \in Nat \ {0} /\ 2^(f.w - 1) \in Nat \ {0}
  BY <1>3, WidePowers
<1>5. 2^(f.m + 1) = 2 * 2^f.m /\ 2^f.e = 2 * 2^(f.e - 1) /\ 2^f.w = 2 * 2^(f.w - 1)
  BY <1>3, WidePowers DEF PowersDouble
<1>6. 2^(f.w - 1) = 2^f.e * 2^f.m
  BY <1>3, WidePowers
<1>7. 2^(f.e - 1) >= 2
  <2>1. f.e - 1 \in 0..(2 * IntBits)
    BY <1>1
  <2>2. 2^(f.e - 1) > f.e - 1
    BY <2>1, IntPowers
  <2> QED BY <1>1, <1>4, <2>2
<1> DEFINE h == 2^(f.e - 1)
<1>8. Bias(f) = h - 1 /\ MaxExp(f) = 2 * h - 1
  BY <1>5 DEF Bias, MaxExp
<1>9. h \in Nat /\ h >= 2
  BY <1>4, <1>7
<1>10. 2^f.e = 2 * h
  BY <1>5
<1> HIDE DEF h
<1>11. Bias(f) \in Nat \ {0} /\ MaxExp(f) = 2 * Bias(f) + 1 /\ 2^f.e = 2 * Bias(f) + 2
  BY <1>8, <1>9, <1>10
<1> QED BY <1>1, <1>2, <1>4, <1>5, <1>6, <1>11

(* A word is its sign, exponent and mantissa.                               *)
LEMMA FloatParts ==
  ASSUME NEW f \in {F32, F64}, NEW v \in Words(f.w)
  PROVE  /\ v \in Nat /\ Sign(f, v) \in {0, 1}
         /\ ExpOf(f, v) \in 0..MaxExp(f) /\ ManOf(f, v) \in 0..(2^f.m - 1)
         /\ Hidden(f, v) \in 2^f.m..(2 * 2^f.m - 1)
         /\ v = Sign(f, v) * 2^(f.w - 1) + (ExpOf(f, v) * 2^f.m + ManOf(f, v))
<1> DEFINE p == 2^(f.w - 1)
           m == 2^f.m
           e == 2^f.e
<1>1. /\ p \in Nat \ {0} /\ m \in Nat \ {0} /\ e \in Nat \ {0} /\ 2^f.w = 2 * p /\ p = e * m
      /\ MaxExp(f) = e - 1
  BY FormatOf DEF MaxExp
<1>2. v \in 0..(2 * p - 1) /\ v \in Nat
  BY <1>1 DEF Words
<1>3. /\ Sign(f, v) = v \div p /\ ExpOf(f, v) = (v \div m) % e /\ ManOf(f, v) = v % m
      /\ Hidden(f, v) = m + (v % m)
  BY DEF Sign, ExpOf, ManOf, Hidden, LShr, Low
<1> HIDE DEF p, m, e
<1>4. v \div p \in {0, 1} /\ v % p = (IF v < p THEN v ELSE v - p)
      /\ v \div p = IF v < p THEN 0 ELSE 1
  BY <1>1, <1>2, TopBit
<1> DEFINE c == v \div m
           k == v % m
           s == v \div p
<1>5. c \in Nat /\ k \in 0..(m - 1) /\ v = c * m + k
  BY <1>1, <1>2, Division
<1>6. s \in {0, 1} /\ s = IF v < p THEN 0 ELSE 1
  BY <1>4
<1> HIDE DEF c, k, s
<1>7. v - s * p \in 0..(e * m - 1)
  BY <1>1, <1>2, <1>6
<1> DEFINE t == c - s * e
<1>8. v - s * p = t * m + k
  <2>1. (c - s * e) * m = c * m - (s * e) * m /\ (s * e) * m = s * (e * m)
    BY <1>1, <1>5, <1>6
  <2>2. c * m \in Int /\ s * (e * m) \in Int
    BY <1>1, <1>5, <1>6
  <2> QED BY <1>1, <1>5, <2>1, <2>2
<1>9. t \in 0..(e - 1)
  <2>1. t \in Int
    BY <1>1, <1>5, <1>6
  <2> DEFINE tm == t * m
             em == e * m
  <2>2. tm \in Int /\ em \in Int /\ tm + k >= 0 /\ tm + k < em
    <3>1. tm \in Int /\ em \in Int
      BY <1>1, <2>1
    <3> QED BY <1>7, <1>8, <3>1
  <2>3. t >= 0
    <3> SUFFICES ASSUME t =< -1 PROVE FALSE
      BY <2>1
    <3>1. -t \in Nat /\ 1 =< -t /\ 1 * m =< (-t) * m
      BY <1>1, <2>1, TimesMonotone
    <3>2. (-t) * m = -tm
      BY <1>1, <2>1
    <3> HIDE DEF tm, em, t
    <3> QED BY <1>1, <1>5, <2>2, <3>1, <3>2
  <2>4. t < e
    <3> SUFFICES ASSUME e =< t PROVE FALSE
      BY <1>1, <2>1
    <3>1. e * m =< t * m
      BY <1>1, <2>1, <2>3, TimesMonotone
    <3> QED BY <1>5, <2>2, <3>1
  <2> QED BY <1>1, <2>1, <2>3, <2>4
<1>10. c % e = t
  <2>1. c = s * e + t
    BY <1>1, <1>5, <1>6
  <2>2. s \in Nat /\ t \in Nat /\ t < e
    BY <1>1, <1>6, <1>9
  <2> HIDE DEF t
  <2> QED BY <1>1, <1>5, <2>1, <2>2, DivUnique
<1> HIDE DEF t
<1>11. v = s * p + (t * m + k)
  <2>1. s * p \in Int /\ t * m \in Int
    BY <1>1, <1>6, <1>9
  <2> QED BY <1>2, <1>5, <1>8, <2>1
<1>12. /\ Sign(f, v) = s /\ ExpOf(f, v) = t /\ ManOf(f, v) = k /\ Hidden(f, v) = m + k
  BY <1>3, <1>10 DEF c, k, s
<1>13. t \in 0..MaxExp(f) /\ m + k \in m..(2 * m - 1)
  BY <1>1, <1>5, <1>9
<1> QED BY <1>2, <1>5, <1>6, <1>11, <1>12, <1>13 DEF p, m

-----------------------------------------------------------------------------
(* Truncation.                                                              *)

(* What a number truncates to, by its exponent.                             *)
LEMMA TruncatedIs ==
  ASSUME NEW f \in {F32, F64}, NEW w \in {IntBits, 2 * IntBits}, NEW v \in Words(f.w)
  PROVE  LET j == ExpOf(f, v) - Bias(f)
             t == Truncated(f, w, v)
         IN  /\ j < 0 => t = 0
             /\ j \in 0..(w - 1) =>
                  /\ t \in 2^j..(2^(j + 1) - 1)
                  /\ t = IF j >= f.m THEN Hidden(f, v) * 2^(j - f.m)
                                     ELSE Hidden(f, v) \div 2^(f.m - j)
             /\ j >= w => t \in Nat /\ t >= 2^w
<1> DEFINE j == ExpOf(f, v) - Bias(f)
           t == Truncated(f, w, v)
           u == UnitExp(f, v)
           h == Hidden(f, v)
           m == f.m
           pm == 2^f.m
<1>1. /\ m \in Nat /\ m >= 1 /\ m + 5 =< 2 * IntBits /\ pm \in Nat \ {0}
      /\ Bias(f) \in Nat \ {0}
  BY FormatOf, IntPowers
<1>2. ExpOf(f, v) \in Nat /\ h \in pm..(2 * pm - 1) /\ h \in Nat
  <2>1. ExpOf(f, v) \in 0..MaxExp(f) /\ h \in pm..(2 * pm - 1) /\ MaxExp(f) = 2 * Bias(f) + 1
    BY FloatParts, FormatOf
  <2> HIDE DEF h, pm
  <2> QED BY <1>1, <2>1
<1>3. u = j - m /\ j \in Int
  BY <1>1, <1>2 DEF UnitExp
<1>4. IsZero(f, v) <=> ExpOf(f, v) = 0
  BY DEF IsZero
<1>5. t = CASE IsZero(f, v) \/ u < -m -> 0
            [] ~IsZero(f, v) /\ u \in (-m)..0 -> h \div 2^(-u)
            [] u > 0 -> IF u + m >= w THEN 2^w ELSE h * 2^u
  BY DEF Truncated
<1>6. IntBits \in Nat /\ IntBits >= 5 /\ w \in 5..(2 * IntBits) /\ WideBits = 2 * IntBits + 2
  BY IntPowers DEF WideBits
<1> HIDE DEF t, u, h
<1>7. CASE j < 0
  <2>1. u < -m
    BY <1>1, <1>3, <1>7
  <2>2. t = 0
    <3>1. ~(u \in (-m)..0) /\ ~(u > 0)
      BY <1>1, <1>3, <1>7
    <3> QED BY <1>5, <2>1, <3>1
  <2>3. ~(j >= w) /\ ~(j \in 0..(w - 1))
    BY <1>3, <1>6, <1>7
  <2> QED BY <1>7, <2>2, <2>3 DEF t
<1>8. CASE j >= 0 /\ j =< m
  <2>1. ~IsZero(f, v) /\ u \in (-m)..0 /\ ~(u < -m) /\ ~(u > 0) /\ -u = m - j
    BY <1>1, <1>2, <1>3, <1>4, <1>8
  <2>2. t = h \div 2^(m - j)
    BY <1>5, <2>1
  <2> DEFINE pj == 2^j
             pd == 2^(m - j)
  <2>3. m \in 0..WideBits /\ j \in 0..m /\ j \in 0..(WideBits - 1) /\ j \in 0..WideBits
        /\ m - j \in 0..WideBits
    BY <1>1, <1>3, <1>6, <1>8
  <2>4. pj \in Nat \ {0} /\ pd \in Nat \ {0} /\ pm = pj * pd /\ 2^(j + 1) = 2 * pj
    <3>1. pj \in Nat \ {0} /\ pd \in Nat \ {0} /\ pm = pj * pd
      BY <2>3, WidePowers, PowerSplit
    <3>2. 2^(j + 1) = 2 * pj
      BY <2>3, WidePowers DEF PowersDouble
    <3> QED BY <3>1, <3>2
  <2>5. h \div pd \in pj..(2 * pj - 1)
    <3> HIDE DEF pj, pd, pm
    <3>1. pj * pd =< h /\ h < (2 * pj) * pd
      <4>1. (2 * pj) * pd = 2 * (pj * pd)
        BY <2>4
      <4> QED BY <1>1, <1>2, <2>4, <4>1
    <3>2. pj \in Nat /\ 2 * pj \in Nat
      BY <2>4
    <3> QED BY <1>2, <2>4, <3>1, <3>2, QuotientBounds
  <2>6. t \in 2^j..(2^(j + 1) - 1)
    BY <2>2, <2>4, <2>5
  <2>7. j = m => t = h * 2^(j - m)
    <3> SUFFICES ASSUME j = m PROVE t = h * 2^(j - m)
      OBVIOUS
    <3>1. m - j = 0 /\ j - m = 0 /\ 2^0 = 1
      BY <1>1, WidePowers DEF PowersDouble
    <3>2. h \div 1 = h /\ h * 1 = h
      BY <1>2
    <3> QED BY <2>2, <3>1, <3>2
  <2>8. t = IF j >= m THEN h * 2^(j - m) ELSE h \div 2^(m - j)
    BY <1>1, <1>3, <1>8, <2>2, <2>7
  <2>9. j >= w => t \in Nat /\ t >= 2^w
    <3> SUFFICES ASSUME j >= w PROVE t \in Nat /\ t >= 2^w
      OBVIOUS
    <3>1. w \in 0..j
      BY <1>3, <1>6
    <3>2. 2^w =< 2^j /\ 2^w \in Nat
      BY <1>6, <2>3, <3>1, PowerSplit, WidePowers
    <3>3. t \in pj..(2 * pj - 1)
      BY <2>2, <2>5
    <3> QED BY <2>4, <3>2, <3>3
  <2>10. ~(j < 0)
    BY <1>3, <1>8
  <2> QED BY <2>6, <2>8, <2>9, <2>10 DEF t, h
<1>9. CASE j > m
  <2>1. ~IsZero(f, v) /\ ~(u < -m) /\ ~(u \in (-m)..0) /\ u > 0 /\ u + m = j
    BY <1>1, <1>2, <1>3, <1>4, <1>9
  <2>2. t = IF j >= w THEN 2^w ELSE h * 2^u
    BY <1>5, <2>1
  <2>3. CASE j >= w
    <3>1. t = 2^w /\ t \in Nat
      <4>1. w \in 0..WideBits
        BY <1>6
      <4>2. 2^w \in Nat
        BY <4>1, WidePowers
      <4> QED BY <2>2, <2>3, <4>2
    <3>2. ~(j < 0) /\ ~(j \in 0..(w - 1)) /\ t >= 2^w
      BY <1>1, <1>3, <1>6, <2>3, <3>1
    <3> QED BY <3>1, <3>2 DEF t
  <2>4. CASE j < w
    <3> DEFINE pu == 2^u
    <3>1. j \in 0..WideBits /\ j \in 0..(WideBits - 1) /\ m \in 0..j /\ u = j - m /\ u \in 0..WideBits
      BY <1>1, <1>3, <1>6, <1>9, <2>4
    <3>2. pu \in Nat \ {0} /\ 2^j = pm * pu /\ 2^(j + 1) = 2 * 2^j
      <4>1. 2^j = 2^m * 2^(j - m)
        BY <3>1, PowerSplit
      <4>2. 2^(j + 1) = 2 * 2^j /\ pu \in Nat \ {0}
        BY <3>1, WidePowers DEF PowersDouble
      <4> QED BY <3>1, <4>1, <4>2
    <3>3. t = h * pu
      BY <1>3, <2>2, <2>4, <1>6
    <3>4. h * pu \in (pm * pu)..(2 * (pm * pu) - 1)
      <4> HIDE DEF pm, pu
      <4>1. pm * pu =< h * pu /\ h * pu =< (2 * pm - 1) * pu
        BY <1>1, <1>2, <3>2, TimesMonotone
      <4>2. (2 * pm - 1) * pu = 2 * (pm * pu) - pu /\ pm * pu \in Nat /\ h * pu \in Nat
        BY <1>1, <1>2, <3>2
      <4> QED BY <3>2, <4>1, <4>2
    <3>5. t \in 2^j..(2^(j + 1) - 1)
      BY <3>2, <3>3, <3>4
    <3>6. t = IF j >= m THEN h * 2^(j - m) ELSE h \div 2^(m - j)
      BY <1>1, <1>3, <1>9, <3>1, <3>3
    <3>7. ~(j < 0) /\ ~(j >= w)
      BY <1>1, <1>3, <1>6, <1>9, <2>4
    <3> QED BY <3>5, <3>6, <3>7 DEF t, h
  <2> QED BY <1>3, <1>6, <2>3, <2>4
<1> QED BY <1>1, <1>3, <1>7, <1>8, <1>9

(* A conversion that shifts the mantissa right where it is used saturates   *)
(* as it should.                                                            *)
LEMMA SaturatedRight ==
  ASSUME NEW f \in {F32, F64}, NEW w \in {IntBits, 2 * IntBits}, NEW v \in Words(f.w),
         NEW signed \in BOOLEAN, NEW mag,
         ExpOf(f, v) - Bias(f) \in 0..(w - 1) => mag = Truncated(f, w, v)
  PROVE  Saturated(f, w, signed, v, mag) = RefToInt(f, w, signed, v)
<1> DEFINE j == ExpOf(f, v) - Bias(f)
           t == Truncated(f, w, v)
           h == 2^(w - 1)
           p == 2^w
           neg == Sign(f, v) = 1
           k == IF neg THEN -t ELSE t
           least == IF signed THEN -h ELSE 0
           most == IF signed THEN h - 1 ELSE p - 1
           kept == IF k < least THEN least ELSE IF k > most THEN most ELSE k
           limit == w - (IF signed THEN 1 ELSE 0)
           nan == IsNaN(f, v)
<1>1. /\ IntBits \in Nat /\ IntBits >= 5 /\ w \in 5..(2 * IntBits) /\ w - 1 \in 0..(WideBits - 1)
      /\ (w - 1) + 1 = w /\ w \in 0..WideBits /\ w - 1 \in 0..WideBits /\ w - 1 \in Nat
  BY IntPowers DEF WideBits
<1>2. h \in Nat \ {0} /\ p = 2 * h
  BY <1>1, WidePowers DEF PowersDouble
<1>3. j \in Int /\ Bias(f) \in Nat /\ ExpOf(f, v) \in Nat
  <2>1. ExpOf(f, v) \in 0..MaxExp(f) /\ MaxExp(f) = 2 * Bias(f) + 1 /\ Bias(f) \in Nat
    BY FloatParts, FormatOf
  <2> QED BY <2>1
<1>4. /\ j < 0 => t = 0
      /\ j \in 0..(w - 1) => t \in 2^j..(2^(j + 1) - 1)
      /\ j >= w => t \in Nat /\ t >= p
  BY TruncatedIs
<1>5. RefToInt(f, w, signed, v) = IF nan THEN 0 ELSE Word(w, kept)
  BY DEF RefToInt
<1>6. Saturated(f, w, signed, v, mag) =
        IF nan \/ j < 0 THEN 0
        ELSE IF signed
             THEN IF j >= limit THEN (IF neg THEN h ELSE h - 1)
                  ELSE IF neg THEN Sub(w, 0, mag) ELSE mag
             ELSE IF neg THEN 0 ELSE IF j >= limit THEN p - 1 ELSE mag
  <2>1. ExpOf(f, v) < Bias(f) <=> j < 0
    BY <1>3
  <2>2. ExpOf(f, v) >= Limit(f, w, signed) <=> j >= limit
    <3>1. CASE signed
      BY <1>1, <1>3, <3>1 DEF Limit
    <3>2. CASE ~signed
      BY <1>1, <1>3, <3>2 DEF Limit
    <3> QED BY <3>1, <3>2
  <2> HIDE DEF j, limit
  <2> QED BY <2>1, <2>2 DEF Saturated
<1>7. ASSUME NEW c \in 0..(p - 1) PROVE Word(w, c) = c
  <2> HIDE DEF p
  <2>1. c % p = c
    BY <1>2, <1>7, ModSmall
  <2> QED BY <2>1 DEF Word, p
<1>8. ASSUME NEW c \in 1..h PROVE Word(w, -c) = p - c /\ Sub(w, 0, c) = p - c
  <2>1. (-c) % p = p - c /\ (0 - c) % p = p - c
    <3> HIDE DEF p, h
    <3>1. p - c \in Nat /\ p - c < p
      BY <1>2
    <3> QED BY <1>2, <3>1, SMT
  <2> QED BY <2>1 DEF Word, Sub
<1>9. ASSUME NEW c \in 1..(w - 1) PROVE 2^c =< h /\ 2^c \in Nat \ {0}
  <2>1. c \in 0..(w - 1) /\ c \in 0..WideBits
    BY <1>1, WidePowers
  <2> QED BY <1>1, <2>1, PowerSplit, WidePowers
<1>10. ASSUME NEW c \in 0..(w - 1) PROVE 2^c \in Nat \ {0} /\ 2^(c + 1) =< p /\ 2^(c + 1) \in Nat \ {0}
  <2>1. c \in 0..WideBits /\ c + 1 \in 0..w /\ c + 1 \in 0..WideBits
    BY <1>1, WidePowers
  <2> QED BY <1>1, <2>1, PowerSplit, WidePowers
<1>11. j >= 0 => mag = t \/ j >= w
  BY <1>1, <1>3
<1> HIDE DEF h, p, t, j, nan, neg
<1>12. CASE nan
  BY <1>5, <1>6, <1>12
<1>13. CASE ~nan /\ j < 0
  <2>1. t = 0
    BY <1>4, <1>13
  <2>2. k = 0 /\ kept = 0
    <3>1. k = 0
      <4>1. -t = 0
        <5>1. t \in Int
          BY <2>1
        <5>2. -t = 0 - t
          BY <5>1
        <5>3. 0 - t = 0
          BY <2>1
        <5> QED BY <5>2, <5>3
      <4> QED BY <2>1, <4>1
    <3>2. least =< 0 /\ most >= 0 /\ least \in Int /\ most \in Int
      BY <1>2
    <3> HIDE DEF k, least, most
    <3> QED BY <3>1, <3>2
  <2>3. Word(w, kept) = 0
    BY <1>2, <1>7, <2>2
  <2> QED BY <1>5, <1>6, <1>13, <2>3
<1>14. CASE ~nan /\ j >= 0 /\ signed
  <2>1. CASE j >= w - 1
    <3>1. t \in Nat /\ t >= h
      <4>1. CASE j = w - 1
        <5>1. j \in 0..(w - 1)
          BY <1>1, <4>1
        <5>2. t \in 2^(w - 1)..(2^(j + 1) - 1)
          BY <1>4, <4>1, <5>1
        <5>3. t \in h..(2^(j + 1) - 1)
          BY <5>2 DEF h
        <5> QED BY <1>2, <5>3
      <4>2. CASE j # w - 1
        <5>1. j >= w
          BY <1>1, <1>3, <2>1, <4>2
        <5> QED BY <1>2, <1>4, <5>1
      <4> QED BY <4>1, <4>2
    <3>2. CASE neg
      <4>1. kept = -h
        BY <1>2, <1>14, <3>1, <3>2
      <4>2. Word(w, -h) = h
        <5>1. h \in 1..h /\ p - h = h
          BY <1>2
        <5> QED BY <1>8, <5>1
      <4> QED BY <1>1, <1>3, <1>5, <1>6, <1>14, <2>1, <3>2, <4>1, <4>2
    <3>3. CASE ~neg
      <4>1. kept = h - 1 /\ h - 1 \in 0..(p - 1)
        BY <1>2, <1>14, <3>1, <3>3
      <4>2. Word(w, h - 1) = h - 1
        BY <1>7, <4>1
      <4> QED BY <1>1, <1>3, <1>5, <1>6, <1>14, <2>1, <3>3, <4>1, <4>2
    <3> QED BY <3>2, <3>3
  <2>2. CASE j < w - 1
    <3>1. j \in 0..(w - 1) /\ j + 1 \in 1..(w - 1) /\ ~(j >= w) /\ ~(j >= limit)
      BY <1>1, <1>3, <1>14, <2>2
    <3>2. mag = t
      BY <1>11, <1>14, <3>1
    <3>3. t \in 1..(h - 1)
      <4>1. t \in 2^j..(2^(j + 1) - 1)
        BY <1>4, <3>1
      <4>2. 2^j \in Nat \ {0} /\ 2^(j + 1) =< h /\ 2^(j + 1) \in Nat
        BY <1>9, <1>10, <3>1
      <4> DEFINE lo == 2^j
                 hi == 2^(j + 1)
      <4>3. t \in lo..(hi - 1) /\ lo \in Nat \ {0} /\ hi =< h /\ hi \in Nat
        BY <4>1, <4>2
      <4> HIDE DEF lo, hi
      <4> QED BY <1>2, <4>3
    <3>4. CASE neg
      <4>1. kept = -t
        BY <1>2, <1>14, <3>3, <3>4
      <4>2. Word(w, -t) = Sub(w, 0, t)
        <5>1. t \in 1..h
          BY <1>2, <3>3
        <5> QED BY <1>8, <5>1
      <4> QED BY <1>5, <1>6, <1>14, <3>1, <3>2, <3>4, <4>1, <4>2
    <3>5. CASE ~neg
      <4>1. kept = t /\ t \in 0..(p - 1)
        BY <1>2, <1>14, <3>3, <3>5
      <4>2. Word(w, t) = t
        BY <1>7, <4>1
      <4> QED BY <1>5, <1>6, <1>14, <3>1, <3>2, <3>5, <4>1, <4>2
    <3> QED BY <3>4, <3>5
  <2> QED BY <1>1, <1>3, <2>1, <2>2
<1>15. CASE ~nan /\ j >= 0 /\ ~signed
  <2>1. limit = w
    BY <1>1, <1>15
  <2>2. t \in Nat /\ (j >= w => t >= p) /\ (j < w => t \in 1..(p - 1))
    <3>1. CASE j >= w
      BY <1>1, <1>3, <1>4, <3>1
    <3>2. CASE j < w
      <4>1. j \in 0..(w - 1)
        BY <1>1, <1>3, <1>15, <3>2
      <4> DEFINE lo == 2^j
                 hi == 2^(j + 1)
      <4>2. t \in lo..(hi - 1) /\ lo \in Nat \ {0} /\ hi =< p /\ hi \in Nat
        BY <1>4, <1>10, <4>1
      <4>3. ~(j >= w)
        BY <1>1, <1>3, <3>2
      <4> HIDE DEF lo, hi
      <4> QED BY <1>2, <3>2, <4>2, <4>3
    <3> QED BY <1>1, <1>3, <3>1, <3>2
  <2>3. CASE neg
    <3>1. kept = 0 /\ 0 \in 0..(p - 1)
      BY <1>2, <1>15, <2>2, <2>3
    <3>2. Word(w, 0) = 0
      BY <1>7, <3>1
    <3> QED BY <1>5, <1>6, <1>15, <2>3, <3>1, <3>2
  <2>4. CASE ~neg /\ j >= w
    <3>1. kept = p - 1 /\ p - 1 \in 0..(p - 1)
      BY <1>2, <1>15, <2>2, <2>4
    <3>2. Word(w, p - 1) = p - 1
      BY <1>7, <3>1
    <3> QED BY <1>1, <1>3, <1>5, <1>6, <1>15, <2>1, <2>4, <3>1, <3>2
  <2>5. CASE ~neg /\ j < w
    <3>1. kept = t /\ t \in 0..(p - 1)
      BY <1>2, <1>15, <2>2, <2>5
    <3>2. Word(w, t) = t
      BY <1>7, <3>1
    <3>3. ~(j >= limit) /\ ~(j >= w)
      BY <1>1, <1>3, <2>1, <2>5
    <3>4. mag = t
      BY <1>11, <1>15, <3>3
    <3> QED BY <1>1, <1>3, <1>5, <1>6, <1>15, <2>5, <3>1, <3>2, <3>3, <3>4
  <2> QED BY <1>1, <1>3, <2>3, <2>4, <2>5
<1> QED BY <1>3, <1>12, <1>13, <1>14, <1>15

(* The mantissa of a float, shifted by an i32.                              *)
LEMMA FloatToInt32Right ==
  ASSUME NEW v \in Words(IntBits), NEW signed \in BOOLEAN
  PROVE  emitFloatToInt32Body(signed, v) = RefToInt(F32, IntBits, signed, v)
<1> DEFINE w == IntBits
           m == F32.m
           b == Bias(F32)
           e == ExpOf(F32, v)
           j == e - b
           h == Hidden(F32, v)
           unit == b + m
           shift == FloatToInt32Shifts(v)
           mag == IF e < unit THEN LShr(h, shift.right)
                  ELSE IF e > unit THEN Shl(w, h, shift.left) ELSE h
           t == Truncated(F32, w, v)
<1>1. /\ w \in Nat /\ w >= 5 /\ m \in 1..(w - 5) /\ b \in Nat \ {0} /\ F32.w = w
      /\ 2^w \in Nat /\ 2^w > w /\ 2^(m + 1) = 2 * 2^m /\ 2^m \in Nat \ {0}
  <2>1. w \in 0..(2 * w)
    BY IntPowers
  <2>2. 2^w \in Nat /\ 2^w > w
    BY <2>1, IntPowers
  <2> QED BY <2>2, IntPowers, FormatParts, FormatOf
<1>2. e \in Nat /\ h \in 2^m..(2 * 2^m - 1) /\ h \in Nat
  <2>1. e \in 0..MaxExp(F32) /\ h \in 2^m..(2 * 2^m - 1) /\ MaxExp(F32) = 2 * b + 1
    BY <1>1, FloatParts, FormatOf
  <2> DEFINE pm == 2^m
  <2> HIDE DEF h, b, e, pm
  <2>2. h \in pm..(2 * pm - 1)
    BY <2>1 DEF pm
  <2> QED BY <1>1, <2>1, <2>2 DEF pm
<1>3. emitFloatToInt32Body(signed, v) = Saturated(F32, w, signed, v, mag)
  BY DEF emitFloatToInt32Body
<1>4. j \in 0..(w - 1) => t = IF j >= m THEN h * 2^(j - m) ELSE h \div 2^(m - j)
  BY <1>1, TruncatedIs
<1>5. shift = [left |-> Least({IF e > unit THEN e - unit ELSE 0, w - 1}),
               right |-> Least({Sub(w, unit, e), w - 1})]
  BY DEF FloatToInt32Shifts
<1>6. ASSUME j \in 0..(w - 1) PROVE mag = t
  <2> HIDE DEF h, e, b, t, shift
  <2>1. e = j + b /\ (e < unit <=> j < m) /\ (e > unit <=> j > m) /\ e - unit = j - m
        /\ unit - e = m - j
    BY <1>1, <1>2
  <2> HIDE DEF j
  <2>2. CASE j < m
    <3>1. Sub(w, unit, e) = m - j
      <4>1. Sub(w, unit, e) = (m - j) % 2^w
        BY <2>1 DEF Sub
      <4>2. m - j \in Nat /\ m - j < 2^w
        BY <1>1, <1>6, <2>2
      <4>3. (m - j) % 2^w = m - j
        BY <1>1, <4>2, ModSmall
      <4> QED BY <4>1, <4>3
    <3>2. shift.right = m - j
      <4>1. m - j =< w - 1 /\ m - j # w - 1 /\ m - j \in Int /\ w - 1 \in Int
        BY <1>1, <1>6, <2>2
      <4>2. Least({m - j, w - 1}) = m - j
        <5>1. Least({m - j, w - 1}) \in {m - j, w - 1} /\ Least({m - j, w - 1}) =< m - j
          BY <4>1, LeastOfTwo
        <5> QED BY <4>1, <5>1
      <4>3. shift.right = Least({Sub(w, unit, e), w - 1})
        BY <1>5
      <4> QED BY <3>1, <4>2, <4>3
    <3>3. mag = h \div 2^(m - j)
      BY <2>1, <2>2, <3>2 DEF LShr
    <3>4. ~(j >= m)
      BY <1>1, <1>6, <2>2
    <3> QED BY <1>4, <1>6, <3>3, <3>4
  <2>3. CASE j = m
    <3>1. mag = h
      BY <1>1, <2>1, <2>3
    <3>2. j - m = 0 /\ 2^0 = 1 /\ j >= m
      BY <1>1, <2>3, WidePowers DEF PowersDouble
    <3>3. h * 1 = h
      BY <1>2
    <3> QED BY <1>4, <1>6, <3>1, <3>2, <3>3
  <2>4. CASE j > m
    <3>1. shift.left = j - m
      <4>1. j - m =< w - 1 /\ j - m # w - 1 /\ j - m \in Int /\ w - 1 \in Int
        BY <1>1, <1>6, <2>4
      <4>2. Least({j - m, w - 1}) = j - m
        <5>1. Least({j - m, w - 1}) \in {j - m, w - 1} /\ Least({j - m, w - 1}) =< j - m
          BY <4>1, LeastOfTwo
        <5> QED BY <4>1, <5>1
      <4>3. shift.left = Least({j - m, w - 1})
        BY <1>5, <2>1, <2>4
      <4> QED BY <4>2, <4>3
    <3>2. mag = (h % 2^(w - (j - m))) * 2^(j - m)
      <4>1. ~(e < unit) /\ e > unit
        BY <1>1, <1>6, <2>1, <2>4
      <4> QED BY <3>1, <4>1 DEF Shl
    <3> DEFINE ph == 2^(w - (j - m))
    <3>3. h % ph = h
      <4>1. m + 1 \in 0..(w - (j - m)) /\ w - (j - m) \in 0..WideBits
        BY <1>1, <1>6, <2>4 DEF WideBits
      <4>2. 2^(m + 1) =< ph /\ ph \in Nat
        BY <4>1, PowerSplit, WidePowers
      <4>3. h < 2^(m + 1)
        <5> DEFINE pm == 2^m
        <5>1. pm \in Nat /\ h \in pm..(2 * pm - 1) /\ 2^(m + 1) = 2 * pm
          BY <1>1, <1>2
        <5> HIDE DEF pm
        <5> QED BY <5>1
      <4>4. 2^(m + 1) \in Nat
        BY <1>1
      <4> HIDE DEF ph
      <4>5. h < ph
        BY <1>2, <4>2, <4>3, <4>4
      <4> QED BY <1>2, <4>2, <4>5, ModSmall
    <3>4. mag = h * 2^(j - m)
      BY <3>2, <3>3
    <3>5. j >= m
      BY <1>1, <1>6, <2>4
    <3> QED BY <1>4, <1>6, <3>4, <3>5
  <2> QED BY <1>1, <1>6, <2>2, <2>3, <2>4
<1> HIDE DEF mag
<1>7. Saturated(F32, w, signed, v, mag) = RefToInt(F32, w, signed, v)
  BY <1>1, <1>6, SaturatedRight
<1> QED BY <1>3, <1>7

(* Shifted as an i64, of either format.                                     *)
LEMMA ToInt64Right ==
  ASSUME NEW f \in {F32, F64}, NEW v \in Words(f.w), NEW signed \in BOOLEAN
  PROVE  ToInt64(f, signed, v) = RefToInt(f, 2 * IntBits, signed, v)
<1> DEFINE w == 2 * IntBits
           m == f.m
           b == Bias(f)
           e == ExpOf(f, v)
           j == e - b
           h == Hidden(f, v)
           unit == b + m
           mag == IF e >= unit THEN ShlPair(h, e - unit) ELSE LshrPair(h, unit - e)
           t == Truncated(f, w, v)
<1>1. /\ w \in Nat /\ w >= 10 /\ m \in 1..(w - 5) /\ b \in Nat \ {0}
      /\ 2^w \in Nat /\ 2^(m + 1) = 2 * 2^m /\ 2^m \in Nat \ {0}
  <2>1. w \in Nat /\ w >= 10 /\ w \in 0..WideBits
    BY IntPowers DEF WideBits
  <2> HIDE DEF w
  <2>2. 2^w \in Nat
    BY <2>1, WidePowers
  <2>3. f.m \in Nat /\ f.m >= 1 /\ f.m + 5 =< f.w /\ f.w =< w /\ f.w \in Nat
    BY FormatOf DEF w
  <2>4. f.m \in 1..(w - 5)
    BY <2>1, <2>3
  <2> QED BY <2>1, <2>2, <2>4, FormatOf
<1>2. e \in Nat /\ h \in 2^m..(2 * 2^m - 1) /\ h \in Nat
  <2>1. e \in 0..MaxExp(f) /\ h \in 2^m..(2 * 2^m - 1) /\ MaxExp(f) = 2 * b + 1
    BY FloatParts, FormatOf
  <2> DEFINE pm == 2^m
  <2> HIDE DEF h, b, e, pm
  <2>2. h \in pm..(2 * pm - 1)
    BY <2>1 DEF pm
  <2> QED BY <1>1, <2>1, <2>2 DEF pm
<1>3. ToInt64(f, signed, v) = Saturated(f, w, signed, v, mag)
  BY DEF ToInt64
<1>4. j \in 0..(w - 1) => t = IF j >= m THEN h * 2^(j - m) ELSE h \div 2^(m - j)
  BY TruncatedIs
<1>5. h < 2^(m + 1) /\ h \in Words(w)
  <2> DEFINE pm == 2^m
             pw == 2^w
  <2>1. pm \in Nat /\ h \in pm..(2 * pm - 1) /\ 2^(m + 1) = 2 * pm
    BY <1>1, <1>2
  <2>2. m + 1 \in 0..w /\ w \in 0..WideBits
    BY <1>1 DEF WideBits
  <2>3. 2^(m + 1) =< pw /\ pw \in Nat
    BY <1>1, <2>2, PowerSplit
  <2> HIDE DEF pm, pw
  <2>4. h < 2^(m + 1) /\ h \in 0..(pw - 1)
    BY <1>2, <2>1, <2>3
  <2> QED BY <2>4 DEF Words, pw
<1>6. ASSUME j \in 0..(w - 1) PROVE mag = t
  <2> HIDE DEF h, e, b, t
  <2>1. e = j + b /\ (e >= unit <=> j >= m) /\ e - unit = j - m /\ unit - e = m - j
    BY <1>1, <1>2
  <2> HIDE DEF j
  <2>2. CASE j < m
    <3>1. ~(j >= m) /\ m - j \in 0..(w - 1)
      BY <1>1, <1>6, <2>2
    <3>2. mag = LshrPair(h, m - j)
      BY <2>1, <3>1
    <3>3. LshrPair(h, m - j) = h \div 2^(m - j)
      <4> DEFINE k == m - j
      <4>1. k \in 0..(2 * IntBits - 1) /\ h \in Words(2 * IntBits)
        BY <1>5, <3>1
      <4> HIDE DEF k
      <4>2. LshrPair(h, k) = h \div 2^k
        BY <4>1, LshrPairIs
      <4> QED BY <4>2 DEF k
    <3> QED BY <1>4, <1>6, <3>1, <3>2, <3>3
  <2>3. CASE j >= m
    <3>1. j - m \in 0..(w - 1)
      BY <1>1, <1>6, <2>3
    <3>2. mag = ShlPair(h, j - m)
      BY <2>1, <2>3
    <3>3. ShlPair(h, j - m) = h * 2^(j - m)
      <4> DEFINE k == j - m
      <4>1. k \in 0..(2 * IntBits - 1) /\ h \in Words(2 * IntBits)
        BY <1>5, <3>1
      <4>2. h < 2^(2 * IntBits - k)
        <5>1. m + 1 \in 0..(w - k) /\ w - k \in 0..WideBits
          BY <1>1, <1>6, <2>3 DEF WideBits
        <5>2. 2^(m + 1) =< 2^(w - k) /\ 2^(w - k) \in Nat /\ 2^(m + 1) \in Nat
          BY <1>1, <5>1, PowerSplit, WidePowers
        <5> QED BY <1>2, <1>5, <5>2
      <4> HIDE DEF k
      <4>3. ShlPair(h, k) = h * 2^k
        BY <4>1, <4>2, ShlPairIs
      <4> QED BY <4>3 DEF k
    <3> QED BY <1>4, <1>6, <2>3, <3>2, <3>3
  <2> QED BY <1>1, <1>6, <2>2, <2>3
<1> HIDE DEF mag
<1>7. Saturated(f, w, signed, v, mag) = RefToInt(f, w, signed, v)
  BY <1>6, SaturatedRight
<1> QED BY <1>3, <1>7

(* Cut out of the two halves of a mantissa, always by a right shift.        *)
LEMMA DoubleToInt32Right ==
  ASSUME NEW v \in Words(2 * IntBits), NEW signed \in BOOLEAN
  PROVE  emitDoubleToInt32Body(signed, v) = RefToInt(F64, IntBits, signed, v)
<1> DEFINE w == IntBits
           p == 2^w
           m == F64.m
           b == Bias(F64)
           e == ExpOf(F64, v)
           j == e - b
           k == m - j
           h == Hidden(F64, v)
           hi == HiHalf(h)
           lo == LoHalf(h)
           shift == DoubleToInt32Shifts(v)
           mag == IF shift.ge32 THEN LShr(hi, shift.big)
                  ELSE (LShr(lo, shift.right) + Shl(w, hi, shift.left)) % 2^w
           t == Truncated(F64, w, v)
<1>1. /\ w \in Nat /\ w >= 5 /\ m \in (w + 1)..(2 * w - 5) /\ b \in Nat \ {0} /\ F64.w = 2 * w
      /\ p \in Nat \ {0} /\ p >= 2 * w /\ 2^(m + 1) = 2 * 2^m /\ 2^m \in Nat \ {0}
  <2>1. w - 1 \in 0..(2 * w) /\ w \in 0..(2 * w)
    BY IntPowers
  <2>2. p = 2 * 2^(w - 1) /\ 2^(w - 1) > w - 1 /\ 2^(w - 1) \in Nat /\ p \in Nat \ {0}
    BY <2>1, IntPowers
  <2>3. p >= 2 * w
    <3> DEFINE o == 2^(w - 1)
    <3>1. p = 2 * o /\ o > w - 1 /\ o \in Nat
      BY <2>2
    <3> HIDE DEF o, p
    <3> QED BY <3>1, IntPowers
  <2>4. m \in (w + 1)..(2 * w - 5)
    <3>1. m > w
      BY FormatsFit
    <3> QED BY <3>1, FormatParts, IntPowers
  <2> QED BY <2>2, <2>3, <2>4, IntPowers, FormatParts, FormatOf
<1>2. e \in Nat /\ h \in 2^m..(2 * 2^m - 1) /\ h \in Nat
  <2>1. e \in 0..MaxExp(F64) /\ h \in 2^m..(2 * 2^m - 1) /\ MaxExp(F64) = 2 * b + 1
    BY <1>1, FloatParts, FormatOf
  <2> DEFINE pm == 2^m
  <2> HIDE DEF h, b, e, pm
  <2>2. h \in pm..(2 * pm - 1)
    BY <2>1 DEF pm
  <2> QED BY <1>1, <2>1, <2>2 DEF pm
<1>3. emitDoubleToInt32Body(signed, v) = Saturated(F64, w, signed, v, mag)
  BY DEF emitDoubleToInt32Body
<1>4. j \in 0..(w - 1) => /\ t = IF j >= m THEN h * 2^(j - m) ELSE h \div 2^(m - j)
                          /\ t \in 2^j..(2^(j + 1) - 1)
  BY <1>1, TruncatedIs
<1>5. h \in Words(2 * w)
  <2> DEFINE pm == 2^m
             pw == 2^(2 * w)
  <2>1. pm \in Nat /\ h \in pm..(2 * pm - 1) /\ 2^(m + 1) = 2 * pm
    BY <1>1, <1>2
  <2>2. m + 1 \in 0..(2 * w) /\ 2 * w \in 0..WideBits
    BY <1>1 DEF WideBits
  <2>3. 2^(m + 1) =< pw /\ pw \in Nat
    BY <1>1, <2>2, PowerSplit, WidePowers
  <2> HIDE DEF pm, pw
  <2>4. h \in 0..(pw - 1)
    BY <1>2, <2>1, <2>3
  <2> QED BY <2>4 DEF Words, pw
<1>6. ASSUME j \in 0..(w - 1) PROVE mag = t
  <2>1. Sub(w, b + m, e) = k
    <3>1. Sub(w, b + m, e) = ((b + m) - e) % p
      BY DEF Sub
    <3> HIDE DEF h, e, b, p
    <3>2. (b + m) - e = k /\ k \in Nat /\ k < p
      BY <1>1, <1>2, <1>6
    <3>3. ((b + m) - e) % p = k
      BY <1>1, <3>2, ModSmall
    <3> QED BY <3>1, <3>3
  <2>2. k \in 2..m
    <3> HIDE DEF b, e
    <3> QED BY <1>1, <1>2, <1>6
  <2>3. shift = [ge32 |-> k >= w, big |-> Clamp31(IF k >= w THEN k - w ELSE 0),
                 right |-> Clamp31(IF k >= w THEN 1 ELSE k),
                 left |-> Clamp31(IF k >= w THEN 0 ELSE w - k)]
    <3> HIDE DEF k
    <3> QED BY <2>1 DEF DoubleToInt32Shifts
  <2>4. t = h \div 2^k
    <3> HIDE DEF b, e, h, t
    <3>1. ~(j >= m)
      BY <1>1, <1>2, <1>6
    <3> QED BY <1>4, <1>6, <3>1
  <2>5. hi = h \div p /\ lo = h % p
    BY DEF HiHalf, LoHalf, LShr, Low
  <2>6. t \in Nat /\ t < p
    <3> DEFINE u == 2^j
               s == 2^(j + 1)
    <3>1. j \in 0..WideBits /\ j + 1 \in 0..w /\ w \in 0..WideBits /\ j + 1 \in 0..WideBits
      <4> HIDE DEF b, e
      <4> QED BY <1>1, <1>2, <1>6 DEF WideBits
    <3>2. t \in u..(s - 1)
      BY <1>4, <1>6
    <3> HIDE DEF j
    <3>3. u \in Nat /\ s \in Nat /\ s =< p
      BY <3>1, WidePowers, PowerSplit
    <3> HIDE DEF u, s, t, p
    <3> QED BY <1>1, <3>2, <3>3
  <2> HIDE DEF k, shift, t, h, p
  <2>7. CASE k >= w
    <3>1. k - w \in 0..(w - 1) /\ k \in 0..WideBits /\ w \in 0..k /\ k - w \in 0..WideBits
      BY <1>1, <2>2, <2>7 DEF WideBits
    <3>2. shift.ge32 /\ shift.big = k - w
      <4>1. Clamp31(k - w) = k - w
        BY <1>1, <3>1 DEF Clamp31
      <4> QED BY <2>3, <2>7, <4>1
    <3>3. mag = (h \div p) \div 2^(k - w)
      BY <2>5, <3>2 DEF LShr
    <3> DEFINE po == 2^(k - w)
    <3>4. po \in Nat \ {0} /\ 2^k = p * po
      BY <3>1, WidePowers, PowerSplit DEF p
    <3> HIDE DEF po
    <3>5. (h \div p) \div po = h \div (p * po)
      BY <1>1, <1>2, <3>4, DivideTwice
    <3> QED BY <2>4, <3>3, <3>4, <3>5 DEF po
  <2>8. CASE ~(k >= w)
    <3> DEFINE c == LShr(lo, k) + Shl(w, hi, w - k)
               u == LShr(hi, k)
    <3>1. k \in 0..(2 * w - 1) /\ k # 0 /\ Clamp31(k) = k /\ Clamp31(w - k) = w - k
      BY <1>1, <2>2, <2>8 DEF Clamp31
    <3>2. ~shift.ge32 /\ shift.right = k /\ shift.left = w - k
      BY <2>3, <2>8, <3>1
    <3>3. mag = c % p
      BY <3>2 DEF p
    <3>4. LshrPair(h, k) = Pair(u, c)
      BY <2>8, <3>1 DEF LshrPair
    <3>5. LshrPair(h, k) = t
      BY <1>5, <2>4, <3>1, LshrPairIs
    <3>6. t = u * p + c
      BY <3>4, <3>5 DEF Pair, p
    <3>7. u \in Nat /\ c \in Nat
      <4> DEFINE pk == 2^k
                 po == 2^(w - k)
                 s == h \div p
                 l == h % p
      <4>1. k \in 0..WideBits /\ w - k \in 0..WideBits /\ w - (w - k) = k
        BY <1>1, <2>2, <2>8 DEF WideBits
      <4>2. pk \in Nat \ {0} /\ po \in Nat \ {0}
        BY <4>1, WidePowers
      <4>3. s \in Nat /\ l \in Nat
        <5>1. h \div p \in Nat /\ h % p \in 0..(p - 1)
          BY <1>1, <1>2, Division
        <5> QED BY <1>1, <5>1
      <4>4. u = s \div pk /\ c = (l \div pk) + (s % pk) * po
        BY <2>5, <4>1 DEF LShr, Shl
      <4> HIDE DEF pk, po, s, l
      <4>5. s \div pk \in Nat /\ s % pk \in 0..(pk - 1) /\ l \div pk \in Nat
        BY <4>2, <4>3, Division
      <4> QED BY <4>2, <4>4, <4>5
    <3> HIDE DEF c, u
    <3>8. u = 0
      <4> SUFFICES ASSUME 1 =< u PROVE FALSE
        BY <3>7
      <4>1. 1 * p =< u * p /\ u * p \in Nat
        BY <1>1, <3>7, TimesMonotone
      <4> QED BY <1>1, <2>6, <3>6, <3>7, <4>1
    <3>9. t = c
      <4>1. u * p = 0
        BY <1>1, <3>8
      <4> QED BY <3>6, <3>7, <4>1
    <3>10. c % p = c
      BY <1>1, <2>6, <3>7, <3>9, ModSmall
    <3> QED BY <3>3, <3>9, <3>10
  <2> QED BY <2>7, <2>8
<1> HIDE DEF mag
<1>7. Saturated(F64, w, signed, v, mag) = RefToInt(F64, w, signed, v)
  BY <1>1, <1>6, SaturatedRight
<1> QED BY <1>3, <1>7

-----------------------------------------------------------------------------
(* Rounding.                                                                *)

(* The bits of a number by its leading one.                                 *)
LEMMA BitLengthIs ==
  ASSUME NEW v \in Nat, NEW k \in 0..WideBits, 2^k =< v, v < 2 * 2^k
  PROVE  BitLength(v) = k + 1
<1>1. WideBits \in Nat /\ WideBits + 1 = 2 * IntBits + 3 /\ 2 * IntBits \in Nat
  BY WidePowers, IntPowers DEF WideBits
<1>2. \A c \in 0..WideBits : 2^c \in Nat \ {0}
  BY WidePowers
<1>3. ASSUME NEW c \in 0..WideBits, NEW b \in 0..WideBits, c < b PROVE 2 * 2^c =< 2^b
  <2>1. c \in 0..(WideBits - 1) /\ c + 1 \in 0..b
    BY <1>1, <1>3
  <2>2. 2^(c + 1) = 2 * 2^c
    BY <2>1, WidePowers DEF PowersDouble
  <2>3. 2^(c + 1) =< 2^b
    BY <2>1, PowerSplit
  <2> QED BY <2>2, <2>3
<1>4. ASSUME NEW c \in 0..WideBits PROVE (v \div 2^c = 1) <=> (2^c =< v /\ v < 2 * 2^c)
  <2> DEFINE p == 2^c
  <2>1. p \in Nat \ {0}
    BY <1>2
  <2> HIDE DEF p
  <2>2. v \div p \in Nat /\ v % p \in 0..(p - 1) /\ v = (v \div p) * p + (v % p)
    BY <2>1, Division
  <2>3. v \div p = 1 => p =< v /\ v < 2 * p
    <3> SUFFICES ASSUME v \div p = 1 PROVE p =< v /\ v < 2 * p
      OBVIOUS
    <3>1. v = 1 * p + (v % p)
      BY <2>2
    <3> QED BY <2>1, <2>2, <3>1
  <2>4. p =< v /\ v < 2 * p => v \div p = 1
    <3> SUFFICES ASSUME p =< v, v < 2 * p PROVE v \div p = 1
      OBVIOUS
    <3>1. v \div p \in 1..(2 - 1)
      <4>1. 1 * p =< v
        BY <2>1
      <4> QED BY <2>1, <4>1, QuotientBounds
    <3> QED BY <3>1
  <2>5. v \div p = 1 <=> p =< v /\ v < 2 * p
    BY <2>3, <2>4
  <2> QED BY <2>5 DEF p
<1> DEFINE one(b) == v \div 2^(b - 1) = 1
<1>5. k + 1 \in 1..(2 * IntBits + 3) /\ one(k + 1)
  <2>1. v \div 2^k = 1
    BY <1>4
  <2>2. (k + 1) - 1 = k
    BY <1>1
  <2> QED BY <1>1, <2>1, <2>2
<1>6. ASSUME NEW b \in 1..(2 * IntBits + 3), one(b) PROVE b = k + 1
  <2> DEFINE c == b - 1
  <2>1. c \in 0..WideBits /\ v \div 2^c = 1
    BY <1>1, <1>6
  <2> HIDE DEF c
  <2>2. 2^c =< v /\ v < 2 * 2^c
    BY <1>4, <2>1
  <2>3. ~(c < k)
    <3> SUFFICES ASSUME c < k PROVE FALSE
      OBVIOUS
    <3>1. 2 * 2^c =< 2^k
      BY <1>3, <2>1
    <3> QED BY <1>2, <2>1, <2>2, <3>1
  <2>4. ~(k < c)
    <3> SUFFICES ASSUME k < c PROVE FALSE
      OBVIOUS
    <3>1. 2 * 2^k =< 2^c
      BY <1>3, <2>1
    <3> QED BY <1>2, <2>1, <2>2, <3>1
  <2>5. c = k
    BY <1>1, <2>1, <2>3, <2>4
  <2> QED BY <1>1, <2>5 DEF c
<1> HIDE DEF one
<1>7. BitLength(v) = CHOOSE b \in 1..(2 * IntBits + 3) : one(b)
  BY DEF BitLength, one
<1> QED BY <1>5, <1>6, <1>7

(* The mantissa before it may be halved.                                    *)
RoundedUp(kept, guard, sticky) ==
  IF guard = 1 /\ (sticky \/ kept % 2 = 1) THEN kept + 1 ELSE kept

(* A mantissa that reaches 2^(m+1) is packed as 2^m with the next exponent: *)
(* what RoundNearest leaves.                                                *)
LEMMA RoundNearestIs ==
  ASSUME NEW f \in {F32, F64}, NEW kept \in 2^f.m..(2 * 2^f.m - 1), NEW guard \in {0, 1},
         NEW sticky \in BOOLEAN
  PROVE  /\ RoundNearest(f, kept, guard, sticky).bump
                = IF RoundedUp(kept, guard, sticky) = 2^(f.m + 1) THEN 1 ELSE 0
         /\ RoundNearest(f, kept, guard, sticky).man \in 2^f.m..(2 * 2^f.m - 1)
         /\ \A s, e : Pack(f, s, e, RoundNearest(f, kept, guard, sticky).man)
                        = Pack(f, s, e, RoundedUp(kept, guard, sticky))
<1> DEFINE p == 2^f.m
           up == guard = 1 /\ (sticky \/ kept % 2 = 1)
           man == IF up THEN kept + 1 ELSE kept
           l == RoundNearest(f, kept, guard, sticky)
<1>1. p \in Nat \ {0} /\ 2^(f.m + 1) = 2 * p /\ kept \in p..(2 * p - 1)
  BY FormatOf
<1>2. man \in p..(2 * p)
  <2> HIDE DEF up, p
  <2> QED BY <1>1
<1>3. l = IF man = 2 * p THEN [man |-> LShr(man, 1), bump |-> 1] ELSE [man |-> man, bump |-> 0]
  BY <1>1 DEF RoundNearest
<1> HIDE DEF man, l, up
<1>4. CASE man = 2 * p
  <2>1. LShr(man, 1) = p
    <3>1. 2^1 = 2
      <4>1. 0 \in 0..(WideBits - 1) /\ 0 + 1 = 1 /\ 2 * 1 = 2
        BY WidePowers
      <4>2. 2^0 = 1 /\ 2^(0 + 1) = 2 * 2^0
        BY <4>1, WidePowers DEF PowersDouble
      <4> QED BY <4>1, <4>2
    <3> HIDE DEF p
    <3>2. (2 * p) \div 2 = p
      BY <1>1
    <3> QED BY <1>4, <3>1, <3>2 DEF LShr
  <2>2. l.man = p /\ l.bump = 1
    BY <1>3, <1>4, <2>1
  <2>3. Low(p, f.m) = Low(man, f.m)
    <3>1. Low(p, f.m) = p % p /\ Low(man, f.m) = (2 * p) % p
      BY <1>4 DEF Low
    <3> HIDE DEF p
    <3>2. p = 1 * p + 0 /\ 2 * p = 2 * p + 0 /\ 0 < p /\ 2 * p \in Nat
      BY <1>1
    <3>3. p % p = 0
      BY <1>1, <3>2, DivUnique
    <3>4. (2 * p) % p = 0
      BY <1>1, <3>2, DivUnique
    <3> QED BY <3>1, <3>3, <3>4
  <2>4. \A s, e : Pack(f, s, e, p) = Pack(f, s, e, man)
    <3> HIDE DEF p
    <3> QED BY <2>3 DEF Pack
  <2>5. p \in p..(2 * p - 1)
    <3> HIDE DEF p
    <3> QED BY <1>1
  <2> QED BY <1>1, <1>4, <2>2, <2>4, <2>5 DEF man, l, up, RoundedUp
<1>5. CASE man # 2 * p
  <2>1. l.man = man /\ l.bump = 0
    BY <1>3, <1>5
  <2>2. man \in p..(2 * p - 1)
    <3> HIDE DEF p
    <3> QED BY <1>1, <1>2, <1>5
  <2> QED BY <1>1, <1>5, <2>1, <2>2 DEF man, l, up, RoundedUp
<1> QED BY <1>4, <1>5

(* A rounded number as a word, with the exponent gated at both ends.        *)
Fitted(f, s, e, man) ==
  IF e < 1 THEN Zero(f, s) ELSE IF e >= MaxExp(f) THEN Inf(f, s) ELSE Pack(f, s, e, man)

(* What a number of few bits is nearest to: itself.                         *)
LEMMA NearestExact ==
  ASSUME NEW f \in {F32, F64}, NEW s, NEW e \in Int, NEW sig \in Nat, NEW inexact,
         NEW k \in 0..f.m, 2^k =< sig, sig < 2 * 2^k
  PROVE  /\ Nearest(f, s, e, sig, inexact).tiny <=> (e + k + Bias(f) < 1)
         /\ Nearest(f, s, e, sig, inexact).word =
              Fitted(f, s, e + k + Bias(f), sig * 2^(f.m - k))
<1> DEFINE m == f.m
           dropped == BitLength(sig) - (m + 1)
           kept == Magnify(sig, -dropped)
           lost == IF dropped > 0 THEN sig % 2^dropped ELSE 0
           half == IF dropped > 0 THEN 2^(dropped - 1) ELSE 1
           up == lost > half \/ (lost = half /\ (inexact \/ kept % 2 = 1))
           man == IF up THEN kept + 1 ELSE kept
           carry == IF man = 2^(m + 1) THEN 1 ELSE 0
           biased == e + dropped + m + Bias(f) + carry
<1>1. /\ m \in Nat /\ m + 5 =< 2 * IntBits /\ IntBits \in Nat /\ k \in 0..WideBits /\ m \in 0..WideBits
      /\ m - k \in 0..WideBits /\ 2^(m + 1) = 2 * 2^m /\ 2^m \in Nat \ {0} /\ Bias(f) \in Nat
  <2>1. m \in Nat /\ m + 5 =< 2 * IntBits /\ IntBits \in Nat
    BY FormatOf, IntPowers
  <2> HIDE DEF m
  <2>2. k \in 0..WideBits /\ m \in 0..WideBits /\ m - k \in 0..WideBits
    BY <2>1 DEF WideBits, m
  <2> QED BY <2>1, <2>2, FormatOf DEF m
<1>2. dropped = k - m
  <2>1. BitLength(sig) = k + 1
    BY <1>1, BitLengthIs
  <2> QED BY <1>1, <2>1
<1> HIDE DEF dropped
<1>3. ~(dropped > 0) /\ -dropped = m - k /\ -dropped >= 0
  BY <1>1, <1>2
<1>4. kept = sig * 2^(m - k)
  BY <1>3 DEF Magnify
<1>5. ~up
  BY <1>3
<1>6. kept < 2^(m + 1)
  <2> DEFINE pk == 2^k
             pd == 2^(m - k)
             pm == 2^m
  <2>1. pk \in Nat \ {0} /\ pd \in Nat \ {0} /\ pm = pd * pk
    <3>1. k \in 0..m
      BY <1>1
    <3> QED BY <1>1, <3>1, WidePowers, PowerSplit
  <2>2. sig =< 2 * pk - 1
    <3> HIDE DEF pd, pm
    <3>1. pk \in Nat /\ sig < 2 * pk
      BY <2>1
    <3> HIDE DEF pk
    <3> QED BY <3>1
  <2>3. sig * pd =< (2 * pk - 1) * pd
    <3> HIDE DEF pk, pd, pm
    <3> QED BY <2>1, <2>2, TimesMonotone
  <2>4. (2 * pk - 1) * pd < 2 * pm /\ sig * pd \in Nat
    <3> HIDE DEF pk, pd, pm
    <3>1. (2 * pk - 1) * pd = 2 * (pd * pk) - pd /\ pd * pk \in Nat
      BY <2>1
    <3> QED BY <2>1, <3>1
  <2>5. kept = sig * pd /\ 2^(m + 1) = 2 * pm
    BY <1>1, <1>4
  <2> HIDE DEF kept, pk, pd, pm
  <2>6. (2 * pk - 1) * pd \in Int /\ 2 * pm \in Int
    BY <2>1
  <2> QED BY <2>3, <2>4, <2>5, <2>6
<1>7. kept # 2^(m + 1)
  <2>1. 2^(m + 1) \in Nat
    BY <1>1
  <2> HIDE DEF kept
  <2> QED BY <1>6, <2>1
<1>8. man = kept /\ carry = 0
  <2>1. man = kept
    BY <1>5, Zenon
  <2> HIDE DEF man, kept
  <2> QED BY <1>7, <2>1
<1>9. biased = e + k + Bias(f)
  <2> HIDE DEF carry
  <2> QED BY <1>1, <1>2, <1>8
<1>10. Nearest(f, s, e, sig, inexact) =
         [tiny |-> biased < 1,
          word |-> IF biased < 1 THEN Zero(f, s)
                   ELSE IF biased >= MaxExp(f) THEN Inf(f, s) ELSE Pack(f, s, biased, man)]
  BY Zenon DEF Nearest, dropped
<1>11. Nearest(f, s, e, sig, inexact) = [tiny |-> biased < 1, word |-> Fitted(f, s, biased, man)]
  <2> HIDE DEF biased, man
  <2> QED BY <1>10, Zenon DEF Fitted
<1> HIDE DEF biased, man, kept
<1>12. /\ Nearest(f, s, e, sig, inexact).tiny <=> (biased < 1)
       /\ Nearest(f, s, e, sig, inexact).word = Fitted(f, s, biased, man)
  <2>1. /\ Nearest(f, s, e, sig, inexact).tiny = (biased < 1)
        /\ Nearest(f, s, e, sig, inexact).word = Fitted(f, s, biased, man)
    BY <1>11
  <2> QED BY <2>1
<1> QED BY <1>4, <1>8, <1>9, <1>12

(* What a number of more bits is nearest to: RoundNearest's result on its   *)
(* upper bits, with the next bit as guard and the others as sticky bit.     *)
Halfway(f, sig, inexact, k, guard, sticky) ==
  /\ k \in (f.m + 1)..WideBits /\ 2^k =< sig /\ sig < 2 * 2^k
  /\ guard \in {0, 1} /\ sticky \in BOOLEAN /\ inexact \in BOOLEAN
  /\ guard = 1 <=> sig % 2^(k - f.m) >= 2^(k - f.m - 1)
  /\ guard = 1 => (sticky <=> sig % 2^(k - f.m) > 2^(k - f.m - 1) \/ inexact)

LEMMA NearestRounds ==
  ASSUME NEW f \in {F32, F64}, NEW s, NEW e \in Int, NEW sig \in Nat, NEW inexact, NEW k,
         NEW guard, NEW sticky, Halfway(f, sig, inexact, k, guard, sticky),
         NEW l, l = RoundNearest(f, sig \div 2^(k - f.m), guard, sticky)
  PROVE  /\ sig \div 2^(k - f.m) \in 2^f.m..(2 * 2^f.m - 1)
         /\ l.bump \in {0, 1} /\ l.man \in 2^f.m..(2 * 2^f.m - 1)
         /\ Nearest(f, s, e, sig, inexact).tiny <=> (e + k + Bias(f) + l.bump < 1)
         /\ Nearest(f, s, e, sig, inexact).word = Fitted(f, s, e + k + Bias(f) + l.bump, l.man)
<1> DEFINE m == f.m
           dropped == BitLength(sig) - (m + 1)
           kept == Magnify(sig, -dropped)
           lost == IF dropped > 0 THEN sig % 2^dropped ELSE 0
           half == IF dropped > 0 THEN 2^(dropped - 1) ELSE 1
           up == lost > half \/ (lost = half /\ (inexact \/ kept % 2 = 1))
           man == IF up THEN kept + 1 ELSE kept
           carry == IF man = 2^(m + 1) THEN 1 ELSE 0
           biased == e + dropped + m + Bias(f) + carry
           g == k - m
           pg == 2^g
           ph == 2^(g - 1)
<1>0. /\ k \in (f.m + 1)..WideBits /\ 2^k =< sig /\ sig < 2 * 2^k
      /\ guard \in {0, 1} /\ sticky \in BOOLEAN /\ inexact \in BOOLEAN
      /\ guard = 1 <=> sig % pg >= ph
      /\ guard = 1 => (sticky <=> sig % pg > ph \/ inexact)
  BY DEF Halfway
<1>1. /\ m \in Nat /\ 2^(m + 1) = 2 * 2^m /\ 2^m \in Nat \ {0} /\ Bias(f) \in Nat
      /\ WideBits \in Nat /\ g \in 1..WideBits /\ m \in 0..k /\ k \in 0..WideBits
      /\ g - 1 \in 0..WideBits /\ g \in 0..WideBits
  <2>1. m \in Nat /\ WideBits \in Nat
    BY FormatOf, WidePowers
  <2>2. g \in 1..WideBits /\ m \in 0..k /\ k \in 0..WideBits /\ g - 1 \in 0..WideBits /\ g \in 0..WideBits
    BY <1>0, <2>1
  <2> QED BY <2>1, <2>2, FormatOf
<1>2. dropped = g
  <2>1. BitLength(sig) = k + 1
    BY <1>0, <1>1, BitLengthIs
  <2> QED BY <1>1, <2>1
<1> HIDE DEF dropped
<1>3. dropped > 0 /\ ~(-dropped >= 0) /\ -(-dropped) = g
  <2> HIDE DEF g
  <2> QED BY <1>1, <1>2
<1>4. kept = sig \div pg
  <2> HIDE DEF g
  <2> QED BY <1>3 DEF Magnify
<1>5. lost = sig % pg /\ half = ph
  <2> HIDE DEF g
  <2> QED BY <1>2, <1>3
<1>6. pg \in Nat \ {0} /\ ph \in Nat \ {0} /\ 2^k = 2^m * pg
  <2>1. pg \in Nat \ {0} /\ ph \in Nat \ {0}
    <3> HIDE DEF g
    <3> QED BY <1>1, WidePowers
  <2>2. 2^k = 2^m * 2^(k - m)
    BY <1>1, PowerSplit
  <2> QED BY <2>1, <2>2
<1>7. kept \in 2^m..(2 * 2^m - 1)
  <2> DEFINE pm == 2^m
  <2>1. pm \in Nat \ {0} /\ pm * pg =< sig /\ sig < 2 * (pm * pg)
    BY <1>0, <1>1, <1>6
  <2> HIDE DEF pm, pg
  <2>2. 2 * (pm * pg) = (2 * pm) * pg /\ pm \in Nat /\ 2 * pm \in Nat
    BY <1>6, <2>1
  <2>3. sig \div pg \in pm..(2 * pm - 1)
    BY <1>6, <2>1, <2>2, QuotientBounds
  <2> HIDE DEF kept
  <2> QED BY <1>4, <2>3 DEF pm
<1>8. lost \in Nat /\ half \in Nat /\ (guard = 1 <=> lost >= half)
      /\ (guard = 1 => (sticky <=> lost > half \/ inexact))
  <2>1. sig % pg \in Nat
    <3> HIDE DEF pg
    <3>1. sig % pg \in 0..(pg - 1)
      BY <1>6, Division
    <3> QED BY <1>6, <3>1
  <2>2. /\ guard = 1 <=> sig % pg >= ph
        /\ guard = 1 => (sticky <=> sig % pg > ph \/ inexact)
    BY <1>0
  <2> HIDE DEF lost, half, pg, ph
  <2> QED BY <1>5, <1>6, <2>1, <2>2
<1> HIDE DEF kept, lost, half, pg, ph
<1>9. up <=> guard = 1 /\ (sticky \/ kept % 2 = 1)
  <2> DEFINE odd == kept % 2 = 1
  <2> HIDE DEF odd
  <2>1. lost > half \/ (lost = half /\ (inexact \/ odd)) <=> guard = 1 /\ (sticky \/ odd)
    BY <1>0, <1>8
  <2> QED BY <2>1 DEF odd
<1>10. /\ l.bump = IF man = 2^(m + 1) THEN 1 ELSE 0
       /\ l.man \in 2^m..(2 * 2^m - 1)
       /\ Pack(f, s, biased, l.man) = Pack(f, s, biased, man)
  <2>1. man = RoundedUp(kept, guard, sticky)
    BY <1>9, Zenon DEF RoundedUp
  <2>2. /\ l.bump = IF RoundedUp(kept, guard, sticky) = 2^(f.m + 1) THEN 1 ELSE 0
        /\ l.man \in 2^f.m..(2 * 2^f.m - 1)
        /\ \A s2, e2 : Pack(f, s2, e2, l.man) = Pack(f, s2, e2, RoundedUp(kept, guard, sticky))
    <3>1. l = RoundNearest(f, kept, guard, sticky)
      BY <1>4 DEF pg
    <3> QED BY <1>0, <1>7, <3>1, RoundNearestIs
  <2> HIDE DEF man, biased
  <2> QED BY <2>1, <2>2
<1>11. l.bump = carry /\ l.bump \in {0, 1}
  <2> HIDE DEF man
  <2> QED BY <1>10
<1>12. biased = e + k + Bias(f) + l.bump
  <2> HIDE DEF carry
  <2> QED BY <1>1, <1>2, <1>11
<1>13. Nearest(f, s, e, sig, inexact) =
         [tiny |-> biased < 1,
          word |-> IF biased < 1 THEN Zero(f, s)
                   ELSE IF biased >= MaxExp(f) THEN Inf(f, s) ELSE Pack(f, s, biased, man)]
  BY Zenon DEF Nearest, dropped, kept, lost, half
<1>14. Nearest(f, s, e, sig, inexact) = [tiny |-> biased < 1, word |-> Fitted(f, s, biased, l.man)]
  <2> HIDE DEF biased, man
  <2> QED BY <1>10, <1>13, Zenon DEF Fitted
<1> HIDE DEF biased
<1>15. sig \div 2^(k - f.m) \in 2^f.m..(2 * 2^f.m - 1)
  BY <1>4, <1>7 DEF pg
<1>16. /\ Nearest(f, s, e, sig, inexact).tiny <=> (biased < 1)
       /\ Nearest(f, s, e, sig, inexact).word = Fitted(f, s, biased, l.man)
  <2>1. /\ Nearest(f, s, e, sig, inexact).tiny = (biased < 1)
        /\ Nearest(f, s, e, sig, inexact).word = Fitted(f, s, biased, l.man)
    BY <1>14
  <2> QED BY <2>1
<1> QED BY <1>10, <1>11, <1>12, <1>15, <1>16

-----------------------------------------------------------------------------
(* Integers to floats. Every exponent an integer can have fits the format.  *)
LEMMA BiasIsLarge ==
  ASSUME NEW f \in {F32, F64}
  PROVE  2 * IntBits =< Bias(f)
<1>1. Exp32 - 1 \in 0..WideBits /\ Exp64 - 1 \in 0..WideBits /\ Exp32 < Exp64 /\ IntBits \in Nat
  <2>1. WideBits \in Nat /\ IntBits \in Nat /\ WideBits = 2 * IntBits + 2
    BY WidePowers, IntPowers DEF WideBits
  <2>2. Exp32 \in 2..(IntBits - 5) /\ Exp64 \in 2..(2 * IntBits - 5)
    BY FormatParts
  <2>3. Exp32 < Exp64
    BY FormatsFit
  <2> HIDE DEF WideBits
  <2> QED BY <2>1, <2>2, <2>3
<1>2. 2 * IntBits =< 2^(Exp32 - 1) - 1
  BY FormatsFit
<1> DEFINE a == Exp32 - 1
           b == Exp64 - 1
<1>3. 2^a =< 2^b /\ 2^a \in Nat \ {0} /\ 2^b \in Nat \ {0}
  <2>1. a \in 0..b /\ a \in 0..WideBits /\ b \in 0..WideBits
    <3>1. WideBits \in Nat /\ Exp32 \in Nat /\ Exp64 \in Nat
      BY WidePowers, FormatsFit
    <3> QED BY <1>1, <3>1
  <2> HIDE DEF a, b
  <2>2. 2^a =< 2^b
    BY <2>1, PowerSplit
  <2> QED BY <2>1, <2>2, WidePowers
<1>4. Bias(f) = (IF f = F32 THEN 2^a ELSE 2^b) - 1
  BY FormatParts DEF Bias
<1> DEFINE pa == 2^a
           pb == 2^b
<1>5. 2 * IntBits =< pa - 1 /\ pa =< pb /\ pa \in Nat /\ pb \in Nat
  BY <1>2, <1>3
<1>6. Bias(f) = pa - 1 \/ Bias(f) = pb - 1
  BY <1>4
<1> HIDE DEF pa, pb
<1> QED BY <1>1, <1>5, <1>6

LEMMA IntegerFits ==
  ASSUME NEW f \in {F32, F64}, NEW s, NEW man, NEW k \in 0..(2 * IntBits - 1), NEW up \in {0, 1}
  PROVE  Fitted(f, s, 0 + k + Bias(f) + up, man) = Pack(f, s, k + Bias(f) + up, man)
<1>1. Bias(f) \in Nat \ {0} /\ MaxExp(f) = 2 * Bias(f) + 1 /\ 2 * IntBits =< Bias(f) /\ IntBits \in Nat
  BY FormatOf, BiasIsLarge, IntPowers
<1> DEFINE e == k + Bias(f) + up
<1>2. ~(e < 1) /\ ~(e >= MaxExp(f)) /\ 0 + k + Bias(f) + up = e
  BY <1>1
<1> HIDE DEF e
<1>3. Fitted(f, s, e, man) = Pack(f, s, e, man)
  BY <1>2 DEF Fitted
<1> QED BY <1>2, <1>3 DEF e

LEMMA ZeroWord ==
  ASSUME NEW f \in {F32, F64}
  PROVE  Zero(f, 0) = 0
<1> DEFINE p == 2^f.m
           qe == 2^f.e
           t == 2^(f.w - (f.w - 1))
           h == 2^(f.w - 1)
<1>1. p \in Nat \ {0} /\ qe \in Nat \ {0} /\ h \in Nat \ {0} /\ t \in Nat \ {0}
  <2>1. f.w - (f.w - 1) = 1 /\ 1 \in 0..WideBits /\ 2^f.m \in Nat \ {0} /\ 2^f.e = 2 * Bias(f) + 2
        /\ Bias(f) \in Nat /\ 2^(f.w - 1) \in Nat \ {0}
    BY FormatOf, WidePowers
  <2>2. 2^1 \in Nat \ {0}
    BY <2>1, WidePowers
  <2>3. p \in Nat \ {0} /\ h \in Nat \ {0}
    BY <2>1
  <2>4. t \in Nat \ {0}
    BY <2>1, <2>2
  <2>5. qe \in Nat \ {0}
    <3> HIDE DEF qe
    <3>1. qe = 2 * Bias(f) + 2 /\ Bias(f) \in Nat
      BY <2>1 DEF qe
    <3> QED BY <3>1
  <2> QED BY <2>3, <2>4, <2>5
<1>2. Zero(f, 0) = (0 % t) * h + (0 % qe) * p + (0 % p)
  BY DEF Zero, Pack, Shl, Low
<1> HIDE DEF p, qe, t, h
<1>3. 0 % t = 0 /\ 0 % qe = 0 /\ 0 % p = 0
  <2>1. 0 < t /\ 0 < qe /\ 0 < p
    BY <1>1
  <2> QED BY <1>1, <2>1, ModSmall
<1>4. 0 * h = 0 /\ 0 * p = 0
  BY <1>1
<1> QED BY <1>2, <1>3, <1>4

(* The sign and the magnitude the code splits an integer into.              *)
LEMMA MagnitudeIs ==
  ASSUME NEW w \in {IntBits, 2 * IntBits}, NEW v \in Words(w), NEW signed \in BOOLEAN
  PROVE  LET mag == IntMag(w, signed, v)
             s == IntSign(w, signed, v)
         IN  /\ mag \in Words(w) /\ s \in {0, 1}
             /\ mag = 0 <=> v = 0
             /\ v = 0 => s = 0
             /\ (IF signed THEN Signed(w, v) ELSE v) = IF s = 1 THEN -mag ELSE mag
<1> DEFINE h == 2^(w - 1)
           p == 2^w
<1>1. w \in Nat \ {0} /\ h \in Nat \ {0} /\ p = 2 * h
  <2>1. w - 1 \in 0..(WideBits - 1) /\ w - 1 \in 0..WideBits /\ w \in Nat \ {0}
    BY WidePowers, IntPowers DEF WideBits
  <2>2. (w - 1) + 1 = w
    BY <2>1
  <2>3. 2^((w - 1) + 1) = 2 * 2^(w - 1)
    BY <2>1, WidePowers DEF PowersDouble
  <2> QED BY <2>1, <2>2, <2>3, WidePowers
<1>2. v \in 0..(2 * h - 1)
  BY <1>1 DEF Words
<1>3. LShr(v, w - 1) = IF v < h THEN 0 ELSE 1
  BY <1>1, <1>2, TopBit DEF LShr
<1>4. Signed(w, v) = IF v < h THEN v ELSE v - p
  BY DEF Signed
<1>5. CASE signed /\ ~(v < h)
  <2>1. IntSign(w, signed, v) = 1
    BY <1>3, <1>5 DEF IntSign
  <2>2. IntMag(w, signed, v) = (0 - v) % p
    BY <2>1 DEF IntMag, Sub
  <2> HIDE DEF h, p
  <2>3. v \in Nat /\ v > 0 /\ v < p /\ p \in Nat
    BY <1>1, <1>2, <1>5
  <2>4. (0 - v) % p = p - v
    BY <2>3
  <2>5. p - v \in 0..(p - 1) /\ p - v # 0 /\ v # 0 /\ v - p = -(p - v)
    BY <2>3
  <2>6. p - v \in Words(w)
    BY <2>5 DEF Words, p
  <2>7. Signed(w, v) = -(p - v)
    BY <1>4, <1>5, <2>5
  <2> QED BY <1>5, <2>1, <2>2, <2>4, <2>5, <2>6, <2>7
<1>6. CASE ~signed \/ v < h
  <2>1. IntSign(w, signed, v) = 0
    BY <1>3, <1>6 DEF IntSign
  <2>2. IntMag(w, signed, v) = v
    BY <2>1 DEF IntMag
  <2>3. signed => Signed(w, v) = v
    BY <1>4, <1>6
  <2> QED BY <1>6, <2>1, <2>2, <2>3
<1> QED BY <1>5, <1>6

(* What an integer is to become: its magnitude, rounded.                    *)
NearestInt(f, s, mag) == Nearest(f, s, 0, mag, FALSE).word

LEMMA FromIntIs ==
  ASSUME NEW f \in {F32, F64}, NEW w \in {IntBits, 2 * IntBits}, NEW v \in Words(w),
         NEW signed \in BOOLEAN
  PROVE  LET mag == IntMag(w, signed, v)
         IN  RefFromInt(f, w, signed, v) =
               IF mag = 0 THEN Zero(f, 0)
               ELSE NearestInt(f, IntSign(w, signed, v), mag)
<1> DEFINE mag == IntMag(w, signed, v)
           s == IntSign(w, signed, v)
           k == IF signed THEN Signed(w, v) ELSE v
<1>1. /\ mag \in Words(w) /\ s \in {0, 1} /\ (mag = 0 <=> v = 0) /\ (v = 0 => s = 0)
      /\ k = IF s = 1 THEN -mag ELSE mag
  BY MagnitudeIs
<1>2. mag \in Nat
  <2>1. 2^w \in Nat
    BY IntPowers
  <2> HIDE DEF mag
  <2> QED BY <1>1, <2>1 DEF Words
<1>3. RefFromInt(f, w, signed, v) =
        CASE k = 0 -> Zero(f, 0)
          [] k > 0 -> NearestInt(f, 0, k)
          [] k < 0 -> NearestInt(f, 1, -k)
  BY DEF RefFromInt, NearestInt
<1> HIDE DEF mag, s, k
<1>4. CASE mag = 0
  <2>1. k = 0
    BY <1>1, <1>4
  <2> QED BY <1>3, <1>4, <2>1 DEF mag, s
<1>5. CASE mag # 0 /\ s = 0
  <2>1. k = mag /\ k > 0 /\ ~(k < 0) /\ k # 0
    BY <1>1, <1>2, <1>5
  <2> QED BY <1>3, <1>5, <2>1 DEF mag, s
<1>6. CASE mag # 0 /\ s = 1
  <2>1. -mag = 0 - mag /\ k = -mag
    BY <1>1, <1>2, <1>6
  <2>2. k < 0 /\ ~(k > 0) /\ k # 0 /\ -k = mag
    BY <1>2, <1>6, <2>1
  <2> QED BY <1>3, <1>6, <2>2 DEF mag, s
<1> QED BY <1>1, <1>4, <1>5, <1>6 DEF mag, s

(* A magnitude by its leading bit: exact when it is no longer than the      *)
(* mantissa,                                                                *)
LEMMA IntegerExact ==
  ASSUME NEW f \in {F32, F64}, NEW s, NEW mag \in Nat, NEW k \in 0..f.m,
         2^k =< mag, mag < 2 * 2^k
  PROVE  NearestInt(f, s, mag) = Pack(f, s, k + Bias(f), mag * 2^(f.m - k))
<1> DEFINE man == mag * 2^(f.m - k)
           e == 0
           no == FALSE
<1>1. Nearest(f, s, e, mag, no).word = Fitted(f, s, e + k + Bias(f), man)
  <2>1. e \in Int
    OBVIOUS
  <2> HIDE DEF e, no
  <2> QED BY <2>1, NearestExact
<1>2. k \in 0..(2 * IntBits - 1) /\ k \in Int
  BY FormatOf, IntPowers
<1>3. Bias(f) \in Int
  BY FormatOf
<1> HIDE DEF man
<1>4. Fitted(f, s, 0 + k + Bias(f) + 0, man) = Pack(f, s, k + Bias(f) + 0, man)
  BY <1>2, IntegerFits
<1>5. 0 + k + Bias(f) + 0 = 0 + k + Bias(f) /\ k + Bias(f) + 0 = k + Bias(f)
  BY <1>2, <1>3
<1> QED BY <1>1, <1>4, <1>5, Zenon DEF man, e, no, NearestInt

(* and rounded when it is longer.                                           *)
LEMMA IntegerRounds ==
  ASSUME NEW f \in {F32, F64}, NEW s, NEW mag \in Nat, NEW k \in (f.m + 1)..(2 * IntBits - 1),
         2^k =< mag, mag < 2 * 2^k, NEW guard \in {0, 1}, NEW sticky \in BOOLEAN,
         guard = 1 <=> mag % 2^(k - f.m) >= 2^(k - f.m - 1),
         guard = 1 => (sticky <=> mag % 2^(k - f.m) > 2^(k - f.m - 1))
  PROVE  LET l == RoundNearest(f, mag \div 2^(k - f.m), guard, sticky)
         IN  NearestInt(f, s, mag) = Pack(f, s, k + Bias(f) + l.bump, l.man)
<1> DEFINE l == RoundNearest(f, mag \div 2^(k - f.m), guard, sticky)
           e == 0
           no == FALSE
<1>1. k \in (f.m + 1)..WideBits /\ k \in 0..(2 * IntBits - 1)
  BY FormatOf, IntPowers DEF WideBits
<1>2. no \in BOOLEAN /\ e \in Int
      /\ (guard = 1 => (sticky <=> mag % 2^(k - f.m) > 2^(k - f.m - 1) \/ no))
  OBVIOUS
<1>3. l.bump \in {0, 1} /\ Nearest(f, s, e, mag, no).word = Fitted(f, s, e + k + Bias(f) + l.bump, l.man)
  <2>1. Halfway(f, mag, no, k, guard, sticky)
    BY <1>1, <1>2 DEF Halfway
  <2> HIDE DEF e, no
  <2> QED BY <1>2, <2>1, NearestRounds
<1> HIDE DEF l
<1>4. Fitted(f, s, 0 + k + Bias(f) + l.bump, l.man) = Pack(f, s, k + Bias(f) + l.bump, l.man)
  BY <1>1, <1>3, IntegerFits
<1> QED BY <1>3, <1>4, Zenon DEF l, e, no, NearestInt

(* i32 to float.                                                            *)
LEMMA Int32ToFloatRight ==
  ASSUME NEW v \in Words(IntBits), NEW signed \in BOOLEAN
  PROVE  emitInt32ToFloatBody(signed, v) = RefFromInt(F32, IntBits, signed, v)
<1> DEFINE mag == IntMag(IntBits, signed, v)
           s == IntSign(IntBits, signed, v)
           c == Ctlz(IntBits, mag)
           k == IntBits - 1 - c
           m == F32.m
           shift == Int32ToFloatShifts(signed, v)
           hi == LeadingBit(mag)
           lost == Low(mag, shift.right)
           halfway == 2^(shift.right - 1)
           trunc == LShr(mag, shift.right)
           guard == IF lost >= halfway THEN 1 ELSE 0
           sticky == lost > halfway
           l == RoundNearest(F32, trunc, guard, sticky)
<1>1. /\ RefFromInt(F32, IntBits, signed, v) =
           IF mag = 0 THEN Zero(F32, 0) ELSE NearestInt(F32, s, mag)
      /\ mag \in Words(IntBits)
  BY FromIntIs, MagnitudeIs
<1>2. emitInt32ToFloatBody(signed, v) =
        IF mag = 0 THEN 0
        ELSE IF hi > m THEN Pack(F32, s, hi + Bias(F32) + l.bump, l.man)
        ELSE Pack(F32, s, hi + Bias(F32), Shl(IntBits, mag, shift.left))
  BY DEF emitInt32ToFloatBody
<1>3. CASE mag = 0
  <2>1. Zero(F32, 0) = 0
    BY ZeroWord
  <2> HIDE DEF mag
  <2> QED BY <1>1, <1>2, <1>3, <2>1
<1>4. ASSUME mag # 0 PROVE emitInt32ToFloatBody(signed, v) = NearestInt(F32, s, mag)
  <2>1. IntBits \in 1..(2 * IntBits) /\ IntBits \in Nat \ {0} /\ 2^IntBits > IntBits /\ 2^IntBits \in Nat
        /\ mag \in Words(IntBits) \ {0} /\ mag \in Nat /\ mag < 2^IntBits
        /\ IntBits \in 0..(2 * IntBits) /\ IntBits + 2 =< WideBits
        /\ WideBits \in Nat
    <3> HIDE DEF mag
    <3>1. IntBits \in Nat \ {0} /\ IntBits \in 0..(2 * IntBits)
      BY IntPowers
    <3>2. 2^IntBits > IntBits /\ 2^IntBits \in Nat
      BY <3>1, IntPowers
    <3> QED BY <1>1, <1>4, <3>1, <3>2, WidePowers DEF Words, WideBits
  <2>2. c \in 0..(IntBits - 1) /\ 2^(IntBits - 1 - c) =< mag /\ mag < 2^(IntBits - c)
    <3> HIDE DEF mag
    <3> QED BY <2>1, LeadingOne
  <2>3. k \in 0..(IntBits - 1) /\ IntBits - 1 - c = k /\ IntBits - c = k + 1
    <3> HIDE DEF c
    <3> QED BY <2>1, <2>2
  <2>4. hi = k
    <3>1. hi = (IntBits - 1 - c) % 2^IntBits
      <4>1. c = Sub(IntBits, c, 0)
        <5> HIDE DEF c
        <5>1. c - 0 = c /\ c \in Nat /\ c < 2^IntBits
          BY <2>1, <2>2
        <5> QED BY <2>1, <5>1, ModSmall DEF Sub
      <4>2. hi = (IntBits - 1 - c) % 2^IntBits
        BY DEF LeadingBit, Sub
      <4> QED BY <4>2
    <3> HIDE DEF k, c, hi
    <3>2. k \in Nat /\ k < 2^IntBits
      BY <2>1, <2>3
    <3> QED BY <2>1, <2>3, <3>1, <3>2, ModSmall
  <2>5. 2^k =< mag /\ mag < 2 * 2^k /\ k \in 0..(WideBits - 1) /\ 2^k \in Nat \ {0}
    <3> HIDE DEF k, c, mag
    <3>1. k \in 0..(WideBits - 1) /\ k \in 0..WideBits
      BY <2>1, <2>3
    <3>2. 2^(k + 1) = 2 * 2^k
      BY <3>1, WidePowers DEF PowersDouble
    <3> QED BY <2>2, <2>3, <3>1, <3>2, WidePowers
  <2>6. m \in Nat /\ m =< IntBits - 5 /\ F32 \in {F32, F64} /\ Bias(F32) \in Nat
    BY FormatParts, FormatOf
  <2>7. /\ shift.left = IF hi > m THEN 0 ELSE m - hi
        /\ shift.right = IF hi > m THEN Sub(IntBits, hi, m) ELSE 1
    BY DEF Int32ToFloatShifts
  <2> HIDE DEF mag, k, c, hi, m, shift
  <2>8. CASE k > m
    <3> DEFINE g == k - m
    <3>1. g \in 1..(IntBits - 1) /\ g \in Nat /\ g < 2^IntBits /\ k \in (m + 1)..(2 * IntBits - 1)
          /\ g \in 0..WideBits /\ g - 1 \in 0..WideBits
      BY <2>1, <2>3, <2>6, <2>8
    <3>2. shift.right = g
      <4>1. shift.right = g % 2^IntBits
        BY <2>4, <2>7, <2>8 DEF Sub
      <4> HIDE DEF g
      <4> QED BY <2>1, <3>1, <4>1, ModSmall
    <3> HIDE DEF g
    <3>3. lost = mag % 2^g /\ halfway = 2^(g - 1) /\ trunc = mag \div 2^g
      BY <3>2 DEF Low, LShr
    <3>4. 2^g \in Nat \ {0} /\ 2^(g - 1) \in Nat \ {0}
      BY <3>1, WidePowers
    <3>5. lost \in Nat /\ halfway \in Nat
      <4> DEFINE pg == 2^g
      <4>1. pg \in Nat \ {0}
        BY <3>4
      <4> HIDE DEF pg
      <4>2. mag % pg \in 0..(pg - 1)
        BY <2>1, <4>1, Division
      <4>3. mag % pg \in Nat
        BY <4>1, <4>2
      <4> QED BY <3>3, <3>4, <4>3 DEF pg
    <3> HIDE DEF lost, halfway, trunc
    <3>6. guard \in {0, 1} /\ sticky \in BOOLEAN /\ (guard = 1 <=> lost >= halfway)
          /\ (guard = 1 => (sticky <=> lost > halfway))
      BY <3>5
    <3> HIDE DEF guard, sticky
    <3>7. /\ guard = 1 <=> mag % 2^(k - F32.m) >= 2^(k - F32.m - 1)
          /\ guard = 1 => (sticky <=> mag % 2^(k - F32.m) > 2^(k - F32.m - 1))
      BY <3>3, <3>6 DEF g, m
    <3>8. NearestInt(F32, s, mag) = Pack(F32, s, k + Bias(F32) + l.bump, l.man)
      <4> DEFINE f == F32
                 ll == RoundNearest(f, mag \div 2^(k - f.m), guard, sticky)
      <4>1. l = ll
        BY <3>3 DEF g, m
      <4>2. k \in (f.m + 1)..(2 * IntBits - 1) /\ f \in {F32, F64} /\ mag \in Nat
            /\ 2^k =< mag /\ mag < 2 * 2^k /\ guard \in {0, 1} /\ sticky \in BOOLEAN
            /\ (guard = 1 <=> mag % 2^(k - f.m) >= 2^(k - f.m - 1))
            /\ (guard = 1 => (sticky <=> mag % 2^(k - f.m) > 2^(k - f.m - 1)))
        BY <2>1, <2>5, <3>1, <3>6, <3>7 DEF m
      <4>3. NearestInt(f, s, mag) = Pack(f, s, k + Bias(f) + ll.bump, ll.man)
        <5> HIDE DEF f, s
        <5> QED BY <4>2, IntegerRounds
      <4> HIDE DEF l, ll
      <4> QED BY <4>1, <4>3
    <3> HIDE DEF l
    <3> QED BY <1>2, <1>4, <2>4, <2>8, <3>8
  <2>9. CASE ~(k > m)
    <3>1. k \in 0..m /\ m - k \in 0..WideBits /\ m - k \in 0..IntBits
          /\ k + 1 \in 0..(IntBits - (m - k)) /\ IntBits - (m - k) \in 0..WideBits
      BY <2>1, <2>3, <2>6, <2>9
    <3>2. shift.left = m - k /\ ~(hi > m)
      BY <2>4, <2>7, <2>9
    <3>3. Shl(IntBits, mag, m - k) = mag * 2^(m - k)
      <4> DEFINE room == IntBits - (m - k)
      <4>1. 2^(k + 1) =< 2^room /\ 2^room \in Nat /\ 2^(k + 1) = 2 * 2^k
        <5> HIDE DEF room
        <5>1. 2^(k + 1) =< 2^room
          BY <3>1, PowerSplit DEF room
        <5>2. 2^room \in Nat
          BY <3>1, WidePowers DEF room
        <5> QED BY <2>5, <5>1, <5>2, WidePowers DEF PowersDouble
      <4> HIDE DEF room
      <4>2. mag < 2^room
        BY <2>1, <2>5, <4>1
      <4>3. mag % 2^room = mag
        BY <2>1, <4>1, <4>2, ModSmall
      <4> QED BY <4>3 DEF Shl, room
    <3>4. NearestInt(F32, s, mag) = Pack(F32, s, k + Bias(F32), mag * 2^(F32.m - k))
      <4>1. k \in 0..F32.m
        BY <3>1 DEF m
      <4> QED BY <2>1, <2>5, <2>6, <4>1, IntegerExact
    <3>5. Shl(IntBits, mag, shift.left) = mag * 2^(F32.m - k)
      BY <3>2, <3>3 DEF m
    <3> HIDE DEF l
    <3> QED BY <1>2, <1>4, <2>4, <3>2, <3>4, <3>5
  <2> QED BY <2>8, <2>9
<1> HIDE DEF mag, s
<1> QED BY <1>1, <1>3, <1>4

(* The leading bit of an i64, found in either half.                         *)
LEMMA LeadingPair ==
  ASSUME NEW v \in Words(2 * IntBits) \ {0}
  PROVE  LET k == 2 * IntBits - 1 - CtlzPair(v)
         IN  k \in 0..(2 * IntBits - 1) /\ 2^k =< v /\ v < 2 * 2^k
<1> DEFINE p == 2^IntBits
           hi == HiHalf(v)
           lo == LoHalf(v)
           c == CtlzPair(v)
           k == 2 * IntBits - 1 - c
<1>1. /\ IntBits \in Nat \ {0} /\ p \in Nat \ {0} /\ 2^(2 * IntBits) = p * p
      /\ IntBits \in 1..(2 * IntBits) /\ WideBits \in Nat /\ 2 * IntBits =< WideBits
  <2>1. IntBits \in Nat \ {0} /\ WideBits \in Nat /\ 2 * IntBits =< WideBits
        /\ IntBits \in 1..(2 * IntBits) /\ 2^(2 * IntBits) = p * p
    BY IntPowers, WidePowers DEF WideBits
  <2>2. IntBits \in 0..WideBits
    BY <2>1
  <2> QED BY <2>1, <2>2, WidePowers
<1>2. v \in Words(2 * IntBits) /\ v # 0
  OBVIOUS
<1>3. v \in Nat /\ v < p * p
  <2>1. v \in 0..(p * p - 1)
    BY <1>1, <1>2 DEF Words
  <2> HIDE DEF p
  <2>2. p * p \in Nat
    BY <1>1
  <2> QED BY <2>1, <2>2
<1>4. hi \in 0..(p - 1) /\ lo \in 0..(p - 1) /\ v = hi * p + lo
  <2>1. hi = v \div p /\ lo = v % p
    BY DEF HiHalf, LoHalf, LShr, Low
  <2> HIDE DEF hi, lo, p
  <2>2. v \div p \in 0..(p - 1)
    <3>1. 0 * p =< v /\ 0 \in Nat /\ p \in Nat
      BY <1>1, <1>3
    <3> QED BY <1>1, <1>3, <3>1, QuotientBounds
  <2>3. v % p \in 0..(p - 1) /\ v = (v \div p) * p + (v % p)
    BY <1>1, <1>3, Division
  <2> QED BY <2>1, <2>2, <2>3
<1>5. hi \in Words(IntBits) /\ lo \in Words(IntBits)
  BY <1>4 DEF Words
<1>6. c = IF hi # 0 THEN Ctlz(IntBits, hi) ELSE IntBits + Ctlz(IntBits, lo)
  BY DEF CtlzPair
<1> HIDE DEF hi, lo, c
<1>7. CASE hi # 0
  <2> DEFINE j == IntBits - 1 - Ctlz(IntBits, hi)
             pj == 2^j
  <2>1. Ctlz(IntBits, hi) \in 0..(IntBits - 1) /\ 2^(IntBits - 1 - Ctlz(IntBits, hi)) =< hi
        /\ hi < 2^(IntBits - Ctlz(IntBits, hi))
    BY <1>1, <1>5, <1>7, LeadingOne
  <2>2. c = Ctlz(IntBits, hi)
    BY <1>6, <1>7
  <2>3. j \in 0..(IntBits - 1) /\ IntBits - Ctlz(IntBits, hi) = j + 1 /\ k = j + IntBits
        /\ j \in 0..WideBits /\ j \in 0..(WideBits - 1) /\ IntBits \in 0..WideBits /\ j + IntBits =< WideBits
    BY <1>1, <2>1, <2>2
  <2>4. pj =< hi /\ hi < 2^(j + 1)
    BY <2>1, <2>3
  <2> HIDE DEF j
  <2>5. 2^(j + 1) = 2 * pj /\ 2^(j + IntBits) = pj * p /\ pj \in Nat \ {0}
    BY <2>3, WidePowers DEF PowersDouble
  <2> HIDE DEF pj, p
  <2>6. hi \in Nat /\ lo \in Nat /\ lo < p /\ hi + 1 =< 2 * pj /\ p \in Nat /\ pj \in Nat /\ hi + 1 \in Nat
    BY <1>1, <1>4, <2>4, <2>5
  <2>7. pj * p =< hi * p /\ (hi + 1) * p =< (2 * pj) * p
    <3>1. pj * p =< hi * p
      BY <2>4, <2>6, TimesMonotone
    <3>2. 2 * pj \in Nat
      BY <2>6
    <3>3. (hi + 1) * p =< (2 * pj) * p
      BY <2>6, <3>2, TimesMonotone
    <3> QED BY <3>1, <3>3
  <2>8. (hi + 1) * p = hi * p + p /\ (2 * pj) * p = 2 * (pj * p) /\ hi * p \in Nat /\ pj * p \in Nat
    BY <2>6
  <2>9. pj * p =< v /\ v < 2 * (pj * p)
    BY <1>4, <2>6, <2>7, <2>8
  <2>10. k \in 0..(2 * IntBits - 1)
    BY <1>1, <2>3
  <2>11. 2^k = pj * p
    BY <2>3, <2>5
  <2> HIDE DEF k
  <2>12. k \in 0..(2 * IntBits - 1) /\ 2^k =< v /\ v < 2 * 2^k
    BY <2>9, <2>10, <2>11
  <2> QED BY <2>12 DEF k, c
<1>8. CASE hi = 0
  <2> DEFINE j == IntBits - 1 - Ctlz(IntBits, lo)
             pj == 2^j
  <2>0. lo # 0 /\ v = lo
    <3> HIDE DEF p
    <3>1. v = 0 * p + lo /\ 0 * p = 0
      BY <1>1, <1>4, <1>8
    <3> QED BY <1>2, <1>4, <3>1
  <2>1. Ctlz(IntBits, lo) \in 0..(IntBits - 1) /\ 2^(IntBits - 1 - Ctlz(IntBits, lo)) =< lo
        /\ lo < 2^(IntBits - Ctlz(IntBits, lo))
    BY <1>1, <1>5, <2>0, LeadingOne
  <2>2. c = IntBits + Ctlz(IntBits, lo)
    BY <1>6, <1>8
  <2>3. j \in 0..(IntBits - 1) /\ IntBits - Ctlz(IntBits, lo) = j + 1 /\ k = j
        /\ j \in 0..(WideBits - 1) /\ k \in 0..(2 * IntBits - 1)
    BY <1>1, <2>1, <2>2
  <2>4. pj =< lo /\ lo < 2^(j + 1)
    BY <2>1, <2>3
  <2> HIDE DEF j, k
  <2>5. 2^(j + 1) = 2 * pj
    BY <2>3, WidePowers DEF PowersDouble
  <2>6. k \in 0..(2 * IntBits - 1) /\ 2^k =< v /\ v < 2 * 2^k
    BY <2>0, <2>3, <2>4, <2>5
  <2> QED BY <2>6 DEF k, c
<1> QED BY <1>7, <1>8

(* The bit below a quotient of bits, and what is left below that one.       *)
LEMMA NextBit ==
  ASSUME NEW v \in Nat, NEW h \in Nat \ {0}
  PROVE  LET lost == v % (2 * h)
             guard == (v \div h) % 2
         IN  /\ guard \in {0, 1} /\ lost \in 0..(2 * h - 1)
             /\ guard = 1 <=> lost >= h
             /\ guard * h =< lost
             /\ guard = 1 => (lost - guard * h # 0 <=> lost > h)
<1> DEFINE p == 2 * h
           a == v \div p
           lost == v % p
           b == lost \div h
           rest == lost % h
           guard == (v \div h) % 2
<1>1. h \in Nat \ {0} /\ p \in Nat \ {0}
  OBVIOUS
<1>2. a \in Nat /\ lost \in 0..(p - 1) /\ v = a * p + lost
  <2> HIDE DEF p
  <2> QED BY <1>1, Division
<1> HIDE DEF a, lost
<1>3. lost \in Nat /\ lost < 2 * h
  BY <1>1, <1>2
<1>4. b \in Nat /\ rest \in 0..(h - 1) /\ lost = b * h + rest
  BY <1>1, <1>3, Division
<1>5. b \in 0..1
  <2>1. 0 * h =< lost /\ lost < 2 * h /\ 0 \in Nat /\ 2 \in Nat
    BY <1>1, <1>3
  <2>2. lost \div h \in 0..(2 - 1)
    BY <1>1, <1>3, <2>1, QuotientBounds
  <2> QED BY <2>2
<1> HIDE DEF b, rest
<1>6. v \div h = 2 * a + b
  <2>1. v = (2 * a + b) * h + rest
    <3>1. a * p = (2 * a) * h
      BY <1>1, <1>2
    <3>2. (2 * a + b) * h = (2 * a) * h + b * h /\ b * h \in Nat /\ (2 * a) * h \in Nat
      BY <1>1, <1>2, <1>4
    <3> HIDE DEF p
    <3> QED BY <1>2, <1>4, <3>1, <3>2
  <2>2. 2 * a + b \in Nat /\ rest \in Nat /\ rest < h
    BY <1>1, <1>2, <1>4
  <2> QED BY <1>1, <2>1, <2>2, DivUnique
<1>7. guard = b
  <2>1. (2 * a + b) % 2 = b
    <3>1. (2 * a) % 2 = 0 /\ (2 * a + 1) % 2 = 1 /\ 2 * a + 0 = 2 * a
      BY <1>2, Parity
    <3> QED BY <1>5, <3>1
  <2> QED BY <1>6, <2>1
<1>8. /\ b = 1 <=> lost >= h
      /\ b * h =< lost
      /\ b = 1 => (lost - b * h # 0 <=> lost > h)
  <2>1. CASE b = 0
    <3>1. lost = rest /\ b * h = 0
      BY <1>1, <1>4, <2>1
    <3> QED BY <1>1, <1>3, <1>4, <2>1, <3>1
  <2>2. CASE b = 1
    <3>1. lost = h + rest /\ b * h = h
      BY <1>1, <1>4, <2>2
    <3> QED BY <1>1, <1>3, <1>4, <2>2, <3>1
  <2> QED BY <1>5, <2>1, <2>2
<1> HIDE DEF guard, p
<1>9. guard \in {0, 1} /\ lost \in 0..(2 * h - 1) /\ (guard = 1 <=> lost >= h) /\ guard * h =< lost
      /\ (guard = 1 => (lost - guard * h # 0 <=> lost > h))
  BY <1>2, <1>5, <1>7, <1>8 DEF p
<1> QED BY <1>9 DEF guard, lost, p

LEMMA PairIsZero ==
  ASSUME NEW v \in Words(2 * IntBits)
  PROVE  IsZeroPair(v) <=> v = 0
<1> DEFINE p == 2^IntBits
           hi == HiHalf(v)
           lo == LoHalf(v)
<1>1. p \in Nat \ {0} /\ 2^(2 * IntBits) = p * p
  <2>1. IntBits \in 0..(2 * IntBits)
    BY IntPowers
  <2> QED BY <2>1, IntPowers
<1>2. v \in Nat
  <2>1. 2^(2 * IntBits) \in Nat
    <3> HIDE DEF p
    <3> QED BY <1>1
  <2> QED BY <2>1 DEF Words
<1>3. hi \in Nat /\ lo \in Nat /\ v = hi * p + lo
  <2>1. hi = v \div p /\ lo = v % p
    BY DEF HiHalf, LoHalf, LShr, Low
  <2> HIDE DEF hi, lo, p
  <2>2. v \div p \in Nat /\ v % p \in 0..(p - 1) /\ v = (v \div p) * p + (v % p)
    BY <1>1, <1>2, Division
  <2> QED BY <1>1, <2>1, <2>2
<1> HIDE DEF hi, lo, p
<1>4. hi = 0 /\ lo = 0 <=> v = 0
  <2>1. hi # 0 => hi * p > 0
    BY <1>1, <1>3
  <2>2. hi * p \in Nat /\ (hi = 0 => hi * p = 0)
    BY <1>1, <1>3
  <2> QED BY <1>3, <2>1, <2>2
<1> QED BY <1>4 DEF IsZeroPair, hi, lo

(* i64 to either format: what FromInt64 computes with pairs.                *)
LEMMA FromInt64Right ==
  ASSUME NEW f \in {F32, F64}, NEW v \in Words(2 * IntBits), NEW signed \in BOOLEAN
  PROVE  FromInt64(f, signed, v) = RefFromInt(f, 2 * IntBits, signed, v)
<1> DEFINE w == 2 * IntBits
           mag == IntMag(w, signed, v)
           s == IntSign(w, signed, v)
           k == w - 1 - CtlzPair(mag)
           right == k - f.m
           trunc == LshrPair(mag, right)
           lost == mag - ShlPair(trunc, right)
           guard == Bit(LshrPair(mag, right - 1), 0)
           sticky == ~IsZeroPair(lost - ShlPair(guard, right - 1))
           l == RoundNearest(f, trunc, guard, sticky)
<1>1. /\ RefFromInt(f, w, signed, v) = IF mag = 0 THEN Zero(f, 0) ELSE NearestInt(f, s, mag)
      /\ mag \in Words(w) /\ (mag = 0 <=> v = 0) /\ (v = 0 => s = 0)
  BY FromIntIs, MagnitudeIs
<1>2. FromInt64(f, signed, v) =
        IF IsZeroPair(mag) THEN Zero(f, s)
        ELSE IF k > f.m THEN Pack(f, s, k + Bias(f) + l.bump, l.man)
        ELSE Pack(f, s, k + Bias(f), ShlPair(mag, f.m - k))
  BY DEF FromInt64
<1>3. IsZeroPair(mag) <=> mag = 0
  <2> HIDE DEF mag
  <2> QED BY <1>1, PairIsZero DEF w
<1>4. CASE mag = 0
  <2> HIDE DEF mag, s
  <2> QED BY <1>1, <1>2, <1>3, <1>4 DEF w
<1>5. ASSUME mag # 0 PROVE FromInt64(f, signed, v) = NearestInt(f, s, mag)
  <2>1. k \in 0..(w - 1) /\ 2^k =< mag /\ mag < 2 * 2^k
    <3>1. mag \in Words(2 * IntBits) \ {0}
      BY <1>1, <1>5
    <3> HIDE DEF mag
    <3> QED BY <3>1, LeadingPair
  <2>2. w \in Nat \ {0} /\ WideBits \in Nat /\ w + 2 = WideBits /\ w = 2 * IntBits /\ IntBits \in Nat
        /\ 2^w \in Nat \ {0}
    BY IntPowers, WidePowers DEF WideBits
  <2>3. mag \in Nat /\ mag < 2^w
    <3> HIDE DEF mag, w
    <3> QED BY <1>1, <2>2 DEF Words
  <2>4. f.m \in Nat /\ f.m + 1 =< w /\ Bias(f) \in Nat
    BY <2>2, FormatOf
  <2> HIDE DEF mag, k, w, s
  <2>5. CASE k > f.m
    <3> DEFINE p == 2^right
               h == 2^(right - 1)
    <3>1. /\ k \in (f.m + 1)..(2 * IntBits - 1) /\ right \in 0..(2 * IntBits - 1)
          /\ right - 1 \in 0..(2 * IntBits - 1) /\ right - 1 \in 0..(WideBits - 1)
          /\ right \in 0..WideBits /\ right - 1 \in 0..WideBits /\ (right - 1) + 1 = right
          /\ right - 1 \in 0..(2 * IntBits)
      BY <2>1, <2>2, <2>4, <2>5
    <3> HIDE DEF right
    <3>2. p = 2 * h /\ h \in Nat \ {0}
      <4>1. 2^((right - 1) + 1) = 2 * 2^(right - 1)
        BY <3>1, WidePowers DEF PowersDouble
      <4> QED BY <3>1, <4>1, WidePowers
    <3>3. trunc = mag \div p /\ LshrPair(mag, right - 1) = mag \div h
      BY <1>1, <3>1, LshrPairIs DEF w
    <3>4. Bit(mag \div h, 0) = (mag \div h) % 2
      <4>1. 2^0 = 1
        BY WidePowers DEF PowersDouble
      <4>2. mag \div h \in Nat
        <5> HIDE DEF h
        <5> QED BY <2>3, <3>2, Division
      <4>3. (mag \div h) \div 1 = mag \div h
        <5> DEFINE a == mag \div h
        <5>1. a \in Nat /\ a = a * 1 + 0 /\ 0 < 1 /\ 0 \in Nat /\ 1 \in Nat \ {0}
          BY <4>2
        <5> HIDE DEF a
        <5>2. a \div 1 = a
          BY <5>1, DivUnique
        <5> QED BY <5>2 DEF a
      <4> QED BY <4>1, <4>3 DEF Bit
    <3>5. guard = (mag \div h) % 2
      BY <3>3, <3>4
    <3> HIDE DEF p, h, trunc
    <3>6. trunc \in Nat /\ mag = trunc * p + (mag % p) /\ p \in Nat \ {0} /\ mag % p \in 0..(p - 1)
      <4>1. p \in Nat \ {0}
        BY <3>2
      <4>2. mag = (mag \div p) * p + (mag % p) /\ mag \div p \in Nat /\ mag % p \in 0..(p - 1)
        BY <2>3, <4>1, Division
      <4> QED BY <3>3, <4>1, <4>2
    <3>7. ShlPair(trunc, right) = trunc * p
      <4> DEFINE room == 2^(2 * IntBits - right)
      <4>1. room \in Nat \ {0} /\ 2^w = room * p
        <5>1. right \in 0..w /\ w \in 0..WideBits /\ 2 * IntBits - right \in 0..WideBits
          BY <2>2, <3>1
        <5>2. 2^w = 2^(w - right) * 2^right
          BY <5>1, PowerSplit
        <5> QED BY <5>1, <5>2, WidePowers DEF w, p
      <4> HIDE DEF room
      <4>2. 0 * p =< mag /\ mag < room * p /\ 0 \in Nat /\ room \in Nat
        BY <2>3, <3>6, <4>1
      <4>3. mag \div p \in 0..(room - 1)
        BY <2>3, <3>6, <4>2, QuotientBounds
      <4>4. trunc < room /\ trunc =< mag
        <5>1. trunc < room
          BY <3>3, <4>1, <4>3
        <5>2. trunc * 1 =< trunc * p
          <6>1. 1 * trunc =< p * trunc
            BY <3>6, TimesMonotone
          <6> QED BY <3>6, <6>1
        <5>3. trunc * p \in Nat /\ mag % p \in Nat
          BY <3>6
        <5> QED BY <3>6, <5>1, <5>2, <5>3
      <4>5. trunc \in Words(2 * IntBits)
        BY <2>2, <2>3, <3>6, <4>4 DEF Words, w
      <4> QED BY <3>1, <4>4, <4>5, ShlPairIs DEF room, p
    <3>8. lost = mag % p /\ lost \in 0..(p - 1)
      <4>1. trunc * p \in Nat /\ mag % p \in Nat
        BY <3>6
      <4> QED BY <3>6, <3>7, <4>1
    <3> HIDE DEF lost, guard
    <3>9. /\ guard \in {0, 1} /\ (guard = 1 <=> lost >= h) /\ guard * h =< lost
          /\ (guard = 1 => (lost - guard * h # 0 <=> lost > h))
      BY <2>3, <3>2, <3>5, <3>8, NextBit
    <3>10. ShlPair(guard, right - 1) = guard * h
      <4>1. 2 * IntBits - (right - 1) \in 1..(2 * IntBits)
        BY <2>2, <3>1
      <4>2. 2^(2 * IntBits - (right - 1)) > 1 /\ 2^(2 * IntBits - (right - 1)) \in Nat
        <5> DEFINE j == 2 * IntBits - (right - 1)
        <5>1. j \in 0..(2 * IntBits) /\ j \in Nat \ {0}
          BY <2>2, <4>1
        <5> HIDE DEF j
        <5>2. 2^j > j /\ 2^j \in Nat
          BY <5>1, IntPowers
        <5>3. 2^j > 1
          BY <5>1, <5>2
        <5> QED BY <5>2, <5>3 DEF j
      <4>3. guard \in Words(2 * IntBits) /\ guard < 2^(2 * IntBits - (right - 1))
        <5>1. 2^(2 * IntBits) > 1 /\ 2^(2 * IntBits) \in Nat
          <6>1. 2 * IntBits \in 0..(2 * IntBits) /\ 2 * IntBits >= 1
            BY <2>2
          <6>2. 2^(2 * IntBits) > 2 * IntBits /\ 2^(2 * IntBits) \in Nat
            BY <6>1, IntPowers
          <6> QED BY <2>2, <6>1, <6>2
        <5>2. guard \in 0..(2^(2 * IntBits) - 1)
          BY <3>9, <5>1
        <5>3. guard < 2^(2 * IntBits - (right - 1))
          BY <3>9, <4>2
        <5> QED BY <5>2, <5>3 DEF Words
      <4> QED BY <3>1, <4>3, ShlPairIs DEF h
    <3>11. sticky <=> lost - guard * h # 0
      <4> DEFINE rest == lost - guard * h
      <4>1. rest \in Words(2 * IntBits)
        <5>1. rest \in Nat /\ rest =< lost /\ lost =< mag
          <6>1. guard * h \in Nat
            BY <3>2, <3>9
          <6>2. trunc * p \in Nat /\ lost \in Nat /\ mag = trunc * p + lost
            BY <3>6, <3>8
          <6> QED BY <2>3, <3>9, <6>1, <6>2
        <5> HIDE DEF rest
        <5>2. rest < 2^w
          BY <2>2, <2>3, <5>1, <3>8, <3>6
        <5> QED BY <2>2, <5>1, <5>2 DEF Words, w
      <4>2. sticky <=> ~IsZeroPair(rest)
        BY <3>10
      <4> HIDE DEF rest
      <4>3. IsZeroPair(rest) <=> rest = 0
        BY <4>1, PairIsZero
      <4>4. sticky <=> rest # 0
        BY <4>2, <4>3
      <4> QED BY <4>4 DEF rest
    <3>12. sticky \in BOOLEAN
      OBVIOUS
    <3> HIDE DEF sticky
    <3>13. /\ guard = 1 <=> mag % 2^(k - f.m) >= 2^(k - f.m - 1)
           /\ guard = 1 => (sticky <=> mag % 2^(k - f.m) > 2^(k - f.m - 1))
      BY <3>8, <3>9, <3>11 DEF p, h, right
    <3> DEFINE ll == RoundNearest(f, mag \div 2^(k - f.m), guard, sticky)
    <3>14. l = ll
      BY <3>3 DEF p, right
    <3>15. NearestInt(f, s, mag) = Pack(f, s, k + Bias(f) + ll.bump, ll.man)
      <4>1. guard \in {0, 1}
        BY <3>9
      <4> QED BY <2>1, <2>3, <3>1, <3>12, <3>13, <4>1, IntegerRounds
    <3> HIDE DEF l, ll
    <3> QED BY <1>2, <1>3, <1>5, <2>5, <3>14, <3>15
  <2>6. CASE ~(k > f.m)
    <3> DEFINE u == f.m - k
               room == 2^(2 * IntBits - u)
    <3>1. k \in 0..f.m /\ u \in 0..(2 * IntBits - 1) /\ 2 * IntBits - u \in 0..WideBits
          /\ k + 1 \in 0..(2 * IntBits - u) /\ k \in 0..(WideBits - 1)
      BY <2>1, <2>2, <2>4, <2>6
    <3>2. mag < room
      <4>1. 2^(k + 1) = 2 * 2^k
        BY <3>1, WidePowers DEF PowersDouble
      <4>2. 2^(k + 1) =< room
        <5> HIDE DEF u
        <5> QED BY <3>1, PowerSplit
      <4>3. room \in Nat /\ 2^k \in Nat
        BY <3>1, WidePowers
      <4> HIDE DEF room
      <4> QED BY <2>1, <2>3, <4>1, <4>2, <4>3
    <3>3. ShlPair(mag, u) = mag * 2^u
      <4> HIDE DEF u
      <4> QED BY <1>1, <3>1, <3>2, ShlPairIs DEF w
    <3>4. NearestInt(f, s, mag) = Pack(f, s, k + Bias(f), mag * 2^(f.m - k))
      BY <2>1, <2>3, <3>1, IntegerExact
    <3> HIDE DEF l
    <3> QED BY <1>2, <1>3, <1>5, <2>6, <3>3, <3>4
  <2> QED BY <2>5, <2>6
<1> HIDE DEF mag, s
<1> QED BY <1>1, <1>4, <1>5 DEF w

(* The lower bits of a word made of two parts.                              *)
LEMMA LowOfParts ==
  ASSUME NEW a \in Nat, NEW p \in Nat \ {0}, NEW b \in 0..(p - 1), NEW t \in Nat \ {0}
  PROVE  (a * p + b) % (t * p) = (a % t) * p + b
<1> DEFINE c == a \div t
           l == a % t
<1>1. c \in Nat /\ l \in 0..(t - 1) /\ a = c * t + l
  BY Division
<1> HIDE DEF c, l
<1>2. l \in Nat /\ b \in Nat /\ b < p /\ l + 1 =< t /\ t * p \in Nat \ {0}
  BY <1>1
<1>3. (l + 1) * p =< t * p /\ (l + 1) * p = l * p + p /\ l * p \in Nat
  <2>1. l + 1 \in Nat /\ t \in Nat /\ p \in Nat
    BY <1>2
  <2> QED BY <1>2, <2>1, TimesMonotone
<1>4. l * p + b < t * p /\ l * p + b \in Nat
  BY <1>2, <1>3
<1>5. a * p + b = c * (t * p) + (l * p + b)
  <2>1. a * p = c * (t * p) + l * p
    <3>1. (c * t + l) * p = c * (t * p) + l * p
      BY <1>1, <1>2
    <3> QED BY <1>1, <3>1
  <2>2. c * (t * p) \in Nat
    <3> DEFINE z == t * p
    <3>1. z \in Nat
      BY <1>2
    <3> HIDE DEF z
    <3>2. c * z \in Nat
      BY <1>1, <3>1
    <3> QED BY <3>2 DEF z
  <2> QED BY <1>2, <1>3, <2>1, <2>2
<1> DEFINE z == t * p
           y0 == l * p + b
           x0 == a * p + b
<1>6. z \in Nat \ {0} /\ y0 \in Nat /\ y0 < z /\ x0 = c * z + y0
  BY <1>2, <1>4, <1>5
<1> HIDE DEF z, y0, x0
<1>7. x0 \in Nat
  <2>1. c * z \in Nat
    BY <1>1, <1>6
  <2> QED BY <1>6, <2>1
<1>8. x0 % z = y0
  BY <1>1, <1>6, <1>7, DivUnique
<1> QED BY <1>8 DEF x0, y0, z, l

(* A sign, 0 or 1, at the top of a word.                                    *)
LEMMA SignShifted ==
  ASSUME NEW w \in Nat, NEW s \in {0, 1}
  PROVE  Shl(w, s, w - 1) = s * 2^(w - 1)
<1>1. w - (w - 1) = 1
  OBVIOUS
<1>2. 2^1 = 2
  <2>1. 0 \in 0..(WideBits - 1) /\ 0 + 1 = 1 /\ 2 * 1 = 2
    BY WidePowers
  <2>2. 2^0 = 1 /\ 2^(0 + 1) = 2 * 2^0
    BY <2>1, WidePowers DEF PowersDouble
  <2> QED BY <2>1, <2>2
<1>3. s % 2 = s
  OBVIOUS
<1> QED BY <1>1, <1>2, <1>3 DEF Shl

(* A double made of its halves.                                             *)
LEMMA PairPacks ==
  ASSUME NEW s \in {0, 1}, NEW e \in Int, NEW a \in Nat, NEW b \in 0..(2^IntBits - 1)
  PROVE  LET top == F64.m - IntBits
         IN  Pair(Shl(IntBits, s, IntBits - 1) + Low(e, F64.e) * 2^top + Low(a, top), b)
               = Pack(F64, s, e, a * 2^IntBits + b)
<1> DEFINE top == F64.m - IntBits
           p == 2^IntBits
           h == 2^(IntBits - 1)
           t == 2^top
           u == Low(e, F64.e)
           r0 == a % t
<1>1. top \in 0..WideBits /\ IntBits \in 0..WideBits /\ top + IntBits = F64.m /\ F64.m =< WideBits
      /\ IntBits \in Nat /\ 2 * IntBits \in Nat
  <2>1. IntBits \in Nat /\ F64.m \in Nat /\ F64.m =< 2 * IntBits /\ WideBits \in Nat
        /\ WideBits = 2 * IntBits + 2
    BY IntPowers, FormatParts, WidePowers DEF WideBits
  <2>2. F64.m > IntBits
    BY FormatsFit
  <2> HIDE DEF WideBits
  <2> QED BY <2>1, <2>2
<1>2. p \in Nat \ {0} /\ t \in Nat \ {0} /\ h \in Nat \ {0} /\ 2^F64.m = t * p
      /\ 2^(2 * IntBits - 1) = h * p
  <2>1. 2^(top + IntBits) = 2^top * 2^IntBits
    <3> HIDE DEF top
    <3> QED BY <1>1, WidePowers
  <2>2. IntBits - 1 \in 0..(2 * IntBits)
    BY IntPowers
  <2>3. 2^(IntBits - 1) \in Nat \ {0} /\ 2^(2 * IntBits - 1) = 2^(IntBits - 1) * 2^IntBits
    BY <2>2, IntPowers
  <2>4. 2^top \in Nat \ {0} /\ 2^IntBits \in Nat \ {0}
    <3> HIDE DEF top
    <3> QED BY <1>1, WidePowers
  <2> QED BY <1>1, <2>1, <2>3, <2>4
<1>3. u \in Nat
  <2> DEFINE z == 2^F64.e
  <2>1. z \in Nat \ {0}
    <3>1. F64.e \in 0..WideBits
      BY FormatParts, IntPowers DEF WideBits
    <3> QED BY <3>1, WidePowers
  <2> HIDE DEF z
  <2>2. e % z \in 0..(z - 1)
    BY <2>1, Remainders
  <2>3. e % z \in Nat
    BY <2>1, <2>2
  <2> QED BY <2>3 DEF u, Low, z
<1>4. Shl(IntBits, s, IntBits - 1) = s * h /\ Shl(2 * IntBits, s, 2 * IntBits - 1) = s * (h * p)
  BY <1>1, <1>2, SignShifted
<1>5. r0 \in Nat
  <2> HIDE DEF t
  <2>1. a % t \in 0..(t - 1)
    BY <1>2, Division
  <2> QED BY <1>2, <2>1
<1>6. Low(a * p + b, F64.m) = r0 * p + b
  <2>1. Low(a * p + b, F64.m) = (a * p + b) % (t * p)
    BY <1>2 DEF Low
  <2> HIDE DEF p, t
  <2> QED BY <1>2, <2>1, LowOfParts DEF p
<1>7. Low(a, top) = r0
  BY DEF Low
<1> DEFINE left == Pair(Shl(IntBits, s, IntBits - 1) + u * t + Low(a, top), b)
           right == Pack(F64, s, e, a * p + b)
<1>8. left = (s * h + u * t + r0) * p + b
  BY <1>4, <1>7 DEF Pair
<1>9. right = s * (h * p) + u * (t * p) + (r0 * p + b)
  <2>1. right = Shl(2 * IntBits, s, 2 * IntBits - 1) + u * 2^F64.m + Low(a * p + b, F64.m)
    BY FormatParts DEF Pack
  <2> QED BY <1>2, <1>4, <1>6, <2>1
<1> HIDE DEF r0, u, t, h, p, left, right
<1>10. (s * h + u * t + r0) * p + b = s * (h * p) + u * (t * p) + (r0 * p + b)
  <2>1. b \in Nat /\ s \in Nat
    BY <1>2 DEF p
  <2>2. (s * h + u * t + r0) * p = (s * h) * p + (u * t) * p + r0 * p
    BY <1>2, <1>3, <1>5, <2>1
  <2>3. (s * h) * p = s * (h * p) /\ (u * t) * p = u * (t * p)
    BY <1>2, <1>3, <2>1
  <2>4. s * (h * p) \in Nat /\ u * (t * p) \in Nat /\ r0 * p \in Nat
    <3>1. h * p \in Nat /\ t * p \in Nat
      BY <1>2
    <3> DEFINE z1 == h * p
               z2 == t * p
    <3>2. z1 \in Nat /\ z2 \in Nat
      BY <3>1
    <3> HIDE DEF z1, z2
    <3>3. s * z1 \in Nat /\ u * z2 \in Nat /\ r0 * p \in Nat
      BY <1>2, <1>3, <1>5, <2>1, <3>2
    <3> QED BY <3>3 DEF z1, z2
  <2> QED BY <2>1, <2>2, <2>3, <2>4
<1>11. left = right
  BY <1>8, <1>9, <1>10
<1> QED BY <1>11 DEF left, right, u, t, p

(* i32 to double: the two halves are those of the shifted magnitude.        *)
LEMMA Int32ToDoubleRight ==
  ASSUME NEW v \in Words(IntBits), NEW signed \in BOOLEAN
  PROVE  emitInt32ToDoubleBody(signed, v) = RefFromInt(F64, IntBits, signed, v)
<1> DEFINE mag == IntMag(IntBits, signed, v)
           s == IntSign(IntBits, signed, v)
           c == Ctlz(IntBits, mag)
           hi == LeadingBit(mag)
           m == F64.m
           shift == Sub(IntBits, m, hi)
           small == shift < IntBits
           top == m - IntBits
           manHi == IF small THEN LShr(mag, IntBits - shift) ELSE Shl(IntBits, mag, shift - IntBits)
           manLo == IF small THEN Shl(IntBits, mag, shift) ELSE 0
           packHi == Shl(IntBits, s, IntBits - 1) + Low(hi + Bias(F64), F64.e) * 2^top + Low(manHi, top)
           p == 2^IntBits
<1>1. /\ RefFromInt(F64, IntBits, signed, v) = IF mag = 0 THEN Zero(F64, 0) ELSE NearestInt(F64, s, mag)
      /\ mag \in Words(IntBits) /\ s \in {0, 1}
  BY FromIntIs, MagnitudeIs
<1>2. emitInt32ToDoubleBody(signed, v) = IF mag = 0 THEN 0 ELSE Pair(packHi, manLo)
  <2> DEFINE by == Int32ToDoubleShifts(signed, v)
             upper == IF by.small THEN LShr(mag, by.right) ELSE Shl(IntBits, mag, by.big)
             lower == IF by.small THEN Shl(IntBits, mag, by.left) ELSE 0
  <2>1. /\ by.small = small
        /\ by.right = IF small THEN IntBits - shift ELSE 1
        /\ by.left = IF small THEN shift ELSE 0
        /\ by.big = IF small THEN 0 ELSE shift - IntBits
    BY DEF Int32ToDoubleShifts
  <2>2. upper = manHi /\ lower = manLo
    <3> HIDE DEF by, small, mag, shift
    <3> QED BY <2>1
  <2>3. emitInt32ToDoubleBody(signed, v) =
          IF mag = 0 THEN 0
          ELSE Pair(Shl(IntBits, s, IntBits - 1) + Low(hi + Bias(F64), F64.e) * 2^top
                      + Low(upper, top), lower)
    BY DEF emitInt32ToDoubleBody
  <2> HIDE DEF upper, lower, manHi, manLo, mag, s, hi, top
  <2> QED BY <2>2, <2>3
<1>3. CASE mag = 0
  <2>1. Zero(F64, 0) = 0
    BY ZeroWord
  <2> HIDE DEF mag
  <2> QED BY <1>1, <1>2, <1>3, <2>1
<1>4. ASSUME mag # 0 PROVE Pair(packHi, manLo) = NearestInt(F64, s, mag)
  <2>1. /\ IntBits \in 1..(2 * IntBits) /\ IntBits \in Nat \ {0} /\ p > IntBits /\ p \in Nat \ {0}
        /\ p > 2 * IntBits - 1
        /\ mag \in Words(IntBits) \ {0} /\ mag \in Nat /\ mag < p
        /\ 2 * IntBits + 2 = WideBits /\ WideBits \in Nat
    <3> HIDE DEF mag
    <3>1. IntBits \in Nat \ {0} /\ IntBits \in 0..(2 * IntBits) /\ IntBits - 1 \in 0..(2 * IntBits)
      BY IntPowers
    <3>2. 2^IntBits > IntBits /\ 2^IntBits \in Nat \ {0} /\ 2^(IntBits - 1) > IntBits - 1
          /\ 2^IntBits = 2 * 2^(IntBits - 1) /\ 2^(IntBits - 1) \in Nat
      BY <3>1, IntPowers
    <3>3. 2^IntBits > 2 * IntBits - 1
      <4> DEFINE h == 2^(IntBits - 1)
      <4>1. h \in Nat /\ h > IntBits - 1 /\ 2^IntBits = 2 * h
        BY <3>2
      <4> HIDE DEF h
      <4> QED BY <3>1, <4>1
    <3> QED BY <1>1, <1>4, <3>1, <3>2, <3>3, WidePowers DEF Words, WideBits
  <2>2. c \in 0..(IntBits - 1) /\ 2^(IntBits - 1 - c) =< mag /\ mag < 2^(IntBits - c)
    <3> HIDE DEF mag, p
    <3> QED BY <2>1, LeadingOne
  <2> DEFINE k == IntBits - 1 - c
  <2>3. k \in 0..(IntBits - 1) /\ IntBits - 1 - c = k /\ IntBits - c = k + 1
    <3> HIDE DEF c, p
    <3> QED BY <2>1, <2>2
  <2>4. hi = k
    <3>1. hi = k % p
      BY DEF LeadingBit, Sub
    <3> HIDE DEF k, hi, p
    <3>2. k \in Nat /\ k < p
      BY <2>1, <2>3
    <3> QED BY <2>1, <3>1, <3>2, ModSmall
  <2>5. 2^k =< mag /\ mag < 2 * 2^k /\ k \in 0..(WideBits - 1) /\ 2^k \in Nat \ {0}
    <3> HIDE DEF k, c, mag, p
    <3>1. k \in 0..(WideBits - 1) /\ k \in 0..WideBits
      BY <2>1, <2>3
    <3>2. 2^(k + 1) = 2 * 2^k
      BY <3>1, WidePowers DEF PowersDouble
    <3> QED BY <2>2, <2>3, <3>1, <3>2, WidePowers
  <2>6. m \in Nat /\ m =< 2 * IntBits - 5 /\ m > IntBits /\ Bias(F64) \in Nat
    BY FormatParts, FormatOf, FormatsFit
  <2> DEFINE g == m - k
  <2>7. shift = g /\ g \in Nat /\ g =< 2 * IntBits /\ g >= 2 /\ k \in 0..m
    <3> HIDE DEF k, c, mag, p, m
    <3>1. g \in Nat /\ g =< 2 * IntBits /\ g < p /\ g >= 2 /\ k \in 0..m
      BY <2>1, <2>3, <2>6
    <3>2. shift = g % p
      BY <2>4 DEF Sub, p
    <3> HIDE DEF g, shift
    <3> QED BY <2>1, <3>1, <3>2, ModSmall
  <2> HIDE DEF mag, k, c, hi, m, shift, s, p
  <2>8. manHi \in Nat /\ manLo \in 0..(p - 1) /\ manHi * p + manLo = mag * 2^g
    <3>1. CASE g < IntBits
      <4> DEFINE j == IntBits - g
                 pj == 2^j
                 pg == 2^g
                 above == mag \div pj
                 below == mag % pj
      <4>1. j \in 0..WideBits /\ g \in 0..WideBits /\ j + g = IntBits /\ j + g =< WideBits
        BY <2>1, <2>7, <3>1
      <4>2. pj \in Nat \ {0} /\ pg \in Nat \ {0} /\ p = pj * pg
        <5> HIDE DEF j, g
        <5>1. 2^(j + g) = 2^j * 2^g
          BY <4>1, WidePowers
        <5> QED BY <4>1, <5>1, WidePowers DEF p
      <4>3. small /\ manHi = above /\ manLo = below * pg
        BY <2>7, <3>1 DEF LShr, Shl
      <4> HIDE DEF manHi, manLo, pj, pg, g, small
      <4>4. above \in Nat /\ below \in 0..(pj - 1) /\ mag = above * pj + below
        BY <2>1, <4>2, Division
      <4> HIDE DEF above, below
      <4>5. below \in Nat /\ below + 1 =< pj
        BY <4>2, <4>4
      <4>6. (below + 1) * pg =< pj * pg /\ (below + 1) * pg = below * pg + pg /\ below * pg \in Nat
        <5>1. below + 1 \in Nat /\ pj \in Nat /\ pg \in Nat
          BY <4>2, <4>5
        <5> QED BY <4>2, <4>5, <5>1, TimesMonotone
      <4>7. manLo \in 0..(p - 1)
        <5>1. pj * pg \in Nat
          BY <4>2
        <5> QED BY <2>1, <4>2, <4>3, <4>6, <5>1
      <4>8. mag * pg = above * p + below * pg
        <5>1. (above * pj + below) * pg = above * (pj * pg) + below * pg
          BY <4>2, <4>4, <4>5
        <5> QED BY <4>2, <4>4, <5>1
      <4> QED BY <4>3, <4>4, <4>7, <4>8 DEF pg
    <3>2. CASE ~(g < IntBits)
      <4> DEFINE j == g - IntBits
                 pj == 2^j
                 room == 2^(IntBits - j)
      <4>1. j \in 0..WideBits /\ IntBits \in 0..WideBits /\ g = j + IntBits /\ j + IntBits =< WideBits
            /\ k + 1 \in 0..(IntBits - j) /\ IntBits - j \in 0..WideBits
        BY <2>1, <2>3, <2>6, <2>7, <3>2
      <4>2. pj \in Nat \ {0} /\ 2^g = pj * p
        <5> HIDE DEF j, g
        <5>1. 2^(j + IntBits) = 2^j * 2^IntBits
          BY <4>1, WidePowers
        <5> QED BY <4>1, <5>1, WidePowers DEF p
      <4>3. ~small /\ manHi = (mag % room) * pj /\ manLo = 0
        BY <2>7, <3>2 DEF Shl
      <4>4. mag % room = mag
        <5>1. 2^(k + 1) =< room /\ room \in Nat
          <6> HIDE DEF j
          <6> QED BY <4>1, PowerSplit, WidePowers
        <5>2. 2^(k + 1) = 2 * 2^k
          BY <2>5, WidePowers DEF PowersDouble
        <5> HIDE DEF room
        <5>3. mag < room
          BY <2>1, <2>5, <5>1, <5>2
        <5> QED BY <2>1, <5>1, <5>3, ModSmall
      <4> HIDE DEF room, pj, g, manHi, manLo, small
      <4>5. manHi \in Nat /\ manHi = mag * pj
        BY <2>1, <4>2, <4>3, <4>4
      <4>6. (mag * pj) * p = mag * (pj * p) /\ (mag * pj) * p \in Nat
        BY <2>1, <4>2
      <4> QED BY <2>1, <4>2, <4>3, <4>5, <4>6
    <3> QED BY <3>1, <3>2
  <2> HIDE DEF manHi, manLo, g
  <2>9. k + Bias(F64) \in Int
    BY <2>3, <2>6
  <2>10. Pair(packHi, manLo) = Pack(F64, s, k + Bias(F64), manHi * p + manLo)
    <3>1. packHi = Shl(IntBits, s, IntBits - 1) + Low(k + Bias(F64), F64.e) * 2^(F64.m - IntBits)
                   + Low(manHi, F64.m - IntBits)
      BY <2>4 DEF m
    <3> DEFINE e == k + Bias(F64)
    <3>2. e \in Int /\ manLo \in 0..(2^IntBits - 1) /\ manHi \in Nat /\ s \in {0, 1}
      BY <1>1, <2>8, <2>9 DEF p
    <3> HIDE DEF e, packHi
    <3>3. Pair(Shl(IntBits, s, IntBits - 1) + Low(e, F64.e) * 2^(F64.m - IntBits)
                 + Low(manHi, F64.m - IntBits), manLo)
            = Pack(F64, s, e, manHi * 2^IntBits + manLo)
      BY <3>2, PairPacks
    <3> QED BY <3>1, <3>3 DEF e, p
  <2>11. NearestInt(F64, s, mag) = Pack(F64, s, k + Bias(F64), mag * 2^(F64.m - k))
    <3>1. k \in 0..F64.m
      BY <2>7 DEF m
    <3> QED BY <2>1, <2>5, <3>1, IntegerExact
  <2> HIDE DEF packHi
  <2> QED BY <2>8, <2>10, <2>11 DEF g, m
<1> HIDE DEF mag, s, packHi, manLo
<1> QED BY <1>1, <1>2, <1>3, <1>4

-----------------------------------------------------------------------------
(* Packing, of any integers: always a word, and its parts are what was      *)
(* packed where they fit.                                                   *)
LEMMA PackIs ==
  ASSUME NEW f \in {F32, F64}, NEW s \in {0, 1}, NEW e \in Int, NEW man \in Int
  PROVE  LET u == Low(e, f.e)
             b == Low(man, f.m)
         IN  /\ u \in 0..MaxExp(f) /\ b \in 0..(2^f.m - 1)
             /\ Pack(f, s, e, man) = s * 2^(f.w - 1) + u * 2^f.m + b
             /\ Pack(f, s, e, man) \in Words(f.w)
<1> DEFINE p == 2^f.m
           qe == 2^f.e
           h == 2^(f.w - 1)
           u == Low(e, f.e)
           b == Low(man, f.m)
           all == s * h + u * p + b
<1>1. p \in Nat \ {0} /\ qe \in Nat \ {0} /\ h = qe * p /\ MaxExp(f) = qe - 1 /\ f.w \in Nat /\ 2^f.w = 2 * h
  <2>1. p \in Nat \ {0} /\ h = qe * p /\ qe = 2 * Bias(f) + 2 /\ Bias(f) \in Nat /\ f.w \in Nat
        /\ 2^f.w = 2 * h
    BY FormatOf
  <2>2. MaxExp(f) = qe - 1
    BY DEF MaxExp
  <2> HIDE DEF qe, p, h
  <2> QED BY <2>1, <2>2
<1>2. u \in 0..(qe - 1) /\ b \in 0..(p - 1)
  <2>1. u = e % qe /\ b = man % p
    BY DEF Low
  <2> HIDE DEF u, b, p, qe
  <2> QED BY <1>1, <2>1, Remainders
<1>3. Pack(f, s, e, man) = all
  <2>1. Shl(f.w, s, f.w - 1) = s * h
    BY <1>1, SignShifted
  <2> QED BY <2>1 DEF Pack
<1> HIDE DEF p, qe, h, u, b
<1>4. all \in 0..(2 * h - 1)
  <2>1. u \in Nat /\ b \in Nat /\ b < p /\ u + 1 =< qe /\ qe \in Nat /\ p \in Nat
    BY <1>1, <1>2
  <2>2. (u + 1) * p =< qe * p /\ (u + 1) * p = u * p + p /\ u * p \in Nat
    <3>1. u + 1 \in Nat
      BY <2>1
    <3> QED BY <2>1, <3>1, TimesMonotone
  <2>3. u * p + b < h /\ h \in Nat
    <3>1. qe * p \in Nat
      BY <2>1
    <3> QED BY <1>1, <2>1, <2>2, <3>1
  <2>4. s * h = 0 \/ s * h = h
    BY <2>3
  <2> QED BY <2>1, <2>2, <2>3, <2>4
<1> HIDE DEF all
<1>5. Pack(f, s, e, man) \in Words(f.w)
  BY <1>1, <1>3, <1>4 DEF Words
<1> QED BY <1>1, <1>2, <1>3, <1>5 DEF u, b, p, h, all

LEMMA PackParts ==
  ASSUME NEW f \in {F32, F64}, NEW s \in {0, 1}, NEW e \in 0..MaxExp(f), NEW man \in Int
  PROVE  LET v == Pack(f, s, e, man)
         IN  Sign(f, v) = s /\ ExpOf(f, v) = e /\ ManOf(f, v) = Low(man, f.m)
<1> DEFINE p == 2^f.m
           qe == 2^f.e
           h == 2^(f.w - 1)
           b == Low(man, f.m)
           v == Pack(f, s, e, man)
<1>1. p \in Nat \ {0} /\ qe \in Nat \ {0} /\ h = qe * p /\ MaxExp(f) = qe - 1 /\ h \in Nat \ {0}
  <2>1. p \in Nat \ {0} /\ h = qe * p /\ qe = 2 * Bias(f) + 2 /\ Bias(f) \in Nat /\ h \in Nat \ {0}
    BY FormatOf
  <2>2. MaxExp(f) = qe - 1
    BY DEF MaxExp
  <2> HIDE DEF qe, p, h
  <2> QED BY <2>1, <2>2
<1>2. e \in Nat /\ e < qe /\ e + 1 =< qe
  BY <1>1
<1>3. Low(e, f.e) = e
  <2> HIDE DEF qe
  <2> QED BY <1>1, <1>2, ModSmall DEF Low, qe
<1>4. b \in 0..(p - 1) /\ v = s * h + e * p + b /\ v \in Words(f.w)
  <2> DEFINE u == Low(e, f.e)
  <2>1. e \in Int
    BY <1>2
  <2>2. b \in 0..(p - 1) /\ v = s * h + u * p + b /\ v \in Words(f.w)
    BY <2>1, PackIs
  <2>3. u = e
    BY <1>3
  <2> HIDE DEF u, b, v, h, p
  <2> QED BY <2>2, <2>3
<1> HIDE DEF b, v
<1>5. e * p + b < h /\ e * p + b \in Nat /\ b \in Nat /\ b < p /\ e * p \in Nat /\ s * h \in Nat
  <2> HIDE DEF p, qe, h
  <2>1. (e + 1) * p =< qe * p /\ (e + 1) * p = e * p + p /\ e * p \in Nat
    <3>1. e + 1 \in Nat /\ p \in Nat /\ qe \in Nat
      BY <1>1, <1>2
    <3> QED BY <1>1, <1>2, <3>1, TimesMonotone
  <2>2. s * h \in Nat
    BY <1>1
  <2>3. b \in Nat /\ b < p
    BY <1>1, <1>4
  <2>4. e * p + p =< h
    BY <1>1, <2>1
  <2>5. e * p + b < h /\ e * p + b \in Nat
    BY <1>1, <2>1, <2>3, <2>4
  <2> QED BY <2>1, <2>2, <2>3, <2>5
<1>6. v \in Nat /\ v = s * h + (e * p + b) /\ v = (s * qe + e) * p + b
  <2> HIDE DEF p, qe, h
  <2>1. (s * qe + e) * p = s * (qe * p) + e * p
    BY <1>1, <1>2
  <2>2. v = s * h + e * p + b
    BY <1>4
  <2>3. s * (qe * p) = s * h
    BY <1>1
  <2>4. (s * qe + e) * p = s * h + e * p
    BY <2>1, <2>3
  <2>5. v = s * h + (e * p + b) /\ v \in Nat
    BY <1>5, <2>2
  <2>6. v = (s * h + e * p) + b
    BY <1>5, <2>2
  <2> QED BY <2>4, <2>5, <2>6
<1>7. v \div h = s
  <2> HIDE DEF p, qe, h
  <2>1. s \in Nat
    OBVIOUS
  <2> QED BY <1>1, <1>5, <1>6, <2>1, DivUnique
<1>8. v \div p = s * qe + e /\ v % p = b
  <2> HIDE DEF p, qe, h
  <2>1. s * qe + e \in Nat
    BY <1>1, <1>2
  <2> QED BY <1>1, <1>5, <1>6, <2>1, DivUnique
<1>9. (s * qe + e) % qe = e
  <2> HIDE DEF p, qe, h
  <2>1. s * qe + e \in Nat /\ s \in Nat
    BY <1>1, <1>2
  <2> QED BY <1>1, <1>2, <2>1, DivUnique
<1>10. Sign(f, v) = s
  BY <1>7 DEF Sign, LShr
<1>11. ExpOf(f, v) = e
  BY <1>8, <1>9 DEF ExpOf, LShr, Low
<1>12. ManOf(f, v) = b
  BY <1>8 DEF ManOf, Low
<1> QED BY <1>10, <1>11, <1>12 DEF v, b

-----------------------------------------------------------------------------
(* Between the formats. The parts of a shifted mantissa.                    *)
LEMMA FormatGap ==
  LET gap == F64.m - F32.m
  IN  /\ gap \in 2..(IntBits - 1) /\ gap \in 0..WideBits /\ F32.m \in 0..F64.m /\ F64.m \in 0..WideBits
      /\ F32.m \in 0..WideBits /\ F64.m \in Nat /\ F32.m \in Nat
      /\ 2^F64.m = 2^gap * 2^F32.m /\ 2^gap \in Nat \ {0}
      /\ Bias(F32) \in Nat \ {0} /\ Bias(F64) \in Nat /\ Bias(F32) =< Bias(F64)
<1> DEFINE gap == F64.m - F32.m
<1>1. /\ gap \in 2..(IntBits - 1) /\ gap \in 0..WideBits /\ F32.m \in 0..F64.m /\ F64.m \in 0..WideBits
      /\ F32.m \in 0..WideBits /\ F64.m \in Nat /\ F32.m \in Nat
  <2>1. IntBits \in Nat /\ WideBits = 2 * IntBits + 2 /\ WideBits \in Nat
    BY IntPowers, WidePowers DEF WideBits
  <2>2. F32.m = IntBits - 1 - Exp32 /\ F64.m = 2 * IntBits - 1 - Exp64
        /\ F32.m \in 1..(IntBits - 5) /\ F64.m \in 1..(2 * IntBits - 5) /\ Exp32 \in Nat /\ Exp64 \in Nat
    BY FormatParts, FormatsFit
  <2>3. Exp32 < Exp64 /\ F32.m + 2 < F64.m
    BY FormatsFit
  <2> HIDE DEF WideBits
  <2> QED BY <2>1, <2>2, <2>3
<1>2. 2^F64.m = 2^gap * 2^F32.m
  BY <1>1, PowerSplit
<1>3. 2^gap \in Nat \ {0}
  <2> HIDE DEF gap
  <2> QED BY <1>1, WidePowers
<1>4. Bias(F32) \in Nat \ {0} /\ Bias(F64) \in Nat
  BY FormatOf
<1>5. Bias(F32) =< Bias(F64)
  <2> DEFINE a == Exp32 - 1
             b == Exp64 - 1
  <2>1. a \in 0..b /\ a \in 0..WideBits /\ b \in 0..WideBits
    <3>1. Exp32 \in 2..(IntBits - 5) /\ Exp64 \in 2..(2 * IntBits - 5) /\ Exp32 < Exp64
          /\ IntBits \in Nat /\ WideBits = 2 * IntBits + 2
      BY FormatParts, FormatsFit, IntPowers DEF WideBits
    <3> HIDE DEF WideBits
    <3> QED BY <3>1
  <2>2. Bias(F32) = 2^a - 1 /\ Bias(F64) = 2^b - 1
    BY FormatParts DEF Bias
  <2> HIDE DEF a, b
  <2>3. 2^a =< 2^b /\ 2^a \in Nat /\ 2^b \in Nat
    BY <2>1, PowerSplit, WidePowers
  <2> QED BY <2>2, <2>3
<1> HIDE DEF gap
<1> QED BY <1>1, <1>2, <1>3, <1>4, <1>5 DEF gap

LEMMA HalvesOfHidden ==
  ASSUME NEW f \in {F32, F64}, NEW v \in Words(f.w), NEW t \in 0..f.m
  PROVE  /\ Hidden(f, v) % 2^t = v % 2^t
         /\ Hidden(f, v) \in Nat /\ v \in Nat
<1> DEFINE p == 2^t
           u == 2^(f.m - t)
           m == 2^f.m
           g == 2^(f.w - 1 - f.m)
<1>1. f.m \in 0..WideBits /\ f.m - t \in 0..WideBits /\ t \in 0..WideBits /\ f.m \in 0..(f.w - 1)
      /\ f.w - 1 \in 0..WideBits /\ f.w - 1 - f.m \in 0..WideBits
  <2>1. f.m \in Nat /\ f.w \in Nat /\ f.w =< 2 * IntBits /\ f.m + 5 =< f.w /\ IntBits \in Nat
        /\ WideBits = 2 * IntBits + 2
    BY FormatOf, IntPowers DEF WideBits
  <2> HIDE DEF WideBits
  <2> QED BY <2>1
<1>2. p \in Nat \ {0} /\ u \in Nat \ {0} /\ m = u * p /\ g \in Nat \ {0} /\ 2^(f.w - 1) = g * m
  <2>1. 2^f.m = 2^(f.m - t) * 2^t
    BY <1>1, PowerSplit
  <2>2. 2^(f.w - 1) = 2^(f.w - 1 - f.m) * 2^f.m
    BY <1>1, PowerSplit
  <2> QED BY <1>1, <2>1, <2>2, WidePowers
<1> DEFINE s == Sign(f, v)
           e == ExpOf(f, v)
           a == ManOf(f, v)
           c == a \div p
           l == a % p
<1>3. v \in Nat /\ s \in {0, 1} /\ e \in 0..MaxExp(f) /\ a \in 0..(m - 1)
      /\ v = s * 2^(f.w - 1) + (e * m + a) /\ Hidden(f, v) = m + a
  BY FloatParts DEF Hidden
<1>4. s \in Nat /\ e \in Nat /\ a \in Nat
  <2>1. m \in Nat /\ MaxExp(f) \in Nat
    BY FormatOf
  <2> HIDE DEF s, e, a, m
  <2> QED BY <1>3, <2>1
<1> HIDE DEF s, e, a
<1>5. c \in Nat /\ l \in 0..(p - 1) /\ a = c * p + l
  <2> HIDE DEF p
  <2> QED BY <1>2, <1>4, Division
<1>6. v = s * (g * m) + (e * m + a)
  BY <1>2, <1>3
<1> HIDE DEF p, u, m, g, c, l
<1>7. l \in Nat /\ l < p /\ m \in Nat
  BY <1>2, <1>5
<1>8. v = (s * (g * u) + e * u + c) * p + l /\ s * (g * u) + e * u + c \in Nat
  <2>1. s * (g * m) = (s * (g * u)) * p
    BY <1>2, <1>4
  <2>2. e * m = (e * u) * p
    BY <1>2, <1>4
  <2>3. s * (g * u) \in Nat /\ e * u \in Nat
    BY <1>2, <1>4
  <2> DEFINE z == s * (g * u)
             z2 == e * u
  <2> HIDE DEF z, z2
  <2>4. z \in Nat /\ z2 \in Nat /\ v = z * p + (z2 * p + (c * p + l))
    BY <1>5, <1>6, <2>1, <2>2, <2>3 DEF z, z2
  <2>5. (z + z2 + c) * p = z * p + z2 * p + c * p
    BY <1>2, <1>5, <2>4
  <2>6. z * p \in Nat /\ z2 * p \in Nat /\ c * p \in Nat
    BY <1>2, <1>5, <2>4
  <2>7. v = (z + z2 + c) * p + l /\ z + z2 + c \in Nat
    BY <1>5, <1>7, <2>4, <2>5, <2>6
  <2> QED BY <2>7 DEF z, z2
<1>9. v % p = l
  <2> DEFINE z == s * (g * u) + e * u + c
  <2>1. z \in Nat /\ v = z * p + l
    BY <1>8
  <2> HIDE DEF z
  <2> QED BY <1>2, <1>3, <1>7, <2>1, DivUnique
<1>10. Hidden(f, v) = (u + c) * p + l /\ Hidden(f, v) \in Nat
  <2>1. (u + c) * p = u * p + c * p /\ u * p \in Nat /\ c * p \in Nat
    BY <1>2, <1>5
  <2>2. Hidden(f, v) = u * p + (c * p + l)
    BY <1>2, <1>3, <1>5
  <2> HIDE DEF Hidden
  <2> QED BY <1>7, <2>1, <2>2
<1>11. Hidden(f, v) % p = l
  <2>1. u + c \in Nat
    BY <1>2, <1>5
  <2> QED BY <1>2, <1>7, <1>10, <2>1, DivUnique
<1> QED BY <1>3, <1>9, <1>10, <1>11 DEF p

(* A zero, an infinity, a number or a NaN: exactly one of them.             *)
LEMMA OneKind ==
  ASSUME NEW f \in {F32, F64}, NEW v \in Words(f.w)
  PROVE  /\ IsZero(f, v) => ~IsInf(f, v) /\ ~Normal(f, v) /\ ~IsNaN(f, v)
         /\ IsInf(f, v) => ~IsZero(f, v) /\ ~Normal(f, v) /\ ~IsNaN(f, v)
         /\ Normal(f, v) => ~IsZero(f, v) /\ ~IsInf(f, v) /\ ~IsNaN(f, v)
         /\ IsNaN(f, v) => ~IsZero(f, v) /\ ~IsInf(f, v) /\ ~Normal(f, v)
         /\ IsZero(f, v) \/ IsInf(f, v) \/ Normal(f, v) \/ IsNaN(f, v)
<1> DEFINE e == ExpOf(f, v)
           t == MaxExp(f)
           a == ManOf(f, v)
<1>1. e \in 0..t /\ t \in Nat \ {0}
  <2>1. e \in 0..t
    BY FloatParts
  <2>2. MaxExp(f) = 2 * Bias(f) + 1 /\ Bias(f) \in Nat
    BY FormatOf
  <2> HIDE DEF e
  <2> QED BY <2>1, <2>2
<1>2. /\ IsZero(f, v) <=> e = 0
      /\ IsInf(f, v) <=> e = t /\ a = 0
      /\ IsNaN(f, v) <=> e = t /\ a # 0
      /\ Normal(f, v) <=> e \in 1..(t - 1)
  BY DEF IsZero, IsInf, IsNaN, Normal
<1> HIDE DEF e, t, a
<1> QED BY <1>1, <1>2

(* float to double.                                                         *)
LEMMA ExtendRight ==
  ASSUME NEW v \in Words(IntBits)
  PROVE  IF IsNaN(F32, v) THEN IsNaN(F64, ExtendSfDf2(v))
         ELSE ExtendSfDf2(v) = RefConvert(F32, F64, v)
<1> DEFINE gap == F64.m - F32.m
           s == Sign(F32, v)
           e == ExpOf(F32, v)
           a == ManOf(F32, v)
           man == Shl(2 * IntBits, a, gap)
           f == F32
           g == F64
           rebias == Bias(g) - Bias(f)
<1>1. /\ gap \in Nat /\ gap \in 0..WideBits /\ f.m \in 0..g.m /\ 2^g.m = 2^gap * 2^f.m /\ 2^gap \in Nat \ {0}
      /\ g.m \in Nat /\ f.m \in Nat
      /\ Bias(f) \in Nat \ {0} /\ Bias(g) \in Nat /\ Bias(f) =< Bias(g)
      /\ MaxExp(f) = 2 * Bias(f) + 1 /\ MaxExp(g) = 2 * Bias(g) + 1
  BY FormatGap, FormatOf
<1>2. s \in {0, 1} /\ e \in 0..MaxExp(f) /\ a \in 0..(2^f.m - 1) /\ v \in Words(f.w) /\ 2^f.m \in Nat \ {0}
  <2>1. v \in Words(F32.w)
    BY FormatParts
  <2> QED BY <2>1, FloatParts, FormatOf
<1>3. man = a * 2^gap /\ a * 2^gap \in Nat
  <2> DEFINE room == 2 * IntBits - gap
  <2>1. F32.m \in 0..room /\ room \in 0..WideBits
    <3>1. IntBits \in Nat /\ WideBits = 2 * IntBits + 2 /\ F32.m \in 1..(IntBits - 5)
          /\ F64.m \in 1..(2 * IntBits - 5)
      BY IntPowers, FormatParts DEF WideBits
    <3> HIDE DEF WideBits
    <3> QED BY <1>1, <3>1
  <2> HIDE DEF room, gap
  <2>2. 2^F32.m =< 2^room /\ 2^room \in Nat /\ 2^F32.m \in Nat
    BY <1>2, <2>1, PowerSplit, WidePowers
  <2> DEFINE big == 2^room
             p == 2^F32.m
  <2>3. a < big /\ a \in Nat /\ big \in Nat
    <3>1. p =< big /\ p \in Nat /\ big \in Nat /\ a \in 0..(p - 1)
      BY <1>2, <2>2
    <3> HIDE DEF p, big, a
    <3> QED BY <3>1
  <2>4. man = (a % big) * 2^gap
    BY DEF Shl, room
  <2> HIDE DEF big, a, man
  <2>5. a % big = a
    BY <2>3, ModSmall
  <2> QED BY <1>1, <2>3, <2>4, <2>5
<1>4. ExtendSfDf2(v) = IF e = 0 THEN Zero(g, s)
                       ELSE Pack(g, s, IF e = MaxExp(f) THEN MaxExp(g) ELSE e + rebias, man)
  BY DEF ExtendSfDf2
<1>5. /\ IsZero(f, v) <=> e = 0
      /\ IsInf(f, v) <=> e = MaxExp(f) /\ a = 0
      /\ IsNaN(f, v) <=> e = MaxExp(f) /\ a # 0
      /\ Normal(f, v) <=> e \in 1..(MaxExp(f) - 1)
  BY DEF IsZero, IsInf, IsNaN, Normal
<1>6. MaxExp(f) \in Nat \ {0} /\ e \in Nat /\ MaxExp(g) \in Nat
  <2> HIDE DEF e, f, g
  <2> QED BY <1>1, <1>2
<1>7. RefConvert(f, g, v) = CASE IsZero(f, v) -> Zero(g, s)
                              [] IsInf(f, v) -> Inf(g, s)
                              [] Normal(f, v) -> Nearest(g, s, UnitExp(f, v), Hidden(f, v), FALSE).word
                              [] IsNaN(f, v) -> QNaN(g)
  BY DEF RefConvert
<1>8. f \in {F32, F64} /\ g \in {F32, F64}
  OBVIOUS
<1>9. CASE IsZero(f, v)
  <2>1. e = 0
    BY <1>5, <1>9
  <2>2. ExtendSfDf2(v) = Zero(g, s)
    BY <1>4, <2>1
  <2>3. RefConvert(f, g, v) = Zero(g, s)
    <3> HIDE DEF f, g, s, e
    <3> QED BY <1>2, <1>7, <1>8, <1>9, OneKind
  <2>4. ~IsNaN(f, v)
    <3> HIDE DEF f
    <3> QED BY <1>2, <1>8, <1>9, OneKind
  <2> QED BY <2>2, <2>3, <2>4
<1>10. CASE IsInf(f, v)
  <2>1. e = MaxExp(f) /\ a = 0 /\ e # 0
    BY <1>5, <1>6, <1>10
  <2>2. man = 0
    <3> HIDE DEF man, a, gap
    <3> QED BY <1>1, <1>3, <2>1
  <2>3. ExtendSfDf2(v) = Inf(g, s)
    <3> HIDE DEF man, e
    <3> QED BY <1>4, <2>1, <2>2 DEF Inf
  <2>4. RefConvert(f, g, v) = Inf(g, s)
    <3> HIDE DEF f, g, s, e
    <3> QED BY <1>2, <1>7, <1>8, <1>10, OneKind
  <2>5. ~IsNaN(f, v)
    <3> HIDE DEF f
    <3> QED BY <1>2, <1>8, <1>10, OneKind
  <2> QED BY <2>3, <2>4, <2>5
<1>11. CASE Normal(f, v)
  <2> DEFINE hid == Hidden(f, v)
             big == e + rebias
             unit == UnitExp(f, v)
  <2>1. e \in 1..(MaxExp(f) - 1)
    BY <1>5, <1>11
  <2>2. big \in Int /\ ~(big < 1) /\ ~(big >= MaxExp(g)) /\ unit \in Int /\ unit + f.m + Bias(g) = big
        /\ e # 0 /\ e # MaxExp(f)
    <3>1. unit = e - Bias(f) - f.m
      BY DEF UnitExp
    <3> HIDE DEF e, f, g, unit
    <3> QED BY <1>1, <1>6, <2>1, <3>1
  <2>3. ExtendSfDf2(v) = Pack(g, s, big, man)
    BY <1>4, <2>2
  <2>4. hid \in Nat /\ 2^f.m =< hid /\ hid < 2 * 2^f.m /\ hid = 2^f.m + a
    <3> DEFINE p == 2^f.m
    <3>1. hid = p + a /\ a \in 0..(p - 1) /\ p \in Nat
      BY <1>2 DEF Hidden
    <3> HIDE DEF a, p, hid
    <3>2. hid \in Nat /\ p =< hid /\ hid < 2 * p
      BY <3>1
    <3> QED BY <3>1, <3>2 DEF p
  <2>5. RefConvert(f, g, v) = Nearest(g, s, unit, hid, FALSE).word
    <3> HIDE DEF f, g, s, e, hid, unit
    <3> QED BY <1>2, <1>7, <1>8, <1>11, OneKind DEF hid, unit
  <2>6. Nearest(g, s, unit, hid, FALSE).word = Fitted(g, s, big, hid * 2^(g.m - f.m))
    <3> DEFINE no == FALSE
    <3> HIDE DEF f, g, s, hid, unit, big, no
    <3> DEFINE k == f.m
    <3>1. g \in {F32, F64} /\ unit \in Int /\ hid \in Nat /\ k \in 0..g.m /\ 2^k =< hid /\ hid < 2 * 2^k
      BY <1>1, <1>8, <2>2, <2>4
    <3> HIDE DEF k
    <3>2. Nearest(g, s, unit, hid, no).word = Fitted(g, s, unit + k + Bias(g), hid * 2^(g.m - k))
      BY <3>1, NearestExact
    <3> QED BY <2>2, <3>2, Zenon DEF no, k
  <2>7. Fitted(g, s, big, hid * 2^gap) = Pack(g, s, big, hid * 2^gap)
    <3> HIDE DEF big, hid, gap, s
    <3> QED BY <2>2 DEF Fitted
  <2>8. Pack(g, s, big, hid * 2^gap) = Pack(g, s, big, man)
    <3> DEFINE pd == 2^gap
               pf == 2^f.m
               pg == 2^g.m
    <3>1. hid * pd = pg + a * pd /\ a * pd \in Nat /\ a * pd < pg /\ pg \in Nat \ {0}
      <4>1. pg = pd * pf /\ pd \in Nat \ {0} /\ pf \in Nat \ {0} /\ a \in 0..(pf - 1) /\ hid = pf + a
        BY <1>1, <1>2, <2>4
      <4> HIDE DEF pd, pf, pg, a, hid
      <4>2. (pf + a) * pd = pd * pf + a * pd /\ a * pd \in Nat
        BY <4>1
      <4>3. (a + 1) * pd =< pf * pd /\ (a + 1) * pd = a * pd + pd /\ pf * pd = pd * pf /\ pd * pf \in Nat \ {0}
        <5>1. a + 1 \in Nat /\ a + 1 =< pf /\ pf \in Nat /\ pd \in Nat
          BY <4>1
        <5> QED BY <4>1, <5>1, TimesMonotone
      <4> QED BY <4>1, <4>2, <4>3
    <3>2. Low(hid * pd, g.m) = a * pd /\ Low(a * pd, g.m) = a * pd
      <4>1. Low(hid * pd, g.m) = (hid * pd) % pg /\ Low(a * pd, g.m) = (a * pd) % pg
        BY DEF Low
      <4> DEFINE z == a * pd
                 z2 == hid * pd
      <4>2. z2 = pg + z /\ z \in Nat /\ z < pg /\ pg \in Nat \ {0} /\ z2 = 1 * pg + z /\ z2 \in Nat
        <5>1. z2 = pg + z /\ z \in Nat /\ z < pg /\ pg \in Nat \ {0}
          BY <3>1
        <5> HIDE DEF z, z2, pg
        <5> QED BY <5>1
      <4> HIDE DEF z, z2, pg
      <4>3. z2 % pg = z /\ z % pg = z
        BY <4>2, DivUnique, ModSmall
      <4> QED BY <4>1, <4>3 DEF z, z2
    <3>3. man = a * pd
      BY <1>3
    <3> HIDE DEF man, a, hid, big, pd, s
    <3>4. Pack(g, s, big, hid * pd) = Pack(g, s, big, man)
      BY <3>2, <3>3 DEF Pack
    <3> QED BY <3>4 DEF pd
  <2>9. ~IsNaN(f, v)
    <3> HIDE DEF f
    <3> QED BY <1>2, <1>8, <1>11, OneKind
  <2> HIDE DEF hid, big, unit, man
  <2> QED BY <2>3, <2>5, <2>6, <2>7, <2>8, <2>9
<1>12. CASE IsNaN(f, v)
  <2>1. e = MaxExp(f) /\ a # 0 /\ e # 0
    BY <1>5, <1>6, <1>12
  <2>2. ExtendSfDf2(v) = Pack(g, s, MaxExp(g), man)
    BY <1>4, <2>1
  <2>3. MaxExp(g) \in 0..MaxExp(g) /\ man \in Int /\ man = a * 2^gap
    BY <1>3, <1>6
  <2> DEFINE x0 == ExtendSfDf2(v)
  <2>4. ExpOf(g, x0) = MaxExp(g) /\ ManOf(g, x0) = Low(man, g.m)
    <3> HIDE DEF g, s, man
    <3> QED BY <1>2, <1>8, <2>2, <2>3, PackParts
  <2>5. Low(man, g.m) = a * 2^gap /\ a * 2^gap # 0
    <3> DEFINE pd == 2^gap
               pf == 2^f.m
               pg == 2^g.m
    <3>1. pg = pd * pf /\ pd \in Nat \ {0} /\ pf \in Nat \ {0} /\ a \in 0..(pf - 1) /\ a # 0
      BY <1>1, <1>2, <2>1
    <3>2. Low(man, g.m) = (a * pd) % pg
      BY <1>3 DEF Low
    <3> HIDE DEF pd, pf, pg, a, man
    <3>3. (a + 1) * pd =< pf * pd /\ (a + 1) * pd = a * pd + pd /\ pf * pd = pd * pf /\ pd * pf \in Nat
          /\ 1 * pd =< a * pd /\ a * pd \in Nat
      <4>1. a + 1 \in Nat /\ a + 1 =< pf /\ pf \in Nat /\ pd \in Nat /\ a \in Nat /\ 1 =< a /\ 1 \in Nat
        BY <3>1
      <4>2. (a + 1) * pd =< pf * pd /\ 1 * pd =< a * pd
        BY <4>1, TimesMonotone
      <4> QED BY <4>1, <4>2
    <3>4. a * pd < pg /\ a * pd # 0 /\ pg \in Nat
      BY <3>1, <3>3
    <3>5. (a * pd) % pg = a * pd
      <4> DEFINE z == a * pd
      <4>1. z \in Nat /\ z < pg /\ pg \in Nat
        BY <3>3, <3>4
      <4> HIDE DEF z
      <4>2. z % pg = z
        BY <4>1, ModSmall
      <4> QED BY <4>2 DEF z
    <3>6. Low(man, g.m) = a * pd /\ a * pd # 0
      BY <3>2, <3>4, <3>5
    <3> QED BY <3>6 DEF pd
  <2>6. IsNaN(g, x0)
    <3> HIDE DEF g, x0, man, a, gap
    <3> QED BY <2>4, <2>5 DEF IsNaN
  <2> QED BY <1>12, <2>6
<1>13. IsZero(f, v) \/ IsInf(f, v) \/ Normal(f, v) \/ IsNaN(f, v)
  BY <1>2, <1>8, OneKind
<1> QED BY <1>9, <1>10, <1>11, <1>12, <1>13

(* The lower bits of the lower bits.                                        *)
LEMMA ModOfMod ==
  ASSUME NEW v \in Nat, NEW p \in Nat \ {0}, NEW t \in Nat \ {0}
  PROVE  (v % (t * p)) % p = v % p /\ v % (t * p) \in Nat
<1> DEFINE a == v \div p
           b == v % p
           c == a % t
<1>1. a \in Nat /\ b \in 0..(p - 1) /\ v = a * p + b
  BY Division
<1> HIDE DEF a, b
<1>2. c \in Nat
  <2>1. c \in 0..(t - 1)
    BY <1>1, Division
  <2> QED BY <2>1
<1>3. v % (t * p) = c * p + b
  BY <1>1, LowOfParts
<1> HIDE DEF c
<1>4. c * p + b \in Nat /\ b \in Nat /\ b < p
  <2>1. c * p \in Nat
    BY <1>2
  <2> QED BY <1>1, <2>1
<1> DEFINE z == c * p + b
<1>5. z \in Nat /\ z = c * p + b
  BY <1>4
<1> HIDE DEF z
<1>6. z % p = b
  BY <1>2, <1>4, <1>5, DivUnique
<1> QED BY <1>3, <1>5, <1>6 DEF b

(* What a bit is the highest of, by what the bits below it are.             *)
LEMMA GuardBits ==
  ASSUME NEW v \in Nat, NEW h \in Nat \ {0}
  PROVE  LET guard == (v \div h) % 2
         IN  /\ guard \in {0, 1}
             /\ guard = 1 <=> v % (2 * h) >= h
             /\ guard = 1 => (v % h # 0 <=> v % (2 * h) > h)
<1> DEFINE guard == (v \div h) % 2
           lost == v % (2 * h)
<1>1. guard \in {0, 1} /\ lost \in 0..(2 * h - 1) /\ (guard = 1 <=> lost >= h)
  BY NextBit
<1>2. lost % h = v % h /\ lost \in Nat
  <2> DEFINE t == 2
  <2>1. t \in Nat \ {0}
    OBVIOUS
  <2> HIDE DEF t
  <2>2. (v % (t * h)) % h = v % h /\ v % (t * h) \in Nat
    BY <2>1, ModOfMod
  <2> QED BY <2>2 DEF t
<1> HIDE DEF guard, lost
<1>3. ASSUME lost >= h PROVE lost % h # 0 <=> lost > h
  <2> DEFINE l == lost - h
  <2>1. l \in Nat /\ l < h /\ lost = 1 * h + l /\ 1 \in Nat
    BY <1>1, <1>2, <1>3
  <2> HIDE DEF l
  <2>2. lost % h = l
    BY <1>2, <2>1, DivUnique
  <2> QED BY <1>2, <2>1, <2>2
<1> QED BY <1>1, <1>2, <1>3 DEF guard, lost

(* double to float: rounded once, though cut out of the two halves.         *)
LEMMA TruncRight ==
  ASSUME NEW v \in Words(2 * IntBits)
  PROVE  TruncDfSf2(v) = RefConvert(F64, F32, v)
<1> DEFINE f == F32
           g == F64
           cut == g.m - f.m
           s == Sign(g, v)
           hid == Hidden(g, v)
           kept == LShr(hid, cut)
           guard == Bit(LoHalf(v), cut - 1)
           sticky == Low(LoHalf(v), cut - 1) # 0
           l == RoundNearest(f, kept, guard, sticky)
           gap == Bias(g) - Bias(f)
           e == ExpOf(g, v) - gap + l.bump
           unit == UnitExp(g, v)
<1>1. /\ cut \in 2..(IntBits - 1) /\ cut \in 0..WideBits /\ f.m \in 0..g.m /\ g.m \in 0..WideBits
      /\ 2^g.m = 2^cut * 2^f.m /\ 2^cut \in Nat \ {0} /\ g.m \in Nat /\ f.m \in Nat
      /\ Bias(f) \in Nat \ {0} /\ Bias(g) \in Nat
  BY FormatGap
<1>2. v \in Words(g.w) /\ g \in {F32, F64} /\ f \in {F32, F64} /\ s \in {0, 1}
      /\ ExpOf(g, v) \in 0..MaxExp(g) /\ hid \in 2^g.m..(2 * 2^g.m - 1)
  <2>1. v \in Words(F64.w)
    BY FormatParts
  <2> QED BY <2>1, FloatParts
<1>3. ExpOf(g, v) \in Nat /\ MaxExp(g) \in Nat
  <2>1. MaxExp(g) = 2 * Bias(g) + 1
    BY FormatOf
  <2> HIDE DEF f, g
  <2> QED BY <1>1, <1>2, <2>1
<1>4. TruncDfSf2(v) =
        IF IsZero(g, v) THEN Zero(f, s)
        ELSE IF IsNaN(g, v) THEN QNaN(f)
        ELSE IF IsInf(g, v) THEN Inf(f, s)
        ELSE IF e =< 0 THEN Zero(f, s)
        ELSE IF e >= MaxExp(f) THEN Inf(f, s) ELSE Pack(f, s, e, l.man)
  BY DEF TruncDfSf2
<1>5. RefConvert(g, f, v) =
        CASE IsZero(g, v) -> Zero(f, s)
          [] IsInf(g, v) -> Inf(f, s)
          [] Normal(g, v) -> Nearest(f, s, unit, hid, FALSE).word
          [] IsNaN(g, v) -> QNaN(f)
  BY DEF RefConvert
<1>6. ASSUME Normal(g, v)
      PROVE  (IF e =< 0 THEN Zero(f, s)
              ELSE IF e >= MaxExp(f) THEN Inf(f, s) ELSE Pack(f, s, e, l.man))
                = Nearest(f, s, unit, hid, FALSE).word
  <2> DEFINE h == 2^(cut - 1)
             p == 2^cut
             lo == LoHalf(v)
  <2>1. h \in Nat \ {0} /\ p = 2 * h /\ cut - 1 \in 0..(WideBits - 1) /\ p \in Nat \ {0}
    <3>1. cut - 1 \in 0..(WideBits - 1) /\ cut - 1 \in 0..WideBits /\ (cut - 1) + 1 = cut
      <4>1. WideBits \in Nat
        BY WidePowers
      <4> HIDE DEF f, g, cut
      <4> QED BY <1>1, <4>1
    <3> HIDE DEF f, g, cut
    <3>2. 2^((cut - 1) + 1) = 2 * 2^(cut - 1)
      BY <3>1, WidePowers DEF PowersDouble
    <3> QED BY <1>1, <3>1, <3>2, WidePowers
  <2>2. hid % p = v % p /\ hid \in Nat /\ v \in Nat
    <3>1. cut \in 0..g.m
      <4> HIDE DEF f, g
      <4> QED BY <1>1
    <3> HIDE DEF f, g, cut
    <3> QED BY <1>2, <3>1, HalvesOfHidden DEF hid
  <2>3. lo % p = v % p /\ lo \in Nat
    <3> DEFINE t == 2^(IntBits - cut)
               whole == 2^IntBits
    <3>1. t \in Nat \ {0} /\ whole = t * p
      <4>1. cut \in 0..IntBits /\ IntBits \in 0..WideBits /\ IntBits - cut \in 0..WideBits
        <5>1. IntBits \in Nat /\ WideBits = 2 * IntBits + 2
          BY IntPowers DEF WideBits
        <5> HIDE DEF WideBits, cut
        <5> QED BY <1>1, <5>1
      <4> HIDE DEF cut
      <4>2. 2^IntBits = 2^(IntBits - cut) * 2^cut
        BY <4>1, PowerSplit
      <4> QED BY <4>1, <4>2, WidePowers
    <3>2. lo = v % whole
      BY DEF LoHalf, Low
    <3> HIDE DEF t, whole, p, lo
    <3>3. (v % (t * p)) % p = v % p /\ v % (t * p) \in Nat
      BY <2>1, <2>2, <3>1, ModOfMod
    <3> QED BY <3>1, <3>2, <3>3
  <2>4. guard = (lo \div h) % 2 /\ (sticky <=> lo % h # 0) /\ kept = hid \div p
    BY DEF Bit, Low, LShr
  <2> HIDE DEF guard, sticky, kept, h, p, lo, hid
  <2>5. /\ guard \in {0, 1} /\ (guard = 1 <=> hid % p >= h)
        /\ (guard = 1 => (sticky <=> hid % p > h))
    <3>1. /\ (lo \div h) % 2 \in {0, 1} /\ ((lo \div h) % 2 = 1 <=> lo % (2 * h) >= h)
          /\ ((lo \div h) % 2 = 1 => (lo % h # 0 <=> lo % (2 * h) > h))
      BY <2>1, <2>3, GuardBits
    <3>2. lo % (2 * h) = hid % p
      BY <2>1, <2>2, <2>3
    <3> QED BY <2>4, <3>1, <3>2
  <2>6. sticky \in BOOLEAN
    BY DEF sticky
  <2> DEFINE k == g.m
             no == FALSE
             ll == RoundNearest(f, hid \div 2^(k - f.m), guard, sticky)
  <2>7. l = ll
    BY <2>4 DEF p
  <2>8. unit \in Int /\ unit + k + Bias(f) + ll.bump = ExpOf(g, v) - gap + ll.bump
        /\ k \in (f.m + 1)..WideBits /\ 2^k =< hid /\ hid < 2 * 2^k /\ ll.bump \in {0, 1}
        /\ Nearest(f, s, unit, hid, no).word = Fitted(f, s, unit + k + Bias(f) + ll.bump, ll.man)
    <3>1. unit = ExpOf(g, v) - Bias(g) - g.m
      BY DEF UnitExp
    <3>2. k \in (f.m + 1)..WideBits /\ unit \in Int
      <4>1. WideBits \in Nat
        BY WidePowers
      <4> HIDE DEF f, g, unit
      <4> QED BY <1>1, <1>3, <3>1, <4>1
    <3>3. 2^k =< hid /\ hid < 2 * 2^k /\ 2^k \in Nat
      <4> DEFINE pk == 2^k
      <4>1. hid \in pk..(2 * pk - 1) /\ pk \in Nat
        BY <1>2, FormatOf
      <4> HIDE DEF pk
      <4>2. pk =< hid /\ hid < 2 * pk
        BY <4>1
      <4> QED BY <4>1, <4>2 DEF pk
    <3>4. no \in BOOLEAN
          /\ (guard = 1 <=> hid % 2^(k - f.m) >= 2^(k - f.m - 1))
          /\ (guard = 1 => (sticky <=> hid % 2^(k - f.m) > 2^(k - f.m - 1) \/ no))
      <4>1. /\ (guard = 1 <=> hid % 2^(k - f.m) >= 2^(k - f.m - 1))
            /\ (guard = 1 => (sticky <=> hid % 2^(k - f.m) > 2^(k - f.m - 1)))
        BY <2>5 DEF p, h
      <4> QED BY <4>1
    <3> HIDE DEF f, s, unit, no, k, g
    <3>7. Halfway(f, hid, no, k, guard, sticky)
      BY <2>5, <2>6, <3>2, <3>3, <3>4 DEF Halfway
    <3>5. /\ ll.bump \in {0, 1}
          /\ Nearest(f, s, unit, hid, no).word = Fitted(f, s, unit + k + Bias(f) + ll.bump, ll.man)
      BY <1>2, <2>2, <3>2, <3>7, NearestRounds
    <3> HIDE DEF ll
    <3>6. unit + k + Bias(f) + ll.bump = ExpOf(g, v) - gap + ll.bump
      BY <1>1, <1>3, <3>1, <3>5 DEF k
    <3> QED BY <3>2, <3>3, <3>5, <3>6
  <2> HIDE DEF l, ll
  <2>9. e = unit + k + Bias(f) + ll.bump /\ e \in Int
    <3> HIDE DEF f, g, unit, k
    <3> QED BY <1>1, <1>3, <2>7, <2>8
  <2>10. Nearest(f, s, unit, hid, no).word = Fitted(f, s, e, l.man)
    <3> HIDE DEF f, g, unit, k, e, s, no
    <3> QED BY <2>7, <2>8, <2>9
  <2>11. Fitted(f, s, e, l.man) = IF e =< 0 THEN Zero(f, s)
                                  ELSE IF e >= MaxExp(f) THEN Inf(f, s) ELSE Pack(f, s, e, l.man)
    <3> HIDE DEF f, g, e, s
    <3>1. e =< 0 <=> e < 1
      BY <2>9
    <3> QED BY <3>1 DEF Fitted
  <2> HIDE DEF e, unit, s
  <2> QED BY <2>10, <2>11, Zenon
<1> HIDE DEF f, g, s, e, l, unit, hid
<1>7. RefConvert(g, f, v) = TruncDfSf2(v)
  <2>1. CASE IsZero(g, v)
    BY <1>2, <1>4, <1>5, <2>1, OneKind
  <2>2. CASE IsInf(g, v)
    BY <1>2, <1>4, <1>5, <2>2, OneKind
  <2>3. CASE IsNaN(g, v)
    BY <1>2, <1>4, <1>5, <2>3, OneKind
  <2>4. CASE Normal(g, v)
    <3>1. ~IsZero(g, v) /\ ~IsInf(g, v) /\ ~IsNaN(g, v)
      BY <1>2, <2>4, OneKind
    <3>2. TruncDfSf2(v) = IF e =< 0 THEN Zero(f, s)
                          ELSE IF e >= MaxExp(f) THEN Inf(f, s) ELSE Pack(f, s, e, l.man)
      BY <1>4, <3>1
    <3>3. RefConvert(g, f, v) = Nearest(f, s, unit, hid, FALSE).word
      BY <1>5, <2>4, <3>1
    <3> QED BY <1>6, <2>4, <3>2, <3>3
  <2> QED BY <1>2, <2>1, <2>2, <2>3, <2>4, OneKind
<1> QED BY <1>7 DEF f, g

-----------------------------------------------------------------------------
(* Roundings to an integer. The magnitude of a word below its sign.         *)
LEMMA MagnitudeParts ==
  ASSUME NEW f \in {F32, F64}, NEW v \in Words(f.w)
  PROVE  Magnitude(f, v) = ExpOf(f, v) * 2^f.m + ManOf(f, v)
<1> DEFINE p == 2^f.m
           qe == 2^f.e
           h == 2^(f.w - 1)
           s == Sign(f, v)
           e == ExpOf(f, v)
           a == ManOf(f, v)
           b == e * p + a
<1>1. p \in Nat \ {0} /\ qe \in Nat \ {0} /\ h = qe * p /\ MaxExp(f) = qe - 1 /\ h \in Nat \ {0}
  <2>1. p \in Nat \ {0} /\ h = qe * p /\ qe = 2 * Bias(f) + 2 /\ Bias(f) \in Nat /\ h \in Nat \ {0}
    BY FormatOf
  <2>2. MaxExp(f) = qe - 1
    BY DEF MaxExp
  <2> HIDE DEF qe, p, h
  <2> QED BY <2>1, <2>2
<1>2. v \in Nat /\ s \in {0, 1} /\ e \in 0..(qe - 1) /\ a \in 0..(p - 1) /\ v = s * h + b
  BY <1>1, FloatParts
<1>3. Magnitude(f, v) = v % h
  BY DEF Magnitude, Low
<1> HIDE DEF p, qe, h, s, e, a
<1>4. e \in Nat /\ e + 1 \in Nat /\ e + 1 =< qe /\ a \in Nat /\ a < p /\ p \in Nat /\ qe \in Nat /\ s \in Nat
  BY <1>1, <1>2
<1>5. (e + 1) * p =< qe * p /\ (e + 1) * p = e * p + p /\ e * p \in Nat
  BY <1>4, TimesMonotone
<1>6. b \in Nat /\ b < h
  BY <1>1, <1>4, <1>5
<1> HIDE DEF b
<1>7. v % h = b
  BY <1>1, <1>2, <1>4, <1>6, DivUnique
<1> QED BY <1>3, <1>7 DEF b, e, p, a

(* Four times the top of a mantissa, the largest unit there is.             *)
LEMMA MantissaUnits ==
  ASSUME NEW f \in {F32, F64}
  PROVE  /\ f.m \in Nat /\ f.m =< 2 * IntBits - 5 /\ f.m + 2 =< WideBits /\ IntBits \in Nat /\ WideBits \in Nat
         /\ f.m \in 0..WideBits /\ f.m + 1 \in 0..WideBits
         /\ 2^f.m \in Nat \ {0} /\ 2^(f.m + 1) = 2 * 2^f.m /\ 2^(f.m + 2) = 4 * 2^f.m
         /\ Bias(f) \in Nat /\ Bias(f) >= 10 /\ 2 * IntBits =< Bias(f) /\ MaxExp(f) = 2 * Bias(f) + 1
<1>1. f.m \in Nat /\ f.m + 5 =< f.w /\ f.w =< 2 * IntBits /\ f.w \in Nat /\ Bias(f) \in Nat
      /\ MaxExp(f) = 2 * Bias(f) + 1 /\ 2^f.m \in Nat \ {0} /\ 2^(f.m + 1) = 2 * 2^f.m
  BY FormatOf
<1>2. IntBits \in Nat /\ IntBits >= 5 /\ WideBits = 2 * IntBits + 2 /\ 2 * IntBits =< Bias(f)
  BY IntPowers, BiasIsLarge DEF WideBits
<1> HIDE DEF WideBits
<1>3. /\ f.m =< 2 * IntBits - 5 /\ f.m + 2 =< WideBits /\ f.m + 1 \in 0..(WideBits - 1) /\ WideBits \in Nat
      /\ f.m \in 0..WideBits /\ f.m + 1 \in 0..WideBits /\ (f.m + 1) + 1 = f.m + 2 /\ Bias(f) >= 10
  BY <1>1, <1>2
<1>4. 2^((f.m + 1) + 1) = 2 * 2^(f.m + 1)
  BY <1>3, WidePowers DEF PowersDouble
<1> DEFINE p == 2^f.m
<1>5. 2^(f.m + 2) = 4 * p
  <2>1. 2^(f.m + 2) = 2 * (2 * p) /\ p \in Nat
    BY <1>1, <1>3, <1>4
  <2> HIDE DEF p
  <2> QED BY <2>1
<1> QED BY <1>1, <1>2, <1>3, <1>5

(* Nothing but bits below the point: zero or one.                           *)
LEMMA BelowOneRight ==
  ASSUME NEW f \in {F32, F64}, NEW v \in Words(f.w), NEW kind \in Kinds, ExpOf(f, v) < Bias(f)
  PROVE  BelowOne(f, kind, v) = RefRound(f, kind, v)
<1> DEFINE m == f.m
           p == 2^m
           s == Sign(f, v)
           E == ExpOf(f, v)
           a == ManOf(f, v)
           mag == Magnitude(f, v)
           e == UnitExp(f, v)
           count == Least({-e, m + 2})
           unit == 2^count
           sig == IF IsZero(f, v) THEN a ELSE Hidden(f, v)
           whole == sig \div unit
           rest == sig % unit
           up == CASE kind = "trunc" -> FALSE
                   [] kind = "floor" -> rest # 0 /\ s = 1
                   [] kind = "ceil"  -> rest # 0 /\ s = 0
                   [] kind = "round" -> 2 * rest >= unit
           int == IF up THEN whole + 1 ELSE whole
<1>1. /\ m \in Nat /\ p \in Nat \ {0} /\ 2^(m + 1) = 2 * p /\ 2^(m + 2) = 4 * p
      /\ Bias(f) \in Nat /\ Bias(f) >= 10 /\ 2 * IntBits =< Bias(f) /\ IntBits \in Nat
  BY MantissaUnits
<1>2. s \in {0, 1} /\ E \in Nat /\ E < Bias(f) /\ a \in 0..(p - 1) /\ Hidden(f, v) = p + a
  BY FloatParts, FormatOf DEF Hidden
<1>3. e = E - Bias(f) - m /\ e \in Int
  <2>1. e = E - Bias(f) - m
    BY DEF UnitExp
  <2> HIDE DEF e, E, m
  <2> QED BY <1>1, <1>2, <2>1
<1>4. RefRound(f, kind, v) = IF e >= 0 THEN v
                             ELSE IF int = 0 THEN Zero(f, s) ELSE Nearest(f, s, 0, int, FALSE).word
  BY DEF RefRound
<1> HIDE DEF m, p, e
<1>5. ~(e >= 0) /\ -e \in Int /\ -e = 0 - e /\ m + 2 \in Int
  <2> HIDE DEF E
  <2> QED BY <1>1, <1>2, <1>3
<1>6. unit = IF E = Bias(f) - 1 THEN 2 * p ELSE 4 * p
  <2>1. count \in {-e, m + 2} /\ count =< -e /\ count =< m + 2
    BY <1>5, LeastOfTwo
  <2>2. count = IF E = Bias(f) - 1 THEN m + 1 ELSE m + 2
    <3> HIDE DEF count, E
    <3> QED BY <1>1, <1>2, <1>3, <1>5, <2>1
  <2> HIDE DEF count, E
  <2> QED BY <1>1, <2>2 DEF m
<1>7. sig \in 0..(2 * p - 1) /\ (sig # 0 <=> mag # 0) /\ (E = Bias(f) - 1 => sig >= p)
  <2>1. mag = E * p + a
    BY MagnitudeParts DEF m, p
  <2>2. IsZero(f, v) <=> E = 0
    BY DEF IsZero
  <2>3. CASE E = 0
    <3>1. sig = a
      BY <2>2, <2>3
    <3> HIDE DEF sig, mag, a, E
    <3>2. mag = a
      BY <1>1, <1>2, <2>1, <2>3
    <3> QED BY <1>1, <1>2, <2>3, <3>1, <3>2
  <2>4. CASE E # 0
    <3>1. sig = p + a
      BY <1>2, <2>2, <2>4
    <3> HIDE DEF sig, mag, a, E
    <3>2. E * p \in Nat /\ E * p >= p
      <4>1. 1 =< E /\ 1 \in Nat /\ p \in Nat
        BY <1>1, <1>2, <2>4
      <4>2. 1 * p =< E * p
        BY <1>2, <4>1, TimesMonotone
      <4> QED BY <1>1, <1>2, <4>2
    <3> QED BY <1>1, <1>2, <2>1, <3>1, <3>2
  <2> QED BY <2>3, <2>4
<1> HIDE DEF sig, mag, unit, E, a
<1>8. unit \in Nat \ {0} /\ sig \in Nat /\ sig < unit
  BY <1>1, <1>6, <1>7
<1>9. whole = 0 /\ rest = sig
  <2>1. sig = 0 * unit + sig /\ 0 \in Nat
    BY <1>8
  <2> QED BY <1>8, <2>1, DivUnique
<1>10. 2 * rest >= unit <=> E >= Bias(f) - 1
  <2>1. E >= Bias(f) - 1 <=> E = Bias(f) - 1
    BY <1>1, <1>2
  <2> HIDE DEF rest
  <2> QED BY <1>1, <1>6, <1>7, <1>9, <2>1
<1> HIDE DEF whole, rest
<1> DEFINE up2 == \/ kind = "floor" /\ s = 1 /\ mag # 0
                  \/ kind = "ceil" /\ ~(s = 1) /\ mag # 0
                  \/ kind = "round" /\ E >= Bias(f) - 1
<1>11. up <=> up2
  <2> DEFINE some == mag # 0
             near == E >= Bias(f) - 1
  <2>1. (rest # 0 <=> some) /\ (2 * rest >= unit <=> near)
    BY <1>7, <1>9, <1>10
  <2>2. s = 0 <=> ~(s = 1)
    BY <1>2
  <2> HIDE DEF some, near, s
  <2>3. kind = "floor" \/ kind = "ceil" \/ kind = "trunc" \/ kind = "round"
    BY DEF Kinds
  <2>4. up <=> \/ kind = "floor" /\ s = 1 /\ some
               \/ kind = "ceil" /\ ~(s = 1) /\ some
               \/ kind = "round" /\ near
    <3>1. CASE kind = "floor"
      BY <2>1, <2>2, <3>1
    <3>2. CASE kind = "ceil"
      BY <2>1, <2>2, <3>2
    <3>3. CASE kind = "trunc"
      BY <2>1, <2>2, <3>3
    <3>4. CASE kind = "round"
      BY <2>1, <2>2, <3>4
    <3> QED BY <2>3, <3>1, <3>2, <3>3, <3>4
  <2> QED BY <2>4 DEF some, near
<1>12. BelowOne(f, kind, v) = IF up2 THEN Pack(f, s, Bias(f), 0) ELSE Zero(f, s)
  BY DEF BelowOne, mag, E
<1> HIDE DEF up, up2
<1>13. CASE ~up2
  <2>1. int = 0
    BY <1>9, <1>11, <1>13
  <2> HIDE DEF int, s
  <2> QED BY <1>4, <1>5, <1>11, <1>12, <1>13, <2>1
<1>14. CASE up2
  <2>1. int = 1
    BY <1>9, <1>11, <1>14
  <2> DEFINE one == 1
  <2>2. NearestInt(f, s, one) = Pack(f, s, 0 + Bias(f), one * 2^(f.m - 0))
    <3> DEFINE k == 0
    <3>1. k \in 0..f.m /\ one \in Nat /\ 2^k = 1
      BY <1>1, WidePowers DEF m, PowersDouble
    <3>2. 2^k =< one /\ one < 2 * 2^k
      BY <3>1
    <3> HIDE DEF k, one, s
    <3>3. NearestInt(f, s, one) = Pack(f, s, k + Bias(f), one * 2^(f.m - k))
      BY <3>1, <3>2, IntegerExact
    <3> QED BY <3>3 DEF k
  <2>3. one * 2^(f.m - 0) = p /\ 0 + Bias(f) = Bias(f)
    <3>1. f.m - 0 = f.m
      BY <1>1 DEF m
    <3>2. 1 * p = p
      BY <1>1
    <3> QED BY <1>1, <3>1, <3>2 DEF p, m
  <2>4. Low(p, f.m) = Low(0, f.m)
    <3>1. p % p = 0 /\ 0 % p = 0
      <4>1. p = 1 * p + 0 /\ 0 = 0 * p + 0 /\ 0 < p
        BY <1>1
      <4> QED BY <1>1, <4>1, DivUnique
    <3> QED BY <3>1 DEF Low, p, m
  <2>5. Pack(f, s, Bias(f), p) = Pack(f, s, Bias(f), 0)
    BY <2>4 DEF Pack
  <2>6. Nearest(f, s, 0, int, FALSE).word = NearestInt(f, s, one)
    BY <2>1 DEF NearestInt
  <2>7. int # 0
    BY <2>1
  <2> HIDE DEF int, s, one
  <2> QED BY <1>4, <1>5, <1>12, <1>14, <2>2, <2>3, <2>5, <2>6, <2>7
<1> QED BY <1>13, <1>14

(* An integer of the mantissa's size, back in its place: the word without   *)
(* its fraction, and with one unit more, even where that carries.           *)
LEMMA WholeIsNearest ==
  ASSUME NEW f \in {F32, F64}, NEW v \in Words(f.w), NEW t \in 1..f.m,
         ExpOf(f, v) = Bias(f) + f.m - t, NEW up \in BOOLEAN
  PROVE  LET unit == 2^t
             whole == Hidden(f, v) \div unit
             frac == v % unit
         IN  NearestInt(f, Sign(f, v), IF up THEN whole + 1 ELSE whole)
               = IF up THEN (v - frac) + unit ELSE v - frac
<1> DEFINE m == f.m
           p == 2^m
           j == m - t
           pj == 2^j
           u == 2^t
           s == Sign(f, v)
           E == ExpOf(f, v)
           a == ManOf(f, v)
           hid == Hidden(f, v)
           h == 2^(f.w - 1)
           whole == hid \div u
           frac == v % u
           int == IF up THEN whole + 1 ELSE whole
           word == IF up THEN (v - frac) + u ELSE v - frac
<1>1. /\ m \in Nat /\ m =< 2 * IntBits - 5 /\ m + 2 =< WideBits /\ IntBits \in Nat /\ WideBits \in Nat
      /\ p \in Nat \ {0} /\ 2 * IntBits =< Bias(f) /\ Bias(f) \in Nat /\ MaxExp(f) = 2 * Bias(f) + 1
      /\ 2^f.e = 2 * Bias(f) + 2 /\ h \in Nat \ {0}
  BY MantissaUnits, FormatOf
<1>2. /\ t \in 1..m /\ t \in 0..m /\ j \in 0..m /\ m \in 0..WideBits /\ t \in 0..WideBits /\ j \in 0..WideBits
      /\ j \in 0..(WideBits - 1) /\ t - 1 \in 0..(WideBits - 1) /\ t - 1 \in 0..WideBits /\ m - j = t
      /\ t \in Nat \ {0} /\ j \in Nat
  BY <1>1
<1>3. p = pj * u /\ pj \in Nat \ {0} /\ u \in Nat \ {0}
  <2>1. 2^m = 2^(m - t) * 2^t
    <3> HIDE DEF m
    <3> QED BY <1>2, PowerSplit
  <2> HIDE DEF j, m
  <2> QED BY <1>2, <2>1, WidePowers DEF j
<1>4. /\ v \in Nat /\ s \in {0, 1} /\ E \in Nat /\ a \in 0..(p - 1) /\ hid = p + a
      /\ v = s * h + (E * p + a)
  BY FloatParts, FormatOf DEF Hidden
<1>5. hid % u = frac
  BY <1>2, HalvesOfHidden
<1>6. E = Bias(f) + m - t
  OBVIOUS
<1> HIDE DEF m, p, j, pj, u, s, E, a, hid, h
<1>7. hid \in Nat /\ a \in Nat /\ p =< hid /\ hid < 2 * p
  BY <1>1, <1>4
<1>8. whole \in pj..(2 * pj - 1) /\ frac \in 0..(u - 1) /\ hid = whole * u + frac /\ frac \in Nat
  <2>1. pj * u =< hid /\ hid < (2 * pj) * u /\ pj \in Nat /\ 2 * pj \in Nat
    <3>1. (2 * pj) * u = 2 * (pj * u)
      BY <1>3
    <3> QED BY <1>3, <1>7, <3>1
  <2>2. whole \in pj..(2 * pj - 1)
    BY <1>3, <1>7, <2>1, QuotientBounds
  <2>3. hid = (hid \div u) * u + (hid % u) /\ hid % u \in 0..(u - 1)
    BY <1>3, <1>7, Division
  <2>4. frac \in 0..(u - 1) /\ hid = whole * u + frac
    BY <1>5, <2>3
  <2> HIDE DEF whole, frac
  <2> QED BY <1>3, <2>2, <2>4
<1> HIDE DEF whole, frac
<1>9. whole \in Nat /\ int \in pj..(2 * pj) /\ int \in Nat
  BY <1>3, <1>8
<1>10. word = s * h + (E * p + (int * u - p)) /\ word \in Int /\ int * u \in Nat
  <2>1. s * h \in Nat /\ E * p \in Nat /\ whole * u \in Nat
    BY <1>1, <1>3, <1>4, <1>9
  <2>2. a = whole * u + frac - p
    BY <1>1, <1>4, <1>7, <1>8, <2>1
  <2>3. v - frac = s * h + (E * p + (whole * u - p))
    BY <1>1, <1>4, <1>8, <2>1, <2>2
  <2>4. (whole + 1) * u = whole * u + u
    BY <1>3, <1>9
  <2>5. CASE up
    <3>1. word = (v - frac) + u /\ int = whole + 1
      BY <2>5
    <3> HIDE DEF word, int
    <3> QED BY <1>1, <1>3, <1>4, <2>1, <2>3, <2>4, <3>1
  <2>6. CASE ~up
    <3>1. word = v - frac /\ int = whole
      BY <2>6
    <3> HIDE DEF word, int
    <3> QED BY <1>1, <1>3, <1>4, <2>1, <2>3, <3>1
  <2> QED BY <2>5, <2>6
<1> HIDE DEF int, word
<1>11. E \in Int /\ E + 1 \in Int /\ Low(E, f.e) = E /\ Low(E + 1, f.e) = E + 1
  <2> DEFINE qe == 2^f.e
  <2>1. qe = 2 * Bias(f) + 2
    BY <1>1
  <2> HIDE DEF qe
  <2>2. E \in Nat /\ E + 1 \in Nat /\ E < qe /\ E + 1 < qe /\ qe \in Nat
    BY <1>1, <1>2, <1>4, <1>6, <2>1
  <2>3. E % qe = E /\ (E + 1) % qe = E + 1
    BY <2>2, ModSmall
  <2> QED BY <2>2, <2>3 DEF Low, qe
<1>12. CASE int # 2 * pj
  <2>1. pj =< int /\ int < 2 * pj /\ j \in 0..f.m
    BY <1>2, <1>3, <1>9, <1>12 DEF m
  <2>2. NearestInt(f, s, int) = Pack(f, s, j + Bias(f), int * 2^(f.m - j))
    BY <1>9, <2>1, IntegerExact DEF pj
  <2>3. j + Bias(f) = E
    BY <1>1, <1>2, <1>6 DEF j
  <2>4. int * 2^(f.m - j) = int * u
    BY <1>2 DEF m, u
  <2>5. Low(int * u, f.m) = int * u - p
    <3> DEFINE z == int * u
    <3>1. z \in Nat /\ p =< z /\ z < 2 * p
      <4>1. pj * u =< int * u /\ int \in Nat
        BY <1>3, <1>9, <2>1, TimesMonotone
      <4>2. (int + 1) * u =< (2 * pj) * u /\ (int + 1) * u = int * u + u /\ (2 * pj) * u = 2 * (pj * u)
        <5>1. int + 1 \in Nat /\ 2 * pj \in Nat /\ int + 1 =< 2 * pj /\ u \in Nat
          BY <1>3, <1>9, <2>1
        <5>2. (int + 1) * u =< (2 * pj) * u
          BY <5>1, TimesMonotone
        <5> QED BY <1>3, <1>9, <5>2
      <4> QED BY <1>1, <1>3, <1>10, <4>1, <4>2
    <3>2. Low(z, f.m) = z % p
      BY DEF Low, p, m
    <3> HIDE DEF z
    <3> DEFINE y0 == z - p
    <3>3. y0 \in Nat /\ y0 < p /\ z = 1 * p + y0 /\ 1 \in Nat
      BY <1>1, <3>1
    <3> HIDE DEF y0
    <3>4. z % p = y0
      BY <1>1, <3>1, <3>3, DivUnique
    <3> QED BY <3>2, <3>4 DEF y0, z
  <2>6. Pack(f, s, E, int * u) = s * h + E * p + (int * u - p)
    <3> DEFINE z == int * u
    <3>1. z \in Int
      BY <1>10
    <3> HIDE DEF z
    <3>2. Pack(f, s, E, z) = s * 2^(f.w - 1) + Low(E, f.e) * 2^f.m + Low(z, f.m)
      BY <1>4, <1>11, <3>1, PackIs
    <3> QED BY <1>11, <2>5, <3>2 DEF z, h, p, m
  <2>7. s * h + E * p + (int * u - p) = s * h + (E * p + (int * u - p))
    <3>1. s * h \in Nat /\ E * p \in Nat
      BY <1>1, <1>4
    <3> QED BY <1>1, <1>10, <3>1
  <2>8. NearestInt(f, s, int) = word
    BY <1>10, <2>2, <2>3, <2>4, <2>6, <2>7
  <2> QED BY <2>8 DEF int, word, whole, frac, hid, u, s
<1>13. CASE int = 2 * pj
  <2> DEFINE k == j + 1
  <2>1. k \in 0..f.m /\ 2^k = int
    <3>1. 2^(j + 1) = 2 * 2^j
      BY <1>2, WidePowers DEF PowersDouble
    <3>2. k \in 0..m
      BY <1>1, <1>2 DEF j
    <3> QED BY <1>13, <3>1, <3>2 DEF m, pj
  <2>2. NearestInt(f, s, int) = Pack(f, s, k + Bias(f), int * 2^(f.m - k))
    <3>1. 2^k =< int /\ int < 2 * 2^k
      BY <1>3, <1>9, <1>13, <2>1
    <3> HIDE DEF k
    <3> QED BY <1>9, <2>1, <3>1, IntegerExact
  <2>3. k + Bias(f) = E + 1
    BY <1>1, <1>2, <1>6 DEF j
  <2>4. int * 2^(f.m - k) = p
    <3>1. 2^((t - 1) + 1) = 2 * 2^(t - 1) /\ (t - 1) + 1 = t /\ f.m - k = t - 1
      BY <1>1, <1>2, WidePowers DEF PowersDouble, j, m
    <3> DEFINE g == 2^(t - 1)
    <3>2. u = 2 * g /\ g \in Nat
      BY <1>2, <3>1, WidePowers DEF u
    <3>3. 2^(f.m - k) = g
      BY <3>1
    <3> HIDE DEF g, k
    <3>4. (2 * pj) * g = pj * (2 * g)
      BY <1>3, <3>2
    <3> QED BY <1>3, <1>13, <3>2, <3>3, <3>4
  <2>5. Low(p, f.m) = 0
    <3>1. p = 1 * p + 0 /\ 0 < p
      BY <1>1
    <3>2. p % p = 0
      BY <1>1, <3>1, DivUnique
    <3> QED BY <3>2 DEF Low, p, m
  <2>6. Pack(f, s, E + 1, p) = s * h + (E + 1) * p + 0
    <3>1. p \in Int
      BY <1>1
    <3> DEFINE e1 == E + 1
    <3>2. e1 \in Int /\ Low(e1, f.e) = e1
      BY <1>11
    <3> HIDE DEF e1
    <3>3. Pack(f, s, e1, p) = s * 2^(f.w - 1) + Low(e1, f.e) * 2^f.m + Low(p, f.m)
      BY <1>4, <3>1, <3>2, PackIs
    <3>4. Pack(f, s, e1, p) = s * h + e1 * p + 0
      BY <2>5, <3>2, <3>3 DEF h, p, m
    <3> QED BY <3>4 DEF e1
  <2>7. s * h + (E + 1) * p + 0 = s * h + (E * p + (int * u - p))
    <3>1. int * u = 2 * p
      <4>1. (2 * pj) * u = 2 * (pj * u)
        BY <1>3
      <4> QED BY <1>3, <1>13, <4>1
    <3>2. s * h \in Nat /\ E * p \in Nat /\ (E + 1) * p = E * p + p
      BY <1>1, <1>4
    <3> QED BY <1>1, <3>1, <3>2
  <2> HIDE DEF k
  <2>8. NearestInt(f, s, int) = word
    BY <1>10, <2>2, <2>3, <2>4, <2>6, <2>7
  <2> QED BY <2>8 DEF int, word, whole, frac, hid, u, s
<1> QED BY <1>12, <1>13

(* Bits on both sides of the point.                                         *)
LEMMA FRoundRightBetween ==
  ASSUME NEW f \in {F32, F64}, NEW v \in Words(f.w), NEW kind \in Kinds, NEW t \in 1..f.m,
         ExpOf(f, v) = Bias(f) + f.m - t
  PROVE  FRound(f, kind, v, 2^t, (v \div 2^(t - 1)) % 2) = RefRound(f, kind, v)
<1> DEFINE m == f.m
           unit == 2^t
           h == 2^(t - 1)
           guard == (v \div h) % 2
           s == Sign(f, v)
           E == ExpOf(f, v)
           hid == Hidden(f, v)
           frac == v % unit
           e == UnitExp(f, v)
           count == Least({-e, m + 2})
           unit2 == 2^count
           sig == IF IsZero(f, v) THEN ManOf(f, v) ELSE hid
           whole == sig \div unit2
           rest == sig % unit2
           up == CASE kind = "trunc" -> FALSE
                   [] kind = "floor" -> rest # 0 /\ s = 1
                   [] kind = "ceil"  -> rest # 0 /\ s = 0
                   [] kind = "round" -> 2 * rest >= unit2
           bump == \/ kind = "floor" /\ frac # 0 /\ s = 1
                   \/ kind = "ceil" /\ frac # 0 /\ ~(s = 1)
                   \/ kind = "round" /\ guard = 1
           int == IF up THEN whole + 1 ELSE whole
<1>1. /\ m \in Nat /\ m + 2 =< WideBits /\ WideBits \in Nat
      /\ Bias(f) \in Nat /\ Bias(f) >= 10
  BY MantissaUnits
<1>2. v \in Nat /\ s \in {0, 1} /\ hid \in 2^m..(2 * 2^m - 1) /\ E = Bias(f) + m - t /\ t \in 1..m
  BY FloatParts
<1>3. t \in Nat \ {0} /\ t \in 0..WideBits /\ t - 1 \in 0..WideBits /\ t - 1 \in 0..(WideBits - 1) /\ t \in 0..f.m
      /\ (t - 1) + 1 = t /\ t < m + 2
  <2> HIDE DEF m
  <2>1. t \in Nat \ {0} /\ t \in 0..WideBits /\ t - 1 \in 0..WideBits /\ t - 1 \in 0..(WideBits - 1)
        /\ (t - 1) + 1 = t /\ t < m + 2
    BY <1>1, <1>2
  <2>2. t \in 0..f.m
    BY <1>1, <1>2 DEF m
  <2> QED BY <2>1, <2>2
<1>4. unit = 2 * h /\ h \in Nat \ {0} /\ unit \in Nat \ {0}
  BY <1>3, WidePowers DEF PowersDouble
<1>5. e = E - Bias(f) - m
  BY DEF UnitExp
<1>6. RefRound(f, kind, v) = IF e >= 0 THEN v
                             ELSE IF int = 0 THEN Zero(f, s) ELSE Nearest(f, s, 0, int, FALSE).word
  BY DEF RefRound
<1>7. FRound(f, kind, v, 2^t, (v \div 2^(t - 1)) % 2) =
        IF E >= Bias(f) + m THEN v
        ELSE IF E < Bias(f) THEN BelowOne(f, kind, v)
        ELSE IF bump THEN (v - frac) + unit ELSE v - frac
  BY DEF FRound
<1>8. IsZero(f, v) <=> E = 0
  BY DEF IsZero
<1>9. hid % unit = frac /\ hid \in Nat
  BY <1>3, HalvesOfHidden
<1> DEFINE pm == 2^m
<1>10. hid \div unit \in Nat \ {0}
  <2> DEFINE pj == 2^(m - t)
  <2>1. pm = pj * unit /\ pj \in Nat \ {0}
    <3>1. m \in 0..WideBits /\ m - t \in 0..WideBits
      <4> HIDE DEF m
      <4> QED BY <1>1, <1>2
    <3>2. 2^m = 2^(m - t) * 2^t
      <4> HIDE DEF m
      <4> QED BY <1>3, <3>1, PowerSplit DEF m
    <3> HIDE DEF m
    <3> QED BY <3>1, <3>2, WidePowers
  <2>2. pm \in Nat /\ hid \in pm..(2 * pm - 1)
    BY <1>2, MantissaUnits
  <2> HIDE DEF pm, pj, unit, hid
  <2>3. pj * unit =< hid /\ hid < (2 * pj) * unit /\ pj \in Nat /\ 2 * pj \in Nat
    <3>1. (2 * pj) * unit = 2 * (pj * unit)
      BY <1>4, <2>1
    <3> QED BY <2>1, <2>2, <3>1
  <2>4. hid \div unit \in pj..(2 * pj - 1)
    BY <1>4, <1>9, <2>3, QuotientBounds
  <2> QED BY <2>1, <2>4
<1> HIDE DEF m, E, e
<1>11. e = 0 - t /\ -e = t /\ ~(e >= 0) /\ E # 0 /\ ~(E >= Bias(f) + m) /\ ~(E < Bias(f)) /\ -e \in Int
       /\ m + 2 \in Int
  <2>1. e = 0 - t
    BY <1>1, <1>2, <1>3, <1>5
  <2>2. -e = t
    BY <1>3, <2>1
  <2> QED BY <1>1, <1>2, <1>3, <2>1, <2>2
<1>12. unit2 = unit
  <2>1. count \in {-e, m + 2} /\ count =< -e
    BY <1>11, LeastOfTwo
  <2>2. count = t
    <3> HIDE DEF count
    <3> QED BY <1>1, <1>3, <1>11, <2>1
  <2> HIDE DEF count
  <2> QED BY <2>2
<1>13. sig = hid
  BY <1>8, <1>11
<1> HIDE DEF sig, unit2, hid, count
<1>14. rest = frac /\ whole = hid \div unit
  BY <1>9, <1>12, <1>13
<1>15. guard = 1 <=> 2 * frac >= unit
  <2>1. guard = 1 <=> v % (2 * h) >= h
    BY <1>2, <1>4, GuardBits
  <2>2. frac = v % (2 * h)
    BY <1>4
  <2>3. frac \in Nat
    <3> HIDE DEF unit, frac
    <3>1. v % unit \in 0..(unit - 1)
      BY <1>2, <1>4, Division
    <3> QED BY <1>4, <3>1 DEF frac
  <2> HIDE DEF guard, frac, unit, h
  <2> QED BY <1>4, <2>1, <2>2, <2>3
<1> HIDE DEF rest, whole, frac, guard, unit, h, s
<1>16. up <=> bump
  <2> DEFINE some == frac # 0
             near == 2 * frac >= unit
  <2>1. (rest # 0 <=> some) /\ (2 * rest >= unit2 <=> near) /\ (guard = 1 <=> near)
    BY <1>12, <1>14, <1>15
  <2>2. s = 0 <=> ~(s = 1)
    BY <1>2
  <2>3. kind = "floor" \/ kind = "ceil" \/ kind = "trunc" \/ kind = "round"
    BY DEF Kinds
  <2> HIDE DEF some, near
  <2>4. up <=> \/ kind = "floor" /\ some /\ s = 1
               \/ kind = "ceil" /\ some /\ ~(s = 1)
               \/ kind = "round" /\ guard = 1
    <3>1. CASE kind = "floor"
      BY <2>1, <2>2, <3>1
    <3>2. CASE kind = "ceil"
      BY <2>1, <2>2, <3>2
    <3>3. CASE kind = "trunc"
      BY <2>1, <2>2, <3>3
    <3>4. CASE kind = "round"
      BY <2>1, <2>2, <3>4
    <3> QED BY <2>3, <3>1, <3>2, <3>3, <3>4
  <2> QED BY <2>4 DEF some
<1>17. bump \in BOOLEAN
  OBVIOUS
<1> HIDE DEF up, bump
<1>18. int = (IF bump THEN (hid \div unit) + 1 ELSE hid \div unit) /\ int # 0
  <2>1. int = IF bump THEN (hid \div unit) + 1 ELSE hid \div unit
    BY <1>14, <1>16
  <2> DEFINE z == hid \div unit
  <2>2. z \in Nat \ {0}
    BY <1>10 DEF hid, unit
  <2> HIDE DEF z, int
  <2>3. (IF bump THEN z + 1 ELSE z) # 0
    BY <1>17, <2>2
  <2> QED BY <2>1, <2>3 DEF z
<1> DEFINE chosen == IF bump THEN (hid \div unit) + 1 ELSE hid \div unit
<1>19. NearestInt(f, s, chosen) = IF bump THEN (v - frac) + unit ELSE v - frac
  BY <1>2, <1>17, WholeIsNearest DEF s, hid, unit, frac, E, m
<1> HIDE DEF chosen
<1>20. RefRound(f, kind, v) = NearestInt(f, s, chosen)
  <2>1. int = chosen
    BY <1>18 DEF chosen
  <2>2. int # 0
    BY <1>18
  <2> HIDE DEF int
  <2>3. RefRound(f, kind, v) = Nearest(f, s, 0, int, FALSE).word
    BY <1>6, <1>11, <2>2
  <2> QED BY <2>1, <2>3 DEF NearestInt
<1> QED BY <1>7, <1>11, <1>19, <1>20

(* floor, ceil, trunc and round, of any word and by any shifts that are     *)
(* right where they matter; infinities and NaNs are returned unchanged.     *)
LEMMA FRoundIs ==
  ASSUME NEW f \in {F32, F64}, NEW v \in Words(f.w), NEW kind \in Kinds, NEW oneShl, NEW guard,
         \A t \in 1..f.m : ExpOf(f, v) = Bias(f) + f.m - t =>
           oneShl = 2^t /\ guard = (v \div 2^(t - 1)) % 2
  PROVE  FRound(f, kind, v, oneShl, guard) =
           IF IsNaN(f, v) \/ IsInf(f, v) THEN v ELSE RefRound(f, kind, v)
<1> DEFINE E == ExpOf(f, v)
           m == f.m
           e == UnitExp(f, v)
<1>1. m \in Nat /\ Bias(f) \in Nat /\ MaxExp(f) = 2 * Bias(f) + 1 /\ m =< Bias(f) /\ E \in Nat
  <2>1. m \in Nat /\ m =< 2 * IntBits - 5 /\ IntBits \in Nat /\ Bias(f) \in Nat /\ 2 * IntBits =< Bias(f)
        /\ MaxExp(f) = 2 * Bias(f) + 1 /\ E \in 0..MaxExp(f)
    BY MantissaUnits, FloatParts
  <2> HIDE DEF m, E
  <2> QED BY <2>1
<1>2. e = E - Bias(f) - m
  BY DEF UnitExp
<1>3. IsNaN(f, v) \/ IsInf(f, v) => E = MaxExp(f)
  BY DEF IsNaN, IsInf
<1>4. CASE E >= Bias(f) + m
  <2>1. FRound(f, kind, v, oneShl, guard) = v
    BY <1>4 DEF FRound
  <2>2. e >= 0
    <3> HIDE DEF E, m, e
    <3> QED BY <1>1, <1>2, <1>4
  <2>3. RefRound(f, kind, v) = v
    BY <2>2 DEF RefRound
  <2> QED BY <2>1, <2>3
<1>5. ASSUME ~(E >= Bias(f) + m) PROVE ~(IsNaN(f, v) \/ IsInf(f, v))
  <2>1. E # MaxExp(f)
    <3> HIDE DEF E, m
    <3> QED BY <1>1, <1>5
  <2> QED BY <1>3, <2>1
<1>6. CASE E < Bias(f)
  <2>1. ~(E >= Bias(f) + m)
    <3> HIDE DEF E, m
    <3> QED BY <1>1, <1>6
  <2>2. FRound(f, kind, v, oneShl, guard) = BelowOne(f, kind, v)
    BY <1>6, <2>1 DEF FRound
  <2>3. BelowOne(f, kind, v) = RefRound(f, kind, v)
    BY <1>6, BelowOneRight
  <2> QED BY <1>5, <2>1, <2>2, <2>3
<1>7. CASE ~(E < Bias(f)) /\ ~(E >= Bias(f) + m)
  <2> DEFINE t == Bias(f) + m - E
  <2>1. t \in 1..m /\ E = Bias(f) + m - t
    <3> HIDE DEF E, m
    <3> QED BY <1>1, <1>7
  <2> HIDE DEF t
  <2>2. oneShl = 2^t /\ guard = (v \div 2^(t - 1)) % 2
    BY <2>1
  <2>3. FRound(f, kind, v, 2^t, (v \div 2^(t - 1)) % 2) = RefRound(f, kind, v)
    BY <2>1, FRoundRightBetween
  <2> QED BY <1>5, <1>7, <2>2, <2>3
<1> QED BY <1>4, <1>6, <1>7

(* The bodies: the masks and the pairs give those shifts.                   *)
LEMMA UnitShifted ==
  ASSUME NEW f \in {F32, F64}, NEW E \in Nat, NEW t \in 1..f.m, E = Bias(f) + f.m - t
  PROVE  /\ Sub(IntBits, Bias(f) + f.m, E) = t
         /\ Sub(IntBits, t, 1) = t - 1
         /\ t \in 1..(2 * IntBits - 5) /\ t - 1 \in 0..(2 * IntBits - 1) /\ t \in 0..(2 * IntBits - 1)
<1> DEFINE m == f.m
           p == 2^IntBits
<1>1. m \in Nat /\ m =< 2 * IntBits - 5 /\ IntBits \in Nat /\ Bias(f) \in Nat
  BY MantissaUnits
<1>2. p \in Nat /\ 2 * IntBits - 5 < p
  <2> DEFINE h == 2^(IntBits - 1)
  <2>1. IntBits \in 0..(2 * IntBits) /\ IntBits - 1 \in 0..(2 * IntBits)
    BY IntPowers
  <2>2. p = 2 * h /\ h \in Nat /\ h > IntBits - 1
    BY <2>1, IntPowers
  <2> HIDE DEF p, h
  <2> QED BY <1>1, <2>2
<1> HIDE DEF m, p
<1>3. t \in 1..m /\ E = Bias(f) + m - t
  BY DEF m
<1>4. (Bias(f) + m) - E = t /\ t \in Nat /\ t < p /\ t - 1 \in Nat /\ t - 1 < p
  BY <1>1, <1>2, <1>3
<1>5. t % p = t /\ (t - 1) % p = t - 1
  BY <1>2, <1>4, ModSmall
<1>6. Sub(IntBits, Bias(f) + f.m, E) = t /\ Sub(IntBits, t, 1) = t - 1
  BY <1>4, <1>5 DEF Sub, p, m
<1>7. t \in 1..(2 * IntBits - 5) /\ t - 1 \in 0..(2 * IntBits - 1) /\ t \in 0..(2 * IntBits - 1)
  BY <1>1, <1>3
<1> QED BY <1>6, <1>7

LEMMA FRoundF32Right ==
  ASSUME NEW v \in Words(IntBits), NEW kind \in Kinds
  PROVE  emitFRoundF32Body(kind, v) =
           IF IsNaN(F32, v) \/ IsInf(F32, v) THEN v ELSE RefRound(F32, kind, v)
<1> DEFINE oneShl == Shl(IntBits, 1, FRoundShifts(v).frac)
           guard == Bit(v, FRoundShifts(v).guard)
           f == F32
<1>1. ASSUME NEW t \in 1..f.m, ExpOf(f, v) = Bias(f) + f.m - t
      PROVE  oneShl = 2^t /\ guard = (v \div 2^(t - 1)) % 2
  <2>1. v \in Words(F32.w) /\ F32.m \in 1..(IntBits - 5) /\ IntBits \in Nat
    BY FormatParts, IntPowers
  <2>2. ExpOf(f, v) \in Nat
    BY <2>1, Exponents
  <2>3. Sub(IntBits, Bias(f) + f.m, ExpOf(f, v)) = t /\ Sub(IntBits, t, 1) = t - 1
    BY <1>1, <2>2, UnitShifted
  <2>4. FRoundShifts(v).frac = t % IntBits /\ FRoundShifts(v).guard = (t - 1) % IntBits
    BY <2>3 DEF FRoundShifts
  <2>5. t \in Nat /\ t < IntBits /\ t - 1 \in Nat /\ t - 1 < IntBits
    BY <2>1
  <2>6. t % IntBits = t /\ (t - 1) % IntBits = t - 1
    <3> DEFINE z == t - 1
    <3>1. z \in Nat /\ z < IntBits
      BY <2>5
    <3> HIDE DEF z, f
    <3>2. t % IntBits = t /\ z % IntBits = z
      BY <2>1, <2>5, <3>1, ModSmall
    <3> QED BY <3>2 DEF z
  <2>7. Shl(IntBits, 1, t) = 2^t
    <3> DEFINE room == 2^(IntBits - t)
    <3>1. IntBits - t \in 0..(2 * IntBits) /\ IntBits - t >= 1
      BY <2>1, <2>5
    <3>2. room > IntBits - t /\ room \in Nat
      <4> DEFINE c == IntBits - t
      <4> HIDE DEF c
      <4>1. c \in 0..(2 * IntBits)
        BY <3>1 DEF c
      <4>2. 2^c \in Nat \ {0} /\ 2^c > c
        BY <4>1, IntPowers
      <4> QED BY <4>2 DEF c
    <3>3. Shl(IntBits, 1, t) = (1 % room) * 2^t /\ 2^t \in Nat
      <4>1. t \in 0..(2 * IntBits)
        BY <2>1, <2>5
      <4> QED BY <4>1, IntPowers DEF Shl
    <3> HIDE DEF room, f
    <3>4. 1 < room /\ 1 \in Nat
      BY <2>1, <2>5, <3>1, <3>2
    <3>5. 1 % room = 1
      BY <3>2, <3>4, ModSmall
    <3> DEFINE z == 2^t
    <3>6. z \in Nat /\ Shl(IntBits, 1, t) = (1 % room) * z
      BY <3>3
    <3> HIDE DEF z
    <3>7. Shl(IntBits, 1, t) = z
      BY <3>5, <3>6
    <3> QED BY <3>7 DEF z
  <2> QED BY <2>4, <2>6, <2>7 DEF Bit
<1>2. v \in Words(f.w) /\ f \in {F32, F64}
  BY FormatParts
<1>3. emitFRoundF32Body(kind, v) = FRound(f, kind, v, oneShl, guard)
  BY DEF emitFRoundF32Body
<1> HIDE DEF f, oneShl, guard
<1>4. FRound(f, kind, v, oneShl, guard) = IF IsNaN(f, v) \/ IsInf(f, v) THEN v ELSE RefRound(f, kind, v)
  BY <1>1, <1>2, FRoundIs
<1> QED BY <1>3, <1>4 DEF f

LEMMA FRoundF64Right ==
  ASSUME NEW v \in Words(2 * IntBits), NEW kind \in Kinds
  PROVE  emitFRoundF64Body(kind, v) =
           IF IsNaN(F64, v) \/ IsInf(F64, v) THEN v ELSE RefRound(F64, kind, v)
<1> DEFINE frac == Sub(IntBits, Bias(F64) + F64.m, ExpOf(F64, v))
           oneShl == ShlPair(1, frac)
           guard == Bit(LshrPair(v, Sub(IntBits, frac, 1)), 0)
           f == F64
<1>1. ASSUME NEW t \in 1..f.m, ExpOf(f, v) = Bias(f) + f.m - t
      PROVE  oneShl = 2^t /\ guard = (v \div 2^(t - 1)) % 2
  <2>1. v \in Words(F64.w) /\ IntBits \in Nat
    BY FormatParts, IntPowers
  <2>2. ExpOf(f, v) \in Nat
    BY <2>1, Exponents
  <2>3. Sub(IntBits, Bias(f) + f.m, ExpOf(f, v)) = t /\ Sub(IntBits, t, 1) = t - 1
        /\ t \in 1..(2 * IntBits - 5) /\ t - 1 \in 0..(2 * IntBits - 1) /\ t \in 0..(2 * IntBits - 1)
    BY <1>1, <2>2, UnitShifted
  <2>4. frac = t /\ Sub(IntBits, frac, 1) = t - 1
    BY <2>3
  <2>5. oneShl = 2^t
    <3> DEFINE c == 2 * IntBits - t
    <3>1. c \in 0..(2 * IntBits) /\ c >= 1
      BY <2>1, <2>3
    <3> HIDE DEF c, f
    <3>2. 2^c \in Nat \ {0} /\ 2^c > c /\ 2^(2 * IntBits) > 2 * IntBits /\ 2^(2 * IntBits) \in Nat
      <4>1. 2 * IntBits \in 0..(2 * IntBits)
        BY <2>1
      <4> QED BY <3>1, <4>1, IntPowers
    <3>3. 1 < 2^c
      BY <2>1, <3>1, <3>2
    <3>4. 1 \in 0..(2^(2 * IntBits) - 1)
      BY <2>1, <2>3, <3>2
    <3> DEFINE one == 1
    <3>5. one \in Words(2 * IntBits) /\ one < 2^(2 * IntBits - t)
      BY <3>3, <3>4 DEF Words, c
    <3> HIDE DEF one
    <3>6. ShlPair(one, t) = one * 2^t
      BY <2>3, <3>5, ShlPairIs
    <3>7. 1 * 2^t = 2^t
      <4> DEFINE z == 2^t
      <4>1. z \in Nat
        <5>1. t \in 0..(2 * IntBits)
          BY <2>1, <2>3
        <5> QED BY <5>1, IntPowers
      <4> HIDE DEF z
      <4>2. 1 * z = z
        BY <4>1
      <4> QED BY <4>2 DEF z
    <3> QED BY <2>4, <3>6, <3>7 DEF one
  <2>6. guard = (v \div 2^(t - 1)) % 2
    <3> DEFINE h == 2^(t - 1)
               z == v \div h
    <3>1. LshrPair(v, Sub(IntBits, frac, 1)) = z
      BY <2>3, <2>4, LshrPairIs
    <3>2. h \in Nat \ {0} /\ v \in Nat
      <4>1. t - 1 \in 0..(2 * IntBits)
        BY <2>1, <2>3
      <4>2. 2^(t - 1) \in Nat \ {0}
        BY <4>1, IntPowers
      <4> QED BY <2>1, <4>2, FloatParts
    <3>3. 2^0 = 1
      BY WidePowers DEF PowersDouble
    <3>4. z \in Nat
      <4> HIDE DEF h
      <4> QED BY <3>2, Division
    <3>5. guard = (z \div 1) % 2
      BY <3>1, <3>3 DEF Bit
    <3> HIDE DEF z, guard
    <3>6. z = z * 1 + 0 /\ 0 < 1 /\ 0 \in Nat /\ 1 \in Nat \ {0}
      BY <3>4
    <3>7. z \div 1 = z
      BY <3>4, <3>6, DivUnique
    <3> QED BY <3>5, <3>7 DEF z
  <2> QED BY <2>5, <2>6
<1>2. v \in Words(f.w) /\ f \in {F32, F64}
  BY FormatParts
<1>3. emitFRoundF64Body(kind, v) = FRound(f, kind, v, oneShl, guard)
  BY DEF emitFRoundF64Body
<1> HIDE DEF f, oneShl, guard
<1>4. FRound(f, kind, v, oneShl, guard) = IF IsNaN(f, v) \/ IsInf(f, v) THEN v ELSE RefRound(f, kind, v)
  BY <1>1, <1>2, FRoundIs
<1> QED BY <1>3, <1>4 DEF f

-----------------------------------------------------------------------------
(* Products. The carry out of a sum of words, seen in that it is less.      *)
LEMMA CarryOut ==
  ASSUME NEW p \in Nat \ {0}, NEW a \in 0..(p - 1), NEW b \in 0..(p - 1)
  PROVE  /\ (a + b) % p \in 0..(p - 1)
         /\ a + b = ((a + b) % p) + (IF (a + b) % p < a THEN 1 ELSE 0) * p
<1>1. CASE a + b < p
  <2>1. (a + b) % p = a + b
    BY <1>1, ModSmall
  <2> QED BY <1>1, <2>1
<1>2. CASE a + b >= p
  <2> DEFINE l == a + b - p
             v == a + b
             one == 1
  <2>1. l \in Nat /\ l < p /\ v = one * p + l /\ l < a /\ v \in Nat /\ one \in Nat
    BY <1>2
  <2> HIDE DEF l, v, one
  <2>2. v % p = l
    BY <2>1, DivUnique
  <2>3. v % p \in 0..(p - 1) /\ v = (v % p) + 1 * p /\ v % p < a
    BY <2>1, <2>2 DEF one
  <2> QED BY <2>3 DEF v
<1> QED BY <1>1, <1>2

(* Two numbers of two digits each, the middle and the low digits of their   *)
(* product and the carries out of the sums that make them.                  *)
DigitProducts(p, a1, a0, b1, b0, mid, c1, low, c2) ==
  /\ p \in Nat \ {0} /\ {a1, a0, b1, b0} \subseteq 0..(p - 1)
  /\ mid \in Nat /\ low \in 0..(p * p - 1) /\ c1 \in {0, 1} /\ c2 \in {0, 1}
  /\ a0 * b1 + a1 * b0 = mid + c1 * (p * p)
  /\ a0 * b0 + (mid % p) * p = low + c2 * (p * p)

(* A product of two numbers with two digits each, from the four products of *)
(* their digits and the carries of the sums.                                *)
LEMMA FourProducts ==
  ASSUME NEW p, NEW a1, NEW a0, NEW b1, NEW b0, NEW mid, NEW c1, NEW low, NEW c2,
         DigitProducts(p, a1, a0, b1, b0, mid, c1, low, c2),
         NEW high, high = a1 * b1 + mid \div p + c1 * p + c2
  PROVE  /\ (a1 * p + a0) * (b1 * p + b0) = high * (p * p) + low
         /\ high \in 0..(p * p - 1)
<1> USE DEF DigitProducts
<1> DEFINE hh == a1 * b1
           cross == a0 * b1 + a1 * b0
           ll == a0 * b0
           mh == mid \div p
           ml == mid % p
           sq == p * p
           a == a1 * p + a0
           b == b1 * p + b0
<1>1. mh \in Nat /\ ml \in 0..(p - 1) /\ mid = mh * p + ml /\ p \in Nat \ {0}
      /\ c1 \in {0, 1} /\ c2 \in {0, 1} /\ low \in 0..(p * p - 1)
  BY Division
<1>2. hh \in Nat /\ cross \in Nat /\ ll \in Nat /\ sq \in Nat \ {0} /\ low \in Nat
  OBVIOUS
<1>3. a * b = hh * sq + cross * p + ll
  <2>1. a * b = (a1 * p) * (b1 * p) + (a1 * p) * b0 + a0 * (b1 * p) + a0 * b0
    OBVIOUS
  <2>2. (a1 * p) * (b1 * p) = (a1 * b1) * (p * p) /\ (a1 * p) * b0 = (a1 * b0) * p
        /\ a0 * (b1 * p) = (a0 * b1) * p
    OBVIOUS
  <2>3. (a0 * b1 + a1 * b0) * p = (a0 * b1) * p + (a1 * b0) * p
    OBVIOUS
  <2>4. (a1 * b1) * (p * p) \in Nat /\ (a1 * b0) * p \in Nat /\ (a0 * b1) * p \in Nat
    OBVIOUS
  <2> HIDE DEF a, b
  <2> QED BY <1>2, <2>1, <2>2, <2>3, <2>4
<1>4. cross = mid + c1 * sq /\ ll + ml * p = low + c2 * sq /\ high = hh + mh + c1 * p + c2
  OBVIOUS
<1> HIDE DEF DigitProducts
<1>5. a \in 0..(sq - 1) /\ b \in 0..(sq - 1)
  <2> USE DEF DigitProducts
  <2>1. a1 * p =< (p - 1) * p /\ b1 * p =< (p - 1) * p
    <3>1. a1 \in Nat /\ b1 \in Nat /\ p - 1 \in Nat /\ a1 =< p - 1 /\ b1 =< p - 1
      OBVIOUS
    <3> QED BY <3>1, TimesMonotone
  <2>2. (p - 1) * p = p * p - p /\ a1 * p \in Nat /\ b1 * p \in Nat
    OBVIOUS
  <2> QED BY <2>1, <2>2
<1> HIDE DEF hh, cross, ll, mh, ml, sq, a, b
<1>6. high \in Nat /\ c1 * p \in Nat /\ ml \in Nat /\ a \in Nat /\ b \in Nat /\ c2 * sq \in Nat
  BY <1>1, <1>2, <1>4, <1>5
<1>7. a * b = high * sq + low
  <2>1. cross * p = (mh * p) * p + ml * p + (c1 * sq) * p
    BY <1>1, <1>2, <1>4, <1>6
  <2>2. (mh * p) * p = mh * sq /\ (c1 * sq) * p = (c1 * p) * sq
    <3>1. (mh * p) * p = mh * (p * p) /\ (c1 * (p * p)) * p = (c1 * p) * (p * p)
      BY <1>1
    <3> QED BY <3>1 DEF sq
  <2>3. (hh + mh + c1 * p + c2) * sq = hh * sq + mh * sq + (c1 * p) * sq + c2 * sq
    BY <1>1, <1>2, <1>6
  <2>4. hh * sq \in Nat /\ mh * sq \in Nat /\ (c1 * p) * sq \in Nat /\ ml * p \in Nat
    BY <1>1, <1>2, <1>6
  <2> QED BY <1>2, <1>3, <1>4, <1>6, <2>1, <2>2, <2>3, <2>4
<1>8. high < sq
  <2> SUFFICES ASSUME sq =< high PROVE FALSE
    BY <1>2, <1>6
  <2>1. sq * sq =< high * sq /\ high * sq \in Nat
    BY <1>2, <1>6, TimesMonotone
  <2>2. a * b =< (sq - 1) * b /\ (sq - 1) * b =< (sq - 1) * sq
    <3>1. a =< sq - 1 /\ sq - 1 \in Nat /\ b =< sq
      BY <1>2, <1>5
    <3>2. b * (sq - 1) =< sq * (sq - 1)
      BY <1>2, <1>6, <3>1, TimesMonotone
    <3>3. b * (sq - 1) = (sq - 1) * b /\ sq * (sq - 1) = (sq - 1) * sq
      BY <1>2, <1>6
    <3> QED BY <1>2, <1>6, <3>1, <3>2, <3>3, TimesMonotone
  <2>3. (sq - 1) * sq = sq * sq - sq /\ sq * sq \in Nat /\ (sq - 1) * b \in Nat /\ a * b \in Nat
    BY <1>2, <1>6
  <2> QED BY <1>2, <1>7, <2>1, <2>2, <2>3
<1>9. high \in 0..(sq - 1)
  <2> QED BY <1>2, <1>6, <1>8
<1> QED BY <1>7, <1>9 DEF sq, a, b

(* Half an i32.                                                             *)
LEMMA HalfWords ==
  LET k == IntBits \div 2
  IN  /\ k \in Nat /\ k \in 0..IntBits /\ k \in 0..WideBits /\ IntBits - k = k
      /\ 2^k \in Nat \ {0} /\ 2^IntBits = 2^k * 2^k
<1> DEFINE k == IntBits \div 2
           w == IntBits
<1>1. w \in Nat /\ w % 2 = 0 /\ w >= 5 /\ WideBits = 2 * w + 2
  BY FormatsFit, IntPowers DEF WideBits
<1>2. k \in Nat /\ w = 2 * k
  <2> HIDE DEF w
  <2>1. w \div 2 \in Nat /\ w = 2 * (w \div 2)
    BY <1>1
  <2> QED BY <2>1 DEF w
<1>3. k \in 0..w /\ k \in 0..WideBits /\ w - k = k /\ k + k =< WideBits
  <2> HIDE DEF w, k
  <2> QED BY <1>1, <1>2
<1>4. 2^(k + k) = 2^k * 2^k /\ 2^k \in Nat \ {0}
  <2> HIDE DEF k
  <2> QED BY <1>3, WidePowers
<1>5. k + k = w
  <2> HIDE DEF k, w
  <2> QED BY <1>2
<1> HIDE DEF k
<1> QED BY <1>2, <1>3, <1>4, <1>5 DEF k

(* The digits of a word in base 2^h.                                        *)
LEMMA TwoHalves ==
  ASSUME NEW p \in Nat \ {0}, NEW v \in 0..(p * p - 1)
  PROVE  v \div p \in 0..(p - 1) /\ v % p \in 0..(p - 1) /\ v = (v \div p) * p + (v % p)
  BY Parted

(* The product of two i32 in an i64, as emitMulU32U32ToI64 computes it.     *)
LEMMA MulPairIs ==
  ASSUME NEW a \in Words(IntBits), NEW b \in Words(IntBits)
  PROVE  /\ MulPair(a, b) = a * b
         /\ a * b \in Words(2 * IntBits)
<1> DEFINE k == IntBits \div 2
           p == 2^k
           a1 == a \div p
           a0 == a % p
           b1 == b \div p
           b0 == b % p
           sq == 2^IntBits
           ll == a0 * b0
           lh == a0 * b1
           hl == a1 * b0
           hh == a1 * b1
           mid == (lh + hl) % sq
           shifted == ((mid % p) % p) * p
           low == (ll + shifted) % sq
           midCarry == IF mid < lh THEN p ELSE 0
           carry == IF low < ll THEN 1 ELSE 0
           sum == hh + ((mid \div p) + midCarry + carry)
<1>1. /\ k \in Nat /\ IntBits - k = k /\ p \in Nat \ {0} /\ sq = p * p
  BY HalfWords
<1>2. MulPair(a, b) = (sum % sq) * sq + low
  <2>1. Shl(IntBits, Low(mid, k), k) = shifted
    <3>1. Shl(IntBits, Low(mid, k), k) = ((mid % p) % 2^(IntBits - k)) * p
      BY DEF Shl, Low
    <3> HIDE DEF mid, k
    <3> QED BY <1>1, <3>1
  <2>2. MulPair(a, b) =
          Pair(Add(IntBits, hh, LShr(mid, k) + midCarry + (IF Add(IntBits, ll, Shl(IntBits, Low(mid, k), k)) < ll THEN 1 ELSE 0)),
               Add(IntBits, ll, Shl(IntBits, Low(mid, k), k)))
    BY Zenon DEF MulPair, Low, LShr, Add
  <2> HIDE DEF shifted, mid, midCarry, hh, ll, k
  <2>3. MulPair(a, b) =
          Pair(Add(IntBits, hh, LShr(mid, k) + midCarry + (IF Add(IntBits, ll, shifted) < ll THEN 1 ELSE 0)),
               Add(IntBits, ll, shifted))
    BY <2>1, <2>2
  <2> QED BY <2>3 DEF Pair, Add, LShr
<1>3. a \in 0..(p * p - 1) /\ b \in 0..(p * p - 1)
  BY <1>1 DEF Words
<1>4. /\ a1 \in 0..(p - 1) /\ a0 \in 0..(p - 1) /\ a = a1 * p + a0
      /\ b1 \in 0..(p - 1) /\ b0 \in 0..(p - 1) /\ b = b1 * p + b0
  <2> HIDE DEF p
  <2> QED BY <1>1, <1>3, TwoHalves
<1> HIDE DEF p, a1, a0, b1, b0, sq
<1>5. /\ ll \in 0..(sq - 1) /\ lh \in 0..(sq - 1) /\ hl \in 0..(sq - 1) /\ hh \in Nat
  <2>1. \A u, t \in 0..(p - 1) : u * t \in 0..(p * p - 1)
    <3> SUFFICES ASSUME NEW u \in 0..(p - 1), NEW t \in 0..(p - 1) PROVE u * t \in 0..(p * p - 1)
      OBVIOUS
    <3>1. u \in Nat /\ t \in Nat /\ u =< p /\ t =< p - 1 /\ p \in Nat /\ p - 1 \in Nat
      BY <1>1
    <3>2. u * t =< p * t /\ t * p =< (p - 1) * p
      BY <3>1, TimesMonotone
    <3>3. p * t = t * p /\ (p - 1) * p = p * p - p /\ u * t \in Nat /\ p * p \in Nat
      BY <3>1
    <3> QED BY <1>1, <3>1, <3>2, <3>3
  <2>2. hh \in Nat
    BY <1>1, <1>4
  <2> QED BY <1>1, <1>4, <2>1, <2>2
<1>6. sq \in Nat \ {0}
  BY <1>1
<1> DEFINE c1 == IF mid < lh THEN 1 ELSE 0
           c2 == IF low < ll THEN 1 ELSE 0
<1>7. mid \in 0..(sq - 1) /\ lh + hl = mid + c1 * sq
  <2> HIDE DEF lh, hl
  <2> QED BY <1>5, <1>6, CarryOut
<1> HIDE DEF mid
<1>8. shifted = (mid % p) * p /\ shifted \in 0..(sq - 1)
  <2> DEFINE ml == mid % p
  <2>1. ml \in 0..(p - 1) /\ ml \in Nat
    <3>1. mid \in Nat
      BY <1>7
    <3> QED BY <1>1, <3>1, Division
  <2> HIDE DEF ml
  <2>2. ml % p = ml
    BY <1>1, <2>1, ModSmall
  <2>3. ml * p =< (p - 1) * p /\ (p - 1) * p = p * p - p /\ ml * p \in Nat /\ p * p \in Nat
    <3>1. ml =< p - 1 /\ p - 1 \in Nat
      BY <1>1, <2>1
    <3> QED BY <1>1, <2>1, <3>1, TimesMonotone
  <2>4. ml * p \in 0..(sq - 1)
    BY <1>1, <2>3
  <2>5. (ml % p) * p = ml * p
    BY <2>2
  <2> QED BY <2>4, <2>5 DEF ml
<1> HIDE DEF shifted
<1>9. low \in 0..(sq - 1) /\ ll + shifted = low + c2 * sq
  <2> HIDE DEF ll
  <2> QED BY <1>5, <1>6, <1>8, CarryOut
<1> HIDE DEF low
<1>10. c1 \in {0, 1} /\ c2 \in {0, 1} /\ mid \in Nat
  BY <1>7
<1>11. midCarry = c1 * p /\ carry = c2
  <2>1. 1 * p = p /\ 0 * p = 0
    BY <1>1
  <2> QED BY <2>1
<1> HIDE DEF c1, c2, midCarry, carry
<1> DEFINE high == a1 * b1 + mid \div p + c1 * p + c2
<1>12. a * b = high * (p * p) + low /\ high \in 0..(p * p - 1)
  <2>1. /\ a0 * b1 + a1 * b0 = mid + c1 * (p * p)
        /\ a0 * b0 + (mid % p) * p = low + c2 * (p * p) /\ low \in 0..(p * p - 1)
    BY <1>1, <1>7, <1>8, <1>9
  <2> HIDE DEF ll, lh, hl, hh, sum
  <2>3. high = a1 * b1 + mid \div p + c1 * p + c2
    OBVIOUS
  <2> HIDE DEF high
  <2>2. (a1 * p + a0) * (b1 * p + b0) = high * (p * p) + low /\ high \in 0..(p * p - 1)
    <3>1. DigitProducts(p, a1, a0, b1, b0, mid, c1, low, c2)
      BY <1>1, <1>4, <1>10, <2>1 DEF DigitProducts
    <3> QED BY <2>3, <3>1, FourProducts
  <2> QED BY <1>4, <2>2
<1>13. sum = high
  <2>1. mid \div p \in Nat /\ c1 * p \in Nat /\ c2 \in Nat
    <3>1. mid \div p \in Nat
      BY <1>1, <1>10, Division
    <3> QED BY <1>1, <1>10, <3>1
  <2>2. sum = hh + (mid \div p + c1 * p + c2)
    BY <1>11
  <2>3. high = hh + mid \div p + c1 * p + c2
    OBVIOUS
  <2> HIDE DEF hh, sum, high
  <2> QED BY <1>5, <2>1, <2>2, <2>3
<1> HIDE DEF sum, high
<1>14. sum % sq = high
  <2>1. high \in Nat /\ high < sq
    BY <1>1, <1>6, <1>12
  <2> QED BY <1>6, <1>13, <2>1, ModSmall
<1>15. MulPair(a, b) = a * b
  BY <1>1, <1>2, <1>12, <1>14
<1>16. a * b \in 0..(sq * sq - 1)
  <2>1. high * sq =< (sq - 1) * sq /\ (sq - 1) * sq = sq * sq - sq /\ high * sq \in Nat /\ sq * sq \in Nat
    <3>1. high \in Nat /\ high =< sq - 1 /\ sq - 1 \in Nat
      BY <1>1, <1>6, <1>12
    <3> QED BY <1>6, <3>1, TimesMonotone
  <2>2. a * b = high * sq + low
    BY <1>1, <1>12
  <2> QED BY <1>6, <1>9, <2>1, <2>2
<1>17. 2^(2 * IntBits) = sq * sq
  BY IntPowers DEF sq
<1> QED BY <1>15, <1>16, <1>17 DEF Words

(* A product in two words is exact.                                         *)
ExactProduct(f, prod, a, b) ==
  /\ prod.high \in 0..(2^f.w - 1) /\ prod.low \in 0..(2^f.w - 1)
  /\ a * b = prod.high * 2^f.w + prod.low

(* Of two words of an i32, by halves of words.                              *)
LEMMA ProductSf3Is ==
  ASSUME NEW a \in Words(IntBits), NEW b \in Words(IntBits)
  PROVE  ExactProduct(F32, ProductSf3(a, b), a, b)
<1> DEFINE k == IntBits \div 2
           p == 2^k
           a1 == a \div p
           a0 == a % p
           b1 == b \div p
           b0 == b % p
           sq == 2^IntBits
           ll == a0 * b0
           hh == a1 * b1
           mid == a0 * b1 + a1 * b0
           shifted == ((mid % p) % p) * p
           low == (ll + shifted) % sq
           carry == IF low < ll THEN 1 ELSE 0
           sum == hh + mid \div p + carry
<1>1. /\ k \in Nat /\ IntBits - k = k /\ p \in Nat \ {0} /\ sq = p * p
  BY HalfWords
<1>2. ProductSf3(a, b).high = sum /\ ProductSf3(a, b).low = low
  <2>1. Shl(IntBits, Low(mid, k), k) = shifted
    <3>1. Shl(IntBits, Low(mid, k), k) = ((mid % p) % 2^(IntBits - k)) * p
      BY DEF Shl, Low
    <3> HIDE DEF mid, k
    <3> QED BY <1>1, <3>1
  <2>2. ProductSf3(a, b) =
          [high |-> hh + LShr(mid, k) + (IF Add(IntBits, ll, Shl(IntBits, Low(mid, k), k)) < ll THEN 1 ELSE 0),
           low |-> Add(IntBits, ll, Shl(IntBits, Low(mid, k), k))]
    BY Zenon DEF ProductSf3, Low, LShr, Add
  <2> HIDE DEF shifted, mid, hh, ll, k
  <2>3. ProductSf3(a, b) =
          [high |-> hh + LShr(mid, k) + (IF Add(IntBits, ll, shifted) < ll THEN 1 ELSE 0),
           low |-> Add(IntBits, ll, shifted)]
    BY <2>1, <2>2
  <2> QED BY <2>3 DEF Add, LShr
<1>3. a \in 0..(p * p - 1) /\ b \in 0..(p * p - 1)
  BY <1>1 DEF Words
<1>4. /\ a1 \in 0..(p - 1) /\ a0 \in 0..(p - 1) /\ a = a1 * p + a0
      /\ b1 \in 0..(p - 1) /\ b0 \in 0..(p - 1) /\ b = b1 * p + b0
  <2> HIDE DEF p
  <2> QED BY <1>1, <1>3, TwoHalves
<1> HIDE DEF p, a1, a0, b1, b0, sq
<1>5. ll \in 0..(sq - 1) /\ hh \in Nat /\ mid \in Nat
  <2>1. ll \in 0..(sq - 1)
    <3>1. a0 \in Nat /\ b0 \in Nat /\ a0 =< p /\ b0 =< p - 1 /\ p \in Nat /\ p - 1 \in Nat
      BY <1>1, <1>4
    <3>2. a0 * b0 =< p * b0 /\ b0 * p =< (p - 1) * p
      BY <3>1, TimesMonotone
    <3>3. p * b0 = b0 * p /\ (p - 1) * p = p * p - p /\ a0 * b0 \in Nat /\ p * p \in Nat
      BY <3>1
    <3> QED BY <1>1, <3>1, <3>2, <3>3
  <2>2. hh \in Nat /\ mid \in Nat
    <3>1. a1 \in Nat /\ b1 \in Nat /\ a0 \in Nat /\ b0 \in Nat
      BY <1>1, <1>4
    <3>2. a1 * b1 \in Nat /\ a0 * b1 \in Nat /\ a1 * b0 \in Nat
      BY <3>1
    <3> QED BY <3>2
  <2> QED BY <2>1, <2>2
<1>6. sq \in Nat \ {0}
  BY <1>1
<1> DEFINE c1 == 0
           c2 == IF low < ll THEN 1 ELSE 0
<1>7. a0 * b1 + a1 * b0 = mid + c1 * sq
  <2> DEFINE cross == a0 * b1 + a1 * b0
  <2>1. cross \in Nat /\ mid = cross
    BY <1>5
  <2> HIDE DEF cross, mid
  <2>2. cross = mid + 0 * sq
    BY <1>6, <2>1
  <2> QED BY <2>2 DEF cross
<1> HIDE DEF mid
<1>8. shifted = (mid % p) * p /\ shifted \in 0..(sq - 1)
  <2> DEFINE ml == mid % p
  <2>1. ml \in 0..(p - 1) /\ ml \in Nat
    BY <1>1, <1>5, Division
  <2> HIDE DEF ml
  <2>2. ml % p = ml
    BY <1>1, <2>1, ModSmall
  <2>3. ml * p =< (p - 1) * p /\ (p - 1) * p = p * p - p /\ ml * p \in Nat /\ p * p \in Nat
    <3>1. ml =< p - 1 /\ p - 1 \in Nat
      BY <1>1, <2>1
    <3> QED BY <1>1, <2>1, <3>1, TimesMonotone
  <2>4. ml * p \in 0..(sq - 1)
    BY <1>1, <2>3
  <2>5. (ml % p) * p = ml * p
    BY <2>2
  <2> QED BY <2>4, <2>5 DEF ml
<1> HIDE DEF shifted
<1>9. low \in 0..(sq - 1) /\ ll + shifted = low + c2 * sq
  <2> HIDE DEF ll
  <2> QED BY <1>5, <1>6, <1>8, CarryOut
<1> HIDE DEF low
<1>10. c1 \in {0, 1} /\ c2 \in {0, 1} /\ carry = c2 /\ c1 * p = 0
  BY <1>1
<1>11. DigitProducts(p, a1, a0, b1, b0, mid, c1, low, c2)
  <2> HIDE DEF c1, c2, carry, sum
  <2>1. a0 * b0 + (mid % p) * p = low + c2 * (p * p) /\ low \in 0..(p * p - 1)
        /\ a0 * b1 + a1 * b0 = mid + c1 * (p * p)
    BY <1>1, <1>7, <1>8, <1>9
  <2> QED BY <1>1, <1>4, <1>5, <1>10, <2>1 DEF DigitProducts
<1>12. sum = a1 * b1 + mid \div p + c1 * p + c2
  <2>1. mid \div p \in Nat
    BY <1>1, <1>5, Division
  <2>2. sum = hh + mid \div p + c2
    BY <1>10
  <2> HIDE DEF c1, c2, sum
  <2>3. hh + mid \div p + c2 = hh + mid \div p + c1 * p + c2
    <3> HIDE DEF hh
    <3> QED BY <1>5, <1>10, <2>1
  <2> QED BY <2>2, <2>3
<1> HIDE DEF c1, c2, sum
<1>13. (a1 * p + a0) * (b1 * p + b0) = sum * (p * p) + low /\ sum \in 0..(p * p - 1)
  BY <1>11, <1>12, FourProducts
<1>14. a * b = sum * sq + low /\ sum \in 0..(sq - 1)
  BY <1>1, <1>4, <1>13
<1>15. F32.w = IntBits
  BY DEF F32
<1> QED BY <1>2, <1>9, <1>14, <1>15 DEF ExactProduct, sq

(* Two i64 are compared by their halves.                                    *)
LEMMA ComparePairs ==
  ASSUME NEW u \in Words(2 * IntBits), NEW v \in Words(2 * IntBits)
  PROVE  (UltPair(u, v) <=> u < v) /\ (UgePair(u, v) <=> u >= v)
<1> DEFINE p == 2^IntBits
           u1 == u \div p
           u0 == u % p
           v1 == v \div p
           v0 == v % p
<1>1. p \in Nat \ {0} /\ 2^(2 * IntBits) = p * p
  BY HalfWords, IntPowers
<1>2. /\ UltPair(u, v) <=> u1 < v1 \/ (u1 = v1 /\ u0 < v0)
      /\ UgePair(u, v) <=> u1 > v1 \/ (u1 = v1 /\ u0 >= v0)
  BY DEF UltPair, UgePair, HiHalf, LoHalf, LShr, Low
<1>3. u \in 0..(p * p - 1) /\ v \in 0..(p * p - 1)
  BY <1>1 DEF Words
<1>4. /\ u1 \in 0..(p - 1) /\ u0 \in 0..(p - 1) /\ u = u1 * p + u0
      /\ v1 \in 0..(p - 1) /\ v0 \in 0..(p - 1) /\ v = v1 * p + v0
  <2> HIDE DEF p
  <2> QED BY <1>1, <1>3, TwoHalves
<1> HIDE DEF p, u1, u0, v1, v0
<1>5. u1 \in Nat /\ v1 \in Nat /\ u0 \in Nat /\ v0 \in Nat
  BY <1>1, <1>4
<1>6. u1 * p + u0 < v1 * p + v0 <=> u1 < v1 \/ (u1 = v1 /\ u0 < v0)
  BY <1>1, <1>4, <1>5, Lexicographic
<1>7. u < v <=> u1 < v1 \/ (u1 = v1 /\ u0 < v0)
  BY <1>4, <1>6
<1>8. u >= v <=> ~(u < v)
  BY <1>1, <1>3
<1>9. u1 > v1 \/ (u1 = v1 /\ u0 >= v0) <=> ~(u1 < v1 \/ (u1 = v1 /\ u0 < v0))
  BY <1>5
<1> QED BY <1>2, <1>7, <1>8, <1>9

(* Of two words of an i64, by products of their halves.                     *)
LEMMA ProductDf3Is ==
  ASSUME NEW a \in Words(2 * IntBits), NEW b \in Words(2 * IntBits)
  PROVE  ExactProduct(F64, ProductDf3(a, b), a, b)
<1> DEFINE w == 2 * IntBits
           p == 2^IntBits
           a1 == a \div p
           a0 == a % p
           b1 == b \div p
           b0 == b % p
           sq == 2^w
           ll == MulPair(LoHalf(a), LoHalf(b))
           lh == MulPair(LoHalf(a), HiHalf(b))
           hl == MulPair(HiHalf(a), LoHalf(b))
           hh == MulPair(HiHalf(a), HiHalf(b))
           mid == (lh + hl) % sq
           shifted == ((mid % p) % p) * p
           low == (ll + shifted) % sq
           midCarry == IF UltPair(mid, lh) THEN p ELSE 0
           carry == IF UltPair(low, ll) THEN 1 ELSE 0
           sum == hh + mid \div p + midCarry + carry
<1>1. p \in Nat \ {0} /\ sq = p * p /\ w - IntBits = IntBits
  <2>1. IntBits \in Nat
    BY IntPowers
  <2> QED BY <2>1, HalfWords, IntPowers
<1>2. ProductDf3(a, b).high = sum /\ ProductDf3(a, b).low = low
  <2>1. Shl(w, LoHalf(mid), IntBits) = shifted
    <3>1. Shl(w, LoHalf(mid), IntBits) = ((mid % p) % 2^(w - IntBits)) * p
      BY DEF Shl, Low, LoHalf
    <3> HIDE DEF mid, w
    <3> QED BY <1>1, <3>1
  <2>2. mid = Add(w, lh, hl)
    BY DEF Add
  <2> HIDE DEF shifted, mid, hh, ll, lh, hl
  <2>3. ProductDf3(a, b) =
          [high |-> hh + HiHalf(mid) + midCarry
                    + (IF UltPair(Add(w, ll, Shl(w, LoHalf(mid), IntBits)), ll) THEN 1 ELSE 0),
           low |-> Add(w, ll, Shl(w, LoHalf(mid), IntBits))]
    BY <2>2, Zenon DEF ProductDf3, hh, ll, lh, hl
  <2>4. low = Add(w, ll, Shl(w, LoHalf(mid), IntBits))
    BY <2>1 DEF Add
  <2> HIDE DEF low, midCarry
  <2>5. ProductDf3(a, b) = [high |-> hh + HiHalf(mid) + midCarry + carry, low |-> low]
    BY <2>3, <2>4, Zenon
  <2> QED BY <2>5 DEF HiHalf, LShr
<1>3. a \in 0..(p * p - 1) /\ b \in 0..(p * p - 1)
  BY <1>1 DEF Words
<1>4. /\ a1 \in 0..(p - 1) /\ a0 \in 0..(p - 1) /\ a = a1 * p + a0
      /\ b1 \in 0..(p - 1) /\ b0 \in 0..(p - 1) /\ b = b1 * p + b0
  <2> HIDE DEF p
  <2> QED BY <1>1, <1>3, TwoHalves
<1>5. /\ ll = a0 * b0 /\ lh = a0 * b1 /\ hl = a1 * b0 /\ hh = a1 * b1
      /\ ll \in 0..(sq - 1) /\ lh \in 0..(sq - 1) /\ hl \in 0..(sq - 1) /\ hh \in 0..(sq - 1)
  <2>1. LoHalf(a) = a0 /\ LoHalf(b) = b0 /\ HiHalf(a) = a1 /\ HiHalf(b) = b1
    BY DEF LoHalf, HiHalf, Low, LShr
  <2>2. a0 \in Words(IntBits) /\ b0 \in Words(IntBits) /\ a1 \in Words(IntBits) /\ b1 \in Words(IntBits)
    BY <1>4 DEF Words
  <2> HIDE DEF a0, a1, b0, b1
  <2>3. \A u, v \in Words(IntBits) : MulPair(u, v) = u * v /\ MulPair(u, v) \in Words(2 * IntBits)
    BY MulPairIs
  <2>4. /\ ll = a0 * b0 /\ lh = a0 * b1 /\ hl = a1 * b0 /\ hh = a1 * b1
        /\ ll \in Words(w) /\ lh \in Words(w) /\ hl \in Words(w) /\ hh \in Words(w)
    BY <2>1, <2>2, <2>3
  <2> QED BY <2>4 DEF Words
<1>6. sq \in Nat \ {0}
  BY <1>1
<1> HIDE DEF p, a1, a0, b1, b0, ll, lh, hl, hh
<1> DEFINE c1 == IF mid < lh THEN 1 ELSE 0
           c2 == IF low < ll THEN 1 ELSE 0
<1>7. mid \in 0..(sq - 1) /\ lh + hl = mid + c1 * sq /\ mid \in Nat
  <2> HIDE DEF sq
  <2> QED BY <1>5, <1>6, CarryOut
<1>8. midCarry = c1 * p
  <2>1. mid \in Words(2 * IntBits) /\ lh \in Words(2 * IntBits)
    BY <1>5, <1>7 DEF Words
  <2>2. UltPair(mid, lh) <=> mid < lh
    BY <2>1, ComparePairs
  <2>3. 1 * p = p /\ 0 * p = 0
    BY <1>1
  <2> HIDE DEF mid
  <2> QED BY <2>2, <2>3
<1> HIDE DEF mid, midCarry
<1>9. shifted = (mid % p) * p /\ shifted \in 0..(sq - 1)
  <2> DEFINE ml == mid % p
  <2>1. ml \in 0..(p - 1) /\ ml \in Nat
    <3>1. mid \in Nat
      BY <1>7
    <3>2. mid % p \in 0..(p - 1)
      BY <1>1, <3>1, Division
    <3> QED BY <1>1, <3>2
  <2> HIDE DEF ml
  <2>2. ml % p = ml
    BY <1>1, <2>1, ModSmall
  <2>3. ml * p =< (p - 1) * p /\ (p - 1) * p = p * p - p /\ ml * p \in Nat /\ p * p \in Nat
    <3>1. ml =< p - 1 /\ p - 1 \in Nat
      BY <1>1, <2>1
    <3> QED BY <1>1, <2>1, <3>1, TimesMonotone
  <2>4. ml * p \in 0..(sq - 1)
    BY <1>1, <2>3
  <2>5. (ml % p) * p = ml * p
    BY <2>2
  <2> QED BY <2>4, <2>5 DEF ml
<1> HIDE DEF shifted
<1>10. low \in 0..(sq - 1) /\ ll + shifted = low + c2 * sq
  <2> HIDE DEF sq
  <2> QED BY <1>5, <1>6, <1>9, CarryOut
<1>11. carry = c2
  <2>1. low \in Words(2 * IntBits) /\ ll \in Words(2 * IntBits)
    BY <1>5, <1>10 DEF Words
  <2>2. UltPair(low, ll) <=> low < ll
    BY <2>1, ComparePairs
  <2> HIDE DEF low
  <2> QED BY <2>2
<1> HIDE DEF low, carry
<1>12. c1 \in {0, 1} /\ c2 \in {0, 1}
  OBVIOUS
<1> HIDE DEF c1, c2, sq
<1>13. DigitProducts(p, a1, a0, b1, b0, mid, c1, low, c2)
  <2>1. a0 * b0 + (mid % p) * p = low + c2 * (p * p) /\ low \in 0..(p * p - 1)
        /\ a0 * b1 + a1 * b0 = mid + c1 * (p * p)
    BY <1>1, <1>5, <1>7, <1>9, <1>10
  <2> QED BY <1>1, <1>4, <1>7, <1>12, <2>1 DEF DigitProducts
<1>14. sum = a1 * b1 + mid \div p + c1 * p + c2
  BY <1>5, <1>8, <1>11
<1> HIDE DEF sum
<1>15. (a1 * p + a0) * (b1 * p + b0) = sum * (p * p) + low /\ sum \in 0..(p * p - 1)
  BY <1>13, <1>14, FourProducts
<1>16. a * b = sum * sq + low /\ sum \in 0..(sq - 1)
  BY <1>1, <1>4, <1>15
<1>17. F64.w = 2 * IntBits
  BY DEF F64
<1> QED BY <1>2, <1>10, <1>16, <1>17 DEF ExactProduct, sq

(* The low digits of a number in base c, one of them and the rest.          *)
LEMMA LowCut ==
  ASSUME NEW v \in Nat, NEW c \in Nat \ {0}, NEW g \in Nat \ {0}
  PROVE  v % (g * c) = ((v \div c) % g) * c + (v % c)
<1> DEFINE a == v \div c
           b == v % c
<1>1. a \in Nat /\ b \in 0..(c - 1) /\ v = a * c + b
  BY Division
<1> HIDE DEF a, b
<1>2. (a * c + b) % (g * c) = (a % g) * c + b
  BY <1>1, LowOfParts
<1>3. v % (g * c) = (a % g) * c + b
  BY <1>1, <1>2, Zenon
<1> QED BY <1>3 DEF a, b

(* v / c, whole and whether anything is left over, and the guard and the    *)
(* sticky bit of v itself where it is rounded to a float.                   *)
CutHalfway(f, v, c, k, guard, sticky, rnd, whole, rest) ==
  /\ k \in (f.m + 1)..WideBits /\ 2^k * c =< v /\ v < (2 * 2^k) * c
  /\ guard \in {0, 1} /\ sticky \in BOOLEAN
  /\ guard = 1 <=> v % (2^(k - f.m) * c) >= 2^(k - f.m - 1) * c
  /\ guard = 1 => (sticky <=> v % (2^(k - f.m) * c) > 2^(k - f.m - 1) * c)
  /\ rnd = RoundNearest(f, v \div (2^(k - f.m) * c), guard, sticky)
  /\ whole = v \div c /\ rest = (v % c # 0)

(* A number that is cut before it is rounded, keeping whether anything was  *)
(* cut off, is rounded as if it had not been.                               *)
LEMMA CutRounds ==
  ASSUME NEW f \in {F32, F64}, NEW s, NEW e \in Int, NEW v \in Nat, NEW c \in Nat \ {0}, NEW k,
         NEW guard, NEW sticky, NEW rnd, NEW whole, NEW rest,
         CutHalfway(f, v, c, k, guard, sticky, rnd, whole, rest)
  PROVE  /\ rnd.bump \in {0, 1} /\ rnd.man \in 2^f.m..(2 * 2^f.m - 1)
         /\ Nearest(f, s, e, whole, rest).tiny <=> (e + k + Bias(f) + rnd.bump < 1)
         /\ Nearest(f, s, e, whole, rest).word = Fitted(f, s, e + k + Bias(f) + rnd.bump, rnd.man)
<1> DEFINE sig == v \div c
           b == v % c
           g == 2^(k - f.m)
           h == 2^(k - f.m - 1)
           a == sig % g
           p == 2^k
           inexact == b # 0
<1>0. /\ k \in (f.m + 1)..WideBits /\ 2^k * c =< v /\ v < (2 * 2^k) * c
      /\ guard \in {0, 1} /\ sticky \in BOOLEAN
      /\ guard = 1 <=> v % (g * c) >= h * c
      /\ guard = 1 => (sticky <=> v % (g * c) > h * c)
  BY DEF CutHalfway
<1>13. /\ rnd = RoundNearest(f, v \div (2^(k - f.m) * c), guard, sticky)
       /\ whole = v \div c /\ rest = (v % c # 0)
  BY DEF CutHalfway
<1>1. sig \in Nat /\ b \in 0..(c - 1) /\ v = sig * c + b
  BY Division
<1>2. g \in Nat \ {0} /\ h \in Nat \ {0} /\ p \in Nat \ {0}
  <2>1. k - f.m \in 0..WideBits /\ k - f.m - 1 \in 0..WideBits /\ k \in 0..WideBits
    <3>1. f.m \in Nat /\ WideBits \in Nat
      BY FormatOf, WidePowers
    <3> QED BY <1>0, <3>1
  <2> QED BY <2>1, WidePowers
<1>3. p * c =< v /\ v < (2 * p) * c
  BY <1>0
<1>4. /\ guard = 1 <=> v % (g * c) >= h * c
      /\ guard = 1 => (sticky <=> v % (g * c) > h * c)
  BY <1>0
<1> HIDE DEF sig, b, g, h, p
<1>5. p =< sig /\ sig < 2 * p
  <2>1. p \in Nat /\ 2 * p \in Nat
    BY <1>2
  <2>2. v \div c \in p..(2 * p - 1)
    BY <1>2, <1>3, <2>1, QuotientBounds
  <2> QED BY <1>2, <2>2 DEF sig
<1>6. v % (g * c) = a * c + b /\ a \in 0..(g - 1)
  <2>1. v % (g * c) = (sig % g) * c + b
    BY <1>2, LowCut DEF sig, b
  <2>2. a \in 0..(g - 1)
    BY <1>1, <1>2, Division
  <2> QED BY <1>1, <2>1, <2>2
<1>7. v \div (g * c) = sig \div g
  <2>1. (v \div c) \div g = v \div (c * g)
    BY <1>2, DivideTwice
  <2>2. c * g = g * c
    BY <1>2
  <2> QED BY <2>1, <2>2 DEF sig
<1> DEFINE l == RoundNearest(f, sig \div g, guard, sticky)
<1> HIDE DEF a
<1>8. /\ a * c + b >= h * c <=> a >= h
      /\ a >= h => (a * c + b > h * c <=> a > h \/ b # 0)
  <2>1. a \in Nat /\ h \in Nat /\ 0 \in 0..(c - 1)
    BY <1>2, <1>6
  <2>2. /\ h * c + 0 < a * c + b <=> h < a \/ (h = a /\ 0 < b)
        /\ a * c + b < h * c + 0 <=> a < h \/ (a = h /\ b < 0)
    <3> DEFINE z == 0
    <3>1. z \in 0..(c - 1) /\ a \in Nat /\ h \in Nat
      BY <2>1
    <3> HIDE DEF z
    <3>2. /\ h * c + z < a * c + b <=> h < a \/ (h = a /\ z < b)
          /\ a * c + b < h * c + z <=> a < h \/ (a = h /\ b < z)
      BY <1>1, <3>1, Lexicographic
    <3> QED BY <3>2 DEF z
  <2>3. h * c \in Nat /\ a * c \in Nat /\ b \in Nat
    BY <1>1, <2>1
  <2> QED BY <2>1, <2>2, <2>3
<1>9. /\ inexact \in BOOLEAN
      /\ guard = 1 <=> a >= h
      /\ guard = 1 => (sticky <=> a > h \/ inexact)
  BY <1>4, <1>6, <1>8
<1> HIDE DEF inexact
<1>10. /\ l.bump \in {0, 1} /\ l.man \in 2^f.m..(2 * 2^f.m - 1)
       /\ Nearest(f, s, e, sig, inexact).tiny <=> (e + k + Bias(f) + l.bump < 1)
       /\ Nearest(f, s, e, sig, inexact).word = Fitted(f, s, e + k + Bias(f) + l.bump, l.man)
  <2>1. /\ guard = 1 <=> sig % 2^(k - f.m) >= 2^(k - f.m - 1)
        /\ guard = 1 => (sticky <=> sig % 2^(k - f.m) > 2^(k - f.m - 1) \/ inexact)
    BY <1>9 DEF a, g, h
  <2>2. 2^k =< sig /\ sig < 2 * 2^k
    BY <1>5 DEF p
  <2>3. Halfway(f, sig, inexact, k, guard, sticky)
    BY <1>0, <1>9, <2>1, <2>2 DEF Halfway
  <2>4. l = RoundNearest(f, sig \div 2^(k - f.m), guard, sticky)
    BY DEF g
  <2> HIDE DEF l
  <2>5. l.bump \in {0, 1}
    BY <1>1, <2>3, <2>4, NearestRounds
  <2>6. l.man \in 2^f.m..(2 * 2^f.m - 1)
    BY <1>1, <2>3, <2>4, NearestRounds
  <2>7. Nearest(f, s, e, sig, inexact).tiny <=> (e + k + Bias(f) + l.bump < 1)
    BY <1>1, <2>3, <2>4, NearestRounds
  <2>8. Nearest(f, s, e, sig, inexact).word = Fitted(f, s, e + k + Bias(f) + l.bump, l.man)
    BY <1>1, <2>3, <2>4, NearestRounds
  <2> QED BY <2>5, <2>6, <2>7, <2>8
<1> HIDE DEF l
<1>11. l = RoundNearest(f, v \div (2^(k - f.m) * c), guard, sticky)
  BY <1>7 DEF l, g
<1>12. rnd = l /\ whole = sig /\ rest = inexact
  BY <1>13, <1>11 DEF sig, inexact, b
<1> QED BY <1>10, <1>12

(* A number in two words, t c being the number of words there are.          *)
TwoWords(v, high, low, t, c) ==
  /\ high \in Nat /\ low \in Nat /\ t \in Nat \ {0} /\ c \in Nat \ {0}
  /\ v = high * (t * c) + low

(* A number in two words, shifted right by less than a word.                *)
LEMMA ShiftedWords ==
  ASSUME NEW v, NEW high, NEW low, NEW t, NEW c, TwoWords(v, high, low, t, c)
  PROVE  /\ v \div c = high * t + low \div c
         /\ v % c = low % c
<1> DEFINE u == low \div c
           l == low % c
           k == high * t + u
<1>0. /\ high \in Nat /\ low \in Nat /\ t \in Nat \ {0} /\ c \in Nat \ {0}
      /\ v = high * (t * c) + low
  BY DEF TwoWords
<1>1. u \in Nat /\ l \in 0..(c - 1) /\ low = u * c + l
  BY <1>0, Division
<1> HIDE DEF u, l
<1>2. v \in Nat /\ k \in Nat /\ l \in Nat /\ l < c
  <2>1. high * (t * c) \in Nat /\ high * t \in Nat
    BY <1>0
  <2> QED BY <1>0, <1>1, <2>1
<1>3. v = k * c + l
  <2>1. k * c = (high * t) * c + u * c
    BY <1>0, <1>1
  <2>2. high * (t * c) = (high * t) * c /\ (high * t) * c \in Nat /\ u * c \in Nat
    BY <1>0, <1>1
  <2> HIDE DEF k
  <2> QED BY <1>0, <1>1, <2>1, <2>2
<1> HIDE DEF k
<1>4. v \div c = k /\ v % c = l
  BY <1>0, <1>2, <1>3, DivUnique
<1> QED BY <1>4 DEF k, u, l

(* A product cut in its second factor.                                      *)
LEMMA CutProduct ==
  ASSUME NEW a \in Nat, NEW b \in Nat, NEW c \in Nat \ {0}
  PROVE  LET lower == a * (b % c)
         IN  /\ a * (b \div c) + lower \div c = (a * b) \div c
             /\ lower % c = (a * b) % c
<1> DEFINE u == b \div c
           l == b % c
           lower == a * l
           s == lower \div c
           k == lower % c
           v == a * b
           up == a * u + s
<1>1. u \in Nat /\ l \in 0..(c - 1) /\ b = u * c + l
  BY Division
<1> HIDE DEF u, l
<1>2. lower \in Nat /\ a * u \in Nat /\ v \in Nat
  BY <1>1
<1>3. s \in Nat /\ k \in 0..(c - 1) /\ lower = s * c + k
  <2> HIDE DEF lower
  <2> QED BY <1>2, Division
<1> HIDE DEF s, k
<1>4. v = up * c + k
  <2>1. a * (u * c + l) = (a * u) * c + a * l
    BY <1>1
  <2>2. (a * u + s) * c = (a * u) * c + s * c
    BY <1>2, <1>3
  <2>3. v = (a * u) * c + lower /\ (a * u) * c \in Nat /\ s * c \in Nat /\ k \in Nat
    BY <1>1, <1>2, <1>3, <2>1
  <2> HIDE DEF v, lower
  <2> QED BY <1>3, <2>2, <2>3
<1>5. up \in Nat /\ k \in Nat /\ k < c
  BY <1>2, <1>3
<1> HIDE DEF v, up
<1>6. v \div c = up /\ v % c = k
  BY <1>2, <1>4, <1>5, DivUnique
<1> QED BY <1>6 DEF v, up, s, k, u, l

(* Two normal numbers multiplied: wherever the top bit of the product is,   *)
(* the bits that are kept, the guard bit and the sticky bit are those of    *)
(* the exact product.                                                       *)
LEMMA MulFiniteRight ==
  ASSUME NEW f \in {F32, F64}, NEW a \in Words(f.w), NEW b \in Words(f.w), NEW prod,
         ExactProduct(f, prod, Hidden(f, a), Hidden(f, b)), Normal(f, a), Normal(f, b)
  PROVE  MulFinite(f, prod, a, b) =
           Nearest(f, SignXor(f, a, b), UnitExp(f, a) + UnitExp(f, b) + (f.m - f.e),
                   (Hidden(f, a) * Hidden(f, b)) \div 2^(f.m - f.e),
                   (Hidden(f, a) * Hidden(f, b)) % 2^(f.m - f.e) # 0).word
<1> DEFINE m == f.m
           w == f.w
           ha == Hidden(f, a)
           hb == Hidden(f, b)
           v == ha * hb
           p == 2^m
           u == 2^(m - f.e)
           whole == 2^w
           high == prod.high
           low == prod.low
           caseA == Bit(high, 2 * m + 1 - w) = 1
           cut == IF caseA THEN m + 1 ELSE m
           c == 2^cut
           h == 2^(cut - 1)
           t == 2^(w - cut)
           kept == Shl(w, high, w - cut) + LShr(low, cut)
           guard == Bit(low, cut - 1)
           sticky == Low(low, cut - 1) # 0
           l == RoundNearest(f, kept, guard, sticky)
           er == ExpOf(f, a) + ExpOf(f, b) - Bias(f) + (IF caseA THEN 1 ELSE 0) + l.bump
           s == SignXor(f, a, b)
           k == cut + f.e
           unit == UnitExp(f, a) + UnitExp(f, b) + (m - f.e)
<1>1. /\ m \in Nat /\ w \in Nat /\ f.e \in Nat /\ w = 1 + f.e + m /\ f.e =< m /\ f.e >= 2 /\ m >= 1
      /\ w =< WideBits /\ WideBits \in Nat
  <2>1. WideBits = 2 * IntBits + 2 /\ IntBits \in Nat /\ WideBits \in Nat
    BY WidePowers, IntPowers DEF WideBits
  <2>2. /\ m \in Nat /\ w \in Nat /\ f.e \in Nat /\ w = 1 + f.e + m /\ f.e =< m /\ f.e >= 2 /\ m >= 1
        /\ w =< 2 * IntBits
    BY FormatOf
  <2> QED BY <2>1, <2>2
<1>2. /\ p \in Nat \ {0} /\ u \in Nat \ {0} /\ whole \in Nat \ {0} /\ p = u * 2^f.e
      /\ whole = 2 * (2^f.e * p) /\ 2^f.e \in Nat \ {0}
  <2>1. m \in 0..WideBits /\ f.e \in 0..m /\ m - f.e \in 0..WideBits /\ w \in 0..WideBits
        /\ f.e \in 0..WideBits
    BY <1>1
  <2>2. 2^m = 2^(m - f.e) * 2^f.e
    BY <2>1, PowerSplit
  <2>3. 2^w = 2 * 2^(w - 1) /\ 2^(w - 1) = 2^f.e * 2^m
    BY FormatOf
  <2>4. p \in Nat \ {0} /\ u \in Nat \ {0} /\ whole \in Nat \ {0} /\ 2^f.e \in Nat \ {0}
    BY <2>1, WidePowers
  <2> QED BY <2>2, <2>3, <2>4
<1>3. ha \in p..(2 * p - 1) /\ hb \in p..(2 * p - 1)
  BY FloatParts
<1>4. high \in 0..(whole - 1) /\ low \in 0..(whole - 1) /\ v = high * whole + low
  BY DEF ExactProduct
<1> DEFINE e2 == 2^f.e
<1>5. v \in Nat /\ p * p =< v /\ v < 2 * (2 * (p * p)) /\ 2 * (p * p) = u * whole /\ high \in Nat /\ low \in Nat
  <2> HIDE DEF p, ha, hb, whole, u, e2
  <2>1. ha \in Nat /\ hb \in Nat /\ p =< ha /\ p =< hb /\ ha =< 2 * p /\ hb =< 2 * p - 1
    BY <1>2, <1>3
  <2>2. p * p =< ha * p /\ p * ha =< hb * ha /\ ha * p = p * ha /\ hb * ha = v
    BY <1>2, <2>1, TimesMonotone
  <2>3. ha * hb =< (2 * p) * hb /\ hb * (2 * p) =< (2 * p - 1) * (2 * p)
    <3> DEFINE tp == 2 * p
               tq == 2 * p - 1
    <3>1. tp \in Nat /\ tq \in Nat /\ hb =< tq /\ ha =< tp /\ ha \in Nat /\ hb \in Nat
      BY <1>2, <2>1
    <3> HIDE DEF tp, tq
    <3>2. ha * hb =< tp * hb
      BY <3>1, TimesMonotone
    <3>3. hb * tp =< tq * tp
      BY <3>1, TimesMonotone
    <3> QED BY <3>2, <3>3 DEF tp, tq
  <2>4. (2 * p) * hb = hb * (2 * p) /\ (2 * p - 1) * (2 * p) = 2 * (2 * (p * p)) - 2 * p
        /\ p * p \in Nat /\ v \in Nat /\ p * ha \in Nat /\ (2 * p) * hb \in Nat
    <3>1. p \in Nat /\ ha \in Nat /\ hb \in Nat
      BY <1>2, <2>1
    <3>2. (2 * p) * hb = hb * (2 * p) /\ (2 * p) * hb \in Nat
      BY <3>1
    <3>3. (2 * p - 1) * (2 * p) = 2 * (2 * (p * p)) - 2 * p
      BY <3>1
    <3>4. p * p \in Nat /\ v \in Nat /\ p * ha \in Nat
      BY <3>1
    <3> QED BY <3>2, <3>3, <3>4
  <2>5. 2 * (p * p) = u * whole
    <3>1. (u * e2) * p = u * (e2 * p) /\ u * (2 * (e2 * p)) = 2 * (u * (e2 * p)) /\ e2 \in Nat
      BY <1>2 DEF e2
    <3>2. p * p = (u * e2) * p /\ whole = 2 * (e2 * p)
      BY <1>2 DEF e2
    <3> QED BY <3>1, <3>2
  <2>6. high \in Nat /\ low \in Nat
    BY <1>2, <1>4
  <2> HIDE DEF v
  <2> QED BY <1>2, <2>1, <2>2, <2>3, <2>4, <2>5, <2>6
<1>6. high < 2 * u /\ (caseA <=> high >= u) /\ (caseA <=> 2 * (p * p) =< v)
  <2> HIDE DEF p, v, whole, u, high, low
  <2>1. high < 2 * u
    <3> SUFFICES ASSUME 2 * u =< high PROVE FALSE
      BY <1>2, <1>5
    <3>1. (2 * u) * whole =< high * whole
      BY <1>2, <1>5, TimesMonotone
    <3>2. (2 * u) * whole = 2 * (u * whole) /\ high * whole \in Nat
      BY <1>2, <1>5
    <3> QED BY <1>2, <1>4, <1>5, <3>1, <3>2
  <2>2. high \in 0..(2 * u - 1)
    BY <1>2, <1>5, <2>1
  <2>3. high \div u = IF high < u THEN 0 ELSE 1
    BY <1>2, <2>2, TopBit
  <2>4. 2 * m + 1 - w = m - f.e
    <3> HIDE DEF m, w
    <3> QED BY <1>1
  <2>5. caseA <=> (high \div u) % 2 = 1
    BY <2>4 DEF Bit, u
  <2>6. caseA <=> high >= u
    <3> DEFINE z == high \div u
    <3>1. z = (IF high < u THEN 0 ELSE 1) /\ (caseA <=> z % 2 = 1)
      BY <2>3, <2>5
    <3> HIDE DEF z, caseA
    <3> QED BY <1>2, <1>5, <3>1
  <2>7. high >= u <=> 2 * (p * p) =< v
    <3>1. CASE high >= u
      <4>1. u * whole =< high * whole /\ high * whole \in Nat
        BY <1>2, <1>5, <3>1, TimesMonotone
      <4>2. 2 * (p * p) =< v
        BY <1>2, <1>4, <1>5, <4>1
      <4> QED BY <3>1, <4>2
    <3>2. CASE high < u
      <4>1. high + 1 =< u /\ high + 1 \in Nat
        BY <1>2, <1>5, <3>2
      <4>2. (high + 1) * whole =< u * whole /\ (high + 1) * whole = high * whole + whole
            /\ high * whole \in Nat
        BY <1>2, <1>5, <4>1, TimesMonotone
      <4>3. ~(2 * (p * p) =< v) /\ ~(high >= u)
        BY <1>2, <1>4, <1>5, <3>2, <4>2
      <4> QED BY <4>3
    <3> QED BY <1>2, <1>5, <3>1, <3>2
  <2> HIDE DEF caseA
  <2> QED BY <2>1, <2>6, <2>7
<1> HIDE DEF caseA, high, low, v
<1>7. /\ cut \in {m, m + 1} /\ cut \in Nat /\ cut >= 1 /\ cut =< w - 1 /\ cut \in 0..w
      /\ k \in (m + 1)..WideBits /\ k - m = cut - (m - f.e) /\ k - m - 1 = cut - 1 - (m - f.e)
      /\ cut \in (m - f.e)..WideBits /\ cut - 1 \in (m - f.e)..WideBits /\ w \in 0..WideBits
      /\ k \in (m - f.e)..WideBits /\ k >= w - 1 /\ m - f.e \in 0..cut /\ m - f.e \in 0..(cut - 1)
      /\ cut \in 0..WideBits /\ cut - 1 \in 0..WideBits
  <2>1. cut \in {m, m + 1}
    OBVIOUS
  <2> HIDE DEF cut, m, w
  <2> QED BY <1>1, <2>1
<1>8. /\ c \in Nat \ {0} /\ h \in Nat \ {0} /\ t \in Nat \ {0} /\ c = 2 * h /\ whole = t * c
      /\ c = 2^(k - m) * u /\ h = 2^(k - m - 1) * u
  <2> HIDE DEF cut, m, w, k
  <2>1. cut - 1 \in 0..(WideBits - 1) /\ (cut - 1) + 1 = cut
    BY <1>1, <1>7
  <2>2. 2^((cut - 1) + 1) = 2 * 2^(cut - 1)
    BY <2>1, WidePowers DEF PowersDouble
  <2>3. 2^w = 2^(w - cut) * 2^cut
    BY <1>7, PowerSplit
  <2>4. 2^cut = 2^(cut - (m - f.e)) * 2^(m - f.e)
    BY <1>7, PowerSplit
  <2>5. 2^(cut - 1) = 2^(cut - 1 - (m - f.e)) * 2^(m - f.e)
    BY <1>7, PowerSplit
  <2>6. w - cut \in 0..WideBits
    BY <1>1, <1>7
  <2>7. c \in Nat \ {0} /\ h \in Nat \ {0} /\ t \in Nat \ {0}
    BY <1>7, <2>6, WidePowers
  <2>8. c = 2 * h
    BY <2>1, <2>2
  <2> QED BY <1>7, <2>3, <2>4, <2>5, <2>7, <2>8
<1>9. 2^k * u =< v /\ v < (2 * 2^k) * u
  <2>1. 2^k = IF caseA THEN 2 * (2^f.e * p) ELSE 2^f.e * p
    <3>1. 2^(w - 1) = 2^f.e * p /\ 2^w = 2 * 2^(w - 1)
      BY FormatOf
    <3>2. k = IF caseA THEN w ELSE w - 1
      <4> HIDE DEF m, w
      <4> QED BY <1>1
    <3> HIDE DEF k, p, w
    <3> QED BY <3>1, <3>2
  <2> DEFINE z == 2^k
  <2> HIDE DEF z, p, u, e2, cut, k
  <2>2. z = (IF caseA THEN 2 * (e2 * p) ELSE e2 * p) /\ p = u * e2 /\ e2 \in Nat \ {0}
    BY <1>2, <2>1 DEF e2, z
  <2>3. (e2 * p) * u = p * p /\ (2 * (e2 * p)) * u = 2 * (p * p)
    <3>1. (e2 * p) * u = p * (u * e2) /\ (2 * (e2 * p)) * u = 2 * ((e2 * p) * u)
      BY <1>2, <2>2
    <3>2. p * (u * e2) = p * p
      BY <2>2
    <3> QED BY <3>1, <3>2
  <2>4. p * p \in Nat /\ (2 * z) * u = 2 * (z * u)
    BY <1>2, <2>2
  <2>5. CASE caseA
    <3>1. z * u = 2 * (p * p) /\ 2 * (p * p) =< v
      BY <1>6, <2>2, <2>3, <2>5
    <3> QED BY <1>5, <2>4, <3>1 DEF z
  <2>6. CASE ~caseA
    <3>1. z * u = p * p /\ ~(2 * (p * p) =< v)
      BY <1>6, <2>2, <2>3, <2>6
    <3> QED BY <1>5, <2>4, <3>1 DEF z
  <2> QED BY <2>5, <2>6
<1>10. kept = v \div c /\ v % c = low % c
  <2>1. high < c
    <3>1. CASE caseA
      <4>1. c = 2 * p
        <5>1. cut = m + 1 /\ 2^(m + 1) = 2 * 2^m
          BY <3>1, FormatOf
        <5> QED BY <5>1
      <4> HIDE DEF c, u, p, e2
      <4>2. u =< p
        <5>1. 1 * u =< e2 * u /\ e2 * u = p
          <6>1. 1 =< e2 /\ e2 \in Nat /\ p = u * e2 /\ u \in Nat
            BY <1>2 DEF e2
          <6>2. e2 * u = u * e2 /\ 1 * u =< e2 * u
            BY <6>1, TimesMonotone
          <6> QED BY <6>1, <6>2
        <5> QED BY <1>2, <5>1
      <4> QED BY <1>2, <1>5, <1>6, <4>1, <4>2
    <3>2. CASE ~caseA
      <4>1. c = p
        BY <3>2
      <4> HIDE DEF c, u, p, e2
      <4>2. u =< p
        <5>1. 1 * u =< e2 * u /\ e2 * u = p
          <6>1. 1 =< e2 /\ e2 \in Nat /\ p = u * e2 /\ u \in Nat
            BY <1>2 DEF e2
          <6>2. e2 * u = u * e2 /\ 1 * u =< e2 * u
            BY <6>1, TimesMonotone
          <6> QED BY <6>1, <6>2
        <5> QED BY <1>2, <5>1
      <4> QED BY <1>2, <1>5, <1>6, <3>2, <4>1, <4>2
    <3> QED BY <3>1, <3>2
  <2>2. w - (w - cut) = cut
    <3> HIDE DEF w, cut
    <3> QED BY <1>1, <1>7
  <2>3. kept = (high % c) * t + low \div c
    BY <2>2 DEF Shl, LShr
  <2> HIDE DEF c, t, kept, whole
  <2>4. high % c = high
    BY <1>5, <1>8, <2>1, ModSmall
  <2>5. kept = high * t + low \div c
    BY <2>3, <2>4
  <2>6. TwoWords(v, high, low, t, c)
    BY <1>4, <1>5, <1>8 DEF TwoWords
  <2>7. v \div c = high * t + low \div c
    BY <2>6, ShiftedWords
  <2>8. v % c = low % c
    BY <2>6, ShiftedWords
  <2> QED BY <2>5, <2>7, <2>8
<1>11. /\ guard \in {0, 1} /\ sticky \in BOOLEAN
       /\ guard = 1 <=> v % c >= h
       /\ guard = 1 => (sticky <=> v % c > h)
  <2>1. guard = (low \div h) % 2 /\ (sticky <=> low % h # 0)
    BY DEF Bit, Low
  <2>2. sticky \in BOOLEAN
    OBVIOUS
  <2> HIDE DEF guard, sticky, h, c
  <2>3. /\ (low \div h) % 2 \in {0, 1} /\ ((low \div h) % 2 = 1 <=> low % (2 * h) >= h)
        /\ ((low \div h) % 2 = 1 => (low % h # 0 <=> low % (2 * h) > h))
    BY <1>5, <1>8, GuardBits
  <2> QED BY <1>8, <1>10, <2>1, <2>2, <2>3
<1> HIDE DEF guard, sticky
<1> DEFINE ll == RoundNearest(f, v \div (2^(k - m) * u), guard, sticky)
           inexact == v % u # 0
<1>12. l = ll
  BY <1>8, <1>10
<1>13. /\ ll.bump \in {0, 1} /\ unit \in Int
       /\ Nearest(f, s, unit, v \div u, inexact).word = Fitted(f, s, unit + k + Bias(f) + ll.bump, ll.man)
  <2>1. unit \in Int
    <3>1. ExpOf(f, a) \in Nat /\ ExpOf(f, b) \in Nat /\ Bias(f) \in Nat
      BY Exponents, FormatOf
    <3>2. UnitExp(f, a) = ExpOf(f, a) - Bias(f) - m /\ UnitExp(f, b) = ExpOf(f, b) - Bias(f) - m
      BY DEF UnitExp
    <3> HIDE DEF m
    <3> QED BY <1>1, <3>1, <3>2
  <2>2. k \in (f.m + 1)..WideBits /\ 2^k * u =< v /\ v < (2 * 2^k) * u
        /\ (guard = 1 <=> v % (2^(k - f.m) * u) >= 2^(k - f.m - 1) * u)
        /\ (guard = 1 => (sticky <=> v % (2^(k - f.m) * u) > 2^(k - f.m - 1) * u))
    <3>1. k \in (f.m + 1)..WideBits
      BY <1>7
    <3>2. (guard = 1 <=> v % (2^(k - f.m) * u) >= 2^(k - f.m - 1) * u)
        /\ (guard = 1 => (sticky <=> v % (2^(k - f.m) * u) > 2^(k - f.m - 1) * u))
      BY <1>8, <1>11
    <3> QED BY <1>9, <3>1, <3>2
  <2>3. u \in Nat \ {0} /\ v \in Nat /\ guard \in {0, 1} /\ sticky \in BOOLEAN
    BY <1>2, <1>5, <1>11
  <2> DEFINE q1 == v \div u
             q2 == v % u # 0
  <2>5. ll = RoundNearest(f, v \div (2^(k - f.m) * u), guard, sticky)
    OBVIOUS
  <2>6. q1 = v \div u /\ q2 = (v % u # 0)
    OBVIOUS
  <2>4. CutHalfway(f, v, u, k, guard, sticky, ll, q1, q2)
    BY <2>2, <2>3, <2>5, <2>6 DEF CutHalfway
  <2> HIDE DEF u, unit, k, s, ll, q1, q2
  <2>7. ll.bump \in {0, 1}
    BY <2>1, <2>3, <2>4, CutRounds
  <2>8. Nearest(f, s, unit, q1, q2).word = Fitted(f, s, unit + k + Bias(f) + ll.bump, ll.man)
    BY <2>1, <2>3, <2>4, CutRounds
  <2> QED BY <2>1, <2>7, <2>8 DEF q1, q2
<1>14. MulFinite(f, prod, a, b) =
         IF IsZero(f, a) \/ IsZero(f, b) \/ er =< 0 THEN Zero(f, s)
         ELSE IF er >= MaxExp(f) THEN Inf(f, s)
         ELSE Pack(f, s, er, l.man)
  BY DEF MulFinite, caseA, high, low, guard, sticky
<1> HIDE DEF l, ll
<1>15. er = unit + k + Bias(f) + ll.bump /\ er \in Int
  <2>1. ExpOf(f, a) \in Nat /\ ExpOf(f, b) \in Nat /\ Bias(f) \in Nat
    BY Exponents, FormatOf
  <2>2. UnitExp(f, a) = ExpOf(f, a) - Bias(f) - m /\ UnitExp(f, b) = ExpOf(f, b) - Bias(f) - m
    BY DEF UnitExp
  <2>3. cut = m + (IF caseA THEN 1 ELSE 0)
    <3> HIDE DEF m
    <3> QED BY <1>1
  <2> HIDE DEF m, cut
  <2> QED BY <1>1, <1>7, <1>12, <1>13, <2>1, <2>2, <2>3
<1>16. ~IsZero(f, a) /\ ~IsZero(f, b)
  BY OneKind
<1> HIDE DEF er, s, unit, k
<1>17. MulFinite(f, prod, a, b) = Fitted(f, s, er, l.man)
  <2>1. er =< 0 <=> er < 1
    BY <1>15
  <2> QED BY <1>14, <1>16, <2>1 DEF Fitted
<1>18. Nearest(f, s, unit, v \div u, inexact).word = Fitted(f, s, er, l.man)
  BY <1>12, <1>13, <1>15
<1> QED BY <1>17, <1>18 DEF s, unit, v, inexact


(* A mantissa with its leading bit is a word.                               *)
LEMMA HiddenIsWord ==
  ASSUME NEW f \in {F32, F64}, NEW v \in Words(f.w)
  PROVE  Hidden(f, v) \in Words(f.w)
<1> DEFINE p == 2^f.m
           qe == 2^f.e
           hv == Hidden(f, v)
<1>1. hv \in p..(2 * p - 1)
  BY FloatParts
<1>2. 2^f.w = 2 * (qe * p) /\ p \in Nat \ {0} /\ qe \in Nat \ {0}
  BY FormatOf
<1> HIDE DEF p, qe, hv
<1>3. 1 * p =< qe * p /\ qe * p \in Nat
  BY <1>2, TimesMonotone
<1>4. hv \in 0..(2 * (qe * p) - 1)
  BY <1>1, <1>2, <1>3
<1> QED BY <1>2, <1>4 DEF Words, hv

(* The two infinities.                                                      *)
LEMMA Infinities ==
  ASSUME NEW f \in {F32, F64}, NEW v \in Words(f.w)
  PROVE  IsInf(f, v) <=> v \in {Inf(f, 0), Inf(f, 1)}
<1> DEFINE p == 2^f.m
           h == 2^(f.w - 1)
           t == MaxExp(f)
<1>1. t \in Nat /\ t \in 0..t /\ p \in Nat \ {0} /\ h \in Nat /\ t = 2^f.e - 1 /\ 2^f.e \in Nat \ {0}
  BY FormatOf
<1>2. Low(t, f.e) = t /\ Low(0, f.m) = 0
  <2>1. t % 2^f.e = t
    <3> DEFINE z == 2^f.e
    <3> HIDE DEF t, z
    <3>1. t \in Nat /\ z \in Nat \ {0} /\ t < z
      BY <1>1 DEF z
    <3> QED BY <3>1, ModSmall DEF z
  <2>2. 0 % p = 0
    <3> DEFINE z == 0
    <3>1. z \in Nat /\ z < p
      BY <1>1
    <3> HIDE DEF z, p
    <3>2. z % p = z
      BY <1>1, <3>1, ModSmall
    <3> QED BY <3>2 DEF z
  <2> QED BY <2>1, <2>2 DEF Low
<1>3. ASSUME NEW s \in {0, 1}
      PROVE  /\ Inf(f, s) = s * h + t * p
             /\ IsInf(f, Inf(f, s))
  <2>1. Pack(f, s, t, 0) = s * h + Low(t, f.e) * p + Low(0, f.m)
    <3>1. t \in Int /\ 0 \in Int
      BY <1>1
    <3> HIDE DEF t
    <3> QED BY <3>1, PackIs
  <2>2. ExpOf(f, Pack(f, s, t, 0)) = t /\ ManOf(f, Pack(f, s, t, 0)) = Low(0, f.m)
    BY <1>1, PackParts
  <2>3. IsInf(f, Inf(f, s))
    BY <1>2, <2>2 DEF IsInf, Inf
  <2>4. Inf(f, s) = s * h + t * p + 0
    BY <1>2, <2>1 DEF Inf
  <2> HIDE DEF h, t, p
  <2>5. s * h + t * p \in Nat
    BY <1>1
  <2> QED BY <2>3, <2>4, <2>5
<1>4. ASSUME IsInf(f, v) PROVE v \in {Inf(f, 0), Inf(f, 1)}
  <2>1. v = Sign(f, v) * h + (ExpOf(f, v) * p + ManOf(f, v)) /\ Sign(f, v) \in {0, 1}
    BY FloatParts
  <2>2. ExpOf(f, v) = t /\ ManOf(f, v) = 0
    BY <1>4 DEF IsInf
  <2> DEFINE s == Sign(f, v)
  <2>3. v = s * h + (t * p + 0) /\ s \in {0, 1}
    BY <2>1, <2>2
  <2>4. Inf(f, s) = s * h + t * p
    BY <1>3, <2>3
  <2> HIDE DEF s, h, t, p
  <2>5. v = Inf(f, s)
    BY <1>1, <2>3, <2>4
  <2> QED BY <2>3, <2>5
<1> QED BY <1>3, <1>4

(* Where the product of the mantissas is exact, the rest of the body rounds *)
(* it and settles the special operands as the reference does.               *)
LEMMA MulBodyRight ==
  ASSUME NEW f \in {F32, F64}, NEW a \in Words(f.w), NEW b \in Words(f.w), NEW prod,
         ExactProduct(f, prod, Hidden(f, a), Hidden(f, b))
  PROVE  MulSpecial(f, a, b, MulFinite(f, prod, a, b)) = RefMul(f, a, b)
<1> DEFINE s == SignXor(f, a, b)
           k == f.m - f.e
           c == 2^k
           ha == Hidden(f, a)
           hb == Hidden(f, b)
           lower == ha * (hb % c)
           upper == ha * (hb \div c)
           exact == Nearest(f, s, UnitExp(f, a) + UnitExp(f, b) + k, upper + lower \div c,
                            lower % c # 0).word
           inf == {a, b} \cap {Inf(f, 0), Inf(f, 1)} # {}
           finite == MulFinite(f, prod, a, b)
<1>1. RefMul(f, a, b) =
        CASE IsNaN(f, a) \/ IsNaN(f, b) -> QNaN(f)
          [] Normal(f, a) /\ Normal(f, b) -> exact
          [] inf /\ ~IsNaN(f, a) /\ ~IsNaN(f, b) ->
               IF IsZero(f, a) \/ IsZero(f, b) THEN QNaN(f) ELSE Inf(f, s)
          [] OTHER -> Zero(f, s)
  BY DEF RefMul
<1>2. MulSpecial(f, a, b, finite) =
        IF \/ IsNaN(f, a) \/ IsNaN(f, b)
           \/ IsZero(f, a) /\ IsInf(f, b)
           \/ IsZero(f, b) /\ IsInf(f, a) THEN QNaN(f)
        ELSE IF IsInf(f, a) \/ IsInf(f, b) THEN Inf(f, s)
        ELSE finite
  BY DEF MulSpecial
<1>3. inf <=> IsInf(f, a) \/ IsInf(f, b)
  <2>1. inf <=> a \in {Inf(f, 0), Inf(f, 1)} \/ b \in {Inf(f, 0), Inf(f, 1)}
    OBVIOUS
  <2> QED BY <2>1, Infinities
<1>4. Normal(f, a) /\ Normal(f, b) => finite = exact
  <2> SUFFICES ASSUME Normal(f, a), Normal(f, b) PROVE finite = exact
    OBVIOUS
  <2>1. ha \in Nat /\ hb \in Nat /\ c \in Nat \ {0}
    <3>1. ha \in 2^f.m..(2 * 2^f.m - 1) /\ hb \in 2^f.m..(2 * 2^f.m - 1)
      BY FloatParts
    <3>2. 2^f.m \in Nat /\ 2 * 2^f.m - 1 \in Int
      BY FormatOf
    <3>3. k \in 0..WideBits
      <4>1. WideBits = 2 * IntBits + 2 /\ IntBits \in Nat
        BY IntPowers DEF WideBits
      <4>2. f.m \in Nat /\ f.e \in Nat /\ f.e =< f.m /\ f.m + 5 =< f.w /\ f.w =< 2 * IntBits /\ f.w \in Nat
        BY FormatOf
      <4> QED BY <4>1, <4>2
    <3>4. c \in Nat \ {0}
      BY <3>3, WidePowers
    <3> DEFINE z == 2^f.m
    <3> HIDE DEF ha, hb, c, z
    <3>5. ha \in z..(2 * z - 1) /\ hb \in z..(2 * z - 1) /\ z \in Nat
      BY <3>1, <3>2 DEF z
    <3> QED BY <3>4, <3>5
  <2>2. finite = Nearest(f, s, UnitExp(f, a) + UnitExp(f, b) + k, (ha * hb) \div c,
                         (ha * hb) % c # 0).word
    BY MulFiniteRight
  <2> HIDE DEF ha, hb, c
  <2>3. upper + lower \div c = (ha * hb) \div c
    BY <2>1, CutProduct
  <2>4. lower % c = (ha * hb) % c
    BY <2>1, CutProduct
  <2> QED BY <2>2, <2>3, <2>4
<1>5. IsZero(f, a) \/ IsZero(f, b) => finite = Zero(f, s)
  BY DEF MulFinite
<1>6. /\ IsZero(f, a) => ~IsInf(f, a) /\ ~Normal(f, a) /\ ~IsNaN(f, a)
      /\ IsInf(f, a) => ~IsZero(f, a) /\ ~Normal(f, a) /\ ~IsNaN(f, a)
      /\ Normal(f, a) => ~IsZero(f, a) /\ ~IsInf(f, a) /\ ~IsNaN(f, a)
      /\ IsZero(f, a) \/ IsInf(f, a) \/ Normal(f, a) \/ IsNaN(f, a)
  BY OneKind
<1>7. /\ IsZero(f, b) => ~IsInf(f, b) /\ ~Normal(f, b) /\ ~IsNaN(f, b)
      /\ IsInf(f, b) => ~IsZero(f, b) /\ ~Normal(f, b) /\ ~IsNaN(f, b)
      /\ Normal(f, b) => ~IsZero(f, b) /\ ~IsInf(f, b) /\ ~IsNaN(f, b)
      /\ IsZero(f, b) \/ IsInf(f, b) \/ Normal(f, b) \/ IsNaN(f, b)
  BY OneKind
<1> HIDE DEF finite, exact, inf, s
<1>8. CASE IsNaN(f, a) \/ IsNaN(f, b)
  <2>1. RefMul(f, a, b) = QNaN(f)
    BY <1>1, <1>6, <1>7, <1>8
  <2>2. MulSpecial(f, a, b, finite) = QNaN(f)
    BY <1>2, <1>6, <1>7, <1>8
  <2> QED BY <2>1, <2>2 DEF finite
<1>9. CASE Normal(f, a) /\ Normal(f, b)
  <2>1. RefMul(f, a, b) = exact
    BY <1>1, <1>3, <1>6, <1>7, <1>9
  <2>2. MulSpecial(f, a, b, finite) = finite
    BY <1>2, <1>6, <1>7, <1>9
  <2> QED BY <1>4, <1>9, <2>1, <2>2 DEF finite
<1>10. CASE inf /\ ~IsNaN(f, a) /\ ~IsNaN(f, b)
  <2>1. RefMul(f, a, b) = IF IsZero(f, a) \/ IsZero(f, b) THEN QNaN(f) ELSE Inf(f, s)
    BY <1>1, <1>3, <1>6, <1>7, <1>10
  <2>2. MulSpecial(f, a, b, finite) = IF IsZero(f, a) \/ IsZero(f, b) THEN QNaN(f) ELSE Inf(f, s)
    BY <1>2, <1>3, <1>6, <1>7, <1>10
  <2> QED BY <2>1, <2>2 DEF finite
<1>11. CASE ~IsNaN(f, a) /\ ~IsNaN(f, b) /\ ~inf /\ ~(Normal(f, a) /\ Normal(f, b))
  <2>1. RefMul(f, a, b) = Zero(f, s)
    BY <1>1, <1>11
  <2>2. MulSpecial(f, a, b, finite) = finite
    BY <1>2, <1>3, <1>11
  <2>3. IsZero(f, a) \/ IsZero(f, b)
    BY <1>3, <1>6, <1>7, <1>11
  <2> QED BY <1>5, <2>1, <2>2, <2>3 DEF finite
<1> QED BY <1>8, <1>9, <1>10, <1>11

(* __mulsf3.                                                                *)
LEMMA MulSf3Right ==
  ASSUME NEW a \in Words(IntBits), NEW b \in Words(IntBits)
  PROVE  MulSf3(a, b) = RefMul(F32, a, b)
<1>1. F32 \in {F32, F64} /\ F32.w = IntBits
  BY FormatParts
<1>2. Hidden(F32, a) \in Words(IntBits) /\ Hidden(F32, b) \in Words(IntBits)
  BY <1>1, HiddenIsWord
<1>3. ExactProduct(F32, ProductSf3(Hidden(F32, a), Hidden(F32, b)), Hidden(F32, a), Hidden(F32, b))
  BY <1>2, ProductSf3Is
<1> QED BY <1>1, <1>3, MulBodyRight DEF MulSf3

(* __muldf3.                                                                *)
LEMMA MulDf3Right ==
  ASSUME NEW a \in Words(2 * IntBits), NEW b \in Words(2 * IntBits)
  PROVE  MulDf3(a, b) = RefMul(F64, a, b)
<1>1. F64 \in {F32, F64} /\ F64.w = 2 * IntBits
  BY FormatParts
<1>2. Hidden(F64, a) \in Words(2 * IntBits) /\ Hidden(F64, b) \in Words(2 * IntBits)
  BY <1>1, HiddenIsWord
<1>3. ExactProduct(F64, ProductDf3(Hidden(F64, a), Hidden(F64, b)), Hidden(F64, a), Hidden(F64, b))
  BY <1>2, ProductDf3Is
<1> QED BY <1>1, <1>3, MulBodyRight DEF MulDf3, MulFiniteDf3

-----------------------------------------------------------------------------
(* Quotients. A division in two steps, each by as many places.              *)
LEMMA LongDivision ==
  ASSUME NEW num \in Nat, NEW c \in Nat \ {0}, NEW g \in Nat \ {0}
  PROVE  /\ ((num * c) \div g) * c + (((num * c) % g) * c) \div g = (num * (c * c)) \div g
         /\ (((num * c) % g) * c) % g = (num * (c * c)) % g
<1> DEFINE big == num * c
           u == big \div g
           l == big % g
           left == l * c
           s == left \div g
           k == left % g
           v == num * (c * c)
           up == u * c + s
<1>1. big \in Nat /\ v \in Nat
  OBVIOUS
<1>2. u \in Nat /\ l \in 0..(g - 1) /\ big = u * g + l
  <2> HIDE DEF big
  <2> QED BY <1>1, Division
<1>3. v = big * c
  OBVIOUS
<1> HIDE DEF big, v, u, l
<1>4. left \in Nat /\ u * c \in Nat
  BY <1>2
<1>5. s \in Nat /\ k \in 0..(g - 1) /\ left = s * g + k
  <2> HIDE DEF left
  <2> QED BY <1>4, Division
<1>6. big * c = (u * c) * g + left
  <2>1. (u * g + l) * c = (u * c) * g + l * c
    BY <1>2
  <2> QED BY <1>2, <2>1
<1> HIDE DEF left, s, k
<1>7. v = up * g + k
  <2>1. (u * c + s) * g = (u * c) * g + s * g /\ (u * c) * g \in Nat /\ s * g \in Nat
    BY <1>2, <1>5
  <2> HIDE DEF up
  <2>2. up * g = (u * c) * g + s * g
    BY <2>1 DEF up
  <2> QED BY <1>3, <1>5, <1>6, <2>1, <2>2
<1>8. up \in Nat /\ k \in Nat /\ k < g
  BY <1>4, <1>5
<1> HIDE DEF up
<1>9. v \div g = up /\ v % g = k
  BY <1>1, <1>7, <1>8, DivUnique
<1> QED BY <1>9 DEF up, k, s, left, u, l, big, v

(* One step of the division of mantissas: the residue stays less than the   *)
(* divisor, and the quotient has one more bit.                              *)
LEMMA DivStepIs ==
  ASSUME NEW f \in {F32, F64}, NEW mb \in 2^f.m..(2 * 2^f.m - 1), NEW s,
         s.r \in 0..(mb - 1), s.q \in Nat, NEW t, t = DivStep(f, mb, s)
  PROVE  /\ t.q \in Nat /\ t.r \in 0..(mb - 1) /\ t.q \div 2 = s.q
         /\ t.q * mb + t.r = 2 * (s.q * mb + s.r)
<1> DEFINE p == 2^f.m
           h == 2^(f.w - 1)
           whole == 2^f.w
           sr == s.r
           sq == s.q
           twice == Shl(f.w, sr, 1)
<1>1. p \in Nat \ {0} /\ h \in Nat \ {0} /\ whole = 2 * h /\ 2 * p =< h
  <2> DEFINE e2 == 2^f.e
  <2>1. p \in Nat \ {0} /\ h \in Nat \ {0} /\ whole = 2 * h /\ h = e2 * p
    BY FormatOf
  <2>2. 2 =< e2 /\ e2 \in Nat
    BY FormatOf
  <2> HIDE DEF e2, p, h, whole
  <2>3. 2 * p =< e2 * p
    BY <2>1, <2>2, TimesMonotone
  <2> QED BY <2>1, <2>3
<1>2. mb \in Nat \ {0} /\ mb < h /\ sr \in Nat /\ sr < mb /\ sq \in Nat
  <2>1. mb \in p..(2 * p - 1) /\ sr \in 0..(mb - 1) /\ sq \in Nat
    OBVIOUS
  <2> HIDE DEF p, h, sr, sq
  <2> QED BY <1>1, <2>1
<1>3. twice = 2 * sr
  <2>1. twice = (sr % h) * 2
    BY WidePowers DEF Shl, PowersDouble
  <2> HIDE DEF sr, h, twice
  <2>2. sr % h = sr
    <3>1. sr < h /\ sr \in Nat /\ h \in Nat \ {0}
      BY <1>1, <1>2
    <3> QED BY <3>1, ModSmall
  <2> QED BY <1>2, <2>1, <2>2
<1>4. t = IF UgeF(f, twice, mb) THEN [r |-> Sub(f.w, twice, mb), q |-> 2 * sq + 1]
          ELSE [r |-> twice, q |-> 2 * sq]
  BY DEF DivStep
<1>5. UgeF(f, twice, mb) <=> 2 * sr >= mb
  <2>1. twice \in Words(f.w) /\ mb \in Words(f.w)
    <3>1. Words(f.w) = 0..(whole - 1)
      BY DEF Words
    <3> HIDE DEF twice, sr, h, whole
    <3> QED BY <1>1, <1>2, <1>3, <3>1
  <2>2. CASE f = F64
    <3>1. F64.w = 2 * IntBits
      BY DEF F64
    <3> HIDE DEF twice
    <3>2. UgePair(twice, mb) <=> twice >= mb
      BY <2>1, <2>2, <3>1, ComparePairs
    <3> QED BY <1>3, <2>2, <3>2 DEF UgeF
  <2>3. CASE f # F64
    BY <1>3, <2>3 DEF UgeF
  <2> QED BY <2>2, <2>3
<1> HIDE DEF twice, sr, sq
<1>6. CASE 2 * sr >= mb
  <2>1. t = [r |-> Sub(f.w, 2 * sr, mb), q |-> 2 * sq + 1]
    BY <1>3, <1>4, <1>5, <1>6
  <2>2. Sub(f.w, 2 * sr, mb) = 2 * sr - mb
    <3> DEFINE z == 2 * sr - mb
    <3> HIDE DEF h, whole
    <3>1. z \in Nat /\ z < whole /\ whole \in Nat \ {0}
      BY <1>1, <1>2, <1>6
    <3> HIDE DEF z
    <3>2. z % whole = z
      BY <3>1, ModSmall
    <3> QED BY <3>2 DEF Sub, z, whole
  <2>3. t.r = 2 * sr - mb /\ t.q = 2 * sq + 1
    BY <2>1, <2>2
  <2>4. t.q \in Nat /\ t.r \in 0..(mb - 1)
    BY <1>2, <1>6, <2>3
  <2>5. t.q \div 2 = sq
    BY <1>2, <2>3
  <2>6. (2 * sq + 1) * mb + (2 * sr - mb) = 2 * (sq * mb + sr)
    BY <1>2
  <2> QED BY <2>3, <2>4, <2>5, <2>6 DEF sr, sq
<1>7. CASE ~(2 * sr >= mb)
  <2>1. t = [r |-> 2 * sr, q |-> 2 * sq]
    BY <1>3, <1>4, <1>5, <1>7
  <2>2. t.r = 2 * sr /\ t.q = 2 * sq
    BY <2>1
  <2>3. t.q \in Nat /\ t.r \in 0..(mb - 1)
    BY <1>2, <1>7, <2>2
  <2>4. t.q \div 2 = sq
    BY <1>2, <2>2
  <2>5. (2 * sq) * mb + 2 * sr = 2 * (sq * mb + sr)
    BY <1>2
  <2> QED BY <2>2, <2>3, <2>4, <2>5 DEF sr, sq
<1> QED BY <1>6, <1>7

(* g holds the passes of the loop, each made of the one before.             *)
Passes(f, mb, r0, g) ==
  g = [j \in 0..f.m |-> IF j = 0 THEN [r |-> r0, q |-> 1] ELSE DivStep(f, mb, g[j - 1])]

(* There are as many passes as a mantissa has bits.                         *)
LEMMA PassesExist ==
  ASSUME NEW f \in {F32, F64}, NEW mb, NEW r0
  PROVE  \E g : Passes(f, mb, r0, g)
<1> DEFINE len == f.m
           s == [r |-> r0, q |-> 1]
           next(v) == DivStep(f, mb, v)
           passes(m, g) == g = [k \in 0..m |-> IF k = 0 THEN s ELSE next(g[k - 1])]
           Bad == {m \in 0..len : ~(\E g : passes(m, g))}
<1>1. len \in Nat
  BY FormatOf
<1>2. Bad = {}
  <2> SUFFICES ASSUME Bad # {} PROVE FALSE
    OBVIOUS
  <2>1. PICK m \in Bad : \A k \in Bad : m =< k
    <3>1. Bad \in SUBSET Nat
      OBVIOUS
    <3> HIDE DEF Bad
    <3> QED BY <3>1, LeastNumber
  <2>2. CASE m = 0
    <3> DEFINE g == [k \in 0..0 |-> s]
    <3>1. g = [k \in 0..0 |-> IF k = 0 THEN s ELSE next(g[k - 1])]
      <4>1. \A k \in 0..0 : k = 0
        OBVIOUS
      <4> HIDE DEF next
      <4> QED BY <4>1
    <3> QED BY <2>1, <2>2, <3>1
  <2>3. CASE m # 0
    <3> DEFINE o == m - 1
    <3>1. o \in 0..len /\ o \in Nat /\ o + 1 = m /\ o < m /\ m \in Nat
      <4>1. m \in 0..len
        BY <2>1
      <4> HIDE DEF len
      <4> QED BY <1>1, <2>3, <4>1
    <3>2. \E g : passes(o, g)
      <4>1. o \notin Bad
        <5> HIDE DEF Bad, o
        <5> QED BY <2>1, <3>1
      <4> QED BY <3>1, <4>1
    <3>3. PICK g : passes(o, g)
      BY <3>2
    <3> DEFINE last == next(g[o])
               h == [k \in 0..m |-> IF k =< o THEN g[k] ELSE last]
    <3> HIDE DEF o, next
    <3>4. \A k \in 0..o : g[k] = IF k = 0 THEN s ELSE next(g[k - 1])
      BY <3>3
    <3> HIDE DEF last
    <3>5. \A k \in 0..m : h[k] = IF k =< o THEN g[k] ELSE last
      OBVIOUS
    <3>6. DOMAIN h = 0..m /\ h = [k \in 0..m |-> h[k]]
      OBVIOUS
    <3> HIDE DEF h, s, len
    <3>7. \A k \in 0..m : h[k] = IF k = 0 THEN s ELSE next(h[k - 1])
      <4> SUFFICES ASSUME NEW k \in 0..m PROVE h[k] = IF k = 0 THEN s ELSE next(h[k - 1])
        OBVIOUS
      <4>1. CASE k = 0
        BY <3>1, <3>4, <3>5, <4>1
      <4>2. CASE k # 0 /\ k =< o
        <5>1. k - 1 \in 0..m /\ k - 1 =< o /\ k \in 0..o
          BY <3>1, <4>2
        <5>2. h[k] = g[k] /\ h[k - 1] = g[k - 1]
          BY <3>5, <4>2, <5>1
        <5> QED BY <3>4, <4>2, <5>1, <5>2
      <4>3. CASE ~(k =< o)
        <5>1. k = m /\ k # 0 /\ k - 1 = o /\ o \in 0..m
          BY <3>1, <4>3
        <5>2. h[k] = last /\ h[k - 1] = g[o]
          BY <3>1, <3>5, <4>3, <5>1
        <5> QED BY <5>1, <5>2 DEF last
      <4> QED BY <4>1, <4>2, <4>3
    <3>8. h = [k \in 0..m |-> IF k = 0 THEN s ELSE next(h[k - 1])]
      BY <3>6, <3>7
    <3>9. \E g2 : passes(m, g2)
      BY <3>8
    <3> QED BY <2>1, <3>9
  <2> QED BY <2>2, <2>3
<1>3. \E g : passes(len, g)
  BY <1>1, <1>2
<1> QED BY <1>3 DEF Passes

(* After the loop the quotient and the residue are those of the dividend,   *)
(* brought into [mb, 2mb), to as many binary places as a mantissa has.      *)
LEMMA DivLoopIs ==
  ASSUME NEW f \in {F32, F64}, NEW mb \in 2^f.m..(2 * 2^f.m - 1), NEW num \in mb..(2 * mb - 1),
         NEW t, t = DivLoop(f, mb, num - mb)
  PROVE  /\ t.q \in Nat /\ t.r \in 0..(mb - 1)
         /\ t.q * mb + t.r = num * 2^f.m
<1> DEFINE r0 == num - mb
           m == f.m
           pass[j \in 0..f.m] ==
             IF j = 0 THEN [r |-> r0, q |-> 1] ELSE DivStep(f, mb, pass[j - 1])
<1>1. t = pass[m]
  BY DEF DivLoop
<1>2. pass = [j \in 0..f.m |-> IF j = 0 THEN [r |-> r0, q |-> 1] ELSE DivStep(f, mb, pass[j - 1])]
  <2>1. \E g : Passes(f, mb, r0, g)
    BY PassesExist
  <2> QED BY <2>1 DEF Passes
<1> HIDE DEF pass
<1>3. \A j \in 0..m : pass[j] = IF j = 0 THEN [r |-> r0, q |-> 1] ELSE DivStep(f, mb, pass[j - 1])
  BY <1>2
<1>4. m \in Nat /\ m =< WideBits - 1 /\ WideBits \in Nat /\ mb \in Nat \ {0} /\ r0 \in 0..(mb - 1)
      /\ num \in Nat
  <2>1. m \in Nat /\ m + 5 =< f.w /\ f.w =< 2 * IntBits /\ f.w \in Nat /\ 2^f.m \in Nat \ {0}
    BY FormatOf
  <2>2. WideBits = 2 * IntBits + 2 /\ IntBits \in Nat
    BY IntPowers DEF WideBits
  <2> DEFINE p == 2^f.m
  <2>3. mb \in p..(2 * p - 1) /\ p \in Nat \ {0}
    BY <2>1
  <2> HIDE DEF p
  <2>4. mb \in Nat \ {0}
    BY <2>3
  <2>5. r0 \in 0..(mb - 1) /\ num \in Nat
    BY <2>4
  <2> HIDE DEF m, r0
  <2> QED BY <2>1, <2>2, <2>4, <2>5
<1> HIDE DEF r0
<1> DEFINE good(j) == /\ pass[j].q \in Nat /\ pass[j].r \in 0..(mb - 1)
                      /\ pass[j].q * mb + pass[j].r = num * 2^j
           Bad == {j \in 0..m : ~good(j)}
<1>5. good(0)
  <2>1. pass[0] = [r |-> r0, q |-> 1]
    BY <1>3, <1>4
  <2>2. pass[0].q = 1 /\ pass[0].r = r0
    BY <2>1
  <2>3. 2^0 = 1
    BY WidePowers DEF PowersDouble
  <2>4. 1 * mb + r0 = num * 1
    BY <1>4 DEF r0
  <2> QED BY <1>4, <2>2, <2>3, <2>4
<1>6. ASSUME NEW j \in 0..m, j # 0, good(j - 1)
      PROVE  good(j)
  <2> DEFINE s == pass[j - 1]
             u == pass[j]
  <2>1. s.q \in Nat /\ s.r \in 0..(mb - 1) /\ s.q * mb + s.r = num * 2^(j - 1)
    BY <1>6
  <2>2. u = DivStep(f, mb, s)
    BY <1>3, <1>6
  <2>3. 2^j = 2 * 2^(j - 1) /\ 2^(j - 1) \in Nat
    <3>1. j - 1 \in 0..(WideBits - 1) /\ (j - 1) + 1 = j /\ j - 1 \in 0..WideBits
      <4>1. j \in 0..m /\ j # 0 /\ m \in Nat /\ m =< WideBits - 1 /\ WideBits \in Nat
        BY <1>4, <1>6
      <4> HIDE DEF m
      <4> QED BY <4>1
    <3>2. 2^((j - 1) + 1) = 2 * 2^(j - 1) /\ 2^(j - 1) \in Nat
      BY <3>1, WidePowers DEF PowersDouble
    <3> QED BY <3>1, <3>2
  <2> HIDE DEF s, u
  <2>4. u.q \in Nat /\ u.r \in 0..(mb - 1) /\ u.q * mb + u.r = 2 * (s.q * mb + s.r)
    BY <2>1, <2>2, DivStepIs
  <2>5. 2 * (num * 2^(j - 1)) = num * 2^j
    BY <1>4, <2>3
  <2>6. u.q * mb + u.r = num * 2^j
    BY <2>1, <2>4, <2>5
  <2> QED BY <2>4, <2>6 DEF u
<1>7. Bad = {}
  <2> SUFFICES ASSUME Bad # {} PROVE FALSE
    OBVIOUS
  <2>1. PICK k \in Bad : \A j \in Bad : k =< j
    <3>1. Bad \in SUBSET Nat
      OBVIOUS
    <3> HIDE DEF Bad
    <3> QED BY <3>1, LeastNumber
  <2>2. k \in 0..m /\ ~good(k)
    BY <2>1
  <2> HIDE DEF good
  <2>3. k # 0
    BY <1>5, <2>2
  <2>4. k - 1 \in 0..m /\ k - 1 < k
    BY <1>4, <2>2, <2>3
  <2>5. k - 1 \notin Bad
    <3> HIDE DEF Bad
    <3> QED BY <1>4, <2>1, <2>2, <2>4
  <2>6. good(k - 1)
    BY <2>4, <2>5
  <2> QED BY <1>6, <2>2, <2>3, <2>6
<1>8. good(m)
  BY <1>4, <1>7
<1> QED BY <1>1, <1>8


(* Two normal numbers divided: the bits of the quotient, the guard bit and  *)
(* the sticky bit are those of the exact quotient, whether the dividend's   *)
(* mantissa had to be doubled or not.                                       *)
LEMMA DivFiniteRight ==
  ASSUME NEW f \in {F32, F64}, NEW a \in Words(f.w), NEW b \in Words(f.w), Normal(f, a), Normal(f, b),
         NEW k \in Nat, 2 * k >= f.m + 3, 2 * k =< f.m + 4
  PROVE  DivFinite(f, a, b) =
           Nearest(f, SignXor(f, a, b), UnitExp(f, a) - UnitExp(f, b) - 2 * k,
                   (Hidden(f, a) * 2^(2 * k)) \div Hidden(f, b),
                   (Hidden(f, a) * 2^(2 * k)) % Hidden(f, b) # 0).word
<1> DEFINE m == f.m
           p == 2^m
           ha == Hidden(f, a)
           hb == Hidden(f, b)
           renorm == ~UgeF(f, ha, hb)
           one == IF renorm THEN 1 ELSE 0
           num == IF renorm THEN 2 * ha ELSE ha
           loop == DivLoop(f, hb, num - hb)
           last == DivStep(f, hb, loop)
           guard == Bit(last.q, 0)
           sticky == last.r # 0
           l == RoundNearest(f, loop.q, guard, sticky)
           er == ExpOf(f, a) - ExpOf(f, b) + Bias(f) - one + l.bump
           s == SignXor(f, a, b)
           k2 == 2 * k
           top == k2 - one
           gap == top - (m + 1)
           c == 2^gap
           pt == 2^top
           v == ha * 2^k2
           sig == v \div hb
           rem == v % hb
           unit == UnitExp(f, a) - UnitExp(f, b) - k2
<1>1. /\ m \in Nat /\ one \in {0, 1} /\ k2 \in Nat /\ top \in Nat /\ gap \in Nat /\ WideBits \in Nat
      /\ top \in (m + 1)..WideBits /\ k2 \in 0..WideBits /\ top \in 0..WideBits /\ gap \in 0..(WideBits - 1)
      /\ gap \in 0..WideBits /\ gap + 1 = top - m /\ gap = top - m - 1 /\ m + 1 \in 0..top
      /\ one \in 0..k2 /\ k2 - one = top /\ top - (m + 1) = gap
  <2>1. WideBits = 2 * IntBits + 2 /\ IntBits \in Nat
    BY IntPowers DEF WideBits
  <2>2. m \in Nat /\ m + 5 =< f.w /\ f.w =< 2 * IntBits /\ f.w \in Nat
    BY FormatOf
  <2>3. k2 \in Nat /\ k2 >= m + 3 /\ k2 =< m + 4
    OBVIOUS
  <2> HIDE DEF m, renorm, k2
  <2> QED BY <2>1, <2>2, <2>3
<1>2. /\ p \in Nat \ {0} /\ c \in Nat \ {0} /\ pt \in Nat \ {0}
      /\ 2^(top - m) = 2 * c /\ 2^(top - m - 1) = c /\ pt = c * (2 * p) /\ 2^k2 = pt * 2^one
      /\ 2^one = one + 1
  <2>1. p \in Nat \ {0} /\ 2^(m + 1) = 2 * p
    BY FormatOf
  <2>2. c \in Nat \ {0} /\ pt \in Nat \ {0}
    BY <1>1, WidePowers
  <2>3. 2^(gap + 1) = 2 * c
    BY <1>1, WidePowers DEF PowersDouble
  <2>4. pt = c * 2^(m + 1)
    BY <1>1, PowerSplit
  <2>5. 2^k2 = 2^(k2 - one) * 2^one
    BY <1>1, PowerSplit
  <2>6. 2^0 = 1 /\ 2^1 = 2
    BY WidePowers DEF PowersDouble
  <2>7. 2^one = one + 1
    <3>1. CASE one = 0
      BY <2>6, <3>1
    <3>2. CASE one = 1
      BY <2>6, <3>2
    <3> HIDE DEF one
    <3> QED BY <1>1, <3>1, <3>2
  <2>8. 2^(top - m) = 2 * c /\ 2^(top - m - 1) = c
    <3> DEFINE t1 == top - m
               t2 == top - m - 1
    <3>1. t1 = gap + 1 /\ t2 = gap
      BY <1>1
    <3> HIDE DEF t1, t2, gap
    <3>2. 2^t1 = 2^(gap + 1) /\ 2^t2 = 2^gap
      BY <3>1
    <3> QED BY <2>3, <3>2 DEF t1, t2
  <2>9. pt = c * (2 * p)
    BY <2>1, <2>4
  <2>10. 2^k2 = pt * 2^one
    <3> DEFINE t1 == k2 - one
    <3>1. t1 = top
      OBVIOUS
    <3> HIDE DEF t1, top, one, k2
    <3>2. 2^k2 = 2^t1 * 2^one
      BY <2>5 DEF t1
    <3> QED BY <3>1, <3>2
  <2> HIDE DEF p, c, pt, gap, top, k2, one, m
  <2> QED BY <2>1, <2>2, <2>7, <2>8, <2>9, <2>10
<1>3. ha \in p..(2 * p - 1) /\ hb \in p..(2 * p - 1)
  BY FloatParts
<1>4. renorm <=> ha < hb
  <2>1. ha \in Words(f.w) /\ hb \in Words(f.w)
    BY HiddenIsWord
  <2>2. ha \in Nat /\ hb \in Nat
    <3> HIDE DEF ha, hb, p
    <3> QED BY <1>2, <1>3
  <2>3. CASE f = F64
    <3>1. F64.w = 2 * IntBits
      BY DEF F64
    <3> HIDE DEF ha, hb
    <3>2. UgePair(ha, hb) <=> ha >= hb
      BY <2>1, <2>3, <3>1, ComparePairs
    <3> QED BY <2>2, <2>3, <3>2 DEF UgeF
  <2>4. CASE f # F64
    <3> HIDE DEF ha, hb
    <3> QED BY <2>2, <2>4 DEF UgeF
  <2> QED BY <2>3, <2>4
<1> HIDE DEF renorm, ha, hb, p
<1>5. num \in hb..(2 * hb - 1) /\ hb \in Nat \ {0} /\ num \in Nat /\ num = ha * 2^one /\ ha \in Nat
  <2>1. num = (IF renorm THEN 2 * ha ELSE ha) /\ ha * (one + 1) = num
    BY <1>2, <1>3
  <2> HIDE DEF num, one
  <2> QED BY <1>2, <1>3, <1>4, <2>1
<1> HIDE DEF num
<1>6. loop.q \in Nat /\ loop.r \in 0..(hb - 1) /\ loop.q * hb + loop.r = num * p
  <2> HIDE DEF loop
  <2>1. loop = DivLoop(f, hb, num - hb)
    BY DEF loop
  <2>2. hb \in 2^f.m..(2 * 2^f.m - 1)
    BY <1>3 DEF p
  <2>3. loop.q \in Nat /\ loop.r \in 0..(hb - 1) /\ loop.q * hb + loop.r = num * 2^f.m
    BY <1>5, <2>1, <2>2, DivLoopIs
  <2> QED BY <2>3 DEF p
<1> HIDE DEF loop
<1>7. /\ last.q \in Nat /\ last.r \in 0..(hb - 1) /\ last.q \div 2 = loop.q
      /\ last.q * hb + last.r = 2 * (num * p)
  <2>1. last = DivStep(f, hb, loop)
    OBVIOUS
  <2>2. hb \in 2^f.m..(2 * 2^f.m - 1)
    BY <1>3 DEF p
  <2> HIDE DEF last
  <2>3. /\ last.q \in Nat /\ last.r \in 0..(hb - 1) /\ last.q \div 2 = loop.q
        /\ last.q * hb + last.r = 2 * (loop.q * hb + loop.r)
    BY <1>6, <2>1, <2>2, DivStepIs
  <2> QED BY <1>6, <2>3
<1> HIDE DEF last
<1> DEFINE lq == last.q
           lr == last.r
           low == sig % c
<1>8. v = num * pt /\ v = (lq * hb + lr) * c /\ v \in Nat /\ lq \in Nat /\ lr \in 0..(hb - 1)
  <2>1. v = ha * (pt * 2^one)
    BY <1>2
  <2> DEFINE z == 2^one
  <2> HIDE DEF z, v, pt, c
  <2>2. v = ha * (pt * z) /\ num = ha * z /\ z \in Nat
    BY <1>1, <1>2, <1>5, <2>1 DEF z
  <2>3. ha * (pt * z) = (ha * z) * pt
    BY <1>2, <1>5, <2>2
  <2>4. num * (c * (2 * p)) = (2 * (num * p)) * c
    BY <1>2, <1>5
  <2>5. v = num * pt
    BY <2>2, <2>3
  <2>6. v = (lq * hb + lr) * c
    BY <1>2, <1>7, <2>4, <2>5
  <2>7. num * pt \in Nat
    BY <1>2, <1>5
  <2> QED BY <1>7, <2>5, <2>6, <2>7
<1> HIDE DEF v, lq, lr, c, pt
<1>9. sig \in Nat /\ rem \in 0..(hb - 1) /\ v = sig * hb + rem
  BY <1>5, <1>8, Division
<1>10. pt =< sig /\ sig < 2 * pt
  <2>1. pt * hb =< v /\ v < (2 * pt) * hb
    <3>1. hb * pt =< num * pt
      BY <1>2, <1>5, TimesMonotone
    <3>2. num =< 2 * hb - 1 /\ 2 * hb - 1 \in Nat /\ num \in Nat
      BY <1>5
    <3> DEFINE z == 2 * hb - 1
    <3> HIDE DEF z
    <3>3. num * pt =< z * pt
      BY <1>2, <3>2, TimesMonotone DEF z
    <3>4. (2 * hb - 1) * pt = (2 * pt) * hb - pt /\ hb * pt = pt * hb /\ (2 * pt) * hb \in Nat
      BY <1>2, <1>5
    <3> QED BY <1>2, <1>8, <3>1, <3>3, <3>4 DEF z
  <2>2. 2 * pt \in Nat /\ pt \in Nat
    BY <1>2
  <2>3. sig \in pt..(2 * pt - 1)
    BY <1>5, <1>8, <2>1, <2>2, QuotientBounds
  <2> HIDE DEF sig
  <2> QED BY <2>2, <2>3
<1>11. sig \div c = lq
  <2>1. sig \div c = v \div (hb * c)
    BY <1>2, <1>5, <1>8, DivideTwice
  <2> DEFINE u == hb * c
             z == lr * c
  <2>2. (lq * hb + lr) * c = lq * (hb * c) + lr * c
    BY <1>2, <1>5, <1>8
  <2>3. z \in Nat /\ u \in Nat \ {0} /\ z < u
    <3>1. lr + 1 =< hb /\ lr + 1 \in Nat /\ lr \in Nat
      BY <1>5, <1>8
    <3>2. (lr + 1) * c =< hb * c /\ (lr + 1) * c = lr * c + c /\ lr * c \in Nat /\ hb * c \in Nat
      BY <1>2, <1>5, <3>1, TimesMonotone
    <3> QED BY <1>2, <3>2
  <2>4. v = lq * u + z
    BY <1>8, <2>2
  <2> HIDE DEF u, z
  <2>5. v \div u = lq
    BY <1>8, <2>3, <2>4, DivUnique
  <2> QED BY <2>1, <2>5 DEF u
<1> HIDE DEF sig, rem
<1>12. low \in 0..(c - 1) /\ sig = lq * c + low
  <2>1. c \in Nat \ {0} /\ sig \in Nat
    BY <1>2, <1>9
  <2>2. sig % c \in 0..(c - 1) /\ sig = (sig \div c) * c + (sig % c)
    BY <2>1, Division
  <2> QED BY <1>11, <2>2
<1> HIDE DEF low
<1>13. lr # 0 <=> low # 0 \/ rem # 0
  <2>1. low * hb + rem = lr * c
    <3>1. (lq * c + low) * hb = (lq * hb) * c + low * hb
      BY <1>2, <1>5, <1>8, <1>12
    <3>2. (lq * hb + lr) * c = (lq * hb) * c + lr * c
      BY <1>2, <1>5, <1>8
    <3>3. (lq * hb) * c \in Nat /\ low * hb \in Nat /\ lr * c \in Nat /\ rem \in Nat
      BY <1>2, <1>5, <1>8, <1>9, <1>12
    <3>4. v = (lq * c + low) * hb + rem /\ v = (lq * hb + lr) * c
      BY <1>8, <1>9, <1>12
    <3> QED BY <3>1, <3>2, <3>3, <3>4
  <2>2. low \in Nat /\ rem \in Nat /\ lr \in Nat
    BY <1>2, <1>5, <1>8, <1>9, <1>12
  <2>3. CASE low = 0 /\ rem = 0
    <3>1. lr * c = 0
      BY <1>5, <2>1, <2>3
    <3>2. lr = 0
      <4> SUFFICES ASSUME lr >= 1 PROVE FALSE
        BY <2>2
      <4>1. 1 * c =< lr * c
        BY <1>2, <2>2, TimesMonotone
      <4> QED BY <1>2, <3>1, <4>1
    <3> QED BY <2>3, <3>2
  <2>4. CASE low # 0 \/ rem # 0
    <3>1. low * hb + rem # 0
      <4>1. CASE rem # 0
        <5>1. low * hb \in Nat
          BY <1>5, <2>2
        <5> QED BY <2>2, <4>1, <5>1
      <4>2. CASE low # 0
        <5>1. 1 * hb =< low * hb /\ low * hb \in Nat
          BY <1>5, <2>2, <4>2, TimesMonotone
        <5> QED BY <1>5, <2>2, <5>1
      <4> QED BY <2>4, <4>1, <4>2
    <3>2. 0 * c = 0
      BY <1>2
    <3> QED BY <2>1, <2>4, <3>1, <3>2
  <2> QED BY <2>3, <2>4
<1>14. sig % (2 * c) = (lq % 2) * c + low
  <2> DEFINE two == 2
  <2>1. two \in Nat \ {0}
    OBVIOUS
  <2> HIDE DEF two
  <2>2. sig % (two * c) = ((sig \div c) % two) * c + (sig % c)
    <3>1. c \in Nat \ {0} /\ sig \in Nat
      BY <1>2, <1>9
    <3> QED BY <2>1, <3>1, LowCut
  <2> QED BY <1>11, <2>2 DEF two, low
<1>15. /\ guard = lq % 2 /\ guard \in {0, 1} /\ (sticky <=> lr # 0) /\ sticky \in BOOLEAN
  <2>1. 2^0 = 1
    BY WidePowers DEF PowersDouble
  <2>2. guard = (lq \div 1) % 2
    BY <2>1 DEF Bit, lq
  <2>3. lq \div 1 = lq
    <3> DEFINE z == 0
               w1 == 1
    <3>1. lq = lq * w1 + z /\ z \in Nat /\ z < w1 /\ w1 \in Nat \ {0}
      BY <1>8
    <3> HIDE DEF z, w1
    <3>2. lq \div w1 = lq
      BY <1>8, <3>1, DivUnique
    <3> QED BY <3>2 DEF w1
  <2>4. (sticky <=> lr # 0) /\ sticky \in BOOLEAN
    BY DEF lr
  <2> HIDE DEF guard, sticky
  <2>5. guard = lq % 2
    BY <2>2, <2>3
  <2>6. guard \in {0, 1}
    BY <1>8, <2>5
  <2> QED BY <2>4, <2>5, <2>6
<1> HIDE DEF guard, sticky
<1>16. /\ guard = 1 <=> sig % (2 * c) >= c
       /\ guard = 1 => (sticky <=> sig % (2 * c) > c \/ rem # 0)
  <2>1. CASE guard = 1
    <3>1. sig % (2 * c) = 1 * c + low
      BY <1>14, <1>15, <2>1
    <3>2. 1 * c + low = c + low /\ low \in Nat /\ c \in Nat
      BY <1>2, <1>12
    <3> QED BY <1>13, <1>15, <2>1, <3>1, <3>2
  <2>2. CASE guard = 0
    <3>1. sig % (2 * c) = 0 * c + low
      BY <1>14, <1>15, <2>2
    <3>2. 0 * c + low = low /\ low < c /\ low \in Nat /\ c \in Nat
      BY <1>2, <1>12
    <3> QED BY <2>2, <3>1, <3>2
  <2> QED BY <1>15, <2>1, <2>2
<1> DEFINE inexact == rem # 0
<1>17. Halfway(f, sig, inexact, top, guard, sticky)
  <2>1. inexact \in BOOLEAN /\ (inexact <=> rem # 0)
    OBVIOUS
  <2> HIDE DEF inexact, top
  <2>2. top \in (f.m + 1)..WideBits
    BY <1>1
  <2>3. 2^top =< sig /\ sig < 2 * 2^top
    BY <1>10 DEF pt
  <2>4. guard = 1 <=> sig % 2^(top - f.m) >= 2^(top - f.m - 1)
    BY <1>2, <1>16
  <2>5. guard = 1 => (sticky <=> sig % 2^(top - f.m) > 2^(top - f.m - 1) \/ inexact)
    BY <1>2, <1>16, <2>1
  <2> QED BY <1>15, <2>1, <2>2, <2>3, <2>4, <2>5 DEF Halfway
<1>18. l = RoundNearest(f, sig \div 2^(top - f.m), guard, sticky)
  <2>1. sig \div (c * 2) = loop.q
    <3> DEFINE two == 2
    <3>1. two \in Nat \ {0}
      OBVIOUS
    <3> HIDE DEF two
    <3>2. (sig \div c) \div two = sig \div (c * two)
      <4>1. c \in Nat \ {0} /\ sig \in Nat
        BY <1>2, <1>9
      <4> QED BY <3>1, <4>1, DivideTwice
    <3>3. lq \div 2 = loop.q
      BY <1>7 DEF lq
    <3> QED BY <1>11, <3>2, <3>3 DEF two
  <2>2. c * 2 = 2 * c
    BY <1>2
  <2>3. sig \div 2^(top - m) = loop.q
    <3> HIDE DEF top, m
    <3> QED BY <1>2, <2>1, <2>2
  <2> QED BY <2>3
<1> HIDE DEF l
<1>19. unit \in Int
  <2>1. ExpOf(f, a) \in Nat /\ ExpOf(f, b) \in Nat /\ Bias(f) \in Nat
    BY Exponents, FormatOf
  <2>2. UnitExp(f, a) = ExpOf(f, a) - Bias(f) - m /\ UnitExp(f, b) = ExpOf(f, b) - Bias(f) - m
    BY DEF UnitExp
  <2> HIDE DEF m, k2
  <2> QED BY <1>1, <2>1, <2>2
<1> HIDE DEF unit, top, s, inexact
<1>20. l.bump \in {0, 1}
  BY <1>9, <1>17, <1>18, <1>19, NearestRounds
<1>21. Nearest(f, s, unit, sig, inexact).word = Fitted(f, s, unit + top + Bias(f) + l.bump, l.man)
  BY <1>9, <1>17, <1>18, <1>19, NearestRounds
<1>22. DivFinite(f, a, b) =
         IF IsZero(f, b) THEN Inf(f, s)
         ELSE IF IsZero(f, a) \/ er =< 0 THEN Zero(f, s)
         ELSE IF er >= MaxExp(f) THEN Inf(f, s)
         ELSE Pack(f, s, er, l.man)
  BY DEF DivFinite, renorm, num, ha, hb, loop, last, guard, sticky, l, s, lq, lr
<1>23. er = unit + top + Bias(f) + l.bump /\ er \in Int
  <2>1. ExpOf(f, a) \in Nat /\ ExpOf(f, b) \in Nat /\ Bias(f) \in Nat
    BY Exponents, FormatOf
  <2>2. UnitExp(f, a) = ExpOf(f, a) - Bias(f) - m /\ UnitExp(f, b) = ExpOf(f, b) - Bias(f) - m
    BY DEF UnitExp
  <2>3. unit = UnitExp(f, a) - UnitExp(f, b) - k2 /\ top = k2 - one
    BY DEF unit, top
  <2> HIDE DEF m, k2, one
  <2> QED BY <1>1, <1>20, <2>1, <2>2, <2>3
<1>24. ~IsZero(f, a) /\ ~IsZero(f, b)
  BY OneKind
<1> HIDE DEF er
<1>25. DivFinite(f, a, b) = Fitted(f, s, er, l.man)
  <2>1. er =< 0 <=> er < 1
    BY <1>23
  <2> QED BY <1>22, <1>24, <2>1 DEF Fitted
<1>26. Nearest(f, s, unit, sig, inexact).word = Fitted(f, s, er, l.man)
  BY <1>21, <1>23
<1> QED BY <1>25, <1>26 DEF s, unit, sig, rem, inexact, v, ha, hb


(* The division bodies settle the special operands as the reference does,   *)
(* a zero divisor among them.                                               *)
LEMMA DivBodyRight ==
  ASSUME NEW f \in {F32, F64}, NEW a \in Words(f.w), NEW b \in Words(f.w)
  PROVE  DivSpecial(f, a, b, DivFinite(f, a, b)) = RefDiv(f, a, b)
<1> DEFINE s == SignXor(f, a, b)
           k == (f.m + 4) \div 2
           c == 2^k
           ha == Hidden(f, a)
           hb == Hidden(f, b)
           first == (ha * c) \div hb
           left == ((ha * c) % hb) * c
           exact == Nearest(f, s, UnitExp(f, a) - UnitExp(f, b) - 2 * k, first * c + left \div hb,
                            left % hb # 0).word
           finite == DivFinite(f, a, b)
<1>1. RefDiv(f, a, b) =
        CASE IsNaN(f, a) \/ IsNaN(f, b) -> QNaN(f)
          [] Normal(f, a) /\ Normal(f, b) -> exact
          [] (IsInf(f, a) /\ IsInf(f, b)) \/ (IsZero(f, a) /\ IsZero(f, b)) -> QNaN(f)
          [] IsInf(f, a) /\ (IsZero(f, b) \/ Normal(f, b)) -> Inf(f, s)
          [] IsZero(f, b) /\ Normal(f, a) -> Inf(f, s)
          [] OTHER -> Zero(f, s)
  BY DEF RefDiv
<1>2. DivSpecial(f, a, b, finite) =
        CASE \/ IsNaN(f, a) \/ IsNaN(f, b)
             \/ IsInf(f, a) /\ IsInf(f, b)
             \/ IsZero(f, a) /\ IsZero(f, b) -> QNaN(f)
          [] IsInf(f, a) /\ ~IsInf(f, b) /\ ~IsNaN(f, b) -> Inf(f, s)
          [] IsInf(f, b) /\ ~IsInf(f, a) /\ ~IsNaN(f, a) -> Zero(f, s)
          [] OTHER -> finite
  BY DEF DivSpecial
<1>3. Normal(f, a) /\ Normal(f, b) => finite = exact
  <2> SUFFICES ASSUME Normal(f, a), Normal(f, b) PROVE finite = exact
    OBVIOUS
  <2>1. k \in Nat /\ 2 * k >= f.m + 3 /\ 2 * k =< f.m + 4 /\ k \in 0..WideBits /\ k + k =< WideBits
        /\ 2 * k = k + k
    <3>1. WideBits = 2 * IntBits + 2 /\ IntBits \in Nat
      BY IntPowers DEF WideBits
    <3>2. f.m \in Nat /\ f.m + 5 =< f.w /\ f.w =< 2 * IntBits /\ f.w \in Nat
      BY FormatOf
    <3> DEFINE m == f.m
    <3> HIDE DEF m
    <3>3. m \in Nat /\ m + 5 =< f.w /\ f.w =< 2 * IntBits /\ f.w \in Nat
      BY <3>2 DEF m
    <3>4. (m + 4) \div 2 \in Nat /\ 2 * ((m + 4) \div 2) >= m + 3 /\ 2 * ((m + 4) \div 2) =< m + 4
      BY <3>3
    <3> QED BY <3>1, <3>3, <3>4 DEF m
  <2> HIDE DEF k
  <2>2. c \in Nat \ {0} /\ 2^(2 * k) = c * c
    <3>1. c \in Nat \ {0}
      BY <2>1, WidePowers
    <3>2. 2^(k + k) = 2^k * 2^k
      BY <2>1, WidePowers
    <3> QED BY <2>1, <3>1, <3>2
  <2>3. ha \in Nat /\ hb \in Nat \ {0}
    <3> DEFINE p == 2^f.m
    <3>1. ha \in p..(2 * p - 1) /\ hb \in p..(2 * p - 1)
      BY FloatParts
    <3>2. p \in Nat \ {0}
      BY FormatOf
    <3> HIDE DEF ha, hb, p
    <3> QED BY <3>1, <3>2
  <2>4. finite = Nearest(f, s, UnitExp(f, a) - UnitExp(f, b) - 2 * k, (ha * 2^(2 * k)) \div hb,
                         (ha * 2^(2 * k)) % hb # 0).word
    <3>1. k \in Nat /\ 2 * k >= f.m + 3 /\ 2 * k =< f.m + 4
      BY <2>1
    <3> QED BY <3>1, DivFiniteRight
  <2> HIDE DEF ha, hb, c, finite, s
  <2>5. first * c + left \div hb = (ha * (c * c)) \div hb
    BY <2>2, <2>3, LongDivision
  <2>6. left % hb = (ha * (c * c)) % hb
    BY <2>2, <2>3, LongDivision
  <2> QED BY <2>2, <2>4, <2>5, <2>6
<1>4. IsZero(f, b) => finite = Inf(f, s)
  BY DEF DivFinite
<1>5. IsZero(f, a) /\ ~IsZero(f, b) => finite = Zero(f, s)
  BY DEF DivFinite
<1>6. /\ IsZero(f, a) => ~IsInf(f, a) /\ ~Normal(f, a) /\ ~IsNaN(f, a)
      /\ IsInf(f, a) => ~IsZero(f, a) /\ ~Normal(f, a) /\ ~IsNaN(f, a)
      /\ Normal(f, a) => ~IsZero(f, a) /\ ~IsInf(f, a) /\ ~IsNaN(f, a)
      /\ IsZero(f, a) \/ IsInf(f, a) \/ Normal(f, a) \/ IsNaN(f, a)
  BY OneKind
<1>7. /\ IsZero(f, b) => ~IsInf(f, b) /\ ~Normal(f, b) /\ ~IsNaN(f, b)
      /\ IsInf(f, b) => ~IsZero(f, b) /\ ~Normal(f, b) /\ ~IsNaN(f, b)
      /\ Normal(f, b) => ~IsZero(f, b) /\ ~IsInf(f, b) /\ ~IsNaN(f, b)
      /\ IsZero(f, b) \/ IsInf(f, b) \/ Normal(f, b) \/ IsNaN(f, b)
  BY OneKind
<1> HIDE DEF finite, exact, s
<1>8. CASE IsNaN(f, a) \/ IsNaN(f, b)
  <2>1. RefDiv(f, a, b) = QNaN(f)
    BY <1>1, <1>6, <1>7, <1>8
  <2>2. DivSpecial(f, a, b, finite) = QNaN(f)
    BY <1>2, <1>6, <1>7, <1>8
  <2> QED BY <2>1, <2>2 DEF finite
<1>9. CASE Normal(f, a) /\ Normal(f, b)
  <2>1. RefDiv(f, a, b) = exact
    BY <1>1, <1>6, <1>7, <1>9
  <2>2. DivSpecial(f, a, b, finite) = finite
    BY <1>2, <1>6, <1>7, <1>9
  <2> QED BY <1>3, <1>9, <2>1, <2>2 DEF finite
<1>10. CASE (IsInf(f, a) /\ IsInf(f, b)) \/ (IsZero(f, a) /\ IsZero(f, b))
  <2>1. RefDiv(f, a, b) = QNaN(f)
    BY <1>1, <1>6, <1>7, <1>10
  <2>2. DivSpecial(f, a, b, finite) = QNaN(f)
    BY <1>2, <1>6, <1>7, <1>10
  <2> QED BY <2>1, <2>2 DEF finite
<1>11. CASE IsInf(f, a) /\ (IsZero(f, b) \/ Normal(f, b))
  <2>1. RefDiv(f, a, b) = Inf(f, s)
    BY <1>1, <1>6, <1>7, <1>11
  <2>2. DivSpecial(f, a, b, finite) = Inf(f, s)
    BY <1>2, <1>6, <1>7, <1>11
  <2> QED BY <2>1, <2>2 DEF finite
<1>12. CASE IsZero(f, b) /\ Normal(f, a)
  <2>1. RefDiv(f, a, b) = Inf(f, s)
    BY <1>1, <1>6, <1>7, <1>12
  <2>2. DivSpecial(f, a, b, finite) = finite
    BY <1>2, <1>6, <1>7, <1>12
  <2> QED BY <1>4, <1>12, <2>1, <2>2 DEF finite
<1>13. CASE IsZero(f, a) /\ Normal(f, b)
  <2>1. RefDiv(f, a, b) = Zero(f, s)
    BY <1>1, <1>6, <1>7, <1>13
  <2>2. DivSpecial(f, a, b, finite) = finite
    BY <1>2, <1>6, <1>7, <1>13
  <2> QED BY <1>5, <1>7, <1>13, <2>1, <2>2 DEF finite
<1>14. CASE IsInf(f, b) /\ (IsZero(f, a) \/ Normal(f, a))
  <2>1. RefDiv(f, a, b) = Zero(f, s)
    BY <1>1, <1>6, <1>7, <1>14
  <2>2. DivSpecial(f, a, b, finite) = Zero(f, s)
    BY <1>2, <1>6, <1>7, <1>14
  <2> QED BY <2>1, <2>2 DEF finite
<1> QED BY <1>6, <1>7, <1>8, <1>9, <1>10, <1>11, <1>12, <1>13, <1>14

(* __divsf3.                                                                *)
LEMMA DivSf3Right ==
  ASSUME NEW a \in Words(IntBits), NEW b \in Words(IntBits)
  PROVE  DivSf3(a, b) = RefDiv(F32, a, b)
<1>1. F32 \in {F32, F64} /\ F32.w = IntBits
  BY FormatParts
<1> QED BY <1>1, DivBodyRight DEF DivSf3

(* __divdf3.                                                                *)
LEMMA DivDf3Right ==
  ASSUME NEW a \in Words(2 * IntBits), NEW b \in Words(2 * IntBits)
  PROVE  DivDf3(a, b) = RefDiv(F64, a, b)
<1>1. F64 \in {F32, F64} /\ F64.w = 2 * IntBits
  BY FormatParts
<1> QED BY <1>1, DivBodyRight DEF DivDf3, DivFiniteDf3

-----------------------------------------------------------------------------
-----------------------------------------------------------------------------
(* Sums. The words operations of a format are those of its word.            *)
LEMMA FormatShifts ==
  ASSUME NEW f \in {F32, F64}, NEW v \in Words(f.w), NEW k \in 0..(f.w - 1)
  PROVE  /\ LsrF(f, v, k) = v \div 2^k
         /\ v < 2^(f.w - k) => LslF(f, v, k) = v * 2^k
<1>1. F32.w = IntBits /\ F64.w = 2 * IntBits /\ IntBits \in Nat /\ IntBits >= 5
  BY FormatParts, IntPowers
<1>2. CASE f = F64
  <2>1. v \in Words(2 * IntBits) /\ k \in 0..(2 * IntBits - 1) /\ f.w = 2 * IntBits
    BY <1>1, <1>2
  <2>2. LsrF(f, v, k) = LshrPair(v, k) /\ LslF(f, v, k) = ShlPair(v, k)
    BY <1>2 DEF LsrF, LslF
  <2> QED BY <2>1, <2>2, LshrPairIs, ShlPairIs
<1>3. CASE f = F32
  <2>1. f # F64 /\ f.w = IntBits
    <3>1. F32.w # F64.w
      BY <1>1
    <3> QED BY <1>1, <1>3, <3>1
  <2>2. LsrF(f, v, k) = LShr(v, k) /\ LslF(f, v, k) = Shl(f.w, v, k)
    BY <2>1 DEF LsrF, LslF
  <2>3. ASSUME v < 2^(f.w - k) PROVE Shl(f.w, v, k) = v * 2^k
    <3> DEFINE z == 2^(f.w - k)
    <3>1. z \in Nat
      <4>1. f.w - k \in 0..(2 * IntBits)
        BY <1>1, <2>1
      <4> DEFINE g == f.w - k
      <4>2. g \in 0..(2 * IntBits)
        BY <4>1
      <4> HIDE DEF g
      <4>3. 2^g \in Nat
        BY <4>2, IntPowers
      <4> QED BY <4>3 DEF g
    <3>2. v \in Nat /\ v < z
      <4>1. v \in Nat
        BY FloatParts
      <4> QED BY <2>3, <4>1
    <3> HIDE DEF z
    <3>3. v % z = v
      BY <3>1, <3>2, ModSmall
    <3> QED BY <3>3 DEF Shl, z
  <2> QED BY <2>2, <2>3 DEF LShr
<1> QED BY <1>2, <1>3

(* Setting the last bit.                                                    *)
LEMMA OrBitIs ==
  ASSUME NEW v \in Nat, NEW t \in BOOLEAN
  PROVE  /\ OrBit(v, t) \in Nat /\ OrBit(v, t) \div 2 = v \div 2
         /\ OrBit(v, t) = (IF t /\ v % 2 = 0 THEN v + 1 ELSE v)
         /\ (OrBit(v, t) % 2 # 0 <=> v % 2 # 0 \/ t)
         /\ (~t => OrBit(v, t) = v)
<1>1. OrBit(v, t) = (IF t /\ v % 2 = 0 THEN v + 1 ELSE v)
  BY DEF OrBit
<1> DEFINE h == v \div 2
           l == v % 2
<1>2. h \in Nat /\ l \in {0, 1} /\ v = 2 * h + l
  OBVIOUS
<1> HIDE DEF h, l
<1>3. (2 * h + 1) \div 2 = h /\ (2 * h + 1) % 2 = 1
  BY <1>2
<1>4. CASE t /\ l = 0
  <2>1. OrBit(v, t) = 2 * h + 1
    BY <1>1, <1>2, <1>4 DEF l
  <2> QED BY <1>1, <1>2, <1>3, <1>4, <2>1 DEF h, l
<1>5. CASE ~(t /\ l = 0)
  <2>1. OrBit(v, t) = v
    BY <1>1, <1>5 DEF l
  <2> QED BY <1>1, <1>2, <1>5, <2>1 DEF h, l
<1> QED BY <1>4, <1>5

(* The floor of a negative quotient is one less where something is left.    *)
LEMMA NegativeFloor ==
  ASSUME NEW v \in Nat, NEW c \in Nat \ {0}
  PROVE  /\ (-v) \div c = -(v \div c) - (IF v % c # 0 THEN 1 ELSE 0)
         /\ (-v) % c # 0 <=> v % c # 0
<1> DEFINE h == v \div c
           l == v % c
           a == (-v) \div c
           b == (-v) % c
<1>1. h \in Nat /\ l \in 0..(c - 1) /\ v = h * c + l
  BY Division
<1>2. a \in Int /\ b \in 0..(c - 1) /\ -v = a * c + b
  BY SMT
<1> HIDE DEF h, l, a, b
<1>3. (a + h) * c = -(l + b)
  <2>1. (a + h) * c = a * c + h * c /\ a * c \in Int /\ h * c \in Int
    BY <1>1, <1>2
  <2> QED BY <1>1, <1>2, <2>1
<1> DEFINE n2 == -(a + h)
<1>4. n2 \in Int /\ n2 * c = l + b
  <2>1. n2 * c = -((a + h) * c)
    BY <1>1, <1>2
  <2> QED BY <1>1, <1>2, <1>3, <2>1
<1>5. a = -h - n2
  BY <1>1, <1>2
<1> HIDE DEF n2
<1>6. n2 >= 0
  <2> SUFFICES ASSUME n2 < 0 PROVE FALSE
    BY <1>4
  <2>1. -n2 \in Nat /\ 1 =< -n2
    BY <1>4
  <2> DEFINE k == -n2
  <2>2. k \in Nat /\ 1 =< k
    BY <2>1
  <2> HIDE DEF k
  <2>3. 1 * c =< k * c
    BY <2>2, TimesMonotone
  <2>4. k * c = -(n2 * c)
    BY <1>4 DEF k
  <2>5. k * c = -(l + b)
    BY <1>4, <2>4
  <2> QED BY <1>1, <1>2, <2>3, <2>5
<1>7. n2 < 2
  <2> SUFFICES ASSUME n2 >= 2 PROVE FALSE
    BY <1>4
  <2>1. n2 \in Nat
    BY <1>4
  <2>2. 2 * c =< n2 * c
    BY <2>1, TimesMonotone
  <2>3. n2 * c = l + b
    BY <1>4
  <2> QED BY <1>1, <1>2, <2>2, <2>3
<1>8. n2 = 0 \/ n2 = 1
  BY <1>4, <1>6, <1>7
<1>9. CASE n2 = 0
  <2>1. l + b = 0
    BY <1>4, <1>9
  <2>2. l = 0 /\ b = 0
    BY <1>1, <1>2, <2>1
  <2> QED BY <1>1, <1>5, <1>9, <2>2 DEF h, l, a, b
<1>10. CASE n2 = 1
  <2>1. l + b = c
    BY <1>4, <1>10
  <2>2. l # 0 /\ b # 0
    BY <1>1, <1>2, <2>1
  <2> QED BY <1>1, <1>5, <1>10, <2>2 DEF h, l, a, b
<1> QED BY <1>8, <1>9, <1>10


(* The lesser operand's mantissa hs in units of the greater one's last bit  *)
(* but three, when their exponents are gap apart: its floor, and whether    *)
(* anything is left.                                                        *)
TermCut(f, gap) == 2^Least({gap - 3, f.m + 2})
Term(f, hs, gap) == IF gap > 3 THEN hs \div TermCut(f, gap) ELSE hs * 2^(3 - gap)
TermRest(f, hs, gap) == gap > 3 /\ hs % TermCut(f, gap) # 0

LEMMA TermCutIs ==
  ASSUME NEW f \in {F32, F64}, NEW gap \in Nat, gap > 3
  PROVE  /\ gap - 3 =< f.m + 2 => TermCut(f, gap) = 2^(gap - 3)
         /\ gap - 3 > f.m + 2 => TermCut(f, gap) = 2^(f.m + 2)
         /\ TermCut(f, gap) \in Nat \ {0} /\ TermCut(f, gap) >= 2
<1> DEFINE n1 == gap - 3
           n2 == f.m + 2
           k == Least({n1, n2})
<1>1. n1 \in Int /\ n1 >= 1 /\ n2 \in Nat /\ n2 >= 1 /\ n2 =< WideBits /\ WideBits \in Nat
  BY FormatOf, MantissaUnits
<1>2. k \in {n1, n2} /\ k =< n1 /\ k =< n2
  <2> HIDE DEF n1, n2
  <2> QED BY <1>1, LeastOfTwo
<1> HIDE DEF k, n1, n2
<1>3. (n1 =< n2 => k = n1) /\ (n1 > n2 => k = n2) /\ k - 1 \in 0..(WideBits - 1) /\ k - 1 \in 0..WideBits
      /\ (k - 1) + 1 = k
  BY <1>1, <1>2
<1>4. 2^k = 2 * 2^(k - 1) /\ 2^(k - 1) \in Nat \ {0}
  <2> DEFINE j == k - 1
  <2>1. j \in 0..(WideBits - 1) /\ j \in 0..WideBits /\ j + 1 = k
    BY <1>3
  <2> HIDE DEF j
  <2>2. 2^(j + 1) = 2 * 2^j /\ 2^j \in Nat \ {0}
    BY <2>1, WidePowers DEF PowersDouble
  <2> QED BY <2>1, <2>2 DEF j
<1>5. TermCut(f, gap) = 2^k
  BY DEF TermCut, k, n1, n2
<1>6. 2^k \in Nat \ {0} /\ 2^k >= 2
  BY <1>4
<1> QED BY <1>3, <1>5, <1>6 DEF n1, n2

LEMMA TermIs ==
  ASSUME NEW f \in {F32, F64}, NEW hs \in 2^f.m..(2 * 2^f.m - 1), NEW gap \in Nat
  PROVE  /\ Term(f, hs, gap) \in Nat /\ TermRest(f, hs, gap) \in BOOLEAN
         /\ gap = 0 => Term(f, hs, gap) = 8 * hs
         /\ gap = 1 => Term(f, hs, gap) = 4 * hs
         /\ gap = 2 => Term(f, hs, gap) = 2 * hs
         /\ gap = 3 => Term(f, hs, gap) = hs
         /\ gap > 3 => Term(f, hs, gap) < 2^f.m
         /\ gap =< 3 => ~TermRest(f, hs, gap)
<1> DEFINE p == 2^f.m
<1>1. p \in Nat \ {0} /\ hs \in p..(2 * p - 1) /\ hs \in Nat
  <2>1. p \in Nat \ {0} /\ hs \in p..(2 * p - 1)
    BY FormatOf
  <2> HIDE DEF p
  <2> QED BY <2>1
<1>2. 2^0 = 1 /\ 2^1 = 2 /\ 2^2 = 4 /\ 2^3 = 8
  BY WidePowers DEF PowersDouble
<1>3. TermRest(f, hs, gap) \in BOOLEAN /\ (gap =< 3 => ~TermRest(f, hs, gap))
  BY DEF TermRest
<1>4. CASE gap > 3
  <2> DEFINE c == TermCut(f, gap)
  <2>1. c \in Nat \ {0} /\ c >= 2
    BY <1>4, TermCutIs
  <2>2. Term(f, hs, gap) = hs \div c
    BY <1>4 DEF Term
  <2> HIDE DEF c, p
  <2>3. 0 * c =< hs /\ hs < p * c
    <3>1. 2 * p =< c * p /\ c * p = p * c
      BY <1>1, <2>1, TimesMonotone
    <3> QED BY <1>1, <2>1, <3>1
  <2> DEFINE z == 0
  <2>4. z \in Nat /\ z * c =< hs /\ z = 0
    BY <2>3
  <2> HIDE DEF z
  <2>5. hs \div c \in z..(p - 1)
    BY <1>1, <2>1, <2>3, <2>4, QuotientBounds
  <2>6. Term(f, hs, gap) \in Nat /\ Term(f, hs, gap) < p
    BY <1>1, <2>2, <2>4, <2>5
  <2> QED BY <1>3, <1>4, <2>6 DEF p
<1>5. CASE gap =< 3
  <2>1. Term(f, hs, gap) = hs * 2^(3 - gap)
    BY <1>5 DEF Term
  <2>2. gap \in {0, 1, 2, 3}
    BY <1>5
  <2>3. CASE gap = 0
    <3>1. 2^(3 - gap) = 8
      BY <1>2, <2>3
    <3> QED BY <1>1, <1>3, <2>1, <2>3, <3>1
  <2>4. CASE gap = 1
    <3>1. 2^(3 - gap) = 4
      BY <1>2, <2>4
    <3> QED BY <1>1, <1>3, <2>1, <2>4, <3>1
  <2>5. CASE gap = 2
    <3>1. 2^(3 - gap) = 2
      BY <1>2, <2>5
    <3> QED BY <1>1, <1>3, <2>1, <2>5, <3>1
  <2>6. CASE gap = 3
    <3>1. 2^(3 - gap) = 1
      BY <1>2, <2>6
    <3> QED BY <1>1, <1>3, <2>1, <2>6, <3>1
  <2> QED BY <2>2, <2>3, <2>4, <2>5, <2>6
<1> QED BY <1>4, <1>5


(* What is in the word of a format that holds a mantissa and three more     *)
(* bits.                                                                    *)
LEMMA GuardedWord ==
  ASSUME NEW f \in {F32, F64}
  PROVE  /\ f.m \in Nat /\ f.m + 5 =< f.w /\ f.w \in Nat /\ f.w =< 2 * IntBits /\ f.w =< WideBits /\ WideBits \in Nat
         /\ IntBits \in Nat /\ 2^f.m \in Nat \ {0}
         /\ \A k \in 0..(WideBits - 1) : 2^(k + 1) = 2 * 2^k
         /\ \A k \in 0..WideBits : 2^k \in Nat \ {0}
         /\ 2^(f.m + 1) = 2 * 2^f.m /\ 2^(f.m + 2) = 4 * 2^f.m /\ 2^(f.m + 3) = 8 * 2^f.m
         /\ 2^(f.m + 4) = 16 * 2^f.m /\ 2^(f.m + 5) = 32 * 2^f.m
         /\ 32 * 2^f.m =< 2^f.w
<1> DEFINE m == f.m
<1>1. /\ m \in Nat /\ m + 5 =< f.w /\ f.w \in Nat /\ f.w =< 2 * IntBits /\ f.w =< WideBits /\ WideBits \in Nat
      /\ IntBits \in Nat /\ 2^m \in Nat \ {0}
  <2>1. WideBits = 2 * IntBits + 2 /\ IntBits \in Nat
    BY IntPowers DEF WideBits
  <2>2. m \in Nat /\ m + 5 =< f.w /\ f.w \in Nat /\ f.w =< 2 * IntBits /\ 2^m \in Nat \ {0}
    BY FormatOf
  <2> QED BY <2>1, <2>2
<1>2. /\ \A k \in 0..(WideBits - 1) : 2^(k + 1) = 2 * 2^k
      /\ \A k \in 0..WideBits : 2^k \in Nat \ {0}
  BY WidePowers DEF PowersDouble
<1>3. \A j \in 0..4 : 2^(m + (j + 1)) = 2 * 2^(m + j)
  <2> SUFFICES ASSUME NEW j \in 0..4 PROVE 2^(m + (j + 1)) = 2 * 2^(m + j)
    OBVIOUS
  <2> DEFINE k == m + j
  <2>1. k \in 0..(WideBits - 1) /\ k + 1 = m + (j + 1)
    <3> HIDE DEF m
    <3> QED BY <1>1
  <2> HIDE DEF k
  <2>2. 2^(k + 1) = 2 * 2^k
    BY <1>2, <2>1
  <2> QED BY <2>1, <2>2 DEF k
<1>4. /\ 2^(m + 1) = 2 * 2^m /\ 2^(m + 2) = 2 * 2^(m + 1) /\ 2^(m + 3) = 2 * 2^(m + 2)
      /\ 2^(m + 4) = 2 * 2^(m + 3) /\ 2^(m + 5) = 2 * 2^(m + 4)
  <2>1. m + 0 = m
    <3> HIDE DEF m
    <3> QED BY <1>1
  <2> HIDE DEF m
  <2> QED BY <1>3, <2>1
<1>5. 2^(m + 5) =< 2^f.w
  <2> DEFINE k == m + 5
             w == f.w
  <2>1. k \in 0..w /\ w \in 0..WideBits
    <3> HIDE DEF m
    <3> QED BY <1>1
  <2> HIDE DEF k, w
  <2>2. 2^k =< 2^w
    BY <2>1, PowerSplit
  <2> QED BY <2>2 DEF k, w
<1> DEFINE p == 2^m
           p1 == 2^(m + 1)
           p2 == 2^(m + 2)
           p3 == 2^(m + 3)
           p4 == 2^(m + 4)
           p5 == 2^(m + 5)
<1>6. p1 = 2 * p /\ p2 = 4 * p /\ p3 = 8 * p /\ p4 = 16 * p /\ p5 = 32 * p
  <2>1. p1 = 2 * p /\ p2 = 2 * p1 /\ p3 = 2 * p2 /\ p4 = 2 * p3 /\ p5 = 2 * p4 /\ p \in Nat
    BY <1>1, <1>4
  <2> HIDE DEF p, p1, p2, p3, p4, p5
  <2> QED BY <2>1
<1> QED BY <1>1, <1>2, <1>5, <1>6

(* The lesser operand's mantissa, shifted down with whatever is shifted out *)
(* kept in its last bit.                                                    *)
LEMMA TermShifted ==
  ASSUME NEW f \in {F32, F64}, NEW hs \in 2^f.m..(2 * 2^f.m - 1), NEW gap \in Nat,
         NEW ed, ed = IF gap > f.w - 1 THEN f.w - 1 ELSE gap,
         NEW right, right = LsrF(f, hs * 8, ed)
  PROVE  OrBit(right, hs * 8 # LslF(f, right, ed) \/ gap > f.w - 1)
           = OrBit(Term(f, hs, gap), TermRest(f, hs, gap))
<1> DEFINE m == f.m
           p == 2^f.m
           w == f.w
           v == hs * 8
           c == 2^ed
           lost == hs * 8 # LslF(f, right, ed) \/ gap > f.w - 1
<1>1. /\ m \in Nat /\ m + 5 =< w /\ w \in Nat /\ w =< WideBits /\ WideBits \in Nat
      /\ p \in Nat \ {0} /\ hs \in p..(2 * p - 1) /\ hs \in Nat
      /\ 2^(m + 2) = 4 * p /\ 2^(m + 4) = 16 * p /\ 32 * p =< 2^w /\ 2^w \in Nat
      /\ 2^0 = 1 /\ 2^1 = 2 /\ 2^2 = 4 /\ 2^3 = 8
  <2>1. /\ m \in Nat /\ m + 5 =< w /\ w \in Nat /\ w =< WideBits /\ WideBits \in Nat
        /\ p \in Nat \ {0} /\ hs \in p..(2 * p - 1)
        /\ 2^(m + 2) = 4 * p /\ 2^(m + 4) = 16 * p /\ 32 * p =< 2^w
    BY GuardedWord
  <2>2. 2^w \in Nat
    BY <2>1, WidePowers
  <2>3. 2^0 = 1 /\ 2^1 = 2 /\ 2^2 = 4 /\ 2^3 = 8
    BY WidePowers DEF PowersDouble
  <2> HIDE DEF m, p, w
  <2> QED BY <2>1, <2>2, <2>3
<1>2. v \in Nat /\ v < 16 * p /\ v \in Words(w) /\ v < 2^w
  <2> DEFINE full == 2^w
  <2>1. 32 * p =< full /\ full \in Nat
    BY <1>1
  <2> HIDE DEF p, full, w
  <2>2. v \in Nat /\ v < 16 * p /\ v \in 0..(full - 1)
    BY <1>1, <2>1
  <2> QED BY <2>1, <2>2 DEF Words, full
<1>3. ed \in 0..(w - 1) /\ ed \in 0..w /\ ed \in 0..WideBits /\ w \in 0..WideBits /\ w - ed \in 0..WideBits
      /\ ed \in Nat
  <2>1. ed = IF gap > w - 1 THEN w - 1 ELSE gap
    OBVIOUS
  <2> HIDE DEF w
  <2> QED BY <1>1, <2>1
<1>4. c \in Nat \ {0} /\ 2^(w - ed) \in Nat \ {0} /\ 2^w = 2^(w - ed) * c
  <2>1. c \in Nat \ {0}
    BY <1>3, WidePowers
  <2>2. 2^(w - ed) \in Nat \ {0}
    <3> DEFINE g == w - ed
    <3>1. g \in 0..WideBits
      BY <1>3
    <3> HIDE DEF g
    <3>2. 2^g \in Nat \ {0}
      BY <3>1, WidePowers
    <3> QED BY <3>2 DEF g
  <2> QED BY <1>3, <2>1, <2>2, PowerSplit
<1>5. right = v \div c /\ right \in Nat /\ LslF(f, right, ed) = right * c
  <2>1. right = v \div c
    <3>1. LsrF(f, v, ed) = v \div 2^ed
      BY <1>2, <1>3, FormatShifts
    <3> QED BY <3>1
  <2> DEFINE z == 0
             top == 2^(w - ed)
             full == 2^w
  <2>2. z \in Nat /\ z * c =< v /\ v < top * c /\ z = 0 /\ top \in Nat \ {0} /\ full \in Nat /\ top =< full
    <3>1. top * c = full /\ top \in Nat \ {0} /\ v < full /\ v \in Nat /\ full \in Nat
      BY <1>1, <1>2, <1>4
    <3>2. top =< full
      BY <1>3, PowerSplit
    <3> HIDE DEF top, v, c, full
    <3> QED BY <1>4, <3>1, <3>2
  <2>3. right \in z..(top - 1)
    <3> HIDE DEF z, top, v, c, full
    <3> QED BY <1>2, <1>4, <2>1, <2>2, QuotientBounds
  <2>4. right \in Nat /\ right < top /\ right \in 0..(full - 1)
    <3> HIDE DEF top, full
    <3> QED BY <2>2, <2>3
  <2>5. right \in Words(f.w)
    BY <2>4 DEF Words
  <2>6. LslF(f, right, ed) = right * c
    <3>1. right < 2^(f.w - ed) /\ ed \in 0..(f.w - 1)
      BY <1>3, <2>4
    <3> QED BY <2>5, <3>1, FormatShifts
  <2> QED BY <2>1, <2>4, <2>6
<1>6. lost <=> v # right * c \/ gap > w - 1
  BY <1>5
<1> SUFFICES /\ right = Term(f, hs, gap)
             /\ lost <=> TermRest(f, hs, gap)
  <2>1. lost \in BOOLEAN /\ TermRest(f, hs, gap) \in BOOLEAN
    BY DEF TermRest
  <2> DEFINE u == Term(f, hs, gap)
  <2>2. OrBit(right, lost) = (IF lost /\ right % 2 = 0 THEN right + 1 ELSE right)
    BY DEF OrBit
  <2>3. OrBit(u, TermRest(f, hs, gap)) = (IF TermRest(f, hs, gap) /\ u % 2 = 0 THEN u + 1 ELSE u)
    BY DEF OrBit
  <2>4. right = u /\ (lost <=> TermRest(f, hs, gap))
    OBVIOUS
  <2>5. OrBit(right, lost) = OrBit(u, TermRest(f, hs, gap))
    <3> HIDE DEF lost, u
    <3> QED BY <2>2, <2>3, <2>4, Zenon
  <2> QED BY <2>5
<1> HIDE DEF lost
<1>7. CASE gap =< 3
  <2>1. ed = gap /\ ~(gap > w - 1)
    <3>1. ed = IF gap > w - 1 THEN w - 1 ELSE gap
      OBVIOUS
    <3> HIDE DEF w, m
    <3> QED BY <1>1, <1>7, <3>1
  <2> DEFINE d3 == 2^(3 - gap)
  <2>2. d3 * c = 8 /\ d3 \in Nat
    <3>1. gap \in {0, 1, 2, 3}
      BY <1>7
    <3>2. CASE gap = 0
      BY <1>1, <2>1, <3>2
    <3>3. CASE gap = 1
      BY <1>1, <2>1, <3>3
    <3>4. CASE gap = 2
      BY <1>1, <2>1, <3>4
    <3>5. CASE gap = 3
      BY <1>1, <2>1, <3>5
    <3> QED BY <3>1, <3>2, <3>3, <3>4, <3>5
  <2> DEFINE h == hs * d3
             z == 0
  <2>3. Term(f, hs, gap) = h /\ ~TermRest(f, hs, gap)
    BY <1>7 DEF Term, TermRest
  <2> HIDE DEF c, d3
  <2>4. v = h * c + z /\ h \in Nat /\ z \in Nat /\ z < c
    <3>1. (hs * d3) * c = hs * (d3 * c)
      BY <1>1, <1>4, <2>2
    <3> QED BY <1>1, <1>4, <2>2, <3>1
  <2> HIDE DEF h, v
  <2>5. v \div c = h
    <3> HIDE DEF z
    <3> QED BY <1>2, <1>4, <2>4, DivUnique
  <2>6. v = right * c
    <3>1. h * c \in Nat
      BY <1>4, <2>4
    <3> QED BY <1>5, <2>4, <2>5, <3>1
  <2> QED BY <1>5, <1>6, <2>1, <2>3, <2>5, <2>6
<1>8. CASE gap > 3 /\ gap =< m + 4
  <2> DEFINE k == gap - 3
             cut == 2^k
  <2>1. ed = gap /\ ~(gap > w - 1) /\ k \in 0..WideBits /\ k =< m + 2 /\ gap \in 0..WideBits /\ k \in 0..gap
        /\ gap - k = 3
    <3>1. ed = IF gap > w - 1 THEN w - 1 ELSE gap
      OBVIOUS
    <3> HIDE DEF w, m
    <3> QED BY <1>1, <1>8, <3>1
  <2>2. TermCut(f, gap) = cut /\ cut \in Nat \ {0}
    BY <1>8, <2>1, TermCutIs
  <2>3. c = 8 * cut
    <3>1. 2^gap = 2^(gap - k) * 2^k
      BY <2>1, PowerSplit
    <3>2. 2^(gap - k) = 8
      <4> DEFINE j == gap - k
      <4>1. j = 3
        BY <2>1
      <4> HIDE DEF j
      <4>2. 2^j = 8
        BY <1>1, <4>1
      <4> QED BY <4>2 DEF j
    <3> QED BY <2>1, <3>1, <3>2
  <2> DEFINE h == hs \div cut
             l == hs % cut
             l8 == 8 * l
  <2>4. Term(f, hs, gap) = h /\ (TermRest(f, hs, gap) <=> l # 0)
    BY <1>8, <2>2 DEF Term, TermRest
  <2> HIDE DEF cut, c
  <2>5. h \in Nat /\ l \in 0..(cut - 1) /\ hs = h * cut + l
    BY <1>1, <2>2, Division
  <2> HIDE DEF h, l
  <2>6. v = h * c + l8 /\ l8 \in Nat /\ l8 < c /\ h * c \in Nat
    <3>1. (h * cut) * 8 = h * (8 * cut) /\ h * cut \in Nat
      BY <2>2, <2>5
    <3> QED BY <2>2, <2>3, <2>5, <3>1
  <2>7. l8 = 0 <=> l = 0
    BY <2>5
  <2> HIDE DEF v, l8
  <2>8. v \div c = h
    BY <1>2, <1>4, <2>5, <2>6, DivUnique
  <2>9. v # right * c <=> l # 0
    BY <1>5, <2>6, <2>7, <2>8
  <2> QED BY <1>5, <1>6, <2>1, <2>4, <2>8, <2>9
<1>9. CASE gap > m + 4
  <2>1. gap > 3 /\ ed >= m + 4 /\ ed \in Nat
    <3>1. ed = IF gap > w - 1 THEN w - 1 ELSE gap
      OBVIOUS
    <3> HIDE DEF w, m
    <3> QED BY <1>1, <1>9, <3>1
  <2>2. TermCut(f, gap) = 4 * p
    <3>1. gap - 3 = m + 2 \/ gap - 3 > m + 2
      <4> HIDE DEF m
      <4> QED BY <1>1, <1>9
    <3>2. gap - 3 = m + 2 => TermCut(f, gap) = 2^(m + 2)
      <4> SUFFICES ASSUME gap - 3 = m + 2 PROVE TermCut(f, gap) = 2^(m + 2)
        OBVIOUS
      <4>1. gap - 3 =< f.m + 2 => TermCut(f, gap) = 2^(gap - 3)
        BY <2>1, TermCutIs
      <4>2. gap - 3 =< f.m + 2
        <5>1. gap - 3 = f.m + 2 /\ f.m \in Nat
          BY <1>1
        <5> DEFINE n0 == f.m
        <5> HIDE DEF n0
        <5> QED BY <5>1 DEF n0
      <4> QED BY <4>1, <4>2
    <3>3. gap - 3 > m + 2 => TermCut(f, gap) = 2^(m + 2)
      BY <2>1, TermCutIs
    <3> QED BY <1>1, <3>1, <3>2, <3>3
  <2> DEFINE c4 == 4 * p
             z == 0
             l == hs
  <2>3. hs \div c4 = z /\ hs % c4 = l
    <3>1. hs = z * c4 + l /\ l < c4 /\ c4 \in Nat \ {0} /\ z \in Nat /\ l \in Nat /\ hs \in Nat
      <4> HIDE DEF p
      <4> QED BY <1>1
    <3> HIDE DEF c4, z, l
    <3> QED BY <3>1, DivUnique
  <2>4. Term(f, hs, gap) = 0 /\ TermRest(f, hs, gap)
    <3>1. hs # 0
      <4> HIDE DEF p
      <4> QED BY <1>1
    <3> QED BY <2>1, <2>2, <2>3, <3>1 DEF Term, TermRest
  <2>5. c >= 16 * p
    <3> DEFINE j == m + 4
    <3>1. j \in 0..ed /\ 2^j = 16 * p
      <4>1. j \in 0..ed
        <5> HIDE DEF m
        <5> QED BY <1>1, <2>1
      <4> QED BY <1>1, <4>1
    <3> HIDE DEF j
    <3> QED BY <1>3, <3>1, PowerSplit
  <2>6. v = z * c + v /\ v < c /\ v # 0
    <3> HIDE DEF p, c
    <3> QED BY <1>1, <1>2, <1>4, <2>5
  <2>7. right = 0
    <3>1. z \in Nat
      OBVIOUS
    <3> HIDE DEF z, c, v
    <3>2. v \div c = z
      BY <1>2, <1>4, <2>6, <3>1, DivUnique
    <3> QED BY <1>5, <3>2 DEF z
  <2>8. v # right * c
    <3> HIDE DEF v, c
    <3> QED BY <1>4, <2>6, <2>7
  <2> QED BY <1>6, <2>4, <2>7, <2>8
<1>10. gap =< 3 \/ (gap > 3 /\ gap =< m + 4) \/ gap > m + 4
  <2> HIDE DEF m
  <2> QED BY <1>1
<1> QED BY <1>7, <1>8, <1>9, <1>10


-----------------------------------------------------------------------------
(* The sum in units of the last bit but three of the greater operand: its   *)
(* floor, and whether anything is left.                                     *)
SumTerm(f, a, b) == Term(f, Hidden(f, Lesser(f, a, b)), SumGap(f, a, b))
SumRest(f, a, b) == TermRest(f, Hidden(f, Lesser(f, a, b)), SumGap(f, a, b))
SumSig(f, a, b) ==
  IF Sign(f, a) = Sign(f, b) THEN 8 * Hidden(f, Greater(f, a, b)) + SumTerm(f, a, b)
  ELSE 8 * Hidden(f, Greater(f, a, b)) - SumTerm(f, a, b) - (IF SumRest(f, a, b) THEN 1 ELSE 0)

LEMMA SumOrder ==
  ASSUME NEW f \in {F32, F64}, NEW a \in Words(f.w), NEW b \in Words(f.w)
  PROVE  LET g == Greater(f, a, b)
             l == Lesser(f, a, b)
         IN  /\ g \in Words(f.w) /\ l \in Words(f.w) /\ {g, l} = {a, b}
             /\ SumGap(f, a, b) \in Nat
             /\ SumGap(f, a, b) = 0 => Hidden(f, g) >= Hidden(f, l)
             /\ ExpOf(f, a) > ExpOf(f, b) => g = a /\ l = b
             /\ ExpOf(f, a) < ExpOf(f, b) => g = b /\ l = a
             /\ ExpOf(f, a) = ExpOf(f, b) =>
                  /\ Hidden(f, a) >= Hidden(f, b) => g = a /\ l = b
                  /\ Hidden(f, a) < Hidden(f, b) => g = b /\ l = a
<1> DEFINE p == 2^f.m
           g == Greater(f, a, b)
           l == Lesser(f, a, b)
           ea == ExpOf(f, a)
           eb == ExpOf(f, b)
           na == ManOf(f, a)
           nb == ManOf(f, b)
           ma == Magnitude(f, a)
           mb == Magnitude(f, b)
<1>1. p \in Nat \ {0} /\ ea \in Nat /\ eb \in Nat /\ na \in 0..(p - 1) /\ nb \in 0..(p - 1)
  <2>1. p \in Nat \ {0}
    BY FormatOf
  <2>2. ea \in 0..MaxExp(f) /\ na \in 0..(p - 1) /\ eb \in 0..MaxExp(f) /\ nb \in 0..(p - 1)
    BY FloatParts
  <2> HIDE DEF p, ea, eb, na, nb
  <2> QED BY <2>1, <2>2
<1>2. ma = ea * p + na /\ mb = eb * p + nb
  BY MagnitudeParts
<1>3. Hidden(f, a) = p + na /\ Hidden(f, b) = p + nb
  BY DEF Hidden
<1> DEFINE ha == Hidden(f, a)
           hb == Hidden(f, b)
<1>4. (g = a /\ l = b /\ ma >= mb) \/ (g = b /\ l = a /\ ~(ma >= mb))
  BY DEF Greater, Lesser
<1> HIDE DEF p, g, l, ea, eb, na, nb, ma, mb, ha, hb
<1>5. /\ eb * p + nb < ea * p + na <=> eb < ea \/ (eb = ea /\ nb < na)
      /\ ea * p + na < eb * p + nb <=> ea < eb \/ (ea = eb /\ na < nb)
  BY <1>1, Lexicographic
<1>6. ma \in Int /\ mb \in Int
  <2>1. ea * p \in Int /\ eb * p \in Int /\ na \in Int /\ nb \in Int
    BY <1>1
  <2> QED BY <1>2, <2>1
<1>7. ma >= mb <=> eb < ea \/ (ea = eb /\ ~(na < nb))
  BY <1>1, <1>2, <1>5, <1>6
<1>8. ha = p + na /\ hb = p + nb
  BY <1>3 DEF ha, hb
<1>9. (ea > eb => ma >= mb) /\ (ea < eb => ~(ma >= mb)) /\ (ea = eb => (ma >= mb <=> ha >= hb))
  BY <1>1, <1>7, <1>8
<1>10. ha \in Nat /\ hb \in Nat
  BY <1>1, <1>8
<1>11. /\ g \in Words(f.w) /\ l \in Words(f.w) /\ {g, l} = {a, b}
       /\ ea > eb => g = a /\ l = b
       /\ ea < eb => g = b /\ l = a
       /\ ea = eb => /\ ha >= hb => g = a /\ l = b
                     /\ ha < hb => g = b /\ l = a
  <2>1. g \in Words(f.w) /\ l \in Words(f.w) /\ {g, l} = {a, b}
    BY <1>4
  <2> QED BY <1>1, <1>4, <1>9, <1>10, <2>1
<1>12. SumGap(f, a, b) \in Nat /\ (SumGap(f, a, b) = 0 => Hidden(f, g) >= Hidden(f, l))
  <2>1. SumGap(f, a, b) = ExpOf(f, g) - ExpOf(f, l)
    BY DEF SumGap, g, l
  <2>2. CASE g = a /\ l = b /\ ma >= mb
    <3>1. SumGap(f, a, b) = ea - eb /\ Hidden(f, g) = ha /\ Hidden(f, l) = hb
      BY <2>1, <2>2 DEF ea, eb, ha, hb
    <3> QED BY <1>1, <1>7, <1>8, <2>2, <3>1
  <2>3. CASE g = b /\ l = a /\ ~(ma >= mb)
    <3>1. SumGap(f, a, b) = eb - ea /\ Hidden(f, g) = hb /\ Hidden(f, l) = ha
      BY <2>1, <2>3 DEF ea, eb, ha, hb
    <3> QED BY <1>1, <1>7, <1>8, <2>3, <3>1
  <2> QED BY <1>4, <2>2, <2>3
<1> QED BY <1>11, <1>12 DEF g, l, ea, eb, ha, hb

(* The sum's place: a mantissa and five bits at most; what was cut off is   *)
(* left out only of sums that fill the mantissa and two bits; only operands *)
(* of the same or neighbouring exponents cancel more than one place.        *)
LEMMA SumSigIs ==
  ASSUME NEW f \in {F32, F64}, NEW a \in Words(f.w), NEW b \in Words(f.w)
  PROVE  LET p == 2^f.m
             sig == SumSig(f, a, b)
             gap == SumGap(f, a, b)
             term == SumTerm(f, a, b)
             hl == Hidden(f, Greater(f, a, b))
         IN  /\ SumRest(f, a, b) \in BOOLEAN /\ gap \in Nat /\ sig \in Nat /\ sig < 32 * p
             /\ SumRest(f, a, b) => sig >= 4 * p
             /\ sig < 4 * p => gap =< 1 /\ sig % 4 = 0
             /\ gap = 0 => sig % 8 = 0
             /\ gap >= 1 => sig # 0
             /\ Sign(f, a) = Sign(f, b) => sig # 0
             /\ term \in Nat /\ hl \in p..(2 * p - 1) /\ term =< 8 * hl
             /\ term < 16 * p
<1> DEFINE p == 2^f.m
           g == Greater(f, a, b)
           l == Lesser(f, a, b)
           hl == Hidden(f, g)
           hs == Hidden(f, l)
           gap == SumGap(f, a, b)
           t == SumRest(f, a, b)
           u == SumTerm(f, a, b)
           same == Sign(f, a) = Sign(f, b)
           sig == SumSig(f, a, b)
<1>1. g \in Words(f.w) /\ l \in Words(f.w) /\ gap \in Nat /\ (gap = 0 => hl >= hs)
  BY SumOrder
<1>2. p \in Nat \ {0} /\ hl \in p..(2 * p - 1) /\ hs \in p..(2 * p - 1)
  <2> HIDE DEF g, l
  <2> QED BY <1>1, FormatOf, FloatParts
<1>3. /\ u \in Nat /\ t \in BOOLEAN
      /\ gap = 0 => u = 8 * hs
      /\ gap = 1 => u = 4 * hs
      /\ gap = 2 => u = 2 * hs
      /\ gap = 3 => u = hs
      /\ gap > 3 => u < p
      /\ gap =< 3 => ~t
  <2>1. u = Term(f, hs, gap) /\ t = TermRest(f, hs, gap)
    BY DEF SumTerm, SumRest
  <2> HIDE DEF u, t, hs, gap
  <2> QED BY <1>1, <1>2, <2>1, TermIs
<1>4. sig = IF same THEN 8 * hl + u ELSE 8 * hl - u - (IF t THEN 1 ELSE 0)
  BY DEF SumSig
<1> HIDE DEF p, g, l, hl, hs, gap, t, u, same, sig
<1>5. hl \in Nat /\ hs \in Nat
  BY <1>2
<1>6. gap = 0 \/ gap = 1 \/ gap = 2 \/ gap = 3 \/ gap > 3
  BY <1>1
<1> DEFINE Goal == /\ sig \in Nat /\ sig < 32 * p
                   /\ t => sig >= 4 * p
                   /\ sig < 4 * p => gap =< 1 /\ sig % 4 = 0
                   /\ gap = 0 => sig % 8 = 0
                   /\ gap >= 1 => sig # 0
                   /\ same => sig # 0
                   /\ u =< 8 * hl
                   /\ u < 16 * p
<1>7. ASSUME same PROVE Goal
  <2>1. sig = 8 * hl + u
    BY <1>4, <1>7
  <2>2. CASE gap = 0
    BY <1>2, <1>3, <1>1, <1>5, <2>1, <2>2
  <2>3. CASE gap = 1
    BY <1>2, <1>3, <1>5, <2>1, <2>3
  <2>4. CASE gap = 2
    BY <1>2, <1>3, <1>5, <2>1, <2>4
  <2>5. CASE gap = 3
    BY <1>2, <1>3, <1>5, <2>1, <2>5
  <2>6. CASE gap > 3
    BY <1>1, <1>2, <1>3, <1>5, <2>1, <2>6
  <2> QED BY <1>6, <2>2, <2>3, <2>4, <2>5, <2>6
<1>8. ASSUME ~same PROVE Goal
  <2>1. CASE gap > 3
    <3>1. CASE t
      <4>1. sig = 8 * hl - u - 1
        BY <1>4, <1>8, <3>1
      <4> QED BY <1>1, <1>2, <1>3, <1>5, <1>8, <2>1, <4>1
    <3>2. CASE ~t
      <4>1. sig = 8 * hl - u
        <5>1. sig = 8 * hl - u - 0
          BY <1>4, <1>8, <3>2
        <5> QED BY <1>3, <1>5, <5>1
      <4> QED BY <1>1, <1>2, <1>3, <1>5, <1>8, <2>1, <3>2, <4>1
    <3> QED BY <3>1, <3>2
  <2>2. CASE gap =< 3
    <3>1. sig = 8 * hl - u
      <4>1. sig = 8 * hl - u - 0
        BY <1>3, <1>4, <1>8, <2>2
      <4> QED BY <1>3, <1>5, <4>1
    <3>2. CASE gap = 0
      BY <1>1, <1>2, <1>3, <1>5, <1>8, <3>1, <3>2
    <3>3. CASE gap = 1
      BY <1>2, <1>3, <1>5, <1>8, <3>1, <3>3
    <3>4. CASE gap = 2
      BY <1>2, <1>3, <1>5, <1>8, <3>1, <3>4
    <3>5. CASE gap = 3
      BY <1>2, <1>3, <1>5, <1>8, <3>1, <3>5
    <3> QED BY <1>1, <2>2, <3>2, <3>3, <3>4, <3>5
  <2> QED BY <1>1, <2>1, <2>2
<1>9. Goal
  BY <1>7, <1>8
<1> QED BY <1>1, <1>2, <1>3, <1>9 DEF p, g, hl, gap, t, u, same, sig


(* The reference's exact sum is that sum, whichever operand it starts from  *)
(* when the exponents are the same.                                         *)
LEMMA ExactSumIs ==
  ASSUME NEW f \in {F32, F64}, NEW a \in Words(f.w), NEW b \in Words(f.w)
  PROVE  LET s == ExactSum(f, a, b)
             g == Greater(f, a, b)
         IN  /\ s.e = UnitExp(f, g) - 3
             /\ s.sig = SumSig(f, a, b)
             /\ s.sig # 0 => s.neg = Sign(f, g)
             /\ s.inexact = SumRest(f, a, b)
<1> DEFINE p == 2^f.m
           g == Greater(f, a, b)
           l == Lesser(f, a, b)
           hl == Hidden(f, g)
           hs == Hidden(f, l)
           gap == SumGap(f, a, b)
           rest == SumRest(f, a, b)
           u == SumTerm(f, a, b)
           same == Sign(f, a) = Sign(f, b)
           sig == SumSig(f, a, b)
           s == ExactSum(f, a, b)
           hi == IF ExpOf(f, a) >= ExpOf(f, b) THEN a ELSE b
           lo == IF hi = a THEN b ELSE a
           dist == ExpOf(f, hi) - ExpOf(f, lo)
           h1 == Hidden(f, hi)
           h2 == Hidden(f, lo)
           term == IF same THEN h2 ELSE -h2
           cut == 2^Least({dist - 3, f.m + 2})
           total == h1 * 2^3 + (IF dist > 3 THEN term \div cut ELSE term * 2^(3 - dist))
<1>1. /\ s.e = UnitExp(f, hi) - 3
      /\ s.sig = IF total < 0 THEN -total ELSE total
      /\ s.neg = IF total < 0 THEN 1 - Sign(f, hi) ELSE Sign(f, hi)
      /\ s.inexact = (dist > 3 /\ term % cut # 0)
  BY DEF ExactSum
<1>2. /\ g \in Words(f.w) /\ l \in Words(f.w) /\ gap \in Nat
      /\ ExpOf(f, a) > ExpOf(f, b) => g = a /\ l = b
      /\ ExpOf(f, a) < ExpOf(f, b) => g = b /\ l = a
      /\ ExpOf(f, a) = ExpOf(f, b) =>
           /\ Hidden(f, a) >= Hidden(f, b) => g = a /\ l = b
           /\ Hidden(f, a) < Hidden(f, b) => g = b /\ l = a
  BY SumOrder
<1>3. /\ ExpOf(f, a) \in Nat /\ ExpOf(f, b) \in Nat /\ Sign(f, a) \in {0, 1} /\ Sign(f, b) \in {0, 1}
      /\ p \in Nat \ {0} /\ Hidden(f, a) \in Nat /\ Hidden(f, b) \in Nat
      /\ hl \in p..(2 * p - 1) /\ hs \in p..(2 * p - 1)
  <2>1. p \in Nat \ {0}
    BY FormatOf
  <2>2. ExpOf(f, a) \in 0..MaxExp(f) /\ ExpOf(f, b) \in 0..MaxExp(f) /\ Sign(f, a) \in {0, 1} /\ Sign(f, b) \in {0, 1}
        /\ Hidden(f, a) \in p..(2 * p - 1) /\ Hidden(f, b) \in p..(2 * p - 1)
    BY FloatParts
  <2>3. hl \in p..(2 * p - 1) /\ hs \in p..(2 * p - 1)
    <3> HIDE DEF g, l
    <3> QED BY <1>2, FloatParts
  <2> DEFINE ha == Hidden(f, a)
             hb == Hidden(f, b)
             ea == ExpOf(f, a)
             eb == ExpOf(f, b)
  <2> HIDE DEF p, ha, hb, ea, eb
  <2>4. ha \in Nat /\ hb \in Nat /\ ea \in Nat /\ eb \in Nat
    BY <2>1, <2>2 DEF ha, hb, ea, eb
  <2> QED BY <2>1, <2>2, <2>3, <2>4 DEF ha, hb, ea, eb
<1>4. gap = ExpOf(f, g) - ExpOf(f, l) /\ u = Term(f, hs, gap) /\ rest = TermRest(f, hs, gap)
      /\ sig = IF same THEN 8 * hl + u ELSE 8 * hl - u - (IF rest THEN 1 ELSE 0)
  BY DEF SumGap, SumTerm, SumRest, SumSig
<1>5. sig \in Nat /\ u \in Nat /\ rest \in BOOLEAN /\ (gap =< 3 => ~rest)
  <2>1. sig \in Nat /\ u \in Nat /\ rest \in BOOLEAN
    BY SumSigIs
  <2>2. gap =< 3 => ~rest
    <3>1. rest => gap > 3
      BY <1>4 DEF TermRest
    <3> HIDE DEF gap, rest
    <3> QED BY <1>2, <3>1
  <2> QED BY <2>1, <2>2
<1>6. 2^3 = 8
  BY WidePowers DEF PowersDouble
<1>7. (hi = a /\ lo = b /\ ExpOf(f, a) >= ExpOf(f, b)) \/ (hi = b /\ lo = a /\ ExpOf(f, b) > ExpOf(f, a))
  <2>1. CASE ExpOf(f, a) >= ExpOf(f, b)
    BY <2>1
  <2>2. CASE ~(ExpOf(f, a) >= ExpOf(f, b))
    <3>1. hi = b /\ ExpOf(f, b) > ExpOf(f, a)
      BY <1>3, <2>2
    <3>2. b # a
      BY <1>3, <3>1
    <3> QED BY <3>1, <3>2
  <2> QED BY <2>1, <2>2
<1> DEFINE Goal == /\ s.e = UnitExp(f, g) - 3
                   /\ s.sig = sig
                   /\ s.sig # 0 => s.neg = Sign(f, g)
                   /\ s.inexact = rest
<1>8. ASSUME g = hi, l = lo PROVE Goal
  <2>1. dist = gap /\ h1 = hl /\ h2 = hs /\ cut = TermCut(f, gap)
    BY <1>4, <1>8 DEF TermCut
  <2>2. total = (IF same THEN 8 * hl + u ELSE 8 * hl - u - (IF rest THEN 1 ELSE 0))
        /\ (dist > 3 /\ term % cut # 0) = rest
    <3>1. CASE gap > 3
      <4> DEFINE c == TermCut(f, gap)
      <4>1. c \in Nat \ {0} /\ hs \in Nat /\ hl \in Nat
        <5>1. c \in Nat \ {0}
          BY <1>2, <3>1, TermCutIs
        <5> HIDE DEF p, hs, hl, c
        <5> QED BY <1>3, <5>1
      <4>2. u = hs \div c /\ rest = (hs % c # 0)
        BY <1>4, <3>1 DEF Term, TermRest
      <4>3. total = hl * 8 + term \div c /\ (dist > 3 /\ term % cut # 0) = (term % c # 0)
        BY <1>6, <2>1, <3>1
      <4>4. term = IF same THEN hs ELSE -hs
        BY <2>1
      <4> HIDE DEF total, c, hs, hl, term, u, rest, same, dist, cut
      <4>5. CASE same
        <5>1. term = hs
          BY <4>4, <4>5
        <5>2. total = hl * 8 + u
          BY <4>2, <4>3, <5>1
        <5>3. total = 8 * hl + u
          BY <4>1, <5>2
        <5>4. (dist > 3 /\ term % cut # 0) = rest
          BY <4>2, <4>3, <5>1
        <5> QED BY <4>5, <5>3, <5>4
      <4>6. CASE ~same
        <5>1. term = -hs
          BY <4>4, <4>6
        <5>2. (-hs) \div c = -u - (IF rest THEN 1 ELSE 0) /\ ((-hs) % c # 0 <=> hs % c # 0)
          BY <4>1, <4>2, NegativeFloor
        <5>3. total = hl * 8 + (-u - (IF rest THEN 1 ELSE 0))
          BY <4>3, <5>1, <5>2
        <5>4. total = 8 * hl - u - (IF rest THEN 1 ELSE 0)
          BY <1>5, <4>1, <5>3
        <5>5. (dist > 3 /\ term % cut # 0) = rest
          <6>1. (term % c # 0) = (hs % c # 0)
            BY <5>1, <5>2
          <6> QED BY <4>2, <4>3, <6>1
        <5> QED BY <4>6, <5>4, <5>5
      <4> QED BY <4>5, <4>6
    <3>2. CASE ~(gap > 3)
      <4> DEFINE c == 2^(3 - gap)
      <4>1. c \in Nat \ {0} /\ hs \in Nat /\ hl \in Nat
        <5>1. c \in Nat \ {0}
          <6> DEFINE j == 3 - gap
          <6>1. j \in 0..WideBits
            <7>1. WideBits \in Nat /\ WideBits >= 12
              BY WidePowers
            <7> HIDE DEF gap
            <7> QED BY <1>2, <3>2, <7>1
          <6> HIDE DEF j
          <6>2. 2^j \in Nat \ {0}
            BY <6>1, WidePowers
          <6> QED BY <6>2 DEF j
        <5> HIDE DEF p, hs, hl, c
        <5> QED BY <1>3, <5>1
      <4>2. u = hs * c /\ rest = FALSE
        BY <1>4, <3>2 DEF Term, TermRest
      <4>3. total = hl * 8 + term * c /\ (dist > 3 /\ term % cut # 0) = FALSE
        BY <1>6, <2>1, <3>2
      <4>4. term = IF same THEN hs ELSE -hs
        BY <2>1
      <4> HIDE DEF total, c, hs, hl, term, u, rest, same, dist, cut
      <4>5. CASE same
        <5>1. total = hl * 8 + u
          BY <4>2, <4>3, <4>4, <4>5
        <5>2. total = 8 * hl + u
          BY <4>1, <5>1
        <5> QED BY <4>2, <4>3, <4>5, <5>2
      <4>6. CASE ~same
        <5>1. (-hs) * c = -u
          BY <4>1, <4>2
        <5>2. total = hl * 8 + (-u)
          BY <4>3, <4>4, <4>6, <5>1
        <5>3. total = 8 * hl - u - (IF rest THEN 1 ELSE 0)
          BY <1>5, <4>1, <4>2, <5>2
        <5> QED BY <4>2, <4>3, <4>6, <5>3
      <4> QED BY <4>5, <4>6
    <3> QED BY <3>1, <3>2
  <2>3. total = sig
    BY <1>4, <2>2, Zenon
  <2>4. ~(total < 0)
    <3> HIDE DEF total, sig
    <3> QED BY <1>5, <2>3
  <2> HIDE DEF total, sig, rest, dist, cut, term, hi, g, s
  <2> QED BY <1>1, <1>8, <2>2, <2>3, <2>4, Zenon
<1>9. ASSUME ~(g = hi /\ l = lo) PROVE Goal
  <2>1. ExpOf(f, a) = ExpOf(f, b) /\ Hidden(f, a) < Hidden(f, b)
    <3> DEFINE ha == Hidden(f, a)
               hb == Hidden(f, b)
               ea == ExpOf(f, a)
               eb == ExpOf(f, b)
    <3> HIDE DEF g, l, hi, lo
    <3> QED BY <1>2, <1>3, <1>7, <1>9
  <2>2. g = b /\ l = a /\ hi = a /\ lo = b
    <3> HIDE DEF g, l, hi, lo
    <3> QED BY <1>2, <1>3, <1>7, <2>1
  <2>3. gap = 0 /\ dist = 0
    <3>1. ExpOf(f, a) - ExpOf(f, b) = 0 /\ ExpOf(f, b) - ExpOf(f, a) = 0
      BY <1>3, <2>1
    <3> HIDE DEF g, l, hi, lo
    <3> QED BY <1>4, <2>2, <3>1
  <2>4. h1 = hs /\ h2 = hl
    <3> HIDE DEF g, l, hi, lo
    <3> QED BY <2>2
  <2>5. hs \in Nat /\ hl \in Nat /\ hs < hl
    <3>1. hs \in Nat /\ hl \in Nat
      <4> HIDE DEF p, hs, hl
      <4> QED BY <1>3
    <3>2. hs < hl
      <4> HIDE DEF g, l
      <4> QED BY <2>1, <2>2
    <3> QED BY <3>1, <3>2
  <2>6. u = 8 * hs /\ ~rest
    <3> HIDE DEF gap, u, hs, rest, p
    <3>1. u = 8 * hs
      BY <1>2, <1>3, <1>4, <2>3, TermIs DEF p
    <3> QED BY <1>5, <2>3, <3>1
  <2>7. total = hs * 8 + term * 8 /\ (dist > 3 /\ term % cut # 0) = FALSE
    <3>1. 3 - dist = 3
      BY <2>3
    <3>2. total = h1 * 8 + term * 2^3
      <4> DEFINE j == 3 - dist
      <4>1. total = h1 * 2^3 + term * 2^j
        BY <2>3
      <4>2. j = 3
        BY <3>1
      <4> HIDE DEF j, total, term, h1
      <4> QED BY <1>6, <4>1, <4>2
    <3>3. (dist > 3 /\ term % cut # 0) = FALSE
      BY <2>3
    <3> HIDE DEF total, h1, term, hs
    <3> QED BY <1>6, <2>4, <3>2, <3>3
  <2>8. term = IF same THEN hl ELSE -hl
    <3> HIDE DEF h2, hl
    <3> QED BY <2>4
  <2>9. CASE same
    <3>1. total = hs * 8 + hl * 8
      <4> HIDE DEF total, term, hs, hl
      <4> QED BY <2>7, <2>8, <2>9
    <3>2. sig = 8 * hl + 8 * hs
      <4> HIDE DEF sig, hs, hl, u
      <4> QED BY <1>4, <2>6, <2>9
    <3>3. total = sig /\ ~(total < 0)
      <4> HIDE DEF total, sig, hs, hl
      <4> QED BY <2>5, <3>1, <3>2
    <3>4. Sign(f, hi) = Sign(f, g) /\ UnitExp(f, hi) = UnitExp(f, g)
      <4> HIDE DEF hi, g
      <4> QED BY <2>1, <2>2, <2>9 DEF UnitExp
    <3>5. rest = FALSE
      BY <1>5, <2>6
    <3> HIDE DEF total, sig, rest, dist, cut, term, hi, g, s
    <3> QED BY <1>1, <2>7, <3>3, <3>4, <3>5, Zenon
  <2>10. CASE ~same
    <3>1. total = hs * 8 + (-hl) * 8
      <4> HIDE DEF total, term, hs, hl
      <4> QED BY <2>7, <2>8, <2>10
    <3>2. sig = 8 * hl - 8 * hs
      <4>1. sig = 8 * hl - 8 * hs - 0
        <5> HIDE DEF sig, hs, hl, u, rest
        <5> QED BY <1>4, <2>6, <2>10
      <4> HIDE DEF sig, hs, hl
      <4> QED BY <2>5, <4>1
    <3>3. total < 0 /\ -total = sig
      <4> HIDE DEF total, sig, hs, hl
      <4> QED BY <2>5, <3>1, <3>2
    <3>4. 1 - Sign(f, hi) = Sign(f, g) /\ UnitExp(f, hi) = UnitExp(f, g)
      <4>1. UnitExp(f, hi) = UnitExp(f, g)
        <5> HIDE DEF hi, g
        <5> QED BY <2>1, <2>2 DEF UnitExp
      <4>2. 1 - Sign(f, a) = Sign(f, b)
        BY <1>3, <2>10
      <4> HIDE DEF hi, g
      <4> QED BY <2>2, <4>1, <4>2
    <3>5. rest = FALSE
      BY <1>5, <2>6
    <3> HIDE DEF total, sig, rest, dist, cut, term, hi, g, s
    <3> QED BY <1>1, <2>7, <3>3, <3>4, <3>5, Zenon
  <2> QED BY <2>9, <2>10
<1>10. Goal
  BY <1>8, <1>9
<1> QED BY <1>10


(* The code's sum is that sum with what is left set in its last bit, and    *)
(* does not overflow.                                                       *)
LEMMA AlignedIs ==
  ASSUME NEW f \in {F32, F64}, NEW a \in Words(f.w), NEW b \in Words(f.w)
  PROVE  LET s == Aligned(f, a, b)
             g == Greater(f, a, b)
         IN  /\ s.re = ExpOf(f, g) /\ s.sign = Sign(f, g)
             /\ s.same = (Sign(f, a) = Sign(f, b))
             /\ s.sum = OrBit(SumSig(f, a, b), SumRest(f, a, b))
<1> DEFINE p == 2^f.m
           full == 2^f.w
           g == Greater(f, a, b)
           l == Lesser(f, a, b)
           hl == Hidden(f, g)
           hs == Hidden(f, l)
           gap == SumGap(f, a, b)
           rest == SumRest(f, a, b)
           u == SumTerm(f, a, b)
           same == Sign(f, a) = Sign(f, b)
           sig == SumSig(f, a, b)
           s == Aligned(f, a, b)
           ed == IF gap > f.w - 1 THEN f.w - 1 ELSE gap
           right == LsrF(f, hs * 8, ed)
           shifted == OrBit(right, hs * 8 # LslF(f, right, ed) \/ gap > f.w - 1)
<1>1. /\ s.re = ExpOf(f, g) /\ s.sign = Sign(f, g) /\ s.same = same
      /\ s.sum = IF same THEN Add(f.w, hl * 8, shifted) ELSE Sub(f.w, hl * 8, shifted)
  BY DEF Aligned, AlignShift
<1>2. /\ g \in Words(f.w) /\ l \in Words(f.w) /\ gap \in Nat
      /\ p \in Nat \ {0} /\ 32 * p =< full /\ full \in Nat
      /\ hs \in p..(2 * p - 1)
  <2>1. g \in Words(f.w) /\ l \in Words(f.w) /\ gap \in Nat
    BY SumOrder
  <2>2. p \in Nat \ {0} /\ 32 * p =< full /\ full \in Nat
    <3>1. p \in Nat \ {0} /\ 32 * p =< full /\ f.w \in Nat /\ f.w =< WideBits
      BY GuardedWord
    <3>2. full \in Nat
      <4> DEFINE w == f.w
      <4>1. w \in 0..WideBits
        BY <3>1
      <4> HIDE DEF w
      <4>2. 2^w \in Nat
        BY <4>1, WidePowers
      <4> QED BY <4>2 DEF w
    <3> QED BY <3>1, <3>2
  <2>3. hs \in p..(2 * p - 1)
    <3> HIDE DEF l
    <3> QED BY <2>1, FloatParts
  <2> QED BY <2>1, <2>2, <2>3
<1>3. shifted = OrBit(u, rest)
  <2>1. u = Term(f, hs, gap) /\ rest = TermRest(f, hs, gap)
    BY DEF SumTerm, SumRest
  <2>2. /\ ed = (IF gap > f.w - 1 THEN f.w - 1 ELSE gap)
        /\ right = LsrF(f, hs * 8, ed)
        /\ shifted = OrBit(right, hs * 8 # LslF(f, right, ed) \/ gap > f.w - 1)
    OBVIOUS
  <2> HIDE DEF u, rest, hs, gap, ed, right, shifted
  <2> QED BY <1>2, <2>1, <2>2, TermShifted
<1>4. /\ rest \in BOOLEAN /\ sig \in Nat /\ sig < 32 * p /\ u \in Nat /\ hl \in p..(2 * p - 1) /\ u =< 8 * hl
      /\ u < 16 * p
  BY SumSigIs
<1>5. sig = IF same THEN 8 * hl + u ELSE 8 * hl - u - (IF rest THEN 1 ELSE 0)
  BY DEF SumSig
<1> DEFINE k == IF rest /\ u % 2 = 0 THEN u + 1 ELSE u
           j == IF rest /\ sig % 2 = 0 THEN sig + 1 ELSE sig
<1>6. OrBit(u, rest) = k /\ OrBit(sig, rest) = j
  BY DEF OrBit
<1> HIDE DEF p, full, g, l, hl, hs, gap, rest, u, same, sig, s, ed, right, shifted
<1>7. hl \in Nat
  BY <1>2, <1>4
<1>8. IF same THEN hl * 8 + k = j ELSE hl * 8 - k = j
  <2>1. CASE rest
    <3>1. CASE same
      <4>1. sig = 8 * hl + u
        BY <1>5, <3>1
      <4>2. sig % 2 = u % 2
        BY <1>4, <1>7, <4>1
      <4> QED BY <1>4, <1>7, <2>1, <3>1, <4>1, <4>2
    <3>2. CASE ~same
      <4>1. sig = 8 * hl - u - 1
        BY <1>5, <2>1, <3>2
      <4>2. sig % 2 = 0 <=> u % 2 # 0
        BY <1>4, <1>7, <4>1
      <4>3. CASE u % 2 = 0
        <5>1. k = u + 1 /\ j = sig
          BY <2>1, <4>2, <4>3
        <5> QED BY <1>4, <1>7, <3>2, <4>1, <5>1
      <4>4. CASE u % 2 # 0
        <5>1. k = u /\ j = sig + 1
          BY <2>1, <4>2, <4>4
        <5> QED BY <1>4, <1>7, <3>2, <4>1, <5>1
      <4> QED BY <4>3, <4>4
    <3> QED BY <3>1, <3>2
  <2>2. CASE ~rest
    <3>1. k = u /\ j = sig
      BY <2>2
    <3>2. CASE same
      BY <1>4, <1>5, <1>7, <3>1, <3>2
    <3>3. CASE ~same
      <4>1. sig = 8 * hl - u - 0
        BY <1>5, <2>2, <3>3
      <4> QED BY <1>4, <1>7, <3>1, <3>3, <4>1
    <3> QED BY <3>2, <3>3
  <2> QED BY <1>4, <2>1, <2>2
<1>9. j \in Nat /\ j < full
  <2>1. j = sig \/ (j = sig + 1 /\ sig % 2 = 0)
    OBVIOUS
  <2>2. j \in Nat /\ j =< sig + 1 /\ (j = sig + 1 => sig % 2 = 0)
    BY <1>4, <2>1
  <2> HIDE DEF j
  <2>3. j # full
    <3> SUFFICES ASSUME j = full PROVE FALSE
      OBVIOUS
    <3>1. j = 32 * p /\ sig = 32 * p - 1
      BY <1>2, <1>4, <2>2
    <3>2. sig % 2 = 1
      BY <1>2, <1>4, <3>1
    <3> QED BY <1>2, <1>4, <2>2, <3>1, <3>2
  <2> QED BY <1>2, <1>4, <2>2, <2>3
<1>10. s.sum = j
  <2>1. j % full = j
    <3> HIDE DEF j
    <3> QED BY <1>2, <1>9, ModSmall
  <2> HIDE DEF j, k
  <2>2. s.sum = (IF same THEN (hl * 8 + k) % full ELSE (hl * 8 - k) % full)
    <3>1. Add(f.w, hl * 8, shifted) = (hl * 8 + k) % full /\ Sub(f.w, hl * 8, shifted) = (hl * 8 - k) % full
      BY <1>3, <1>6 DEF Add, Sub, full
    <3> QED BY <1>1, <3>1
  <2> QED BY <1>8, <2>1, <2>2
<1> HIDE DEF j, k
<1> QED BY <1>1, <1>6, <1>10 DEF g, s, same, sig, rest


LEMMA LeastOfThree ==
  ASSUME NEW a \in Int, NEW b \in Int, NEW c \in Int
  PROVE  LET k == Least({a, b, c}) IN k \in {a, b, c} /\ k =< a /\ k =< b /\ k =< c
<1>1. \E l \in {a, b, c} : \A y2 \in {a, b, c} : l =< y2
  <2>1. CASE a =< b /\ a =< c
    BY <2>1
  <2>2. CASE b =< a /\ b =< c
    BY <2>2
  <2>3. CASE c =< a /\ c =< b
    BY <2>3
  <2> QED BY <2>1, <2>2, <2>3
<1>2. Least({a, b, c}) \in {a, b, c} /\ \A l \in {a, b, c} : Least({a, b, c}) =< l
  BY <1>1 DEF Least
<1> QED BY <1>2

(* The leading bit of a word of a format.                                   *)
LEMMA FormatLeading ==
  ASSUME NEW f \in {F32, F64}, NEW v \in Words(f.w) \ {0}
  PROVE  LET k == f.w - 1 - CtlzF(f, v)
         IN  k \in 0..(f.w - 1) /\ 2^k =< v /\ v < 2 * 2^k
<1>1. F32.w = IntBits /\ F64.w = 2 * IntBits /\ IntBits \in Nat /\ IntBits >= 5
  BY FormatParts, IntPowers
<1>2. CASE f = F64
  <2>1. v \in Words(2 * IntBits) \ {0} /\ f.w = 2 * IntBits /\ CtlzF(f, v) = CtlzPair(v)
    BY <1>1, <1>2 DEF CtlzF
  <2> QED BY <2>1, LeadingPair
<1>3. CASE f = F32
  <2>1. f # F64 /\ f.w = IntBits /\ IntBits \in 1..(2 * IntBits)
    <3>1. F32.w # F64.w
      BY <1>1
    <3> QED BY <1>1, <1>3, <3>1
  <2> DEFINE z == Ctlz(IntBits, v)
             k == IntBits - 1 - z
  <2>2. z \in 0..(IntBits - 1) /\ 2^(IntBits - 1 - z) =< v /\ v < 2^(IntBits - z)
    BY <2>1, LeadingOne
  <2>3. CtlzF(f, v) = z
    BY <2>1 DEF CtlzF
  <2>4. k \in 0..(IntBits - 1) /\ k \in 0..(WideBits - 1) /\ IntBits - z = k + 1
    <3>1. WideBits = 2 * IntBits + 2
      BY DEF WideBits
    <3> HIDE DEF z
    <3> QED BY <1>1, <2>2, <3>1
  <2>5. 2^(k + 1) = 2 * 2^k
    <3> HIDE DEF k
    <3> QED BY <2>4, WidePowers DEF PowersDouble
  <2>6. v < 2 * 2^k /\ 2^k =< v
    <3>1. 2^(IntBits - z) = 2^(k + 1)
      BY <2>4
    <3> QED BY <2>2, <2>5, <3>1
  <2> QED BY <2>1, <2>3, <2>4, <2>6
<1> QED BY <1>2, <1>3

(* One less than a normal exponent is what the code says it is.             *)
LEMMA BelowExponent ==
  ASSUME NEW f \in {F32, F64}, NEW E \in 1..MaxExp(f)
  PROVE  Sub(IntBits, E, 1) = E - 1
<1> DEFINE full == 2^IntBits
           k == f.e
<1>1. k \in 0..IntBits /\ IntBits \in 0..WideBits
  <2>1. /\ IntBits \in Nat /\ IntBits >= 5 /\ WideBits = 2 * IntBits + 2
    BY IntPowers DEF WideBits
  <2>2. F64.e = Exp64 /\ F64.m = 2 * IntBits - 1 - Exp64 /\ F32.e \in 2..(IntBits - 5) /\ F64.e \in 2..(2 * IntBits - 5)
    BY FormatParts
  <2>3. F64.m > IntBits
    BY FormatsFit
  <2> QED BY <2>1, <2>2, <2>3
<1>2. 2^k =< full /\ full \in Nat
  BY <1>1, PowerSplit, IntPowers
<1>3. MaxExp(f) = 2^k - 1 /\ 2^k \in Nat
  <2>1. 2^k \in Nat
    BY FormatOf
  <2> QED BY <2>1 DEF MaxExp
<1> HIDE DEF full, k
<1>4. E - 1 \in Nat /\ E - 1 < full
  BY <1>2, <1>3
<1>5. (E - 1) % full = E - 1
  BY <1>2, <1>4, ModSmall
<1> QED BY <1>5 DEF Sub, full

(* A sum with dp places below its mantissa, rounded by the reference.        *)
(* A sum with dp places below its mantissa, of which c makes one of its     *)
(* last place and h half a one; the guard and the sticky bit of such a sum; *)
(* and the reference's rounding of it, which is the code's.                 *)
SumPlaces(f, E, dp, c, h, k, sig, t) ==
  /\ E \in Int /\ dp \in 1..4 /\ c = 2^dp /\ h = 2^(dp - 1) /\ k = f.m + dp
  /\ sig \in Nat /\ t \in BOOLEAN /\ 2^k =< sig /\ sig < 2 * 2^k

SumGuard(sig, t, c, h, guard, sticky) ==
  /\ guard \in {0, 1} /\ sticky \in BOOLEAN
  /\ guard = 1 <=> sig % c >= h
  /\ guard = 1 => (sticky <=> sig % c > h \/ t)

SumReference(f, s, E, sig, t) == Nearest(f, s, E - Bias(f) - f.m - 3, sig, t)

SumIsRounded(f, s, E, dp, rnd, ref) ==
  /\ rnd.bump \in {0, 1}
  /\ ref.tiny <=> E + dp - 3 + rnd.bump < 1
  /\ ref.word = Fitted(f, s, E + dp - 3 + rnd.bump, rnd.man)

LEMMA SumHalfway ==
  ASSUME NEW f \in {F32, F64}, NEW s, NEW E, NEW dp, NEW c, NEW h, NEW k, NEW sig, NEW t,
         SumPlaces(f, E, dp, c, h, k, sig, t),
         NEW guard, NEW sticky, SumGuard(sig, t, c, h, guard, sticky)
  PROVE  SumIsRounded(f, s, E, dp, RoundNearest(f, sig \div c, guard, sticky),
                      SumReference(f, s, E, sig, t))
<1>0. /\ E \in Int /\ dp \in 1..4 /\ c = 2^dp /\ h = 2^(dp - 1) /\ k = f.m + dp
      /\ sig \in Nat /\ t \in BOOLEAN /\ 2^k =< sig /\ sig < 2 * 2^k
      /\ guard \in {0, 1} /\ sticky \in BOOLEAN
      /\ guard = 1 <=> sig % c >= h
      /\ guard = 1 => (sticky <=> sig % c > h \/ t)
  BY DEF SumPlaces, SumGuard
<1> DEFINE kept == sig \div c
           rnd == RoundNearest(f, kept, guard, sticky)
           ref == SumReference(f, s, E, sig, t)
<1> DEFINE e == E - Bias(f) - f.m - 3
<1>1. f.m \in Nat /\ Bias(f) \in Nat /\ f.m + 4 =< WideBits /\ WideBits \in Nat
  <2>1. f.m \in Nat /\ Bias(f) \in Nat /\ f.m =< 2 * IntBits - 5 /\ IntBits \in Nat
    BY MantissaUnits
  <2> QED BY <2>1 DEF WideBits
<1>2. e \in Int /\ k \in (f.m + 1)..WideBits /\ k - f.m = dp /\ k - f.m - 1 = dp - 1
  <2> DEFINE m == f.m
             bias == Bias(f)
  <2> HIDE DEF m, bias
  <2>1. m \in Nat /\ bias \in Nat /\ m + 4 =< WideBits /\ WideBits \in Nat /\ k = m + dp
    BY <1>0, <1>1 DEF m, bias
  <2>2. E - bias - m - 3 \in Int /\ k \in (m + 1)..WideBits /\ k - m = dp /\ k - m - 1 = dp - 1
    BY <1>0, <2>1
  <2> QED BY <2>2 DEF m, bias
<1>3. Halfway(f, sig, t, k, guard, sticky)
  <2>1. 2^(k - f.m) = c /\ 2^(k - f.m - 1) = h
    BY <1>0, <1>2
  <2> QED BY <1>0, <1>2, <2>1 DEF Halfway
<1>4. rnd = RoundNearest(f, sig \div 2^(k - f.m), guard, sticky)
  BY <1>0, <1>2
<1> HIDE DEF e, rnd, ref, kept
<1>5. /\ rnd.bump \in {0, 1}
      /\ Nearest(f, s, e, sig, t).tiny <=> (e + k + Bias(f) + rnd.bump < 1)
      /\ Nearest(f, s, e, sig, t).word = Fitted(f, s, e + k + Bias(f) + rnd.bump, rnd.man)
  <2> DEFINE j == k
  <2>1. /\ Halfway(f, sig, t, j, guard, sticky)
        /\ rnd = RoundNearest(f, sig \div 2^(j - f.m), guard, sticky) /\ e \in Int
    BY <1>2, <1>3, <1>4
  <2>0. sig \in Nat /\ t \in BOOLEAN /\ guard \in {0, 1} /\ sticky \in BOOLEAN /\ 2^j =< sig /\ sig < 2 * 2^j
        /\ j \in (f.m + 1)..WideBits
    BY <1>0, <1>2
  <2> HIDE DEF j
  <2>2. /\ rnd.bump \in {0, 1}
        /\ Nearest(f, s, e, sig, t).tiny <=> (e + j + Bias(f) + rnd.bump < 1)
        /\ Nearest(f, s, e, sig, t).word = Fitted(f, s, e + j + Bias(f) + rnd.bump, rnd.man)
    BY <2>0, <2>1, NearestRounds
  <2> QED BY <2>2 DEF j
<1>6. ref = Nearest(f, s, e, sig, t)
  BY DEF e, ref, SumReference
<1>7. e + k + Bias(f) + rnd.bump = E + dp - 3 + rnd.bump
  <2> DEFINE m == f.m
             bias == Bias(f)
             up == rnd.bump
  <2> HIDE DEF m, bias, up
  <2>1. m \in Nat /\ bias \in Nat /\ k = m + dp /\ e = E - bias - m - 3 /\ up \in {0, 1}
    BY <1>0, <1>1, <1>5 DEF m, bias, up, e
  <2>2. e + k + bias + up = E + dp - 3 + up
    BY <1>0, <2>1
  <2> QED BY <2>2 DEF bias, up
<1>8. SumIsRounded(f, s, E, dp, rnd, ref)
  BY <1>5, <1>6, <1>7 DEF SumIsRounded
<1> QED BY <1>8 DEF rnd, ref, kept


(* A sum of normal numbers that is not zero, as SumSigIs has it.            *)
SumInUnits(f, E, sig, t) ==
  /\ E \in 1..MaxExp(f) /\ sig \in Nat \ {0} /\ t \in BOOLEAN
  /\ sig < 32 * 2^f.m
  /\ t => sig >= 4 * 2^f.m
  /\ sig < 4 * 2^f.m => sig % 4 = 0
  /\ E = 1 => sig % 8 = 0

LEMMA SumLeading ==
  ASSUME NEW f \in {F32, F64}, NEW E, NEW sig, NEW t, SumInUnits(f, E, sig, t),
         NEW v, v = OrBit(sig, t), NEW k, k = f.w - 1 - CtlzF(f, v)
  PROVE  /\ v \in Words(f.w) \ {0} /\ v \in Nat /\ v < 2 * 2^k
         /\ k \in 0..(f.m + 4) /\ 2^k =< sig /\ sig < 2 * 2^k
         /\ k =< f.m + 1 => ~t /\ sig % 4 = 0
<1> DEFINE p == 2^f.m
           m == f.m
           full == 2^f.w
<1>1. /\ m \in Nat /\ m + 5 =< f.w /\ f.w \in Nat /\ f.w =< WideBits /\ WideBits \in Nat /\ p \in Nat \ {0}
      /\ \A j \in 0..(WideBits - 1) : 2^(j + 1) = 2 * 2^j
      /\ \A j \in 0..WideBits : 2^j \in Nat \ {0}
      /\ 2^(m + 1) = 2 * p /\ 2^(m + 2) = 4 * p
      /\ 2^(m + 5) = 32 * p /\ 32 * p =< full
  BY GuardedWord
<1>2. /\ sig \in Nat /\ sig # 0 /\ t \in BOOLEAN /\ sig < 32 * p
      /\ t => sig >= 4 * p
      /\ sig < 4 * p => sig % 4 = 0
  BY DEF SumInUnits
<1>3. v \in Nat /\ v \div 2 = sig \div 2 /\ v = IF t /\ sig % 2 = 0 THEN sig + 1 ELSE sig
  BY <1>2, OrBitIs
<1>4. v # 0 /\ v < 32 * p
  <2> HIDE DEF p
  <2> QED BY <1>1, <1>2, <1>3
<1>5. full \in Nat
  <2> DEFINE w == f.w
  <2>1. w \in 0..WideBits
    BY <1>1
  <2> HIDE DEF w
  <2>2. 2^w \in Nat
    BY <1>1, <2>1
  <2> QED BY <2>2 DEF w
<1>6. v \in Words(f.w) \ {0}
  <2>1. v \in 0..(full - 1)
    <3> HIDE DEF p, full
    <3> QED BY <1>1, <1>3, <1>4, <1>5
  <2> QED BY <1>4, <2>1 DEF Words
<1>7. k \in 0..(f.w - 1) /\ 2^k =< v /\ v < 2 * 2^k
  BY <1>6, FormatLeading
<1>8. k \in Nat /\ k \in 0..WideBits /\ k + 1 \in 0..WideBits
  <2> DEFINE w == f.w
  <2>1. k \in 0..(w - 1) /\ w \in Nat /\ w =< WideBits /\ WideBits \in Nat
    BY <1>1, <1>7
  <2> HIDE DEF w
  <2> QED BY <2>1
<1>9. 2^k \in Nat \ {0}
  <2> HIDE DEF p, full
  <2> QED BY <1>1, <1>8
<1>10. k = 0 \/ \E h \in Nat \ {0} : 2^k = 2 * h
  <2> SUFFICES ASSUME k # 0 PROVE \E h \in Nat \ {0} : 2^k = 2 * h
    OBVIOUS
  <2> DEFINE j == k - 1
  <2>1. j \in 0..(WideBits - 1) /\ j + 1 = k /\ j \in 0..WideBits
    BY <1>1, <1>8
  <2> HIDE DEF j
  <2>2. 2^(j + 1) = 2 * 2^j /\ 2^j \in Nat \ {0}
    BY <1>1, <2>1
  <2> QED BY <2>1, <2>2
<1>11. 2^k =< sig /\ sig < 2 * 2^k
  <2> DEFINE q2 == 2^k
  <2>1. CASE k = 0
    <3>1. q2 = 1
      BY <2>1, WidePowers DEF PowersDouble
    <3>2. v = 1
      <4> HIDE DEF q2
      <4> QED BY <1>3, <1>4, <1>7, <3>1 DEF q2
    <3>3. sig = 1
      <4> HIDE DEF p, q2
      <4> QED BY <1>1, <1>2, <1>3, <3>2
    <3> QED BY <3>1, <3>3
  <2>2. CASE k # 0
    <3>1. PICK h \in Nat \ {0} : q2 = 2 * h
      BY <1>10, <2>2
    <3>2. q2 =< v /\ v < 2 * q2
      BY <1>7
    <3> HIDE DEF q2, p
    <3>3. q2 =< sig /\ sig < 2 * q2
      BY <1>2, <1>3, <3>1, <3>2
    <3> QED BY <3>3 DEF q2
  <2> QED BY <2>1, <2>2
<1>12. k =< m + 4
  <2> SUFFICES ASSUME k > m + 4 PROVE FALSE
    BY <1>1, <1>8
  <2> DEFINE j == m + 5
  <2>1. j \in 0..k
    <3> HIDE DEF m
    <3> QED BY <1>1, <1>8
  <2>2. 2^j = 32 * p
    BY <1>1
  <2> HIDE DEF j
  <2>3. 2^j =< 2^k
    BY <1>8, <2>1, PowerSplit
  <2> DEFINE q2 == 2^k
  <2>4. 32 * p =< q2 /\ q2 =< sig
    BY <1>11, <2>2, <2>3
  <2> HIDE DEF q2, p
  <2> QED BY <1>1, <1>2, <1>9, <2>4 DEF q2
<1>13. k =< m + 1 => ~t /\ sig % 4 = 0
  <2> SUFFICES ASSUME k =< m + 1 PROVE sig < 4 * p
    <3> HIDE DEF p
    <3> QED BY <1>1, <1>2
  <2> DEFINE j == m + 1
             q2 == 2^k
  <2>1. j \in 0..WideBits /\ k \in 0..j /\ 2^j = 2 * p
    <3>1. j \in 0..WideBits /\ k \in 0..j
      <4> HIDE DEF m
      <4> QED BY <1>1, <1>8
    <3> QED BY <1>1, <3>1
  <2> HIDE DEF j
  <2>2. 2^k =< 2^j
    BY <2>1, PowerSplit
  <2>3. q2 =< 2 * p /\ sig < 2 * q2
    BY <1>11, <2>1, <2>2
  <2>4. q2 \in Nat
    BY <1>9
  <2> HIDE DEF p, q2
  <2> QED BY <1>1, <1>2, <2>3, <2>4
<1>14. k \in 0..(f.m + 4)
  BY <1>1, <1>8, <1>12
<1> QED BY <1>3, <1>6, <1>7, <1>11, <1>13, <1>14


(* How many zeros lead it is a number.                                      *)
LEMMA FormatZeros ==
  ASSUME NEW f \in {F32, F64}, NEW v \in Words(f.w) \ {0}
  PROVE  CtlzF(f, v) \in Int
<1>1. IntBits \in Nat /\ IntBits >= 5 /\ F32.w = IntBits /\ F64.w = 2 * IntBits
  BY IntPowers, FormatParts
<1>2. CASE f = F64
  <2>1. v \in Words(2 * IntBits) \ {0} /\ CtlzF(f, v) = CtlzPair(v)
    BY <1>1, <1>2 DEF CtlzF
  <2>2. HiHalf(v) \in Words(IntBits) /\ LoHalf(v) \in Words(IntBits) /\ (HiHalf(v) = 0 => LoHalf(v) # 0)
    <3>1. /\ HiHalf(v) \in 0..(2 * 2^(IntBits - 1) - 1) /\ LoHalf(v) \in 0..(2^IntBits - 1)
          /\ v = HiHalf(v) * 2^IntBits + LoHalf(v)
      BY <2>1, DoubleHalves
    <3>2. 2^IntBits = 2 * 2^(IntBits - 1) /\ 2^IntBits \in Nat
      BY <1>1, IntPowers
    <3>3. HiHalf(v) = 0 => LoHalf(v) # 0
      <4> DEFINE full == 2^IntBits
      <4> HIDE DEF full
      <4>1. v = HiHalf(v) * full + LoHalf(v) /\ full \in Nat
        BY <3>1, <3>2 DEF full
      <4>2. LoHalf(v) \in Nat
        BY <3>1, <3>2
      <4> QED BY <2>1, <4>1, <4>2
    <3> QED BY <3>1, <3>2, <3>3 DEF Words
  <2>3. IntBits \in 1..(2 * IntBits)
    BY <1>1
  <2>4. CASE HiHalf(v) # 0
    <3>1. Ctlz(IntBits, HiHalf(v)) \in 0..(IntBits - 1)
      BY <2>2, <2>3, <2>4, LeadingOne
    <3> QED BY <2>1, <2>4, <3>1 DEF CtlzPair
  <2>5. CASE HiHalf(v) = 0
    <3>1. Ctlz(IntBits, LoHalf(v)) \in 0..(IntBits - 1)
      BY <2>2, <2>3, <2>5, LeadingOne
    <3>2. CtlzF(f, v) = IntBits + Ctlz(IntBits, LoHalf(v))
      BY <2>1, <2>5 DEF CtlzPair
    <3> QED BY <1>1, <3>1, <3>2
  <2> QED BY <2>4, <2>5
<1>3. CASE f = F32
  <2>1. F32 # F64
    <3>1. F32.w # F64.w
      BY <1>1
    <3> QED BY <3>1
  <2>2. CtlzF(f, v) = Ctlz(IntBits, v) /\ v \in Words(IntBits) \ {0} /\ IntBits \in 1..(2 * IntBits)
    BY <1>1, <1>3, <2>1 DEF CtlzF
  <2>3. CtlzF(f, v) \in 0..(IntBits - 1)
    BY <2>2, LeadingOne
  <2> QED BY <2>3
<1> QED BY <1>2, <1>3

(* The sum brought to bit m + 3, by the place k its leading bit is in.      *)
LEMMA NormalisedIs ==
  ASSUME NEW f \in {F32, F64}, NEW E \in 1..MaxExp(f), NEW v \in Words(f.w) \ {0},
         NEW k \in 0..(f.m + 4), k = f.w - 1 - CtlzF(f, v), v < 2 * 2^k,
         NEW x2, x2 = Normalised(f, E, v)
  PROVE  /\ k = f.m + 4 => x2.re = E + 1 /\ x2.man = OrBit(v \div 2, v % 2 = 1)
         /\ k = f.m + 3 => x2.re = E /\ x2.man = v
         /\ k < f.m + 3 /\ f.m + 3 - k =< E - 1 =>
              x2.re = E - (f.m + 3 - k) /\ x2.man = v * 2^(f.m + 3 - k)
         /\ k < f.m + 3 /\ ~(f.m + 3 - k =< E - 1) => x2.re = 1
<1> DEFINE m == f.m
           w == f.w
           normal == w - m - 4
           lz == CtlzF(f, v)
           up == m + 3 - k
           most == E - 1
           three == m + 3
           shift == NormaliseShift(f, E, v)
<1>1. m \in Nat /\ m + 5 =< w /\ w \in Nat /\ w =< WideBits /\ WideBits \in Nat /\ E \in Nat /\ E >= 1
  <2>1. m \in Nat /\ m + 5 =< w /\ w \in Nat /\ w =< WideBits /\ WideBits \in Nat
    BY GuardedWord
  <2>2. E \in Nat /\ E >= 1
    <3>1. MaxExp(f) \in Nat
      <4>1. MaxExp(f) = 2 * Bias(f) + 1 /\ Bias(f) \in Nat
        BY MantissaUnits
      <4> QED BY <4>1
    <3> QED BY <3>1
  <2> QED BY <2>1, <2>2
<1>2. x2 = CASE lz = normal - 1 -> [re |-> E + 1, man |-> OrBit(LShr(v, 1), v % 2 = 1)]
             [] lz > normal     -> [re |-> E - shift, man |-> LslF(f, v, shift)]
             [] OTHER           -> [re |-> E, man |-> v]
  BY Zenon DEF Normalised
<1>3. lz = w - 1 - k
  <2>1. lz \in Int
    BY FormatZeros
  <2>2. k = w - 1 - lz /\ k \in 0..(m + 4)
    OBVIOUS
  <2> HIDE DEF w, m, lz
  <2> QED BY <1>1, <2>1, <2>2
<1>4. k \in Nat
  <2> HIDE DEF m
  <2>1. k \in 0..(m + 4)
    BY DEF m
  <2> QED BY <1>1, <2>1
<1>5. CASE k = m + 4
  <2>1. lz = normal - 1
    <3> HIDE DEF m, w, lz
    <3> QED BY <1>1, <1>3, <1>5
  <2>2. ~(lz > normal) /\ k # m + 3 /\ ~(k < m + 3)
    <3> HIDE DEF m, w, lz
    <3> QED BY <1>1, <1>3, <1>5
  <2> DEFINE one == [re |-> E + 1, man |-> OrBit(LShr(v, 1), v % 2 = 1)]
             two == [re |-> E - shift, man |-> LslF(f, v, shift)]
  <2>3. x2 = one
    <3> DEFINE c1 == lz = normal - 1
               c2 == lz > normal
               other == [re |-> E, man |-> v]
    <3>1. x2 = CASE c1 -> one [] c2 -> two [] OTHER -> other
      BY <1>2
    <3>2. c1 /\ ~c2
      BY <2>1, <2>2
    <3> HIDE DEF one, two, other, c1, c2
    <3> QED BY <3>1, <3>2
  <2>4. 2^1 = 2
    BY WidePowers DEF PowersDouble
  <2>5. x2.re = E + 1 /\ x2.man = OrBit(v \div 2, v % 2 = 1)
    BY <2>3, <2>4 DEF LShr
  <2> QED BY <2>2, <2>5
<1>6. CASE k = m + 3
  <2>1. ~(lz = normal - 1) /\ ~(lz > normal) /\ k # m + 4 /\ ~(k < m + 3)
    <3> HIDE DEF m, w, lz
    <3> QED BY <1>1, <1>3, <1>6
  <2>2. x2 = [re |-> E, man |-> v]
    <3> DEFINE c1 == lz = normal - 1
               c2 == lz > normal
               one == [re |-> E + 1, man |-> OrBit(LShr(v, 1), v % 2 = 1)]
               two == [re |-> E - shift, man |-> LslF(f, v, shift)]
               other == [re |-> E, man |-> v]
    <3>1. x2 = CASE c1 -> one [] c2 -> two [] OTHER -> other
      BY <1>2
    <3>2. ~c1 /\ ~c2
      BY <2>1
    <3> HIDE DEF one, two, other, c1, c2
    <3>3. x2 = other
      BY <3>1, <3>2
    <3> QED BY <3>3 DEF other
  <2> QED BY <2>1, <2>2
<1>7. CASE k < m + 3
  <2>1. ~(lz = normal - 1) /\ lz > normal /\ k # m + 4 /\ k # m + 3 /\ lz - normal = up
    <3> HIDE DEF m, w, lz
    <3> QED BY <1>1, <1>3, <1>4, <1>7
  <2>2. x2 = [re |-> E - shift, man |-> LslF(f, v, shift)]
    <3> DEFINE c1 == lz = normal - 1
               c2 == lz > normal
               one == [re |-> E + 1, man |-> OrBit(LShr(v, 1), v % 2 = 1)]
               two == [re |-> E - shift, man |-> LslF(f, v, shift)]
               other == [re |-> E, man |-> v]
    <3>1. x2 = CASE c1 -> one [] c2 -> two [] OTHER -> other
      BY <1>2
    <3>2. ~c1 /\ c2
      BY <2>1
    <3> HIDE DEF one, two, other, c1, c2
    <3>3. x2 = two
      BY <3>1, <3>2
    <3> QED BY <3>3 DEF two
  <2>3. shift = Least({up, most, three})
    BY <2>1, BelowExponent DEF NormaliseShift
  <2>4. up \in Int /\ most \in Int /\ three \in Int /\ up =< three /\ up >= 1
    <3> HIDE DEF m
    <3> QED BY <1>1, <1>4, <1>7
  <2>5. shift \in {up, most, three} /\ shift =< up /\ shift =< most /\ shift =< three
    <3> HIDE DEF up, most, three, shift
    <3> QED BY <2>3, <2>4, LeastOfThree
  <2>6. IF up =< most THEN shift = up ELSE shift = most
    <3> HIDE DEF up, most, three, shift
    <3> QED BY <2>4, <2>5
  <2>7. CASE up =< most
    <3>1. shift = up
      BY <2>6, <2>7
    <3>2. up \in 0..(f.w - 1) /\ v < 2^(f.w - up)
      <4>1. up \in 0..(w - 1) /\ w - up \in 0..WideBits /\ k + 1 \in 0..(w - up) /\ k \in 0..(WideBits - 1)
        <5> HIDE DEF m, w
        <5> QED BY <1>1, <1>4, <1>7
      <4> DEFINE i2 == w - up
                 j == k + 1
      <4>2. 2^j = 2 * 2^k
        BY <4>1, WidePowers DEF PowersDouble
      <4>3. i2 \in 0..WideBits /\ j \in 0..i2
        BY <4>1
      <4> HIDE DEF i2, j, up
      <4>4. 2^j =< 2^i2
        BY <4>3, PowerSplit
      <4>5. 2^i2 \in Nat /\ 2^j \in Nat
        <5>1. j \in 0..WideBits
          BY <1>1, <4>3
        <5> QED BY <4>3, <5>1, WidePowers
      <4>6. v \in Nat
        BY FloatParts
      <4> DEFINE aa == 2^i2
                 bb == 2^j
      <4>7. v < bb /\ bb =< aa /\ aa \in Nat /\ bb \in Nat
        BY <4>2, <4>4, <4>5
      <4> HIDE DEF aa, bb
      <4>8. v < aa
        BY <4>6, <4>7
      <4> QED BY <4>1, <4>8 DEF aa, i2
    <3>3. LslF(f, v, up) = v * 2^up
      <4> HIDE DEF up
      <4> QED BY <3>2, FormatShifts
    <3>4. x2.re = E - up /\ x2.man = v * 2^up
      <4>1. x2.re = E - shift /\ x2.man = LslF(f, v, shift)
        BY <2>2
      <4> HIDE DEF up, shift
      <4> QED BY <3>1, <3>3, <4>1
    <3> QED BY <2>1, <2>7, <3>4
  <2>8. CASE ~(up =< most)
    <3>1. x2.re = 1
      <4>1. x2.re = E - shift
        BY <2>2
      <4>2. shift = most
        BY <2>6, <2>8
      <4> HIDE DEF shift
      <4> QED BY <1>1, <4>1, <4>2
    <3> QED BY <2>1, <2>8, <3>1
  <2> QED BY <2>7, <2>8
<1>8. k = m + 4 \/ k = m + 3 \/ k < m + 3
  <2>1. k \in 0..(m + 4)
    BY DEF m
  <2> HIDE DEF m
  <2> QED BY <1>1, <2>1
<1> QED BY <1>5, <1>6, <1>7, <1>8


LEMMA RoundExact ==
  ASSUME NEW f \in {F32, F64}, NEW kept \in 2^f.m..(2 * 2^f.m - 1), NEW sticky
  PROVE  RoundNearest(f, kept, 0, sticky).man = kept /\ RoundNearest(f, kept, 0, sticky).bump = 0
<1>1. kept # 2^(f.m + 1)
  <2> DEFINE p == 2^f.m
  <2>1. p \in Nat \ {0} /\ 2^(f.m + 1) = 2 * p /\ kept \in p..(2 * p - 1)
    BY FormatOf
  <2> HIDE DEF p
  <2> QED BY <2>1
<1>2. RoundNearest(f, kept, 0, sticky) = [man |-> kept, bump |-> 0]
  BY <1>1 DEF RoundNearest
<1> QED BY <1>2

(* The code's guard and sticky bits, below a mantissa with c/2 of its last  *)
(* place in sig, of which y2 is the normalised form.                        *)
SumBits(sig, t, y2, c, h) ==
  /\ y2 \in Nat
  /\ y2 \div 8 = sig \div c
  /\ (y2 \div 4) % 2 \in {0, 1}
  /\ (y2 \div 4) % 2 = 1 <=> sig % c >= h
  /\ (y2 \div 4) % 2 = 1 => (y2 % 4 # 0 <=> sig % c > h \/ t)

LEMMA SumBitsOf ==
  ASSUME NEW sig \in Nat, NEW t \in BOOLEAN, NEW v, v = OrBit(sig, t)
  PROVE  /\ SumBits(sig, t, OrBit(v \div 2, v % 2 = 1), 16, 8)
         /\ SumBits(sig, t, v, 8, 4)
         /\ SumBits(sig, t, v * 2, 4, 2)
         /\ ~t /\ sig % 4 = 0 => SumBits(sig, t, v * 4, 2, 1)
<1>1. v \in Nat /\ v \div 2 = sig \div 2 /\ (v % 2 # 0 <=> sig % 2 # 0 \/ t) /\ (~t => v = sig)
  BY OrBitIs
<1> DEFINE y2 == OrBit(v \div 2, v % 2 = 1)
           half == v \div 2
<1>2. half \in Nat /\ (v % 2 = 1) \in BOOLEAN
  BY <1>1
<1>3. y2 \in Nat /\ y2 \div 2 = half \div 2 /\ (y2 % 2 # 0 <=> half % 2 # 0 \/ v % 2 = 1)
  <2> HIDE DEF half
  <2> DEFINE b == v % 2 = 1
  <2>1. b \in BOOLEAN /\ y2 = OrBit(half, b)
    BY DEF half
  <2> HIDE DEF b, y2
  <2>2. y2 \in Nat /\ y2 \div 2 = half \div 2 /\ (y2 % 2 # 0 <=> half % 2 # 0 \/ b)
    BY <1>2, <2>1, OrBitIs
  <2> QED BY <2>2 DEF b
<1> HIDE DEF y2
<1>4. SumBits(sig, t, y2, 16, 8)
  <2>1. y2 \div 8 = sig \div 16
    BY <1>1, <1>2, <1>3
  <2>2. (y2 \div 4) % 2 \in {0, 1} /\ ((y2 \div 4) % 2 = 1 <=> sig % 16 >= 8)
    <3>1. y2 \div 4 = sig \div 8
      BY <1>1, <1>2, <1>3
    <3>2. (sig \div 8) % 2 \in {0, 1} /\ ((sig \div 8) % 2 = 1 <=> sig % 16 >= 8)
      OBVIOUS
    <3> QED BY <3>1, <3>2
  <2>3. y2 % 4 # 0 <=> sig % 8 # 0 \/ t
    <3>1. y2 % 4 # 0 <=> v % 8 # 0
      BY <1>1, <1>3
    <3>2. v % 8 # 0 <=> sig % 8 # 0 \/ t
      BY <1>1
    <3> QED BY <3>1, <3>2
  <2>4. sig % 16 >= 8 => (sig % 8 # 0 <=> sig % 16 > 8)
    OBVIOUS
  <2> QED BY <1>3, <2>1, <2>2, <2>3, <2>4 DEF SumBits
<1>5. SumBits(sig, t, v, 8, 4)
  <2>1. v \div 8 = sig \div 8
    BY <1>1
  <2>2. (v \div 4) % 2 \in {0, 1} /\ ((v \div 4) % 2 = 1 <=> sig % 8 >= 4)
    BY <1>1
  <2>3. v % 4 # 0 <=> sig % 4 # 0 \/ t
    BY <1>1
  <2>4. sig % 8 >= 4 => (sig % 4 # 0 <=> sig % 8 > 4)
    OBVIOUS
  <2> QED BY <1>1, <2>1, <2>2, <2>3, <2>4 DEF SumBits
<1>6. SumBits(sig, t, v * 2, 4, 2)
  <2>1. (v * 2) \div 8 = sig \div 4 /\ v * 2 \in Nat
    BY <1>1
  <2>2. ((v * 2) \div 4) % 2 \in {0, 1} /\ (((v * 2) \div 4) % 2 = 1 <=> sig % 4 >= 2)
    BY <1>1
  <2>3. (v * 2) % 4 # 0 <=> sig % 2 # 0 \/ t
    BY <1>1
  <2>4. sig % 4 >= 2 => (sig % 2 # 0 <=> sig % 4 > 2)
    OBVIOUS
  <2> QED BY <2>1, <2>2, <2>3, <2>4 DEF SumBits
<1>7. ASSUME ~t, sig % 4 = 0 PROVE SumBits(sig, t, v * 4, 2, 1)
  <2>1. v = sig
    BY <1>1, <1>7
  <2>2. (v * 4) \div 8 = sig \div 2 /\ v * 4 \in Nat
    BY <2>1
  <2>3. ((v * 4) \div 4) % 2 = 0 /\ sig % 2 = 0
    BY <1>7, <2>1
  <2> QED BY <2>2, <2>3 DEF SumBits
<1> QED BY <1>4, <1>5, <1>6, <1>7 DEF y2


(* A sum with dp places below its mantissa, as the code rounds it.          *)
LEMMA SumRoundsAt ==
  ASSUME NEW f \in {F32, F64}, NEW s, NEW E, NEW dp, NEW c, NEW h, NEW k, NEW sig, NEW t,
         SumPlaces(f, E, dp, c, h, k, sig, t), NEW y2, SumBits(sig, t, y2, c, h)
  PROVE  SumIsRounded(f, s, E, dp, RoundNearest(f, LShr(y2, 3), Bit(y2, 2), Low(y2, 2) # 0),
                      SumReference(f, s, E, sig, t))
<1> DEFINE guard == (y2 \div 4) % 2
           sticky == y2 % 4 # 0
           kept == sig \div c
<1>1. 2^2 = 4 /\ 2^3 = 8
  BY WidePowers DEF PowersDouble
<1>2. y2 \div 8 = kept /\ SumGuard(sig, t, c, h, guard, sticky)
  BY DEF SumBits, SumGuard
<1>3. LShr(y2, 3) = kept /\ Bit(y2, 2) = guard /\ (Low(y2, 2) # 0) = sticky
  BY <1>1, <1>2 DEF LShr, Bit, Low
<1> HIDE DEF guard, sticky, kept
<1>4. kept = sig \div c
  BY DEF kept
<1> QED BY <1>2, <1>3, <1>4, SumHalfway

(* A sum of no more places than a mantissa is exact.                        *)
FewPlaces(f, e, k, sig) ==
  e \in Int /\ k \in 0..f.m /\ sig \in Nat /\ 2^k =< sig /\ sig < 2 * 2^k

LEMMA FewPlacesExact ==
  ASSUME NEW f \in {F32, F64}, NEW s, NEW e, NEW k, NEW sig, NEW t, FewPlaces(f, e, k, sig)
  PROVE  /\ Nearest(f, s, e, sig, t).tiny <=> (e + k + Bias(f) < 1)
         /\ Nearest(f, s, e, sig, t).word = Fitted(f, s, e + k + Bias(f), sig * 2^(f.m - k))
<1>1. e \in Int /\ k \in 0..f.m /\ sig \in Nat /\ 2^k =< sig /\ sig < 2 * 2^k
  BY DEF FewPlaces
<1> QED BY <1>1, NearestExact

(* A sum of normal numbers that is neither zero nor below the normal        *)
(* numbers is rounded by the code as it is by the reference.                *)
LEMMA SumRounds ==
  ASSUME NEW f \in {F32, F64}, NEW s, NEW E, NEW sig, NEW t, SumInUnits(f, E, sig, t),
         NEW x2, x2 = Normalised(f, E, OrBit(sig, t)),
         NEW rnd, rnd = RoundNearest(f, LShr(x2.man, 3), Bit(x2.man, 2), Low(x2.man, 2) # 0),
         NEW ref, ref = SumReference(f, s, E, sig, t), ~ref.tiny
  PROVE  /\ x2.re + rnd.bump \in Nat \ {0}
         /\ ref.word = Fitted(f, s, x2.re + rnd.bump, rnd.man)
<1> DEFINE m == f.m
           v == OrBit(sig, t)
           k == f.w - 1 - CtlzF(f, v)
           up == m + 3 - k
<1>1. /\ v \in Words(f.w) \ {0} /\ v \in Nat /\ v < 2 * 2^k
      /\ k \in 0..(m + 4) /\ 2^k =< sig /\ sig < 2 * 2^k
      /\ k =< m + 1 => ~t /\ sig % 4 = 0
  BY SumLeading
<1>2. /\ E \in 1..MaxExp(f) /\ E \in Nat /\ E >= 1 /\ sig \in Nat /\ t \in BOOLEAN /\ (E = 1 => sig % 8 = 0)
      /\ m \in Nat /\ Bias(f) \in Nat
  <2>1. E \in 1..MaxExp(f) /\ sig \in Nat /\ t \in BOOLEAN /\ (E = 1 => sig % 8 = 0)
    BY DEF SumInUnits
  <2>2. m \in Nat /\ Bias(f) \in Nat /\ MaxExp(f) = 2 * Bias(f) + 1
    BY MantissaUnits
  <2> QED BY <2>1, <2>2
<1> HIDE DEF v, k
<1>3. /\ k = m + 4 => x2.re = E + 1 /\ x2.man = OrBit(v \div 2, v % 2 = 1)
      /\ k = m + 3 => x2.re = E /\ x2.man = v
      /\ k < m + 3 /\ m + 3 - k =< E - 1 => x2.re = E - (m + 3 - k) /\ x2.man = v * 2^(m + 3 - k)
      /\ k < m + 3 /\ ~(m + 3 - k =< E - 1) => x2.re = 1
  <2>1. k \in 0..(f.m + 4)
    BY <1>1
  <2>2. k = f.w - 1 - CtlzF(f, v) /\ x2 = Normalised(f, E, v)
    BY DEF k, v
  <2> QED BY <1>1, <1>2, <2>1, <2>2, NormalisedIs
<1>4. /\ SumBits(sig, t, OrBit(v \div 2, v % 2 = 1), 16, 8)
      /\ SumBits(sig, t, v, 8, 4)
      /\ SumBits(sig, t, v * 2, 4, 2)
      /\ ~t /\ sig % 4 = 0 => SumBits(sig, t, v * 4, 2, 1)
  BY <1>2, SumBitsOf DEF v
<1>5. 2^0 = 1 /\ 2^1 = 2 /\ 2^2 = 4 /\ 2^3 = 8 /\ 2^4 = 16
  BY WidePowers DEF PowersDouble
<1>6. k \in Nat
  <2> HIDE DEF m
  <2> QED BY <1>1, <1>2
<1> DEFINE Goal == /\ x2.re + rnd.bump \in Nat \ {0}
                   /\ ref.word = Fitted(f, s, x2.re + rnd.bump, rnd.man)
<1>7. ASSUME NEW dp \in 1..4, NEW c, c = 2^dp, NEW h, h = 2^(dp - 1), k = f.m + dp,
             SumBits(sig, t, x2.man, c, h), x2.re = E + dp - 3
      PROVE  Goal
  <2>1. /\ rnd.bump \in {0, 1}
        /\ ref.tiny <=> E + dp - 3 + rnd.bump < 1
        /\ ref.word = Fitted(f, s, E + dp - 3 + rnd.bump, rnd.man)
    <3> DEFINE y2 == x2.man
    <3>1. SumBits(sig, t, y2, c, h)
          /\ rnd = RoundNearest(f, LShr(y2, 3), Bit(y2, 2), Low(y2, 2) # 0)
      BY <1>7
    <3> HIDE DEF y2
    <3>2. SumPlaces(f, E, dp, c, h, k, sig, t)
      BY <1>1, <1>2, <1>7 DEF SumPlaces
    <3>3. SumIsRounded(f, s, E, dp, rnd, ref)
      BY <3>1, <3>2, SumRoundsAt
    <3> QED BY <3>3 DEF SumIsRounded
  <2>2. ~(E + dp - 3 + rnd.bump < 1)
    BY <2>1
  <2> DEFINE z == rnd.bump
  <2> HIDE DEF z
  <2>3. E + dp - 3 + z \in Nat \ {0}
    BY <1>2, <1>7, <2>1, <2>2 DEF z
  <2> QED BY <1>7, <2>1, <2>3 DEF z
<1>8. ASSUME k = m + 4 PROVE Goal
  <2> DEFINE dp == 4
  <2>1. dp \in 1..4 /\ 16 = 2^dp /\ 8 = 2^(dp - 1) /\ k = f.m + dp /\ x2.re = E + dp - 3
    <3>1. x2.re = E + 1
      BY <1>3, <1>8
    <3>2. 2^(dp - 1) = 2^3
      OBVIOUS
    <3>3. E + 1 = E + dp - 3
      BY <1>2
    <3> QED BY <1>5, <1>8, <3>1, <3>2, <3>3
  <2>2. SumBits(sig, t, x2.man, 16, 8)
    BY <1>3, <1>4, <1>8
  <2> HIDE DEF dp, Goal
  <2> QED BY <1>7, <2>1, <2>2
<1>9. ASSUME k = m + 3 PROVE Goal
  <2> DEFINE dp == 3
  <2>1. dp \in 1..4 /\ 8 = 2^dp /\ 4 = 2^(dp - 1) /\ k = f.m + dp /\ x2.re = E + dp - 3
    <3>1. x2.re = E
      BY <1>3, <1>9
    <3>2. 2^(dp - 1) = 2^2
      OBVIOUS
    <3>3. E = E + dp - 3
      BY <1>2
    <3> QED BY <1>5, <1>9, <3>1, <3>2, <3>3
  <2>2. SumBits(sig, t, x2.man, 8, 4)
    BY <1>3, <1>4, <1>9
  <2> HIDE DEF dp, Goal
  <2> QED BY <1>7, <2>1, <2>2
<1>10. ASSUME k = m + 2, 2 =< E PROVE Goal
  <2> DEFINE dp == 2
             one == 1
  <2>1. k < m + 3 /\ m + 3 - k = one /\ one =< E - 1
    <3> HIDE DEF m
    <3> QED BY <1>2, <1>10
  <2>2. x2.re = E - one /\ x2.man = v * 2^one
    <3> DEFINE j == m + 3 - k
    <3>1. k < m + 3 /\ j =< E - 1 => x2.re = E - j /\ x2.man = v * 2^j
      BY <1>3
    <3>2. j = one
      BY <2>1
    <3> HIDE DEF j, one
    <3> QED BY <2>1, <3>1, <3>2
  <2>3. dp \in 1..4 /\ 4 = 2^dp /\ 2 = 2^(dp - 1) /\ k = f.m + dp /\ x2.re = E + dp - 3
    <3>1. 2^(dp - 1) = 2^1
      OBVIOUS
    <3>2. E - one = E + dp - 3
      BY <1>2
    <3> QED BY <1>5, <1>10, <2>2, <3>1, <3>2
  <2>4. SumBits(sig, t, x2.man, 4, 2)
    BY <1>4, <1>5, <2>2
  <2> HIDE DEF dp, Goal
  <2> QED BY <1>7, <2>3, <2>4
<1>11. ASSUME k = m + 1, 3 =< E PROVE Goal
  <2> DEFINE dp == 1
             two == 2
  <2>1. k < m + 3 /\ m + 3 - k = two /\ two =< E - 1
    <3> HIDE DEF m
    <3> QED BY <1>2, <1>11
  <2>2. x2.re = E - two /\ x2.man = v * 2^two
    <3> DEFINE j == m + 3 - k
    <3>1. k < m + 3 /\ j =< E - 1 => x2.re = E - j /\ x2.man = v * 2^j
      BY <1>3
    <3>2. j = two
      BY <2>1
    <3> HIDE DEF j, two
    <3> QED BY <2>1, <3>1, <3>2
  <2>3. dp \in 1..4 /\ 2 = 2^dp /\ 1 = 2^(dp - 1) /\ k = f.m + dp /\ x2.re = E + dp - 3
    <3>1. 2^(dp - 1) = 2^0
      OBVIOUS
    <3>2. E - two = E + dp - 3
      BY <1>2
    <3> QED BY <1>5, <1>11, <2>2, <3>1, <3>2
  <2>4. SumBits(sig, t, x2.man, 2, 1)
    <3>1. ~t /\ sig % 4 = 0
      <4>1. k =< m + 1
        <5> HIDE DEF m
        <5> QED BY <1>2, <1>11
      <4> QED BY <1>1, <4>1
    <3>2. x2.man = v * 4
      BY <1>5, <2>2
    <3> QED BY <1>4, <3>1, <3>2
  <2> HIDE DEF dp, Goal
  <2> QED BY <1>7, <2>3, <2>4
(* Too close to the least exponent to be brought to bit m + 3: tiny.        *)
<1>12. ASSUME NEW dp \in {1, 2}, NEW c, c = 2^dp, NEW h, h = 2^(dp - 1), k = f.m + dp, E < 4 - dp,
              sig % c = 0, h >= 1
       PROVE  FALSE
  <2> DEFINE kept == sig \div c
             no == 0
             sticky == FALSE
             rd == RoundNearest(f, kept, no, sticky)
  <2>1. kept \in 2^m..(2 * 2^m - 1)
    <3> DEFINE p == 2^m
    <3>1. p \in Nat \ {0} /\ c \in Nat \ {0} /\ 2^k = p * c
      <4>1. k \in 0..WideBits /\ dp \in 0..k /\ k - dp = m /\ dp \in 0..WideBits
        <5>1. m + 4 =< WideBits /\ WideBits \in Nat
          BY GuardedWord DEF WideBits
        <5> HIDE DEF m
        <5>2. k = m + dp
          BY <1>12 DEF m
        <5> QED BY <1>2, <5>1, <5>2
      <4>2. 2^k = 2^(k - dp) * 2^dp
        BY <4>1, PowerSplit
      <4>3. p \in Nat \ {0} /\ c \in Nat \ {0}
        BY <1>12, <4>1, FormatOf, WidePowers
      <4> QED BY <1>12, <4>1, <4>2, <4>3
    <3> DEFINE p2 == 2 * p
    <3>2. p * c =< sig /\ sig < p2 * c /\ p \in Nat /\ p2 \in Nat
      <4>1. 2^k =< sig /\ sig < 2 * 2^k
        BY <1>1
      <4> HIDE DEF p
      <4>2. 2 * (p * c) = (2 * p) * c
        BY <3>1
      <4> QED BY <3>1, <4>1, <4>2
    <3>3. kept \in p..(p2 - 1)
      <4> HIDE DEF p, p2
      <4> QED BY <1>2, <3>1, <3>2, QuotientBounds
    <3> QED BY <3>3
  <2>2. rd.bump = 0
    <3> HIDE DEF kept, sticky
    <3>1. rd = RoundNearest(f, kept, 0, sticky)
      OBVIOUS
    <3> HIDE DEF rd
    <3> QED BY <2>1, <3>1, RoundExact
  <2>3. ref.tiny <=> E + dp - 3 + rd.bump < 1
    <3>1. SumGuard(sig, t, c, h, no, sticky)
      <4>1. c \in Int /\ h \in Int
        BY <1>5, <1>12
      <4>2. ~(sig % c >= h)
        BY <1>12, <4>1
      <4> QED BY <1>2, <4>2 DEF SumGuard
    <3>2. SumPlaces(f, E, dp, c, h, k, sig, t)
      BY <1>1, <1>2, <1>12 DEF SumPlaces
    <3>3. SumIsRounded(f, s, E, dp, rd, ref)
      <4> HIDE DEF sticky, no
      <4> QED BY <3>1, <3>2, SumHalfway
    <3> QED BY <3>3 DEF SumIsRounded
  <2> HIDE DEF rd
  <2>4. E + dp - 3 + rd.bump < 1
    BY <1>2, <1>12, <2>2
  <2> QED BY <2>3, <2>4
<1>13. ASSUME k = m + 2, ~(2 =< E) PROVE FALSE
  <2> DEFINE dp == 2
  <2>1. dp \in {1, 2} /\ 4 = 2^dp /\ 2 = 2^(dp - 1) /\ k = f.m + dp /\ E < 4 - dp
    <3>1. 2^(dp - 1) = 2^1
      OBVIOUS
    <3> QED BY <1>2, <1>5, <1>13, <3>1
  <2>2. sig % 4 = 0
    <3>1. sig % 8 = 0
      BY <1>2, <1>13
    <3> QED BY <1>2, <3>1
  <2>3. 2 >= 1
    OBVIOUS
  <2> HIDE DEF dp
  <2> QED BY <1>12, <2>1, <2>2, <2>3
<1>14. ASSUME k = m + 1, ~(3 =< E) PROVE FALSE
  <2> DEFINE dp == 1
  <2>1. dp \in {1, 2} /\ 2 = 2^dp /\ 1 = 2^(dp - 1) /\ k = f.m + dp /\ E < 4 - dp
    <3>1. 2^(dp - 1) = 2^0
      OBVIOUS
    <3> QED BY <1>2, <1>5, <1>14, <3>1
  <2>2. sig % 2 = 0
    <3>1. sig % 4 = 0
      <4>1. k =< m + 1
        <5> HIDE DEF m
        <5> QED BY <1>2, <1>14
      <4> QED BY <1>1, <4>1
    <3> QED BY <1>2, <3>1
  <2>3. 1 >= 1
    OBVIOUS
  <2> HIDE DEF dp
  <2> QED BY <1>12, <2>1, <2>2, <2>3
<1>15. ASSUME k =< m PROVE Goal
  <2> DEFINE e == E - Bias(f) - m - 3
             few == m - k
  <2>1. k \in 0..f.m /\ k < m + 3 /\ e \in Int
    <3> DEFINE bias == Bias(f)
    <3> HIDE DEF bias
    <3>1. bias \in Int
      BY <1>2 DEF bias
    <3>2. E - bias - m - 3 \in Int /\ k < m + 3
      <4> HIDE DEF m
      <4> QED BY <1>2, <1>6, <1>15, <3>1
    <3>3. k \in 0..f.m
      BY <1>2, <1>6, <1>15
    <3> QED BY <3>2, <3>3 DEF bias
  <2>2. /\ ref.tiny <=> (e + k + Bias(f) < 1)
        /\ ref.word = Fitted(f, s, e + k + Bias(f), sig * 2^(f.m - k))
    <3>1. ref = Nearest(f, s, e, sig, t)
      BY DEF SumReference
    <3> HIDE DEF e, m
    <3>2. /\ Nearest(f, s, e, sig, t).tiny <=> (e + k + Bias(f) < 1)
          /\ Nearest(f, s, e, sig, t).word = Fitted(f, s, e + k + Bias(f), sig * 2^(f.m - k))
      <4>1. FewPlaces(f, e, k, sig)
        BY <1>1, <1>2, <2>1 DEF FewPlaces
      <4> QED BY <4>1, FewPlacesExact
    <3> QED BY <3>1, <3>2
  <2>3. e + k + Bias(f) = E - up
    <3> DEFINE bias == Bias(f)
    <3> HIDE DEF bias, m
    <3>1. E - bias - m - 3 + k + bias = E - (m + 3 - k)
      BY <1>2, <1>6 DEF bias
    <3> QED BY <3>1 DEF bias
  <2>4. up \in Int /\ E - up >= 1
    <3> HIDE DEF m
    <3>1. up \in Int
      BY <1>2, <1>6
    <3> HIDE DEF up, e
    <3> QED BY <1>2, <2>2, <2>3, <3>1
  <2>5. x2.re = E - up /\ x2.man = v * 2^up
    <3>1. up =< E - 1
      <4> HIDE DEF up
      <4> QED BY <1>2, <2>4
    <3> QED BY <1>3, <2>1, <3>1
  <2>6. 2^up = 8 * 2^few /\ 2^few \in Nat \ {0} /\ 2^m = 2^few * 2^k
    <3>1. few \in 0..WideBits /\ up \in 0..WideBits /\ few \in 0..up /\ up - few = 3 /\ m \in 0..WideBits
          /\ k \in 0..m
      <4>1. m + 4 =< WideBits /\ WideBits \in Nat
        BY GuardedWord DEF WideBits
      <4> HIDE DEF m
      <4> QED BY <1>2, <1>6, <1>15, <4>1
    <3>2. 2^up = 2^3 * 2^few
      <4> HIDE DEF up, few
      <4>1. 2^up = 2^(up - few) * 2^few
        BY <3>1, PowerSplit
      <4> QED BY <3>1, <4>1
    <3>3. 2^few \in Nat \ {0}
      <4> HIDE DEF few
      <4> QED BY <3>1, WidePowers
    <3>4. 2^m = 2^few * 2^k
      BY <3>1, PowerSplit
    <3> QED BY <1>5, <3>2, <3>3, <3>4
  <2> DEFINE g == 2^few
             p == 2^m
             kept == sig * g
  <2>7. v = sig
    <3>1. ~t
      <4>1. k =< m + 1
        <5> HIDE DEF m
        <5> QED BY <1>2, <1>6, <1>15
      <4> QED BY <1>1, <4>1
    <3> QED BY <1>2, <3>1, OrBitIs DEF v
  <2>8. kept \in p..(2 * p - 1)
    <3> DEFINE pk == 2^k
    <3>1. pk =< sig /\ sig < 2 * pk /\ pk \in Nat /\ g \in Nat \ {0} /\ p = g * pk
      <4>1. k \in 0..WideBits
        <5>1. m + 4 =< WideBits /\ WideBits \in Nat
          BY GuardedWord DEF WideBits
        <5> HIDE DEF m
        <5> QED BY <1>2, <1>6, <1>15, <5>1
      <4>2. pk \in Nat
        BY <4>1, WidePowers
      <4> QED BY <1>1, <2>6, <4>2
    <3> HIDE DEF pk, g, p
    <3>2. pk * g =< sig * g /\ (sig + 1) * g =< (2 * pk) * g
      <4>1. sig + 1 =< 2 * pk /\ sig + 1 \in Nat /\ 2 * pk \in Nat /\ g \in Nat
        BY <1>2, <3>1
      <4> QED BY <1>2, <3>1, <4>1, TimesMonotone
    <3>3. (sig + 1) * g = sig * g + g /\ (2 * pk) * g = 2 * (pk * g) /\ pk * g = g * pk
          /\ sig * g \in Nat /\ pk * g \in Nat
      BY <1>2, <3>1
    <3> QED BY <3>1, <3>2, <3>3
  <2>9. x2.man = 8 * kept
    <3> HIDE DEF g
    <3>1. x2.man = sig * (8 * g)
      BY <2>5, <2>6, <2>7 DEF g
    <3>2. sig * (8 * g) = 8 * (sig * g)
      BY <1>2, <2>6 DEF g
    <3> QED BY <3>1, <3>2
  <2>10. kept \in Nat /\ p \in Nat
    <3>1. p \in Nat
      BY FormatOf
    <3> HIDE DEF p, kept
    <3> QED BY <2>8, <3>1
  <2>11. rnd.man = kept /\ rnd.bump = 0
    <3> HIDE DEF kept
    <3>1. (8 * kept) \div 8 = kept /\ ((8 * kept) \div 4) % 2 = 0 /\ (8 * kept) % 4 = 0
      BY <2>10
    <3>2. LShr(x2.man, 3) = kept /\ Bit(x2.man, 2) = 0
      BY <1>5, <2>9, <3>1 DEF LShr, Bit
    <3> DEFINE sticky == Low(x2.man, 2) # 0
    <3>3. rnd = RoundNearest(f, kept, 0, sticky)
      BY <3>2
    <3> HIDE DEF sticky
    <3> QED BY <2>8, <3>3, RoundExact
  <2>12. x2.re + rnd.bump = E - up
    <3> HIDE DEF up
    <3> QED BY <1>2, <2>4, <2>5, <2>11
  <2>13. E - up \in Nat \ {0}
    <3> HIDE DEF up
    <3> QED BY <1>2, <2>4
  <2>14. ref.word = Fitted(f, s, E - up, kept)
    <3> HIDE DEF e, up
    <3> QED BY <2>2, <2>3
  <2> HIDE DEF up, kept
  <2> QED BY <2>11, <2>12, <2>13, <2>14
<1>16. k = m + 4 \/ k = m + 3 \/ k = m + 2 \/ k = m + 1 \/ k =< m
  <2>1. k \in 0..(m + 4)
    BY <1>1
  <2> HIDE DEF m
  <2> QED BY <1>2, <2>1
<1>17. Goal
  <2> HIDE DEF Goal
  <2> QED BY <1>8, <1>9, <1>10, <1>11, <1>13, <1>14, <1>15, <1>16
<1> QED BY <1>17


(* The code's sum is zero exactly when the exact one is.                    *)
LEMMA SumVanishes ==
  ASSUME NEW f \in {F32, F64}, NEW a \in Words(f.w), NEW b \in Words(f.w),
         NEW sig, sig = SumSig(f, a, b), NEW t, t = SumRest(f, a, b)
  PROVE  /\ sig \in Nat /\ t \in BOOLEAN
         /\ OrBit(sig, t) = 0 <=> sig = 0
         /\ Sign(f, a) = Sign(f, b) => sig # 0
         /\ SumGap(f, a, b) >= 1 => sig # 0
<1> DEFINE p == 2^f.m
<1>1. /\ sig \in Nat /\ t \in BOOLEAN /\ (t => sig >= 4 * p)
      /\ Sign(f, a) = Sign(f, b) => sig # 0
      /\ SumGap(f, a, b) >= 1 => sig # 0
  BY SumSigIs
<1>2. p \in Nat \ {0}
  BY FormatOf
<1> HIDE DEF p
<1>3. t => sig # 0
  BY <1>1, <1>2
<1> DEFINE v == OrBit(sig, t)
<1>4. v \in Nat /\ v \div 2 = sig \div 2 /\ (v % 2 # 0 <=> sig % 2 # 0 \/ t)
  BY <1>1, OrBitIs
<1> HIDE DEF v
<1>5. v = 0 <=> sig = 0
  BY <1>1, <1>3, <1>4
<1> QED BY <1>1, <1>5 DEF v

(* Two normal numbers, of a sum that is not below the normal numbers.       *)
LEMMA AddNormals ==
  ASSUME NEW f \in {F32, F64}, NEW a \in Words(f.w), NEW b \in Words(f.w),
         Normal(f, a), Normal(f, b), ~SumUnderflows(f, a, b)
  PROVE  AddFinite(f, a, b) =
           IF ExactSum(f, a, b).sig = 0 THEN 0 ELSE RoundedSum(f, a, b).word
<1> DEFINE sig == SumSig(f, a, b)
           t == SumRest(f, a, b)
           g == Greater(f, a, b)
           E == ExpOf(f, g)
           s == Aligned(f, a, b)
           exact == ExactSum(f, a, b)
           v == OrBit(sig, t)
           x2 == Normalised(f, E, v)
           rnd == RoundNearest(f, LShr(x2.man, 3), Bit(x2.man, 2), Low(x2.man, 2) # 0)
           ref == SumReference(f, Sign(f, g), E, sig, t)
<1>1. /\ s.re = E /\ s.sign = Sign(f, g) /\ s.same = (Sign(f, a) = Sign(f, b)) /\ s.sum = v
  BY AlignedIs
<1>2. exact.e = UnitExp(f, g) - 3 /\ exact.sig = sig /\ (exact.sig # 0 => exact.neg = Sign(f, g)) /\ exact.inexact = t
  BY ExactSumIs
<1>3. /\ sig \in Nat /\ t \in BOOLEAN /\ (v = 0 <=> sig = 0)
      /\ Sign(f, a) = Sign(f, b) => sig # 0
  BY SumVanishes
<1>4. ~IsZero(f, a) /\ ~IsZero(f, b)
  BY OneKind
<1>5. AddFinite(f, a, b) =
        IF ~s.same /\ v = 0 THEN 0
        ELSE IF x2.re + rnd.bump >= MaxExp(f) THEN Inf(f, Sign(f, g))
        ELSE Pack(f, Sign(f, g), x2.re + rnd.bump, rnd.man)
  BY <1>1, <1>4 DEF AddFinite
<1>8. ExactSum(f, a, b).sig = sig
  BY <1>2
<1>6. CASE sig = 0
  <2>1. ~s.same /\ v = 0
    BY <1>1, <1>3, <1>6
  <2> HIDE DEF s, v, x2, rnd, sig, t, exact, g
  <2> QED BY <1>5, <1>6, <1>8, <2>1
<1>7. CASE sig # 0
  <2>1. SumInUnits(f, E, sig, t)
    <3> DEFINE p == 2^f.m
               gap == SumGap(f, a, b)
               l == Lesser(f, a, b)
    <3>1. /\ gap \in Nat /\ sig < 32 * p /\ (t => sig >= 4 * p)
          /\ sig < 4 * p => gap =< 1 /\ sig % 4 = 0
          /\ gap = 0 => sig % 8 = 0
      BY SumSigIs
    <3>2. E \in 1..(MaxExp(f) - 1) /\ ExpOf(f, l) \in 1..(MaxExp(f) - 1) /\ gap = E - ExpOf(f, l)
      BY DEF SumGap, Greater, Lesser, Normal
    <3>3. MaxExp(f) \in Int
      <4>1. Bias(f) \in Nat /\ MaxExp(f) = 2 * Bias(f) + 1
        BY MantissaUnits
      <4> QED BY <4>1
    <3> DEFINE el == ExpOf(f, l)
               top == MaxExp(f)
    <3> HIDE DEF sig, t, g, E, gap, l, p, el, top
    <3>4. E = 1 => gap = 0
      BY <3>1, <3>2, <3>3 DEF el, top
    <3>5. E \in 1..MaxExp(f)
      BY <3>2, <3>3 DEF top
    <3> QED BY <1>3, <1>7, <3>1, <3>4, <3>5 DEF SumInUnits, p
  <2>2. RoundedSum(f, a, b) = ref
    <3>1. RoundedSum(f, a, b) = Nearest(f, exact.neg, exact.e, exact.sig, exact.inexact)
      BY DEF RoundedSum
    <3> HIDE DEF exact, sig, t
    <3>2. exact.e = E - Bias(f) - f.m - 3
      BY <1>2 DEF UnitExp
    <3> HIDE DEF g, E
    <3> QED BY <1>2, <1>7, <3>1, <3>2 DEF SumReference
  <2>3. ~ref.tiny
    <3>1. ~(exact.sig # 0 /\ RoundedSum(f, a, b).tiny)
      BY DEF SumUnderflows
    <3> HIDE DEF exact, sig, ref
    <3> QED BY <1>2, <1>7, <2>2, <3>1
  <2> DEFINE re == x2.re + rnd.bump
             sg == Sign(f, g)
  <2>4. /\ re \in Nat \ {0}
        /\ ref.word = Fitted(f, sg, re, rnd.man)
    <3> HIDE DEF sig, t, E, g
    <3> QED BY <2>1, <2>3, SumRounds
  <2>5. ref.word = IF re >= MaxExp(f) THEN Inf(f, sg) ELSE Pack(f, sg, re, rnd.man)
    <3> HIDE DEF re, sg, rnd, ref
    <3>1. ~(re < 1)
      BY <2>4
    <3> QED BY <2>4, <3>1 DEF Fitted
  <2>6. AddFinite(f, a, b) = IF re >= MaxExp(f) THEN Inf(f, sg) ELSE Pack(f, sg, re, rnd.man)
    <3>1. v # 0
      BY <1>3, <1>7
    <3> HIDE DEF v, s, rnd, x2, g
    <3> QED BY <1>5, <3>1
  <2> HIDE DEF re, sg, rnd, ref, exact, sig
  <2> QED BY <1>7, <1>8, <2>2, <2>5, <2>6
<1> QED BY <1>6, <1>7

(* A zero leaves the other operand as it is; two zeros give a zero.         *)
LEMMA AddZeros ==
  ASSUME NEW f \in {F32, F64}, NEW a \in Words(f.w), NEW b \in Words(f.w)
  PROVE  /\ Normal(f, a) /\ IsZero(f, b) => AddFinite(f, a, b) = a
         /\ IsZero(f, a) /\ Normal(f, b) => AddFinite(f, a, b) = b
         /\ IsZero(f, a) /\ IsZero(f, b) => IsZero(f, AddFinite(f, a, b))
<1> DEFINE sig == SumSig(f, a, b)
           t == SumRest(f, a, b)
           g == Greater(f, a, b)
           l == Lesser(f, a, b)
           s == Aligned(f, a, b)
           v == OrBit(sig, t)
<1>1. s.sum = v
  BY AlignedIs
<1>2. /\ sig \in Nat /\ t \in BOOLEAN /\ (v = 0 <=> sig = 0)
      /\ SumGap(f, a, b) >= 1 => sig # 0
  BY SumVanishes
<1>3. /\ ~s.same /\ v = 0 => AddFinite(f, a, b) = 0
      /\ ~(~s.same /\ v = 0) /\ IsZero(f, b) => AddFinite(f, a, b) = a
      /\ ~(~s.same /\ v = 0) /\ IsZero(f, a) /\ ~IsZero(f, b) => AddFinite(f, a, b) = b
  BY <1>1 DEF AddFinite
<1> HIDE DEF s, v
<1>4. /\ IsZero(f, a) => ExpOf(f, a) = 0
      /\ IsZero(f, b) => ExpOf(f, b) = 0
      /\ Normal(f, a) => ExpOf(f, a) > 0 /\ ~IsZero(f, a)
      /\ Normal(f, b) => ExpOf(f, b) > 0 /\ ~IsZero(f, b)
  <2>1. ExpOf(f, a) \in Int /\ ExpOf(f, b) \in Int /\ MaxExp(f) \in Int
    <3>1. Bias(f) \in Nat /\ MaxExp(f) = 2 * Bias(f) + 1
      BY MantissaUnits
    <3>2. ExpOf(f, a) \in 0..MaxExp(f) /\ ExpOf(f, b) \in 0..MaxExp(f)
      BY FloatParts
    <3> QED BY <3>1, <3>2
  <2> QED BY <2>1, OneKind DEF IsZero, Normal
<1>5. ExpOf(f, a) \in Nat /\ ExpOf(f, b) \in Nat
  <2>1. Bias(f) \in Nat /\ MaxExp(f) = 2 * Bias(f) + 1
    BY MantissaUnits
  <2>2. ExpOf(f, a) \in 0..MaxExp(f) /\ ExpOf(f, b) \in 0..MaxExp(f)
    BY FloatParts
  <2> QED BY <2>1, <2>2
<1>6. ASSUME ExpOf(f, a) # ExpOf(f, b) PROVE v # 0
  <2>1. /\ ExpOf(f, a) > ExpOf(f, b) => g = a /\ l = b
        /\ ExpOf(f, a) < ExpOf(f, b) => g = b /\ l = a
    BY SumOrder
  <2>2. SumGap(f, a, b) = ExpOf(f, g) - ExpOf(f, l)
    BY DEF SumGap
  <2> HIDE DEF g, l, sig
  <2> DEFINE ea == ExpOf(f, a)
             eb == ExpOf(f, b)
             gap == SumGap(f, a, b)
  <2>3. (ea > eb => gap = ea - eb) /\ (ea < eb => gap = eb - ea)
    BY <2>1, <2>2
  <2> HIDE DEF ea, eb, gap
  <2>4. gap >= 1
    BY <1>5, <1>6, <2>3 DEF ea, eb
  <2> QED BY <1>2, <2>4 DEF gap
<1>7. Normal(f, a) /\ IsZero(f, b) => AddFinite(f, a, b) = a
  BY <1>3, <1>4, <1>5, <1>6
<1>8. IsZero(f, a) /\ Normal(f, b) => AddFinite(f, a, b) = b
  BY <1>3, <1>4, <1>5, <1>6
<1>9. IsZero(f, 0)
  <2> DEFINE p == 2^f.m
             qe == 2^f.e
  <2>1. p \in Nat \ {0} /\ qe \in Nat \ {0}
    BY FormatOf
  <2> HIDE DEF p, qe
  <2>2. 0 = 0 * p + 0 /\ 0 < p /\ 0 = 0 * qe + 0 /\ 0 < qe
    BY <2>1
  <2>3. 0 \div p = 0 /\ 0 % qe = 0
    BY <2>1, <2>2, DivUnique
  <2> QED BY <2>3 DEF IsZero, ExpOf, Low, LShr, p, qe
<1>10. IsZero(f, a) /\ IsZero(f, b) => IsZero(f, AddFinite(f, a, b))
  BY <1>3, <1>9
<1> QED BY <1>7, <1>8, <1>10


(* __addsf3 and __adddf3: the correctly rounded sum, unless it is below the *)
(* normal numbers; a zero for two zeros.                                    *)
LEMMA AddIsRight ==
  ASSUME NEW f \in {F32, F64}, NEW a \in Words(f.w), NEW b \in Words(f.w),
         ~SumUnderflows(f, a, b), NEW sum, sum = AddSpecial(f, a, b, AddFinite(f, a, b))
  PROVE  sum = RefAdd(f, a, b) \/ (IsZero(f, a) /\ IsZero(f, b) /\ IsZero(f, sum))
<1> DEFINE fin == AddFinite(f, a, b)
<1>1. /\ Normal(f, a) /\ IsZero(f, b) => fin = a
      /\ IsZero(f, a) /\ Normal(f, b) => fin = b
      /\ IsZero(f, a) /\ IsZero(f, b) => IsZero(f, fin)
  BY AddZeros
<1>2. Normal(f, a) /\ Normal(f, b) =>
        fin = IF ExactSum(f, a, b).sig = 0 THEN 0 ELSE RoundedSum(f, a, b).word
  BY AddNormals
<1>3. /\ IsZero(f, a) => ~IsInf(f, a) /\ ~Normal(f, a) /\ ~IsNaN(f, a)
      /\ IsInf(f, a) => ~IsZero(f, a) /\ ~Normal(f, a) /\ ~IsNaN(f, a)
      /\ Normal(f, a) => ~IsZero(f, a) /\ ~IsInf(f, a) /\ ~IsNaN(f, a)
      /\ IsZero(f, a) \/ IsInf(f, a) \/ Normal(f, a) \/ IsNaN(f, a)
  BY OneKind
<1>4. /\ IsZero(f, b) => ~IsInf(f, b) /\ ~Normal(f, b) /\ ~IsNaN(f, b)
      /\ IsInf(f, b) => ~IsZero(f, b) /\ ~Normal(f, b) /\ ~IsNaN(f, b)
      /\ Normal(f, b) => ~IsZero(f, b) /\ ~IsInf(f, b) /\ ~IsNaN(f, b)
      /\ IsZero(f, b) \/ IsInf(f, b) \/ Normal(f, b) \/ IsNaN(f, b)
  BY OneKind
<1>5. sum = AddSpecial(f, a, b, fin)
  OBVIOUS
<1> HIDE DEF fin
<1>6. CASE IsNaN(f, a) \/ IsNaN(f, b)
  <2>1. sum = QNaN(f)
    BY <1>5, <1>6 DEF AddSpecial
  <2>2. RefAdd(f, a, b) = QNaN(f)
    BY <1>3, <1>4, <1>6 DEF RefAdd
  <2> QED BY <2>1, <2>2
<1>7. CASE IsInf(f, a) /\ ~IsNaN(f, b)
  <2>1. sum = IF IsInf(f, b) /\ Sign(f, a) # Sign(f, b) THEN QNaN(f) ELSE a
    BY <1>3, <1>5, <1>7 DEF AddSpecial
  <2>2. RefAdd(f, a, b) = IF IsInf(f, b) /\ Sign(f, a) # Sign(f, b) THEN QNaN(f) ELSE a
    BY <1>3, <1>4, <1>7 DEF RefAdd
  <2> QED BY <2>1, <2>2
<1>8. CASE IsInf(f, b) /\ ~IsNaN(f, a) /\ ~IsInf(f, a)
  <2>1. sum = b
    BY <1>4, <1>5, <1>8 DEF AddSpecial
  <2>2. RefAdd(f, a, b) = b
    BY <1>3, <1>4, <1>8 DEF RefAdd
  <2> QED BY <2>1, <2>2
<1>9. CASE (IsZero(f, a) \/ Normal(f, a)) /\ (IsZero(f, b) \/ Normal(f, b))
  <2>1. sum = fin
    BY <1>3, <1>4, <1>5, <1>9 DEF AddSpecial
  <2>2. CASE IsZero(f, a) /\ IsZero(f, b)
    BY <1>1, <2>1, <2>2
  <2>3. CASE IsZero(f, a) /\ Normal(f, b)
    <3>1. RefAdd(f, a, b) = b
      BY <1>3, <1>4, <2>3 DEF RefAdd
    <3> QED BY <1>1, <2>1, <2>3, <3>1
  <2>4. CASE Normal(f, a) /\ IsZero(f, b)
    <3>1. RefAdd(f, a, b) = a
      BY <1>3, <1>4, <2>4 DEF RefAdd
    <3> QED BY <1>1, <2>1, <2>4, <3>1
  <2>5. CASE Normal(f, a) /\ Normal(f, b)
    <3>1. RefAdd(f, a, b) = IF ExactSum(f, a, b).sig = 0 THEN 0 ELSE RoundedSum(f, a, b).word
      BY <1>3, <1>4, <2>5 DEF RefAdd
    <3> QED BY <1>2, <2>1, <2>5, <3>1
  <2> QED BY <1>9, <2>2, <2>3, <2>4, <2>5
<1> QED BY <1>3, <1>4, <1>6, <1>7, <1>8, <1>9

(* Negating turns a word of the format into one.                            *)
LEMMA NegatedWord ==
  ASSUME NEW f \in {F32, F64}, NEW v \in Words(f.w)
  PROVE  Negated(f, v) \in Words(f.w)
<1> DEFINE p == 2^(f.w - 1)
<1>1. p \in Nat \ {0} /\ 2^f.w = 2 * p
  BY FormatOf
<1>2. Sign(f, v) = v \div p
  BY DEF Sign, LShr
<1>3. Negated(f, v) = IF v \div p = 0 THEN v + p ELSE v - p
  BY <1>2 DEF Negated
<1>4. v \in 0..(2 * p - 1)
  BY <1>1 DEF Words
<1> HIDE DEF p
<1>5. v \div p = IF v < p THEN 0 ELSE 1
  BY <1>1, <1>4, TopBit
<1>6. Negated(f, v) \in 0..(2 * p - 1)
  BY <1>1, <1>3, <1>4, <1>5
<1> QED BY <1>1, <1>6 DEF Words
=============================================================================
