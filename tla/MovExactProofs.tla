---------------------------- MODULE MovExactProofs ----------------------------
(***************************************************************************)
(* What the movs that MovOnlyLegalize leaves compute, for any operands,    *)
(* registers, functions and contents of memory: sums, differences, bitwise *)
(* operations and frame addresses are exact to the last bit.               *)
(*                                                                         *)
(* A chain without stores or jumps leads from a memory to one other memory *)
(* (Runs), which is worked out stage by stage: the bytes of the index, the *)
(* look-up, the carry left in CL for the stage after. The four bytes that  *)
(* come out are then compared with X86Machine, which knows no bytes: bit k *)
(* receives a carry there when some lower bit makes one and all between    *)
(* pass it on (PlusWord, MinusWord, CombineWords, BitsOfImm).              *)
(*                                                                         *)
(* ArithmeticInv carries that through the steps of MovMachine: while the   *)
(* chain of such an instruction runs, memory is on its way to the result,  *)
(* and X86Machine sees the stack as it is.                                 *)
(***************************************************************************)
EXTENDS MovMachineProofs


-----------------------------------------------------------------------------
(* What a chain computes. Every mov but a load or a jump through a pointer  *)
(* has one outcome, so that a chain of them leads from a memory to one other *)
(* memory, and leaves the stack alone if no store is among them.            *)
Still(m) == m.op \notin {"store", "storei"}
Runs(D, c, x, y) ==
  /\ Triple(D, c, {x}, {y}) /\ x \in Mems(D) /\ y \in Mems(D)
  /\ \A k \in 1..Len(c) : Still(c[k])

(* One chain after another. *)
LEMMA RunThen ==
  ASSUME NEW D, NEW c, NEW d, NEW x, NEW y, NEW z, Runs(D, c, x, y), Runs(D, d, y, z)
  PROVE  Runs(D, c \o d, x, z)
<1>1. Triple(D, c \o d, {x}, {z})
  BY Then DEF Runs
<1>2. c \in Seq(Movs(D)) /\ d \in Seq(Movs(D))
  BY DEF Triple, Runs
<1>3. /\ Len(c \o d) = Len(c) + Len(d)
      /\ Len(c) \in Nat /\ Len(d) \in Nat
      /\ \A k \in 1..(Len(c) + Len(d)) : (c \o d)[k] = IF k <= Len(c) THEN c[k] ELSE d[k - Len(c)]
  BY <1>2, ConcatProperties, LenProperties
<1>4. ASSUME NEW k \in 1..(Len(c) + Len(d)) PROVE Still((c \o d)[k])
  <2>1. CASE k <= Len(c)
    BY <1>3, <2>1 DEF Runs
  <2>2. CASE k > Len(c)
    <3>1. k - Len(c) \in 1..Len(d)
      BY <1>3, <2>2
    <3>2. (c \o d)[k] = d[k - Len(c)]
      BY <1>3, <2>2
    <3> QED BY <3>1, <3>2 DEF Runs
  <2> QED BY <1>3, <2>1, <2>2
<1> QED BY <1>1, <1>3, <1>4 DEF Runs

(* A chain of no mov leads where it starts.                                 *)
LEMMA RunSkip ==
  ASSUME NEW D, NEW x \in Mems(D)
  PROVE  Runs(D, <<>>, x, x)
<1>1. Triple(D, <<>>, {x}, {x})
  BY Skip
<1>2. \A k \in 1..Len(<<>>) : Still((<<>>)[k])
  OBVIOUS
<1> QED BY <1>1, <1>2 DEF Runs

(* A mov that brings x to y and nowhere else. *)
LEMMA RunOne ==
  ASSUME NEW D, NEW m \in Movs(D), NEW x \in Mems(D), NEW y \in Mems(D), Still(m),
         m.op = "lookup" => Fits(x, m.table),
         \A z \in Mems(D) : Moves(m, x, z) => z = y
  PROVE  Runs(D, <<m>>, x, y)
<1>1. Sound(D, m, {x}, {y})
  BY DEF Sound
<1>2. Triple(D, <<m>>, {x}, {y})
  BY <1>1, One
<1>3. Len(<<m>>) = 1 /\ <<m>>[1] = m
  OBVIOUS
<1> QED BY <1>2, <1>3 DEF Runs

(* One mov of each kind, and where it leads.                                *)
LEMMA RunMov ==
  ASSUME NEW D, NEW x \in Mems(D), NEW d \in D, NEW s \in D
  PROVE  Runs(D, Mov(d, s), x, [x EXCEPT ![d] = x[s]])
<1> DEFINE m == [op |-> "mov32", dst |-> d, src |-> s]
           y == [x EXCEPT ![d] = x[s]]
<1>1. m \in Movs(D) /\ m.op # "lookup" /\ Still(m) /\ Mov(d, s) = <<m>>
  BY DEF Movs, Mov, Still
<1>2. y \in Mems(D)
  BY StoreWord DEF Mems
<1>3. \A z \in Mems(D) : Moves(m, x, z) => z = y
  BY DEF Moves
<1> HIDE DEF m, y
<1>4. Runs(D, <<m>>, x, y)
  BY <1>1, <1>2, <1>3, RunOne
<1> QED BY <1>1, <1>4 DEF y

LEMMA RunImm ==
  ASSUME NEW D, NEW x \in Mems(D), NEW d \in D, NEW n \in Int
  PROVE  Runs(D, MovImm(d, n), x, [x EXCEPT ![d] = WordBytes(n)])
<1> DEFINE m == [op |-> "mov32i", dst |-> d, imm |-> n]
           y == [x EXCEPT ![d] = WordBytes(n)]
<1>1. m \in Movs(D) /\ m.op # "lookup" /\ Still(m) /\ MovImm(d, n) = <<m>>
  BY DEF Movs, MovImm, Still
<1>2. y \in Mems(D)
  BY StoreWord, Immediates
<1>3. \A z \in Mems(D) : Moves(m, x, z) => z = y
  BY DEF Moves
<1> HIDE DEF m, y
<1>4. Runs(D, <<m>>, x, y)
  BY <1>1, <1>2, <1>3, RunOne
<1> QED BY <1>1, <1>4 DEF y

LEMMA RunByte ==
  ASSUME NEW D, NEW x \in Mems(D), NEW d \in D, NEW i \in 0..3, NEW s \in Sources(D)
  PROVE  Runs(D, Mov8(At(d, i), s), x, [x EXCEPT ![d][i] = ByteFrom(x, s)])
<1> DEFINE m == [op |-> "mov8", dst |-> <<d, i>>, src |-> s]
           y == [x EXCEPT ![d][i] = ByteFrom(x, s)]
<1>1. m \in Movs(D) /\ Mov8(At(d, i), s) = <<m>>
  BY ByteMov
<1>2. y \in Mems(D)
  <2>1. <<d, i>> \in BytePlaces(D) /\ ByteFrom(x, s) \in Byte
    BY SourceIsByte DEF BytePlaces
  <2> QED BY <2>1, StoreByte
<1>3. \A z \in Mems(D) : Moves(m, x, z) => z = y
  BY DEF Moves
<1>4. m.op # "lookup" /\ Still(m)
  BY DEF Still
<1> HIDE DEF m, y
<1>5. Runs(D, <<m>>, x, y)
  BY <1>1, <1>2, <1>3, <1>4, RunOne
<1> QED BY <1>1, <1>5 DEF y

LEMMA RunLookup ==
  ASSUME NEW D, "ecx" \in D, NEW x \in Mems(D), NEW d \in D, NEW i \in 0..3, NEW tab \in Tables,
         Fits(x, tab)
  PROVE  Runs(D, Lookup(At(d, i), tab), x, [x EXCEPT ![d][i] = TableByte(tab, IndexIn(x))])
<1> DEFINE m == [op |-> "lookup", dst |-> <<d, i>>, table |-> tab]
           y == [x EXCEPT ![d][i] = TableByte(tab, IndexIn(x))]
<1>1. m \in Movs(D) /\ Lookup(At(d, i), tab) = <<m>>
  BY DEF Movs, BytePlaces, Lookup, At
<1>2. y \in Mems(D)
  <2>1. <<d, i>> \in BytePlaces(D) /\ TableByte(tab, IndexIn(x)) \in Byte
    BY IndexNat, TableBytes DEF BytePlaces, Fits
  <2> QED BY <2>1, StoreByte
<1>3. \A z \in Mems(D) : Moves(m, x, z) => z = y
  BY DEF Moves
<1>4. Still(m) /\ (m.op = "lookup" => Fits(x, m.table))
  BY DEF Still
<1> HIDE DEF m, y
<1>5. Runs(D, <<m>>, x, y)
  BY <1>1, <1>2, <1>3, <1>4, RunOne
<1> QED BY <1>1, <1>5 DEF y

(* One byte of a place, or a whole place, and nothing else, changes. *)
ByteSet(D, x, y, d, i, b) ==
  /\ \A j \in 0..3 : y[d][j] = IF j = i THEN b ELSE x[d][j]
  /\ \A p \in D : p # d => y[p] = x[p]
WordSet(D, x, y, d, w) ==
  /\ y[d] = w
  /\ \A p \in D : p # d => y[p] = x[p]

(* The steps again, by what they change. *)
LEMMA StepMov ==
  ASSUME NEW D, NEW x \in Mems(D), NEW d \in D, NEW s \in D
  PROVE  \E y \in Mems(D) : Runs(D, Mov(d, s), x, y) /\ WordSet(D, x, y, d, x[s])
<1> DEFINE y == [x EXCEPT ![d] = x[s]]
<1>1. Runs(D, Mov(d, s), x, y)
  BY RunMov
<1>2. WordSet(D, x, y, d, x[s])
  BY DEF WordSet, Mems
<1> HIDE DEF y
<1> QED BY <1>1, <1>2 DEF Runs

LEMMA StepImm ==
  ASSUME NEW D, NEW x \in Mems(D), NEW d \in D, NEW n \in Int
  PROVE  \E y \in Mems(D) : Runs(D, MovImm(d, n), x, y) /\ WordSet(D, x, y, d, WordBytes(n))
<1> DEFINE y == [x EXCEPT ![d] = WordBytes(n)]
<1>1. Runs(D, MovImm(d, n), x, y)
  BY RunImm
<1>2. WordSet(D, x, y, d, WordBytes(n))
  BY DEF WordSet, Mems
<1> HIDE DEF y
<1> QED BY <1>1, <1>2 DEF Runs

LEMMA StepByte ==
  ASSUME NEW D, NEW x \in Mems(D), NEW d \in D, NEW i \in 0..3, NEW s \in Sources(D)
  PROVE  \E y \in Mems(D) : Runs(D, Mov8(At(d, i), s), x, y) /\ ByteSet(D, x, y, d, i, ByteFrom(x, s))
<1> DEFINE b == ByteFrom(x, s)
           y == [x EXCEPT ![d][i] = b]
<1>1. Runs(D, Mov8(At(d, i), s), x, y)
  BY RunByte
<1> HIDE DEF b
<1>2. x[d] \in [0..3 -> Byte]
  BY DEF Mems, Word
<1>3. ByteSet(D, x, y, d, i, b)
  BY <1>2 DEF ByteSet, Mems
<1> HIDE DEF y
<1> QED BY <1>1, <1>3 DEF Runs, b

LEMMA StepLookup ==
  ASSUME NEW D, "ecx" \in D, NEW x \in Mems(D), NEW d \in D, NEW i \in 0..3, NEW tab \in Tables,
         Fits(x, tab)
  PROVE  \E y \in Mems(D) : /\ Runs(D, Lookup(At(d, i), tab), x, y)
                            /\ ByteSet(D, x, y, d, i, TableByte(tab, IndexIn(x)))
<1> DEFINE b == TableByte(tab, IndexIn(x))
           y == [x EXCEPT ![d][i] = b]
<1>1. Runs(D, Lookup(At(d, i), tab), x, y)
  BY RunLookup
<1> HIDE DEF b
<1>2. x[d] \in [0..3 -> Byte]
  BY DEF Mems, Word
<1>3. ByteSet(D, x, y, d, i, b)
  BY <1>2 DEF ByteSet, Mems
<1> HIDE DEF y
<1> QED BY <1>1, <1>3 DEF Runs, b

-----------------------------------------------------------------------------
(* The stages of additions and subtractions.                                *)

(* Only places of W change. *)
Beside(D, W, x, y) == \A p \in D \ W : y[p] = x[p]

(* What an index of two operands and a carry is made of.                    *)
Indexing(a, b, c) == b + 256 * a + 65536 * c

LEMMA IndexParts ==
  ASSUME NEW a \in Byte, NEW b \in Byte, NEW c \in {0, 1}
  PROVE  /\ Indexing(a, b, c) \in Nat /\ Indexing(a, b, c) < 131072
         /\ A(Indexing(a, b, c)) = a /\ B(Indexing(a, b, c)) = b /\ CarryIn(Indexing(a, b, c)) = c
<1> DEFINE i == b + 256 * a + 65536 * c
<1>1. a \in 0..255 /\ b \in 0..255 /\ c \in 0..1
  BY DEF Byte
<1>2. i \in Nat /\ i < 131072
  BY SMT, <1>1
<1>3. i % 256 = b
  BY SMT, <1>1
<1>4. i \div 256 = a + 256 * c
  BY SMT, <1>1
<1>5. (a + 256 * c) % 256 = a
  BY SMT, <1>1
<1>6. i \div 65536 = c
  BY SMT, <1>1
<1>7. Indexing(a, b, c) = i
  BY DEF Indexing
<1> HIDE DEF i
<1> QED BY <1>2, <1>3, <1>4, <1>5, <1>6, <1>7 DEF A, B, CarryIn

(* The index, cleared, with the carry of the stage before. *)
LEMMA ZeroAndCarry ==
  ASSUME NEW D, Roomy(D), "idx" \in D, NEW i \in 0..3, NEW x \in Mems(D), NEW c,
         c = IF i = 0 THEN 0 ELSE x["ecx"][0]
  PROVE  \E y \in Mems(D) : /\ Runs(D, emitIdxZero \o CarryInto(i), x, y)
                            /\ Beside(D, {"idx"}, x, y)
                            /\ y["idx"][0] = 0 /\ y["idx"][1] = 0 /\ y["idx"][2] = c /\ y["idx"][3] = 0
<1>1. PICK y \in Mems(D) : Runs(D, emitIdxZero, x, y) /\ WordSet(D, x, y, "idx", WordBytes(0))
  BY StepImm DEF emitIdxZero
<1>2. /\ y["idx"][0] = 0 /\ y["idx"][1] = 0 /\ y["idx"][2] = 0 /\ y["idx"][3] = 0
      /\ Beside(D, {"idx"}, x, y)
  BY <1>1, Immediates DEF WordSet, Beside
<1>3. CASE i = 0
  <2>1. CarryInto(i) = <<>>
    BY <1>3 DEF CarryInto
  <2>2. Runs(D, emitIdxZero \o CarryInto(i), x, y)
    BY <1>1, <2>1, RunSkip, RunThen
  <2> QED BY <1>2, <1>3, <2>2
<1>4. CASE i # 0
  <2>1. CarryInto(i) = Mov8(At("idx", 2), CL) /\ CL \in Sources(D)
    BY <1>4, Registers DEF CarryInto
  <2>2. PICK z \in Mems(D) : /\ Runs(D, CarryInto(i), y, z)
                             /\ ByteSet(D, y, z, "idx", 2, ByteFrom(y, CL))
    BY <2>1, StepByte
  <2>3. ByteFrom(y, CL) = y["ecx"][0]
    BY DEF ByteFrom, CL, At
  <2>4. y["ecx"] = x["ecx"]
    BY <1>2, Registers DEF Beside
  <2>5. Runs(D, emitIdxZero \o CarryInto(i), x, z)
    BY <1>1, <2>2, RunThen
  <2>6. /\ z["idx"][0] = 0 /\ z["idx"][1] = 0 /\ z["idx"][2] = c /\ z["idx"][3] = 0
    BY <1>2, <1>4, <2>2, <2>3, <2>4 DEF ByteSet
  <2>7. Beside(D, {"idx"}, x, z)
    BY <1>2, <2>2 DEF ByteSet, Beside
  <2> QED BY <2>5, <2>6, <2>7
<1> QED BY <1>3, <1>4

(* A byte by way of DL to a place. *)
ViaDL(D, d, k, s, x) ==
  \E y \in Mems(D) :
    /\ Runs(D, Mov8(DL, s) \o Mov8(At(d, k), DL), x, y)
    /\ Beside(D, {"edx", d}, x, y)
    /\ \A j \in 0..3 : y[d][j] = IF j = k THEN ByteFrom(x, s) ELSE x[d][j]

LEMMA ByWayOfDL ==
  ASSUME NEW D, Roomy(D), NEW d \in D \ {"edx"}, NEW k \in 0..3, NEW s \in Sources(D), NEW x \in Mems(D)
  PROVE  ViaDL(D, d, k, s, x)
<1>1. "edx" \in D /\ DL \in Sources(D)
  BY Registers
<1>2. PICK y \in Mems(D) : Runs(D, Mov8(DL, s), x, y) /\ ByteSet(D, x, y, "edx", 0, ByteFrom(x, s))
  BY <1>1, StepByte DEF DL
<1>3. PICK z \in Mems(D) : /\ Runs(D, Mov8(At(d, k), DL), y, z)
                           /\ ByteSet(D, y, z, d, k, ByteFrom(y, DL))
  BY <1>1, StepByte
<1>4. ByteFrom(y, DL) = y["edx"][0]
  BY DEF ByteFrom, DL, At
<1>5. y["edx"][0] = ByteFrom(x, s) /\ y[d] = x[d]
  BY <1>2 DEF ByteSet
<1>6. \A j \in 0..3 : z[d][j] = IF j = k THEN ByteFrom(x, s) ELSE x[d][j]
  BY <1>3, <1>4, <1>5 DEF ByteSet
<1>7. Beside(D, {"edx", d}, x, z)
  BY <1>2, <1>3 DEF ByteSet, Beside
<1> QED BY <1>2, <1>3, <1>6, <1>7, RunThen DEF ViaDL

(* A source that no mov of a stage overwrites before it is read.            *)
Worked == {"ecx", "edx", "idx", "srcdst"}
Steady(s) == "at" \in DOMAIN s => s.at[1] \notin Worked

LEMMA SteadySource ==
  ASSUME NEW D, NEW s \in Sources(D), Steady(s), NEW x, NEW y, Beside(D, Worked, x, y)
  PROVE  ByteFrom(y, s) = ByteFrom(x, s)
<1>1. CASE "at" \in DOMAIN s
  <2>1. s.at \in BytePlaces(D)
    BY <1>1 DEF Sources
  <2>2. s.at[1] \in D \ Worked
    BY <1>1, <2>1 DEF Steady, BytePlaces
  <2>3. y[s.at[1]] = x[s.at[1]]
    BY <2>2 DEF Beside
  <2> QED BY <2>3 DEF ByteFrom
<1>2. CASE "at" \notin DOMAIN s
  <2>1. "byte" \in DOMAIN s
    BY <1>2 DEF Sources
  <2> QED BY <2>1 DEF ByteFrom
<1> QED BY <1>1, <1>2

(* Both operands, packed into a cleared index.                              *)
LEMMA PackBoth ==
  ASSUME NEW D, Roomy(D), "idx" \in D, "srcdst" \in D, NEW i \in 0..3, NEW b \in Sources(D), Steady(b),
         NEW x \in Mems(D), x["idx"][0] = 0
  PROVE  \E y \in Mems(D) :
           /\ Runs(D, emitIdxPackAB(i, b), x, y)
           /\ Beside(D, {"edx", "idx"}, x, y)
           /\ y["idx"][0] = ByteFrom(x, b) /\ y["idx"][1] = x["srcdst"][i]
           /\ y["idx"][2] = x["idx"][2] /\ y["idx"][3] = x["idx"][3]
<1> DEFINE a == At("srcdst", i)
<1>0. \A k \in 0..3, s \in Sources(D), u \in Mems(D) : \E y \in Mems(D) :
        /\ Runs(D, Mov8(DL, s) \o Mov8(At("idx", k), DL), u, y)
        /\ Beside(D, {"edx", "idx"}, u, y)
        /\ \A j \in 0..3 : y["idx"][j] = IF j = k THEN ByteFrom(u, s) ELSE u["idx"][j]
  <2> DEFINE ix == "idx"
  <2>1. ix \in D \ {"edx"}
    OBVIOUS
  <2> HIDE DEF ix
  <2>2. ASSUME NEW k \in 0..3, NEW s \in Sources(D), NEW u \in Mems(D)
        PROVE  ViaDL(D, ix, k, s, u)
    BY <2>1, <2>2, ByWayOfDL
  <2> QED BY <2>2 DEF ix, ViaDL
<1>1. a \in Sources(D) /\ ByteFrom(x, a) = x["srcdst"][i]
  BY SourceTypes DEF ByteFrom, At
<1> HIDE DEF a
<1>2. PICK y \in Mems(D) :
        /\ Runs(D, PackA(a), x, y)
        /\ Beside(D, {"edx", "idx"}, x, y)
        /\ \A j \in 0..3 : y["idx"][j] = IF j = 1 THEN ByteFrom(x, a) ELSE x["idx"][j]
  <2>1. 1 \in 0..3
    OBVIOUS
  <2>2. PackA(a) = Mov8(DL, a) \o Mov8(At("idx", 1), DL)
    BY DEF PackA
  <2>3. \E y \in Mems(D) :
          /\ Runs(D, Mov8(DL, a) \o Mov8(At("idx", 1), DL), x, y)
          /\ Beside(D, {"edx", "idx"}, x, y)
          /\ \A j \in 0..3 : y["idx"][j] = IF j = 1 THEN ByteFrom(x, a) ELSE x["idx"][j]
    BY ONLY <1>0, <1>1, <2>1, x \in Mems(D), Zenon
  <2> QED BY ONLY <2>2, <2>3, Zenon
<1>3. ByteFrom(y, b) = ByteFrom(x, b)
  <2>1. Beside(D, Worked, x, y)
    BY <1>2 DEF Beside, Worked
  <2> QED BY <2>1, SteadySource
<1>4. \E z \in Mems(D) :
        /\ Runs(D, PackB(b), y, z)
        /\ Beside(D, {"edx", "idx"}, y, z)
        /\ \A j \in 0..3 : z["idx"][j] = IF j = 0 THEN ByteFrom(y, b) ELSE y["idx"][j]
  <2>1. CASE "at" \in DOMAIN b
    <3>1. PackB(b) = Mov8(DL, b) \o Mov8(At("idx", 0), DL)
      BY <2>1 DEF PackB
    <3> QED BY <1>0, <3>1
  <2>2. CASE "at" \notin DOMAIN b /\ b.byte = 0
    <3>1. PackB(b) = <<>>
      BY <2>2 DEF PackB
    <3>2. ByteFrom(y, b) = 0 /\ y["idx"][0] = 0
      <4>1. "byte" \in DOMAIN b
        BY <2>2 DEF Sources
      <4> QED BY <1>2, <2>2, <4>1 DEF ByteFrom
    <3>3. Runs(D, PackB(b), y, y)
      BY <3>1, RunSkip
    <3> QED BY <3>2, <3>3 DEF Beside
  <2>3. CASE "at" \notin DOMAIN b /\ b.byte # 0
    <3>1. PackB(b) = Mov8(At("idx", 0), b)
      BY <2>3 DEF PackB
    <3>2. PICK z \in Mems(D) : Runs(D, PackB(b), y, z) /\ ByteSet(D, y, z, "idx", 0, ByteFrom(y, b))
      BY <3>1, StepByte
    <3> QED BY <3>2 DEF ByteSet, Beside
  <2> QED BY <2>1, <2>2, <2>3
<1>5. PICK z \in Mems(D) :
        /\ Runs(D, PackB(b), y, z)
        /\ Beside(D, {"edx", "idx"}, y, z)
        /\ \A j \in 0..3 : z["idx"][j] = IF j = 0 THEN ByteFrom(y, b) ELSE y["idx"][j]
  BY <1>4
<1>6. Runs(D, emitIdxPackAB(i, b), x, z)
  BY <1>2, <1>5, RunThen DEF emitIdxPackAB, a
<1>7. Beside(D, {"edx", "idx"}, x, z)
  BY <1>2, <1>5 DEF Beside
<1>8. /\ z["idx"][0] = ByteFrom(x, b) /\ z["idx"][1] = x["srcdst"][i]
      /\ z["idx"][2] = x["idx"][2] /\ z["idx"][3] = x["idx"][3]
  BY <1>1, <1>2, <1>3, <1>5
<1> QED BY <1>6, <1>7, <1>8

(* The look-up through the index, its result in byte i of srcdst. ECX keeps *)
(* the index.                                                               *)
LooksUp(D, tab, i, x, v) ==
  \E y \in Mems(D) :
    /\ Runs(D, emitTableLookupAndStore(tab, i), x, y)
    /\ Beside(D, {"ecx", "edx", "srcdst"}, x, y)
    /\ y["ecx"] = x["idx"]
    /\ \A j \in 0..3 : y["srcdst"][j] = IF j = i THEN v ELSE x["srcdst"][j]

LEMMA TableLookupRuns ==
  ASSUME NEW D, Roomy(D), "idx" \in D, "srcdst" \in D, NEW i \in 0..3, NEW tab \in ThreePart,
         NEW x \in Mems(D), NEW a \in Byte, NEW b \in Byte, NEW c \in {0, 1},
         x["idx"][0] = b, x["idx"][1] = a, x["idx"][2] = c, x["idx"][3] = 0
  PROVE  LooksUp(D, tab, i, x, TableByte(tab, Indexing(a, b, c)))
<1> DEFINE v == TableByte(tab, Indexing(a, b, c))
<1>1. "ecx" \in D /\ "edx" \in D /\ DL \in Sources(D) /\ tab \in Tables
  BY Registers DEF ThreePart, Tables, TwoByte
<1>2. PICK y \in Mems(D) : Runs(D, Mov("ecx", "idx"), x, y) /\ WordSet(D, x, y, "ecx", x["idx"])
  BY <1>1, StepMov
<1>3. y["ecx"] = x["idx"]
  BY <1>2 DEF WordSet
<1>4. IndexIn(y) = Indexing(a, b, c)
  <2>1. IndexIn(y) = b + 256 * a + 65536 * c
    BY <1>3 DEF IndexIn
  <2> QED BY <2>1 DEF Indexing
<1>5. Fits(y, tab)
  <2>1. y \in Indexed(D)
    BY <1>3 DEF Indexed
  <2> QED BY <1>1, <2>1, IndexedFits
<1> DEFINE dx == "edx"
           sd == "srcdst"
<1>6. dx \in D /\ sd \in D
  BY <1>1
<1> HIDE DEF v, dx, sd
<1>7. PICK z \in Mems(D) : Runs(D, Lookup(At(dx, 0), tab), y, z) /\ ByteSet(D, y, z, dx, 0, v)
  <2>1. 0 \in 0..3
    OBVIOUS
  <2> QED BY <1>1, <1>4, <1>5, <1>6, <2>1, StepLookup DEF v
<1>8. z["edx"][0] = v
  BY <1>7 DEF ByteSet, dx
<1>9. PICK u \in Mems(D) : /\ Runs(D, Mov8(At(sd, i), DL), z, u)
                           /\ ByteSet(D, z, u, sd, i, ByteFrom(z, DL))
  BY <1>1, <1>6, StepByte
<1>10. ByteFrom(z, DL) = v
  BY <1>8 DEF ByteFrom, DL, At
<1>11. Runs(D, emitTableLookupAndStore(tab, i), x, u)
  BY <1>2, <1>7, <1>9, RunThen DEF emitTableLookupAndStore, DL, dx, sd
<1>12. Beside(D, {"ecx", "edx", "srcdst"}, x, u)
  <2>1. \A p \in D : p # "ecx" => y[p] = x[p]
    BY <1>2 DEF WordSet
  <2>2. \A p \in D : p # "edx" => z[p] = y[p]
    BY <1>7 DEF ByteSet, dx
  <2>3. \A p \in D : p # "srcdst" => u[p] = z[p]
    BY <1>9 DEF ByteSet, sd
  <2> QED BY <2>1, <2>2, <2>3 DEF Beside
<1>13. u["ecx"] = x["idx"]
  <2>1. z["ecx"] = y["ecx"]
    BY <1>1, <1>7 DEF ByteSet, dx
  <2>2. u["ecx"] = z["ecx"]
    BY <1>1, <1>9 DEF ByteSet, sd
  <2> QED BY <1>3, <2>1, <2>2
<1>14. \A j \in 0..3 : u["srcdst"][j] = IF j = i THEN v ELSE x["srcdst"][j]
  <2>1. y["srcdst"] = x["srcdst"]
    BY <1>2 DEF WordSet
  <2>2. z["srcdst"] = y["srcdst"]
    BY <1>7 DEF ByteSet, dx
  <2> QED BY <1>9, <1>10, <2>1, <2>2 DEF ByteSet, sd
<1> QED BY <1>11, <1>12, <1>13, <1>14 DEF LooksUp, v

(* The carry of the stage, which ECX still has the index for.               *)
CarriesOut(D, tab, i, x, v) ==
  \E y \in Mems(D) :
    /\ Runs(D, CarryOut(tab, i), x, y)
    /\ Beside(D, {"ecx"}, x, y)
    /\ i < 3 => y["ecx"][0] = v

LEMMA CarryOutRuns ==
  ASSUME NEW D, Roomy(D), NEW i \in 0..3, NEW tab \in ThreePart,
         NEW x \in Mems(D), NEW a \in Byte, NEW b \in Byte, NEW c \in {0, 1},
         x["ecx"][0] = b, x["ecx"][1] = a, x["ecx"][2] = c, x["ecx"][3] = 0
  PROVE  CarriesOut(D, tab, i, x, TableByte(tab, Indexing(a, b, c)))
<1> DEFINE v == TableByte(tab, Indexing(a, b, c))
<1>1. "ecx" \in D /\ tab \in Tables
  BY Registers DEF ThreePart, Tables, TwoByte
<1>2. IndexIn(x) = Indexing(a, b, c)
  <2>1. IndexIn(x) = b + 256 * a + 65536 * c
    BY DEF IndexIn
  <2> QED BY <2>1 DEF Indexing
<1>3. Fits(x, tab)
  <2>1. x \in Indexed(D)
    BY DEF Indexed
  <2> QED BY <1>1, <2>1, IndexedFits
<1> DEFINE cx == "ecx"
<1>4. cx \in D
  BY <1>1
<1> HIDE DEF v, cx
<1>5. CASE i < 3
  <2>1. PICK y \in Mems(D) : Runs(D, Lookup(At(cx, 0), tab), x, y) /\ ByteSet(D, x, y, cx, 0, v)
    <3>1. 0 \in 0..3
      OBVIOUS
    <3> QED BY <1>1, <1>2, <1>3, <1>4, <3>1, StepLookup DEF v
  <2>2. CarryOut(tab, i) = Lookup(At(cx, 0), tab)
    BY <1>5 DEF CarryOut, CL, cx
  <2>3. Beside(D, {"ecx"}, x, y) /\ y["ecx"][0] = v
    BY <2>1 DEF ByteSet, Beside, cx
  <2> QED BY <2>1, <2>2, <2>3 DEF CarriesOut, v
<1>6. CASE ~(i < 3)
  <2>1. CarryOut(tab, i) = <<>>
    BY <1>6 DEF CarryOut
  <2>2. Runs(D, CarryOut(tab, i), x, x) /\ Beside(D, {"ecx"}, x, x)
    BY <2>1, RunSkip DEF Beside
  <2> QED BY <1>6, <2>2 DEF CarriesOut
<1> QED BY <1>5, <1>6

(* One stage: byte i of srcdst becomes the table's byte, and CL the carry.  *)
SumStage(st, ct, i, b) ==
  emitIdxZero \o CarryInto(i) \o emitIdxPackAB(i, b) \o emitTableLookupAndStore(st, i)
  \o CarryOut(ct, i)
SumsByte(D, st, ct, i, b, x, v, w) ==
  \E y \in Mems(D) :
    /\ Runs(D, SumStage(st, ct, i, b), x, y)
    /\ Beside(D, Worked, x, y)
    /\ \A j \in 0..3 : y["srcdst"][j] = IF j = i THEN v ELSE x["srcdst"][j]
    /\ i < 3 => y["ecx"][0] = w

LEMMA StageRuns ==
  ASSUME NEW D, Roomy(D), "idx" \in D, "srcdst" \in D, NEW i \in 0..3,
         NEW st \in ThreePart, NEW ct \in ThreePart, NEW s \in Sources(D), Steady(s), NEW x \in Mems(D),
         NEW c \in {0, 1}, i # 0 => x["ecx"][0] = c, i = 0 => c = 0, NEW n,
         n = Indexing(x["srcdst"][i], ByteFrom(x, s), c)
  PROVE  SumsByte(D, st, ct, i, s, x, TableByte(st, n), TableByte(ct, n))
<1> DEFINE a == x["srcdst"][i]
           b == ByteFrom(x, s)
<1>1. a \in Byte /\ b \in Byte
  BY SourceIsByte DEF Mems, Word
<1>2. PICK y \in Mems(D) : /\ Runs(D, emitIdxZero \o CarryInto(i), x, y)
                           /\ Beside(D, {"idx"}, x, y)
                           /\ y["idx"][0] = 0 /\ y["idx"][1] = 0 /\ y["idx"][2] = c /\ y["idx"][3] = 0
  <2>1. c = IF i = 0 THEN 0 ELSE x["ecx"][0]
    OBVIOUS
  <2> QED BY <2>1, ZeroAndCarry
<1>3. PICK z \in Mems(D) :
           /\ Runs(D, emitIdxPackAB(i, s), y, z)
           /\ Beside(D, {"edx", "idx"}, y, z)
           /\ z["idx"][0] = ByteFrom(y, s) /\ z["idx"][1] = y["srcdst"][i]
           /\ z["idx"][2] = y["idx"][2] /\ z["idx"][3] = y["idx"][3]
  BY <1>2, PackBoth
<1>4. ByteFrom(y, s) = b
  <2>1. Beside(D, Worked, x, y)
    BY <1>2 DEF Beside, Worked
  <2> QED BY <2>1, SteadySource
<1>5. y["srcdst"] = x["srcdst"] /\ z["srcdst"] = y["srcdst"]
  BY <1>2, <1>3 DEF Beside
<1>6. z["idx"][0] = b /\ z["idx"][1] = a /\ z["idx"][2] = c /\ z["idx"][3] = 0
  BY <1>2, <1>3, <1>4, <1>5
<1>7. n = Indexing(a, b, c)
  OBVIOUS
<1> HIDE DEF a, b
<1>8. LooksUp(D, st, i, z, TableByte(st, n))
  BY <1>1, <1>6, <1>7, TableLookupRuns
<1>9. PICK u \in Mems(D) :
    /\ Runs(D, emitTableLookupAndStore(st, i), z, u)
    /\ Beside(D, {"ecx", "edx", "srcdst"}, z, u)
    /\ u["ecx"] = z["idx"]
    /\ \A j \in 0..3 : u["srcdst"][j] = IF j = i THEN TableByte(st, n) ELSE z["srcdst"][j]
  BY <1>8 DEF LooksUp
<1>10. CarriesOut(D, ct, i, u, TableByte(ct, n))
  BY <1>1, <1>6, <1>7, <1>9, CarryOutRuns
<1>11. PICK v \in Mems(D) :
    /\ Runs(D, CarryOut(ct, i), u, v)
    /\ Beside(D, {"ecx"}, u, v)
    /\ i < 3 => v["ecx"][0] = TableByte(ct, n)
  BY <1>10 DEF CarriesOut
<1>12. Runs(D, SumStage(st, ct, i, s), x, v)
  BY <1>2, <1>3, <1>9, <1>11, RunThen DEF SumStage
<1>13. Beside(D, Worked, x, v)
  BY <1>2, <1>3, <1>9, <1>11 DEF Beside, Worked
<1>14. v["srcdst"] = u["srcdst"]
  BY <1>11 DEF Beside
<1> QED BY <1>5, <1>9, <1>11, <1>12, <1>13, <1>14 DEF SumsByte

(* The word that four stages make of two words, through a table of bytes    *)
(* and one of carries: the index of each, and the bytes.                    *)
Index0(a, b) == Indexing(a[0], b[0], 0)
Index1(ct, a, b) == Indexing(a[1], b[1], TableByte(ct, Index0(a, b)))
Index2(ct, a, b) == Indexing(a[2], b[2], TableByte(ct, Index1(ct, a, b)))
Index3(ct, a, b) == Indexing(a[3], b[3], TableByte(ct, Index2(ct, a, b)))
IsSum(st, ct, a, b, w) ==
  /\ w[0] = TableByte(st, Index0(a, b)) /\ w[1] = TableByte(st, Index1(ct, a, b))
  /\ w[2] = TableByte(st, Index2(ct, a, b)) /\ w[3] = TableByte(st, Index3(ct, a, b))
FourSums(st, ct, s) ==
  SumStage(st, ct, 0, s[0]) \o SumStage(st, ct, 1, s[1]) \o SumStage(st, ct, 2, s[2])
  \o SumStage(st, ct, 3, s[3])

(* The carry out of a stage is 0 or 1, so that the index of the next one is *)
(* one of the table.                                                        *)
LEMMA CarryChain ==
  ASSUME NEW ct \in CarryTables, NEW a \in Word, NEW b \in Word
  PROVE  /\ TableByte(ct, Index0(a, b)) \in {0, 1}
         /\ TableByte(ct, Index1(ct, a, b)) \in {0, 1}
         /\ TableByte(ct, Index2(ct, a, b)) \in {0, 1}
<1>1. a[0] \in Byte /\ a[1] \in Byte /\ a[2] \in Byte /\ b[0] \in Byte /\ b[1] \in Byte /\ b[2] \in Byte
  BY DEF Word
<1>2. ASSUME NEW p \in Byte, NEW q \in Byte, NEW c \in {0, 1}
      PROVE  TableByte(ct, Indexing(p, q, c)) \in {0, 1}
  BY IndexParts, CarryByte
<1> DEFINE zero == 0
<1>3. zero \in {0, 1}
  OBVIOUS
<1> HIDE DEF zero
<1>4. TableByte(ct, Index0(a, b)) \in {0, 1}
  BY <1>1, <1>2, <1>3 DEF Index0, zero
<1>5. TableByte(ct, Index1(ct, a, b)) \in {0, 1}
  BY <1>1, <1>2, <1>4 DEF Index1
<1>6. TableByte(ct, Index2(ct, a, b)) \in {0, 1}
  BY <1>1, <1>2, <1>5 DEF Index2
<1> QED BY <1>4, <1>5, <1>6

SumsWord(D, st, ct, s, x, b) ==
  \E y \in Mems(D) :
    /\ Runs(D, FourSums(st, ct, s), x, y)
    /\ Beside(D, Worked, x, y)
    /\ IsSum(st, ct, x["srcdst"], b, y["srcdst"])

(* One stage after another. *)
LEMMA SumRuns ==
  ASSUME NEW D, Roomy(D), "idx" \in D, "srcdst" \in D, NEW st \in ThreePart,
         NEW ct \in CarryTables, NEW s \in [0..3 -> Sources(D)], \A i \in 0..3 : Steady(s[i]),
         NEW x \in Mems(D), NEW b \in Word, \A i \in 0..3 : b[i] = ByteFrom(x, s[i])
  PROVE  SumsWord(D, st, ct, s, x, b)
<1> DEFINE a == x["srcdst"]
           Next0(y, z, i, n) ==
             /\ Runs(D, SumStage(st, ct, i, s[i]), y, z)
             /\ Beside(D, Worked, y, z)
             /\ \A j \in 0..3 : z["srcdst"][j] = IF j = i THEN TableByte(st, n) ELSE y["srcdst"][j]
             /\ i < 3 => z["ecx"][0] = TableByte(ct, n)
<1>1. ct \in ThreePart /\ a \in Word
  BY DEF CarryTables, ThreePart, AddTables, SubTables, Mems
<1>2. ASSUME NEW i \in 0..3, NEW y \in Mems(D), Beside(D, Worked, x, y), y["srcdst"][i] = a[i],
             NEW c \in {0, 1}, i # 0 => y["ecx"][0] = c, i = 0 => c = 0, NEW n,
             n = Indexing(a[i], b[i], c)
      PROVE  \E z \in Mems(D) : Next0(y, z, i, n)
  <2>1. ByteFrom(y, s[i]) = b[i]
    <3>1. s[i] \in Sources(D) /\ Steady(s[i]) /\ b[i] = ByteFrom(x, s[i])
      OBVIOUS
    <3> QED BY <1>2, <3>1, SteadySource
  <2>2. n = Indexing(y["srcdst"][i], ByteFrom(y, s[i]), c)
    BY <1>2, <2>1
  <2>3. SumsByte(D, st, ct, i, s[i], y, TableByte(st, n), TableByte(ct, n))
    <3>1. s[i] \in Sources(D) /\ Steady(s[i])
      OBVIOUS
    <3> HIDE DEF a
    <3> QED BY ONLY <1>1, <1>2, <2>2, <3>1, StageRuns, Roomy(D), "idx" \in D, "srcdst" \in D, st \in ThreePart
  <2> QED BY <2>3 DEF SumsByte
<1> DEFINE k0 == 0
           k1 == 1
           k2 == 2
           k3 == 3
<1>3. /\ k0 \in 0..3 /\ k1 \in 0..3 /\ k2 \in 0..3 /\ k3 \in 0..3
      /\ k0 \in {0, 1} /\ k1 # 0 /\ k2 # 0 /\ k3 # 0 /\ k0 < 3 /\ k1 < 3 /\ k2 < 3
      /\ k0 # k1 /\ k0 # k2 /\ k0 # k3 /\ k1 # k2 /\ k1 # k3 /\ k2 # k3
  OBVIOUS
<1>4. Beside(D, Worked, x, x)
  BY DEF Beside
<1> DEFINE n0 == Index0(a, b)
           n1 == Index1(ct, a, b)
           n2 == Index2(ct, a, b)
           n3 == Index3(ct, a, b)
           c1 == TableByte(ct, n0)
           c2 == TableByte(ct, n1)
           c3 == TableByte(ct, n2)
<1>5. c1 \in {0, 1} /\ c2 \in {0, 1} /\ c3 \in {0, 1}
  BY <1>1, CarryChain
<1>6. /\ n0 = Indexing(a[k0], b[k0], k0) /\ n1 = Indexing(a[k1], b[k1], c1)
      /\ n2 = Indexing(a[k2], b[k2], c2) /\ n3 = Indexing(a[k3], b[k3], c3)
  BY DEF Index0, Index1, Index2, Index3
<1>7. k0 = 0
  OBVIOUS
<1> HIDE DEF a, Next0, n0, n1, n2, n3, c1, c2, c3
<1>8. x["srcdst"] = a
  BY DEF a
<1> HIDE DEF k0, k1, k2, k3
<1>9. PICK y \in Mems(D) : Next0(x, y, k0, n0)
  BY <1>2, <1>3, <1>4, <1>6, <1>7, <1>8
<1>10. /\ Beside(D, Worked, x, y) /\ y["srcdst"][k1] = a[k1] /\ y["srcdst"][k2] = a[k2]
       /\ y["srcdst"][k3] = a[k3] /\ y["srcdst"][k0] = TableByte(st, n0) /\ y["ecx"][0] = c1
  BY <1>3, <1>8, <1>9 DEF Next0, c1
<1>11. PICK z \in Mems(D) : Next0(y, z, k1, n1)
  BY <1>2, <1>3, <1>5, <1>6, <1>10
<1>12. /\ Beside(D, Worked, x, z) /\ z["srcdst"][k2] = a[k2] /\ z["srcdst"][k3] = a[k3]
       /\ z["srcdst"][k0] = TableByte(st, n0) /\ z["srcdst"][k1] = TableByte(st, n1)
       /\ z["ecx"][0] = c2
  <2>1. Beside(D, Worked, x, z)
    BY <1>10, <1>11 DEF Next0, Beside
  <2> QED BY <1>3, <1>10, <1>11, <2>1 DEF Next0, c2
<1>13. PICK u \in Mems(D) : Next0(z, u, k2, n2)
  BY <1>2, <1>3, <1>5, <1>6, <1>12
<1>14. /\ Beside(D, Worked, x, u) /\ u["srcdst"][k3] = a[k3]
       /\ u["srcdst"][k0] = TableByte(st, n0) /\ u["srcdst"][k1] = TableByte(st, n1)
       /\ u["srcdst"][k2] = TableByte(st, n2) /\ u["ecx"][0] = c3
  <2>1. Beside(D, Worked, x, u)
    BY <1>12, <1>13 DEF Next0, Beside
  <2> QED BY <1>3, <1>12, <1>13, <2>1 DEF Next0, c3
<1>15. PICK v \in Mems(D) : Next0(u, v, k3, n3)
  BY <1>2, <1>3, <1>5, <1>6, <1>14
<1>16. /\ Beside(D, Worked, x, v)
       /\ v["srcdst"][k0] = TableByte(st, n0) /\ v["srcdst"][k1] = TableByte(st, n1)
       /\ v["srcdst"][k2] = TableByte(st, n2) /\ v["srcdst"][k3] = TableByte(st, n3)
  <2>1. Beside(D, Worked, x, v)
    BY <1>14, <1>15 DEF Next0, Beside
  <2> QED BY <1>3, <1>14, <1>15, <2>1 DEF Next0
<1>17. IsSum(st, ct, x["srcdst"], b, v["srcdst"])
  BY <1>16 DEF IsSum, a, n0, n1, n2, n3, k0, k1, k2, k3
<1>18. Runs(D, FourSums(st, ct, s), x, v)
  <2>1. /\ Runs(D, SumStage(st, ct, 0, s[0]), x, y) /\ Runs(D, SumStage(st, ct, 1, s[1]), y, z)
        /\ Runs(D, SumStage(st, ct, 2, s[2]), z, u) /\ Runs(D, SumStage(st, ct, 3, s[3]), u, v)
    BY <1>9, <1>11, <1>13, <1>15 DEF Next0, k0, k1, k2, k3
  <2> QED BY <2>1, RunThen DEF FourSums
<1> QED BY <1>16, <1>17, <1>18 DEF SumsWord

(* The effect of a rewritten instruction on the registers.                  *)
Alters(D, c, x, d, w) ==
  \E y \in Mems(D) : Runs(D, c, x, y) /\ y[d] = w /\ \A p \in Regs \ {d} : y[p] = x[p]

(* What goes before the stages, and what comes after.                       *)
Opened(D, x, y, d) ==
  /\ Beside(D, {"save_ecx", "save_edx", "srcdst", "rhs"}, x, y)
  /\ y["srcdst"] = x[d] /\ y["save_ecx"] = x["ecx"] /\ y["save_edx"] = x["edx"]

LEMMA Opens ==
  ASSUME NEW D, Based(D), NEW d \in GPR32, NEW x \in Mems(D)
  PROVE  \E y \in Mems(D) : /\ Runs(D, SaveRegs \o Mov("srcdst", d), x, y)
                            /\ Opened(D, x, y, d)
<1>1. /\ "save_ecx" \in D /\ "save_edx" \in D /\ "srcdst" \in D /\ "ecx" \in D /\ "edx" \in D
      /\ d \in D /\ d \notin {"save_ecx", "save_edx", "srcdst"}
  BY BaseUse, Registers DEF GPR32, Regs
<1>2. PICK y \in Mems(D) : /\ Runs(D, Mov("save_ecx", "ecx"), x, y)
                           /\ WordSet(D, x, y, "save_ecx", x["ecx"])
  BY <1>1, StepMov
<1>3. PICK z \in Mems(D) : /\ Runs(D, Mov("save_edx", "edx"), y, z)
                           /\ WordSet(D, y, z, "save_edx", y["edx"])
  BY <1>1, StepMov
<1>4. PICK u \in Mems(D) : Runs(D, Mov("srcdst", d), z, u) /\ WordSet(D, z, u, "srcdst", z[d])
  BY <1>1, StepMov
<1>5. Runs(D, SaveRegs \o Mov("srcdst", d), x, u)
  BY <1>2, <1>3, <1>4, RunThen DEF SaveRegs
<1>6. Opened(D, x, u, d)
  BY <1>1, <1>2, <1>3, <1>4 DEF Opened, Beside, WordSet
<1> QED BY <1>5, <1>6

(* What stands after the work: the registers restored, the result moved out. *)
LEMMA Closes ==
  ASSUME NEW D, Based(D), NEW d \in GPR32, NEW c, NEW x, NEW z, Runs(D, c, x, z),
         z["save_ecx"] = x["ecx"], z["save_edx"] = x["edx"],
         \A p \in Regs \ {"ecx", "edx"} : z[p] = x[p]
  PROVE  Alters(D, c \o RestoreRegs \o Mov(d, "srcdst"), x, d, z["srcdst"])
<1>1. /\ "save_ecx" \in D /\ "save_edx" \in D /\ "srcdst" \in D /\ "ecx" \in D /\ "edx" \in D
      /\ d \in D /\ Regs \subseteq D /\ Regs \cap {"save_ecx", "save_edx", "srcdst"} = {}
      /\ z \in Mems(D)
  BY BaseUse, Registers DEF GPR32, Regs, Roomy, Runs
<1>2. PICK u \in Mems(D) : /\ Runs(D, Mov("ecx", "save_ecx"), z, u)
                           /\ WordSet(D, z, u, "ecx", z["save_ecx"])
  BY <1>1, StepMov
<1>3. PICK v \in Mems(D) : /\ Runs(D, Mov("edx", "save_edx"), u, v)
                           /\ WordSet(D, u, v, "edx", u["save_edx"])
  BY <1>1, StepMov
<1>4. PICK t \in Mems(D) : Runs(D, Mov(d, "srcdst"), v, t) /\ WordSet(D, v, t, d, v["srcdst"])
  BY <1>1, StepMov
<1>5. Runs(D, c \o RestoreRegs \o Mov(d, "srcdst"), x, t)
  BY <1>2, <1>3, <1>4, RunThen DEF RestoreRegs
<1>6. v["srcdst"] = z["srcdst"] /\ u["save_edx"] = z["save_edx"]
  BY <1>1, <1>2, <1>3 DEF WordSet
<1>7. \A p \in Regs : v[p] = x[p]
  <2>1. v["edx"] = x["edx"] /\ u["ecx"] = x["ecx"]
    BY <1>2, <1>3, <1>6 DEF WordSet
  <2>2. v["ecx"] = u["ecx"]
    BY <1>1, <1>3 DEF WordSet
  <2>3. \A p \in Regs \ {"ecx", "edx"} : v[p] = z[p]
    BY <1>1, <1>2, <1>3 DEF WordSet
  <2> QED BY <2>1, <2>2, <2>3
<1>8. t[d] = z["srcdst"] /\ \A p \in Regs \ {d} : t[p] = x[p]
  BY <1>1, <1>4, <1>6, <1>7 DEF WordSet
<1> QED BY <1>5, <1>8 DEF Alters

(* The stages between.                                                      *)
LEMMA Encloses ==
  ASSUME NEW D, Based(D), NEW d \in GPR32, NEW x \in Mems(D), NEW y, NEW z, NEW f,
         Runs(D, f, x, z), Opened(D, x, y, d), Beside(D, Worked, y, z)
  PROVE  Alters(D, f \o RestoreRegs \o Mov(d, "srcdst"), x, d, z["srcdst"])
<1>1. /\ "save_ecx" \in D /\ "save_edx" \in D
      /\ Regs \subseteq D /\ Regs \cap {"save_ecx", "save_edx", "srcdst", "rhs", "idx"} = {}
  BY BaseUse, Registers DEF GPR32, Regs, Roomy
<1>2. z["save_ecx"] = x["ecx"] /\ z["save_edx"] = x["edx"]
  BY <1>1 DEF Opened, Beside, Worked
<1>3. \A p \in Regs \ {"ecx", "edx"} : z[p] = x[p]
  BY <1>1 DEF Opened, Beside, Worked
<1> QED BY <1>2, <1>3, Closes

(* What a sum or a difference alters.                                       *)
SumOf(st, ct, a, b) ==
  [i \in 0..3 |-> TableByte(st, IF i = 0 THEN Index0(a, b) ELSE IF i = 1 THEN Index1(ct, a, b)
                                ELSE IF i = 2 THEN Index2(ct, a, b) ELSE Index3(ct, a, b))]

LEMMA SumIsOne ==
  ASSUME NEW st, NEW ct, NEW a, NEW b, NEW w \in Word, IsSum(st, ct, a, b, w)
  PROVE  w = SumOf(st, ct, a, b)
<1> DEFINE v == SumOf(st, ct, a, b)
<1>1. v[0] = w[0] /\ v[1] = w[1] /\ v[2] = w[2] /\ v[3] = w[3]
  BY DEF SumOf, IsSum
<1>2. DOMAIN v = 0..3 /\ v = [i \in 0..3 |-> v[i]]
  BY DEF SumOf
<1>3. w = [i \in 0..3 |-> w[i]]
  BY DEF Word
<1> HIDE DEF v
<1>4. \A i \in 0..3 : i = 0 \/ i = 1 \/ i = 2 \/ i = 3
  OBVIOUS
<1>5. \A i \in 0..3 : v[i] = w[i]
  BY <1>1, <1>4
<1>6. w = v
  BY <1>2, <1>3, <1>5
<1> QED BY <1>6 DEF v

(* An immediate operand, and one in a register.                             *)
LEMMA SumOfImm ==
  ASSUME NEW D, Based(D), NEW d \in GPR32, NEW n \in Int, NEW st \in ThreePart,
         NEW ct \in CarryTables, NEW s \in [0..3 -> Sources(D)],
         \A i \in 0..3 : s[i] = Imm(ImmByte(n, i)), NEW x \in Mems(D)
  PROVE  Alters(D, Between(d, FourSums(st, ct, s)), x, d, SumOf(st, ct, x[d], WordBytes(n)))
<1>1. Roomy(D) /\ "idx" \in D /\ "srcdst" \in D
  BY BaseUse
<1>2. PICK y \in Mems(D) : Runs(D, SaveRegs \o Mov("srcdst", d), x, y) /\ Opened(D, x, y, d)
  BY Opens
<1>3. WordBytes(n) \in Word /\ \A i \in 0..3 : WordBytes(n)[i] = ImmByte(n, i)
  BY Immediates DEF WordBytes
<1>4. \A i \in 0..3 : Steady(s[i]) /\ ByteFrom(y, s[i]) = ImmByte(n, i)
  BY DEF Steady, Imm, ByteFrom
<1> DEFINE b == WordBytes(n)
<1>5. b \in Word /\ \A i \in 0..3 : b[i] = ByteFrom(y, s[i])
  BY <1>3, <1>4
<1> HIDE DEF b
<1>6. SumsWord(D, st, ct, s, y, b)
  BY <1>1, <1>4, <1>5, SumRuns
<1>7. PICK z \in Mems(D) : /\ Runs(D, FourSums(st, ct, s), y, z) /\ Beside(D, Worked, y, z)
                           /\ IsSum(st, ct, y["srcdst"], b, z["srcdst"])
  BY <1>6 DEF SumsWord
<1>8. y["srcdst"] = x[d] /\ z["srcdst"] \in Word
  BY <1>1, <1>2 DEF Opened, Mems
<1>9. z["srcdst"] = SumOf(st, ct, x[d], b)
  BY <1>7, <1>8, SumIsOne
<1> DEFINE f == SaveRegs \o Mov("srcdst", d) \o FourSums(st, ct, s)
<1>10. Runs(D, f, x, z)
  BY <1>2, <1>7, RunThen
<1> HIDE DEF f
<1>11. Alters(D, f \o RestoreRegs \o Mov(d, "srcdst"), x, d, z["srcdst"])
  BY <1>2, <1>7, <1>10, Encloses
<1> QED BY <1>9, <1>11 DEF Between, b, f

(* The same with a register for the second operand.                         *)
LEMMA SumOfReg ==
  ASSUME NEW D, Based(D), "rhs" \in D, NEW in, in.dst \in GPR32, in.src \in GPR32,
         NEW st \in ThreePart, NEW ct \in CarryTables, NEW s \in [0..3 -> Sources(D)],
         \A i \in 0..3 : s[i] = At("rhs", i), NEW x \in Mems(D)
  PROVE  Alters(D, BetweenRR(in, FourSums(st, ct, s)), x, in.dst,
                SumOf(st, ct, x[in.dst], x[in.src]))
<1> DEFINE d == in.dst
           b == x[in.src]
<1>1. Roomy(D) /\ "idx" \in D /\ "srcdst" \in D /\ in.src \in D /\ d \in GPR32
  BY BaseUse, Registers
<1>2. PICK y \in Mems(D) : Runs(D, SaveRegs \o Mov("srcdst", d), x, y) /\ Opened(D, x, y, d)
  BY <1>1, Opens
<1>3. PICK z \in Mems(D) : Runs(D, Mov("rhs", in.src), y, z) /\ WordSet(D, y, z, "rhs", y[in.src])
  BY <1>1, StepMov
<1>4. y[in.src] = b
  BY <1>1, <1>2 DEF Opened, Beside, GPR32, Regs
<1>5. Opened(D, x, z, d) /\ z["rhs"] = b
  <2>1. "save_ecx" \in D /\ "save_edx" \in D
    BY BaseUse
  <2>2. z["save_ecx"] = y["save_ecx"] /\ z["save_edx"] = y["save_edx"] /\ z["srcdst"] = y["srcdst"]
    BY <1>1, <1>3, <2>1 DEF WordSet
  <2>3. Beside(D, {"save_ecx", "save_edx", "srcdst", "rhs"}, x, z)
    BY <1>2, <1>3 DEF Opened, Beside, WordSet
  <2> QED BY <1>2, <1>3, <1>4, <2>2, <2>3 DEF Opened, WordSet
<1>6. b \in Word
  BY <1>1 DEF Mems
<1>7. \A i \in 0..3 : Steady(s[i]) /\ ByteFrom(z, s[i]) = b[i]
  BY <1>5 DEF Steady, At, ByteFrom, Worked
<1> HIDE DEF b
<1>8. SumsWord(D, st, ct, s, z, b)
  BY <1>1, <1>6, <1>7, SumRuns
<1>9. PICK u \in Mems(D) : /\ Runs(D, FourSums(st, ct, s), z, u) /\ Beside(D, Worked, z, u)
                           /\ IsSum(st, ct, z["srcdst"], b, u["srcdst"])
  BY <1>8 DEF SumsWord
<1>10. z["srcdst"] = x[d] /\ u["srcdst"] \in Word
  BY <1>1, <1>5 DEF Opened, Mems
<1> HIDE DEF d
<1>11. u["srcdst"] = SumOf(st, ct, x[d], b)
  BY <1>9, <1>10, SumIsOne
<1> DEFINE c == SaveRegs \o Mov("srcdst", d) \o Mov("rhs", in.src)
           f == c \o FourSums(st, ct, s)
<1>12. Runs(D, f, x, u)
  BY <1>2, <1>3, <1>9, RunThen
<1> HIDE DEF f
<1>13. Alters(D, f \o RestoreRegs \o Mov(d, "srcdst"), x, d, u["srcdst"])
  BY <1>1, <1>5, <1>9, <1>12, Encloses
<1> QED BY <1>11, <1>13 DEF BetweenRR, b, c, d, f

(* The rewrites of additions and subtractions. No code is emitted for an    *)
(* immediate of 0.                                                          *)
LEMMA AltersNothing ==
  ASSUME NEW D, NEW x \in Mems(D), NEW d
  PROVE  Alters(D, <<>>, x, d, x[d])
  BY RunSkip DEF Alters

(* The tables of sums and differences come in pairs.                        *)
LEMMA ArithmeticTables ==
  /\ <<"add8_sum">> \in ThreePart /\ <<"add8_carry">> \in CarryTables
  /\ <<"sub8_diff">> \in ThreePart /\ <<"sub8_borrow">> \in CarryTables
  BY DEF ThreePart, CarryTables, AddTables, SubTables

SumBy(st, ct, a, n) == IF n = 0 THEN a ELSE SumOf(st, ct, a, WordBytes(n))

LEMMA AddSubRIAlters ==
  ASSUME NEW D, Based(D), NEW in, in.dst \in GPR32, in.imm \in Int, NEW x \in Mems(D)
  PROVE  /\ Alters(D, legalizeADD32ri(in), x, in.dst,
                   SumBy(<<"add8_sum">>, <<"add8_carry">>, x[in.dst], in.imm))
         /\ Alters(D, legalizeSUB32ri(in), x, in.dst,
                   SumBy(<<"sub8_diff">>, <<"sub8_borrow">>, x[in.dst], in.imm))
<1> DEFINE d == in.dst
           n == in.imm
           s == [i \in 0..3 |-> Imm(ImmByte(n, i))]
           add(i) == emitByteStageAdd(i, Imm(ImmByte(n, i)))
           sub(i) == emitByteStageSub(i, Imm(ImmByte(n, i)))
<1>1. d \in GPR32 /\ n \in Int /\ s \in [0..3 -> Sources(D)]
  BY SourceTypes
<1>2. \A i \in 0..3 : s[i] = Imm(ImmByte(n, i))
  OBVIOUS
<1>3. s[0] = Imm(ImmByte(n, 0)) /\ s[1] = Imm(ImmByte(n, 1)) /\ s[2] = Imm(ImmByte(n, 2))
      /\ s[3] = Imm(ImmByte(n, 3))
  OBVIOUS
<1> HIDE DEF s
<1>4. /\ Upward(add) = FourSums(<<"add8_sum">>, <<"add8_carry">>, s)
      /\ Upward(sub) = FourSums(<<"sub8_diff">>, <<"sub8_borrow">>, s)
  BY <1>3 DEF Upward, FourSums, SumStage, emitByteStageAdd, emitByteStageSub
<1>5. /\ legalizeADD32ri(in) = IF n = 0 THEN <<>> ELSE Between(d, Upward(add))
      /\ legalizeSUB32ri(in) = IF n = 0 THEN <<>> ELSE Between(d, Upward(sub))
  BY DEF legalizeADD32ri, legalizeSUB32ri
<1> HIDE DEF d, n, add, sub
<1>6. Alters(D, Between(d, FourSums(<<"add8_sum">>, <<"add8_carry">>, s)), x, d,
             SumOf(<<"add8_sum">>, <<"add8_carry">>, x[d], WordBytes(n)))
  BY <1>1, <1>2, ArithmeticTables, SumOfImm
<1>7. Alters(D, Between(d, FourSums(<<"sub8_diff">>, <<"sub8_borrow">>, s)), x, d,
             SumOf(<<"sub8_diff">>, <<"sub8_borrow">>, x[d], WordBytes(n)))
  BY <1>1, <1>2, ArithmeticTables, SumOfImm
<1> QED BY <1>4, <1>5, <1>6, <1>7, AltersNothing DEF SumBy, d, n

(* Two registers added or subtracted.                                       *)
LEMMA AddSubRRAlters ==
  ASSUME NEW D, Based(D), "rhs" \in D, NEW in, in.dst \in GPR32, in.src \in GPR32, NEW x \in Mems(D)
  PROVE  /\ Alters(D, legalizeADD32rr(in), x, in.dst,
                   SumOf(<<"add8_sum">>, <<"add8_carry">>, x[in.dst], x[in.src]))
         /\ Alters(D, legalizeSUB32rr(in), x, in.dst,
                   SumOf(<<"sub8_diff">>, <<"sub8_borrow">>, x[in.dst], x[in.src]))
<1> DEFINE s == [i \in 0..3 |-> At("rhs", i)]
           add(i) == emitByteStageAdd(i, At("rhs", i))
           sub(i) == emitByteStageSub(i, At("rhs", i))
<1>1. s \in [0..3 -> Sources(D)]
  BY SourceTypes
<1>2. \A i \in 0..3 : s[i] = At("rhs", i)
  OBVIOUS
<1>3. s[0] = At("rhs", 0) /\ s[1] = At("rhs", 1) /\ s[2] = At("rhs", 2) /\ s[3] = At("rhs", 3)
  OBVIOUS
<1> HIDE DEF s
<1>4. /\ Upward(add) = FourSums(<<"add8_sum">>, <<"add8_carry">>, s)
      /\ Upward(sub) = FourSums(<<"sub8_diff">>, <<"sub8_borrow">>, s)
  BY <1>3 DEF Upward, FourSums, SumStage, emitByteStageAdd, emitByteStageSub
<1>5. legalizeADD32rr(in) = BetweenRR(in, Upward(add)) /\ legalizeSUB32rr(in) = BetweenRR(in, Upward(sub))
  BY DEF legalizeADD32rr, legalizeSUB32rr
<1> HIDE DEF add, sub
<1>6. Alters(D, BetweenRR(in, FourSums(<<"add8_sum">>, <<"add8_carry">>, s)), x, in.dst,
             SumOf(<<"add8_sum">>, <<"add8_carry">>, x[in.dst], x[in.src]))
  BY <1>1, <1>2, ArithmeticTables, SumOfReg
<1>7. Alters(D, BetweenRR(in, FourSums(<<"sub8_diff">>, <<"sub8_borrow">>, s)), x, in.dst,
             SumOf(<<"sub8_diff">>, <<"sub8_borrow">>, x[in.dst], x[in.src]))
  BY <1>1, <1>2, ArithmeticTables, SumOfReg
<1> QED BY <1>4, <1>5, <1>6, <1>7

(* The address of a place in the frame.                                     *)
LEMMA LEAAlters ==
  ASSUME NEW D, Based(D), NEW in, in.dst \in GPR32, in.imm \in Int, NEW x \in Mems(D)
  PROVE  Alters(D, legalizeLEA32rs(in), x, in.dst,
                SumBy(<<"add8_sum">>, <<"add8_carry">>, x["ebp"], in.imm))
<1>1. in.dst \in D /\ "ebp" \in D /\ Regs \subseteq D
  BY BaseUse, Registers DEF Roomy
<1>2. PICK y \in Mems(D) : /\ Runs(D, Mov(in.dst, "ebp"), x, y)
                           /\ WordSet(D, x, y, in.dst, x["ebp"])
  BY <1>1, StepMov
<1>3. y[in.dst] = x["ebp"] /\ \A p \in Regs \ {in.dst} : y[p] = x[p]
  BY <1>1, <1>2 DEF WordSet
<1> DEFINE w == SumBy(<<"add8_sum">>, <<"add8_carry">>, x["ebp"], in.imm)
<1>4. Alters(D, legalizeADD32ri(in), y, in.dst, w)
  BY <1>3, AddSubRIAlters
<1> HIDE DEF w
<1>5. PICK z \in Mems(D) : Runs(D, legalizeADD32ri(in), y, z) /\ z[in.dst] = w
                           /\ \A p \in Regs \ {in.dst} : z[p] = y[p]
  BY <1>4 DEF Alters
<1>6. Runs(D, legalizeLEA32rs(in), x, z)
  BY <1>2, <1>5, RunThen DEF legalizeLEA32rs
<1> QED BY <1>3, <1>5, <1>6 DEF Alters, w

-----------------------------------------------------------------------------
(* The stages of bitwise operations, which rely on the upper half of ECX    *)
(* being clear and leave it so.                                             *)
IsClear(x) == x["ecx"][2] = 0 /\ x["ecx"][3] = 0
StepsByte(D, W, c, i, x, v) ==
  \E y \in Mems(D) :
    /\ Runs(D, c, x, y) /\ Beside(D, W, x, y)
    /\ \A j \in 0..3 : y["srcdst"][j] = IF j = i THEN v ELSE x["srcdst"][j]
    /\ IsClear(x) => IsClear(y)
InReg == {"ecx", "edx", "srcdst"}

(* One byte of a bitwise operation in registers.                            *)
LEMMA BitStageRuns ==
  ASSUME NEW D, Roomy(D), "srcdst" \in D, NEW i \in 0..3, NEW tab \in TwoByte,
         NEW s \in Sources(D), Steady(s), NEW x \in Mems(D), IsClear(x), NEW n,
         n = Indexing(x["srcdst"][i], ByteFrom(x, s), 0)
  PROVE  StepsByte(D, InReg, emitByteStageBitwiseInReg(i, s, tab), i, x, TableByte(tab, n))
<1> DEFINE a == x["srcdst"][i]
           b == ByteFrom(x, s)
           v == TableByte(tab, n)
           cx == "ecx"
           dx == "edx"
           sd == "srcdst"
           p0 == 0
           p1 == 1
<1>1. /\ cx \in D /\ dx \in D /\ sd \in D /\ DL \in Sources(D) /\ tab \in Tables
      /\ At(sd, i) \in Sources(D) /\ p0 \in 0..3 /\ p1 \in 0..3
  BY Registers, SourceTypes DEF Tables
<1>2. CH = At(cx, p1) /\ CL = At(cx, p0) /\ DL = At(dx, p0)
  BY DEF CH, CL, DL
<1>3. ByteFrom(x, At(sd, i)) = a
  BY DEF ByteFrom, At
<1> HIDE DEF a, b, v, cx, dx, sd, p0, p1
<1>4. PICK y \in Mems(D) : Runs(D, Mov8(CH, At(sd, i)), x, y) /\ ByteSet(D, x, y, cx, p1, a)
  BY <1>1, <1>2, <1>3, StepByte
<1>5. PICK z \in Mems(D) : Runs(D, Mov8(CL, s), y, z) /\ ByteSet(D, y, z, cx, p0, ByteFrom(y, s))
  BY <1>1, <1>2, StepByte
<1>6. ByteFrom(y, s) = b
  <2>1. Beside(D, Worked, x, y)
    BY <1>4 DEF ByteSet, Beside, Worked, cx
  <2>2. ByteFrom(y, s) = ByteFrom(x, s)
    BY <2>1, SteadySource
  <2> QED BY <2>2 DEF b
<1>7. z["ecx"][0] = b /\ z["ecx"][1] = a /\ z["ecx"][2] = 0 /\ z["ecx"][3] = 0
  BY <1>4, <1>5, <1>6 DEF ByteSet, IsClear, cx, p0, p1
<1>8. IndexIn(z) = n
  <2>1. n = Indexing(a, b, 0)
    BY DEF a, b
  <2>2. IndexIn(z) = b + 256 * a + 65536 * 0
    BY <1>7 DEF IndexIn
  <2> QED BY <2>1, <2>2 DEF Indexing
<1>9. Fits(z, tab)
  <2>1. z \in Clear(D)
    BY <1>7 DEF Clear
  <2> QED BY <1>1, <2>1, ClearFits DEF cx
<1>10. PICK u \in Mems(D) : Runs(D, Lookup(DL, tab), z, u) /\ ByteSet(D, z, u, dx, p0, v)
  <2>1. "ecx" \in D
    BY <1>1 DEF cx
  <2> QED BY <1>1, <1>2, <1>8, <1>9, <2>1, StepLookup DEF v
<1>11. PICK t \in Mems(D) : /\ Runs(D, Mov8(At(sd, i), DL), u, t)
                            /\ ByteSet(D, u, t, sd, i, ByteFrom(u, DL))
  BY <1>1, StepByte
<1>12. ByteFrom(u, DL) = v
  <2>1. u["edx"][0] = v
    BY <1>10 DEF ByteSet, dx, p0
  <2> QED BY <2>1 DEF ByteFrom, DL, At
<1>13. Runs(D, emitByteStageBitwiseInReg(i, s, tab), x, t)
  BY <1>4, <1>5, <1>10, <1>11, RunThen DEF emitByteStageBitwiseInReg, sd
<1>14. /\ \A p \in D \ {"ecx"} : y[p] = x[p] /\ z[p] = y[p]
       /\ \A p \in D \ {"edx"} : u[p] = z[p]
       /\ \A p \in D \ {"srcdst"} : t[p] = u[p]
  BY <1>4, <1>5, <1>10, <1>11 DEF ByteSet, cx, dx, sd
<1>15. Beside(D, InReg, x, t)
  BY <1>14 DEF Beside, InReg
<1>16. t["ecx"] = z["ecx"] /\ u["srcdst"] = x["srcdst"]
  BY <1>1, <1>14 DEF cx, sd
<1>17. IsClear(t)
  BY <1>7, <1>16 DEF IsClear
<1>18. \A j \in 0..3 : t["srcdst"][j] = IF j = i THEN v ELSE x["srcdst"][j]
  BY <1>11, <1>12, <1>16 DEF ByteSet, sd
<1> QED BY <1>13, <1>15, <1>17, <1>18 DEF StepsByte, v

(* Four bytes, each by a chain of its own.                                  *)
FourSteps(c) == c[0] \o c[1] \o c[2] \o c[3]
StepsWord(D, W, c, x, v) ==
  \E y \in Mems(D) : Runs(D, FourSteps(c), x, y) /\ Beside(D, W, x, y) /\ y["srcdst"] = v

LEMMA FourStepsRun ==
  ASSUME NEW D, NEW W, "srcdst" \in D, NEW x \in Mems(D), NEW c, NEW v \in Word,
         \A i \in 0..3, y \in Mems(D) :
           /\ Beside(D, W, x, y) /\ (IsClear(x) => IsClear(y)) /\ y["srcdst"][i] = x["srcdst"][i]
           => StepsByte(D, W, c[i], i, y, v[i])
  PROVE  StepsWord(D, W, c, x, v)
<1> DEFINE a == x["srcdst"]
           Step(y, z, i) ==
             /\ Runs(D, c[i], y, z) /\ Beside(D, W, y, z)
             /\ \A j \in 0..3 : z["srcdst"][j] = IF j = i THEN v[i] ELSE y["srcdst"][j]
             /\ IsClear(y) => IsClear(z)
           Good(y) == Beside(D, W, x, y) /\ (IsClear(x) => IsClear(y))
           k0 == 0
           k1 == 1
           k2 == 2
           k3 == 3
<1>1. ASSUME NEW i \in 0..3, NEW y \in Mems(D), Good(y), y["srcdst"][i] = a[i]
      PROVE  \E z \in Mems(D) : Step(y, z, i)
  <2>1. StepsByte(D, W, c[i], i, y, v[i])
    BY <1>1
  <2> QED BY <2>1 DEF StepsByte
<1>2. /\ k0 \in 0..3 /\ k1 \in 0..3 /\ k2 \in 0..3 /\ k3 \in 0..3
      /\ k0 # k1 /\ k0 # k2 /\ k0 # k3 /\ k1 # k2 /\ k1 # k3 /\ k2 # k3
  OBVIOUS
<1>3. Good(x)
  BY DEF Beside
<1>4. ASSUME NEW y, NEW z, NEW i, Good(y), Step(y, z, i) PROVE Good(z)
  BY <1>4 DEF Beside
<1>5. x["srcdst"] = a
  OBVIOUS
<1> HIDE DEF a, k0, k1, k2, k3, Good
<1>6. PICK y \in Mems(D) : Step(x, y, k0)
  BY <1>1, <1>2, <1>3, <1>5
<1>7. /\ Good(y) /\ y["srcdst"][k0] = v[k0] /\ y["srcdst"][k1] = a[k1]
      /\ y["srcdst"][k2] = a[k2] /\ y["srcdst"][k3] = a[k3]
  BY <1>2, <1>3, <1>4, <1>5, <1>6
<1>8. PICK z \in Mems(D) : Step(y, z, k1)
  BY <1>1, <1>2, <1>7
<1>9. /\ Good(z) /\ z["srcdst"][k0] = v[k0] /\ z["srcdst"][k1] = v[k1]
      /\ z["srcdst"][k2] = a[k2] /\ z["srcdst"][k3] = a[k3]
  BY <1>2, <1>4, <1>7, <1>8
<1>10. PICK u \in Mems(D) : Step(z, u, k2)
  BY <1>1, <1>2, <1>9
<1>11. /\ Good(u) /\ u["srcdst"][k0] = v[k0] /\ u["srcdst"][k1] = v[k1]
       /\ u["srcdst"][k2] = v[k2] /\ u["srcdst"][k3] = a[k3]
  BY <1>2, <1>4, <1>9, <1>10
<1>12. PICK t \in Mems(D) : Step(u, t, k3)
  BY <1>1, <1>2, <1>11
<1>13. /\ Good(t) /\ t["srcdst"][k0] = v[k0] /\ t["srcdst"][k1] = v[k1]
       /\ t["srcdst"][k2] = v[k2] /\ t["srcdst"][k3] = v[k3]
  BY <1>2, <1>4, <1>11, <1>12
<1>14. t["srcdst"] = v
  <2> DEFINE w == t["srcdst"]
  <2>1. w \in Word
    BY DEF Mems
  <2>2. w[0] = v[0] /\ w[1] = v[1] /\ w[2] = v[2] /\ w[3] = v[3]
    BY <1>13 DEF k0, k1, k2, k3
  <2>3. \A i \in 0..3 : i = 0 \/ i = 1 \/ i = 2 \/ i = 3
    OBVIOUS
  <2> HIDE DEF w
  <2>4. \A i \in 0..3 : w[i] = v[i]
    BY <2>2, <2>3
  <2>5. w = v
    BY <2>1, <2>4 DEF Word
  <2> QED BY <2>5 DEF w
<1>15. Runs(D, FourSteps(c), x, t)
  <2>1. Runs(D, c[0], x, y) /\ Runs(D, c[1], y, z) /\ Runs(D, c[2], z, u) /\ Runs(D, c[3], u, t)
    BY <1>6, <1>8, <1>10, <1>12 DEF k0, k1, k2, k3
  <2> QED BY <2>1, RunThen DEF FourSteps
<1>16. Beside(D, W, x, t)
  BY <1>13 DEF Good
<1> QED BY <1>14, <1>15, <1>16 DEF StepsWord

(* Bits make the byte that has them. *)
LEMMA OnesOfByteOf ==
  ASSUME NEW S, S \subseteq 0..7
  PROVE  ByteOf(S) \in Byte /\ Ones(ByteOf(S)) = S
<1> DEFINE bit(k) == IF k \in S THEN 1 ELSE 0
           n == ByteOf(S)
           e0 == bit(0)
           e1 == bit(1)
           e2 == bit(2)
           e3 == bit(3)
           e4 == bit(4)
           e5 == bit(5)
           e6 == bit(6)
           e7 == bit(7)
<1>1. n = e0 + 2 * e1 + 4 * e2 + 8 * e3 + 16 * e4 + 32 * e5 + 64 * e6 + 128 * e7
  BY TwoPowers DEF ByteOf
<1>2. /\ e0 \in 0..1 /\ e1 \in 0..1 /\ e2 \in 0..1 /\ e3 \in 0..1 /\ e4 \in 0..1 /\ e5 \in 0..1
      /\ e6 \in 0..1 /\ e7 \in 0..1
  OBVIOUS
<1>3. n \in Byte
  BY ByteOfBytes
<1>4. /\ 0 \in S <=> e0 = 1
      /\ 1 \in S <=> e1 = 1
      /\ 2 \in S <=> e2 = 1
      /\ 3 \in S <=> e3 = 1
      /\ 4 \in S <=> e4 = 1
      /\ 5 \in S <=> e5 = 1
      /\ 6 \in S <=> e6 = 1
      /\ 7 \in S <=> e7 = 1
  OBVIOUS
<1> HIDE DEF n, e0, e1, e2, e3, e4, e5, e6, e7, bit
<1>5. (n \div 1) % 2 = e0
  BY ONLY <1>1, <1>2, SMT
<1>6. (n \div 2) % 2 = e1
  BY ONLY <1>1, <1>2, SMT
<1>7. (n \div 4) % 2 = e2
  BY ONLY <1>1, <1>2, SMT
<1>8. (n \div 8) % 2 = e3
  BY ONLY <1>1, <1>2, SMT
<1>9. (n \div 16) % 2 = e4
  BY ONLY <1>1, <1>2, SMT
<1>10. (n \div 32) % 2 = e5
  BY ONLY <1>1, <1>2, SMT
<1>11. (n \div 64) % 2 = e6
  BY ONLY <1>1, <1>2, SMT
<1>12. (n \div 128) % 2 = e7
  BY ONLY <1>1, <1>2, SMT
<1>13. \A k \in 0..7 : (n \div 2^k) % 2 = 1 <=> k \in S
  <2>1. \A k \in 0..7 : k = 0 \/ k = 1 \/ k = 2 \/ k = 3 \/ k = 4 \/ k = 5 \/ k = 6 \/ k = 7
    OBVIOUS
  <2> DEFINE P(k) == (n \div 2^k) % 2 = 1 <=> k \in S
  <2>2. P(0) /\ P(1) /\ P(2) /\ P(3)
    BY ONLY <1>4, <1>5, <1>6, <1>7, <1>8, TwoPowers, Zenon
  <2>3. P(4) /\ P(5) /\ P(6) /\ P(7)
    BY ONLY <1>4, <1>9, <1>10, <1>11, <1>12, TwoPowers, Zenon
  <2> HIDE DEF P
  <2>4. \A k \in 0..7 : P(k)
    BY <2>1, <2>2, <2>3
  <2> QED BY <2>4 DEF P
<1>14. Ones(n) = S
  BY <1>13 DEF Ones
<1> QED BY <1>3, <1>14 DEF n

(* What the three tables of bitwise operations say, bit by bit.             *)
BitTables == {<<"and8">>, <<"or8">>, <<"xor8">>}
Combine(tab, S, T) ==
  IF tab = <<"and8">> THEN S \cap T ELSE IF tab = <<"or8">> THEN S \cup T
  ELSE (S \ T) \cup (T \ S)

LEMMA BitTableBytes ==
  ASSUME NEW tab \in BitTables, NEW a \in Byte, NEW b \in Byte, NEW n, n = Indexing(a, b, 0)
  PROVE  /\ TableByte(tab, n) \in Byte
         /\ Ones(TableByte(tab, n)) = Combine(tab, Ones(a), Ones(b))
<1> DEFINE S == Ones(a)
           T == Ones(b)
           zero == 0
<1>1. zero \in {0, 1} /\ n = Indexing(a, b, zero)
  OBVIOUS
<1> HIDE DEF zero
<1>2. A(n) = a /\ B(n) = b
  BY <1>1, IndexParts
<1>3. S \subseteq 0..7 /\ T \subseteq 0..7
  BY DEF Ones
<1>4. \A t \in BitwiseTables : TableByte(<<t>>, n) = emitBitwise8Tables(t, n)
  BY EmitterOf
<1>5. \A t : emitBitwise8Tables(t, n) =
        CASE t = "and8" -> ByteOf(S \cap T)
          [] t = "or8" -> ByteOf(S \cup T)
          [] t = "xor8" -> ByteOf((S \ T) \cup (T \ S))
  BY <1>2 DEF emitBitwise8Tables
<1> HIDE DEF S, T
<1>6. /\ TableByte(<<"and8">>, n) = ByteOf(S \cap T)
      /\ TableByte(<<"or8">>, n) = ByteOf(S \cup T)
      /\ TableByte(<<"xor8">>, n) = ByteOf((S \ T) \cup (T \ S))
  <2>1. /\ emitBitwise8Tables("and8", n) = ByteOf(S \cap T)
        /\ emitBitwise8Tables("or8", n) = ByteOf(S \cup T)
        /\ emitBitwise8Tables("xor8", n) = ByteOf((S \ T) \cup (T \ S))
    BY <1>5
  <2>2. "and8" \in BitwiseTables /\ "or8" \in BitwiseTables /\ "xor8" \in BitwiseTables
    BY DEF BitwiseTables
  <2> QED BY <1>4, <2>1, <2>2
<1>7. /\ Combine(<<"and8">>, S, T) = S \cap T
      /\ Combine(<<"or8">>, S, T) = S \cup T
      /\ Combine(<<"xor8">>, S, T) = (S \ T) \cup (T \ S)
  BY SMT DEF Combine
<1>8. TableByte(tab, n) = ByteOf(Combine(tab, S, T))
  BY <1>6, <1>7 DEF BitTables
<1>9. Combine(tab, S, T) \subseteq 0..7
  BY <1>3 DEF Combine
<1> QED BY <1>8, <1>9, OnesOfByteOf DEF S, T

(* The bytes for which no table is needed.                                  *)
LEMMA ShortBytes ==
  ASSUME NEW tab \in BitTables, NEW a \in Byte, NEW b \in Byte
  PROVE  /\ IsIdentityByte(tab, b) => Combine(tab, Ones(a), Ones(b)) = Ones(a)
         /\ IsConstantByte(tab, b) => Combine(tab, Ones(a), Ones(b)) = Ones(b)
<1>1. Ones(0) = {} /\ Ones(255) = 0..7
  <2>1. \A k \in 0..7 : k = 0 \/ k = 1 \/ k = 2 \/ k = 3 \/ k = 4 \/ k = 5 \/ k = 6 \/ k = 7
    OBVIOUS
  <2> DEFINE P(n, k) == (n \div 2^k) % 2
  <2>2. /\ P(0, 0) = 0 /\ P(0, 1) = 0 /\ P(0, 2) = 0 /\ P(0, 3) = 0
        /\ P(0, 4) = 0 /\ P(0, 5) = 0 /\ P(0, 6) = 0 /\ P(0, 7) = 0
    BY TwoPowers
  <2>3. /\ P(255, 0) = 1 /\ P(255, 1) = 1 /\ P(255, 2) = 1 /\ P(255, 3) = 1
        /\ P(255, 4) = 1 /\ P(255, 5) = 1 /\ P(255, 6) = 1 /\ P(255, 7) = 1
    BY TwoPowers
  <2>4. Ones(0) = {k \in 0..7 : P(0, k) = 1} /\ Ones(255) = {k \in 0..7 : P(255, k) = 1}
    BY DEF Ones
  <2> HIDE DEF P
  <2>5. \A k \in 0..7 : P(0, k) = 0 /\ P(255, k) = 1
    BY <2>1, <2>2, <2>3
  <2> QED BY <2>4, <2>5
<1>2. Ones(a) \subseteq 0..7
  BY DEF Ones
<1>3. CASE tab = <<"and8">>
  <2>1. Combine(tab, Ones(a), Ones(b)) = Ones(a) \cap Ones(b)
    BY <1>3 DEF Combine
  <2>2. IsIdentityByte(tab, b) => b = 255
    BY <1>3 DEF IsIdentityByte
  <2>3. IsConstantByte(tab, b) => b = 0
    BY <1>3, SMT DEF IsConstantByte
  <2> QED BY <1>1, <1>2, <2>1, <2>2, <2>3
<1>4. CASE tab = <<"or8">>
  <2>1. Combine(tab, Ones(a), Ones(b)) = Ones(a) \cup Ones(b)
    BY <1>4, SMT DEF Combine
  <2>2. IsIdentityByte(tab, b) => b = 0
    BY <1>4, SMT DEF IsIdentityByte
  <2>3. IsConstantByte(tab, b) => b = 255
    BY <1>4, SMT DEF IsConstantByte
  <2> QED BY <1>1, <1>2, <2>1, <2>2, <2>3
<1>5. CASE tab = <<"xor8">>
  <2>1. Combine(tab, Ones(a), Ones(b)) = (Ones(a) \ Ones(b)) \cup (Ones(b) \ Ones(a))
    BY <1>5, SMT DEF Combine
  <2>2. IsIdentityByte(tab, b) => b = 0
    BY <1>5, SMT DEF IsIdentityByte
  <2>3. ~IsConstantByte(tab, b)
    BY <1>5, SMT DEF IsConstantByte
  <2> QED BY <1>1, <2>1, <2>2, <2>3
<1> QED BY <1>3, <1>4, <1>5 DEF BitTables

(* What a bitwise operation alters: every byte by its bits.                 *)
CombinesTo(D, c, x, d, tab, b) ==
  \E w \in Word : /\ Alters(D, c, x, d, w)
                  /\ \A i \in 0..3 : Ones(w[i]) = Combine(tab, Ones(x[d][i]), Ones(b[i]))

(* The table that each bitwise operation looks up.                          *)
LEMMA BitwiseUses ==
  ASSUME NEW in, in.op \in BitwiseRI \cup BitwiseRR
  PROVE  /\ BitwiseTable(in) \in BitTables /\ BitwiseTable(in) \in TwoByte
         /\ in.op \in {"AND32rr", "AND32ri"} <=> BitwiseTable(in) = <<"and8">>
         /\ in.op \in {"OR32rr", "OR32ri"} <=> BitwiseTable(in) = <<"or8">>
<1>1. /\ in.op \in {"AND32rr", "AND32ri"} => BitwiseTable(in) = <<"and8">>
      /\ in.op \in {"OR32rr", "OR32ri"} => BitwiseTable(in) = <<"or8">>
      /\ in.op \in {"XOR32rr", "XOR32ri"} => BitwiseTable(in) = <<"xor8">>
  BY DEF BitwiseTable
<1>2. <<"and8">> # <<"or8">> /\ <<"and8">> # <<"xor8">> /\ <<"or8">> # <<"xor8">>
  BY SMT
<1>3. in.op \in {"AND32rr", "AND32ri"} \/ in.op \in {"OR32rr", "OR32ri"} \/ in.op \in {"XOR32rr", "XOR32ri"}
  BY DEF BitwiseRI, BitwiseRR
<1>4. BitwiseTable(in) \in BitTables
  BY <1>1, <1>3 DEF BitTables
<1> QED BY <1>1, <1>2, <1>3, <1>4, BitwiseTables2

(* A bitwise operation of two registers.                                    *)
LEMMA BitwiseRRAlters ==
  ASSUME NEW D, Based(D), "rhs" \in D, NEW in, in.op \in BitwiseRR, in.dst \in GPR32,
         in.src \in GPR32, NEW x \in Mems(D)
  PROVE  CombinesTo(D, legalizeBitwise32rr(in), x, in.dst, BitwiseTable(in), x[in.src])
<1> DEFINE d == in.dst
           a == x[d]
           b == x[in.src]
           tab == BitwiseTable(in)
           stage(i) == emitByteStageBitwiseInReg(i, At("rhs", i), tab)
           c == [i \in 0..3 |-> stage(i)]
           v == [i \in 0..3 |-> TableByte(tab, Indexing(a[i], b[i], 0))]
<1>1. /\ Roomy(D) /\ "srcdst" \in D /\ in.src \in D /\ d \in GPR32 /\ d \in D /\ "ecx" \in D
      /\ "save_ecx" \in D /\ "save_edx" \in D
  BY BaseUse, Registers
<1>2. tab \in BitTables /\ tab \in TwoByte
  BY BitwiseUses
<1>3. a \in Word /\ b \in Word
  BY <1>1 DEF Mems
<1>4. \A i \in 0..3 : a[i] \in Byte /\ b[i] \in Byte
  BY <1>3 DEF Word
<1>5. \A i \in 0..3 : /\ v[i] \in Byte /\ v[i] = TableByte(tab, Indexing(a[i], b[i], 0))
                      /\ Ones(v[i]) = Combine(tab, Ones(a[i]), Ones(b[i]))
  <2> HIDE DEF a, b, tab
  <2>1. ASSUME NEW i \in 0..3
        PROVE  /\ TableByte(tab, Indexing(a[i], b[i], 0)) \in Byte
               /\ Ones(TableByte(tab, Indexing(a[i], b[i], 0))) = Combine(tab, Ones(a[i]), Ones(b[i]))
    BY <1>2, <1>4, BitTableBytes
  <2> QED BY <2>1
<1>6. v \in Word
  BY <1>5 DEF Word
<1>7. PICK y \in Mems(D) : Runs(D, SaveRegs \o Mov("srcdst", d), x, y) /\ Opened(D, x, y, d)
  BY <1>1, Opens
<1>8. PICK z \in Mems(D) : Runs(D, Mov("rhs", in.src), y, z) /\ WordSet(D, y, z, "rhs", y[in.src])
  BY <1>1, StepMov
<1>9. PICK u \in Mems(D) : Runs(D, MovImm("ecx", 0), z, u) /\ WordSet(D, z, u, "ecx", WordBytes(0))
  BY <1>1, StepImm
<1>10. Opened(D, x, z, d) /\ z["rhs"] = b /\ z["srcdst"] = a
  <2>1. z["save_ecx"] = y["save_ecx"] /\ z["save_edx"] = y["save_edx"] /\ z["srcdst"] = y["srcdst"]
    BY <1>1, <1>8 DEF WordSet
  <2>2. Beside(D, {"save_ecx", "save_edx", "srcdst", "rhs"}, x, z)
    BY <1>7, <1>8 DEF Opened, Beside, WordSet
  <2>3. y[in.src] = b
    BY <1>1, <1>7 DEF Opened, Beside, GPR32, Regs
  <2> QED BY <1>7, <1>8, <2>1, <2>2, <2>3 DEF Opened, WordSet
<1>11. u["rhs"] = b /\ u["srcdst"] = a /\ IsClear(u) /\ Beside(D, {"ecx"}, z, u)
  BY <1>1, <1>9, <1>10, Immediates DEF WordSet, IsClear, Beside
<1> HIDE DEF a, b, tab, v
<1>12. ASSUME NEW i \in 0..3, NEW t \in Mems(D), Beside(D, InReg, u, t), IsClear(u) => IsClear(t),
              t["srcdst"][i] = u["srcdst"][i]
       PROVE  StepsByte(D, InReg, c[i], i, t, v[i])
  <2> DEFINE s == At("rhs", i)
  <2>1. s \in Sources(D) /\ Steady(s)
    BY SourceTypes DEF Steady, At, Worked
  <2>2. ByteFrom(t, s) = b[i]
    <3>1. t["rhs"] = u["rhs"]
      BY <1>12 DEF Beside, InReg
    <3> QED BY <1>11, <3>1 DEF ByteFrom, At
  <2> HIDE DEF s
  <2>3. IsClear(t) /\ t["srcdst"][i] = a[i]
    BY <1>11, <1>12
  <2> DEFINE n == Indexing(a[i], b[i], 0)
  <2>4. n = Indexing(t["srcdst"][i], ByteFrom(t, s), 0)
    BY <2>2, <2>3
  <2> HIDE DEF n
  <2>5. StepsByte(D, InReg, emitByteStageBitwiseInReg(i, s, tab), i, t, TableByte(tab, n))
    BY <1>1, <1>2, <2>1, <2>3, <2>4, BitStageRuns
  <2>6. v[i] = TableByte(tab, n)
    BY <1>5 DEF n
  <2>7. c[i] = emitByteStageBitwiseInReg(i, s, tab)
    BY DEF s
  <2> QED BY <2>5, <2>6, <2>7
<1>13. FourSteps(c) = Upward(stage)
  BY DEF FourSteps, Upward
<1>14. legalizeBitwise32rr(in) = BetweenRR(in, MovImm("ecx", 0) \o Upward(stage))
  BY DEF legalizeBitwise32rr, tab
<1> HIDE DEF c, stage
<1>15. StepsWord(D, InReg, c, u, v)
  BY <1>1, <1>6, <1>12, FourStepsRun
<1>16. PICK t \in Mems(D) : Runs(D, FourSteps(c), u, t) /\ Beside(D, InReg, u, t) /\ t["srcdst"] = v
  BY <1>15 DEF StepsWord
<1>17. Beside(D, Worked, z, t)
  BY <1>11, <1>16 DEF Beside, Worked, InReg
<1> DEFINE e == SaveRegs \o Mov("srcdst", d) \o Mov("rhs", in.src)
           f == e \o (MovImm("ecx", 0) \o FourSteps(c))
<1>18. Runs(D, f, x, t)
  <2>1. Runs(D, MovImm("ecx", 0) \o FourSteps(c), z, t)
    BY <1>9, <1>16, RunThen
  <2>2. Runs(D, e, x, z)
    BY <1>7, <1>8, RunThen
  <2> QED BY <2>1, <2>2, RunThen
<1> HIDE DEF f
<1>19. Alters(D, f \o RestoreRegs \o Mov(d, "srcdst"), x, d, v)
  BY <1>1, <1>10, <1>16, <1>17, <1>18, Encloses
<1>20. legalizeBitwise32rr(in) = f \o RestoreRegs \o Mov(d, "srcdst")
  BY <1>13, <1>14 DEF BetweenRR, f
<1> QED BY <1>5, <1>6, <1>19, <1>20 DEF CombinesTo, a, b, tab

(* A bitwise operation with a constant that is not a neutral one.           *)
LEMMA BitwiseRIAlters ==
  ASSUME NEW D, Based(D), NEW in, in.op \in BitwiseRI, in.dst \in GPR32, in.imm \in Int,
         NEW x \in Mems(D)
  PROVE  CombinesTo(D, legalizeBitwise32ri(in), x, in.dst, BitwiseTable(in), WordBytes(in.imm))
<1> DEFINE d == in.dst
           a == x[d]
           tab == BitwiseTable(in)
           byte(i) == ImmByte(in.imm, i)
           looked(i) == ~IsIdentityByte(tab, byte(i)) /\ ~IsConstantByte(tab, byte(i))
           lookups == \E i \in 0..3 : looked(i)
           s1(i) == Mov8(At("srcdst", i), Imm(byte(i)))
           s2(i) == emitByteStageBitwiseInReg(i, Imm(byte(i)), tab)
           stage(i) ==
             CASE IsIdentityByte(tab, byte(i)) -> <<>>
               [] IsConstantByte(tab, byte(i)) -> Mov8(At("srcdst", i), Imm(byte(i)))
               [] OTHER -> emitByteStageBitwiseInReg(i, Imm(byte(i)), tab)
           c == [i \in 0..3 |-> stage(i)]
           val(i) == IF IsIdentityByte(tab, byte(i)) THEN a[i]
                     ELSE IF IsConstantByte(tab, byte(i)) THEN byte(i)
                     ELSE TableByte(tab, Indexing(a[i], byte(i), 0))
           v == [i \in 0..3 |-> val(i)]
           W == IF lookups THEN InReg ELSE {"srcdst"}
<1>1. /\ Roomy(D) /\ "srcdst" \in D /\ d \in GPR32 /\ d \in D /\ "ecx" \in D
  BY BaseUse, Registers
<1>2. tab \in BitTables /\ tab \in TwoByte
  BY BitwiseUses
<1>3. a \in Word
  BY <1>1 DEF Mems
<1>4. \A i \in 0..3 : a[i] \in Byte /\ byte(i) \in Byte /\ Imm(byte(i)) \in Sources(D)
  BY <1>3, Immediates, SourceTypes DEF Word
<1>5. FourSteps(c) = Upward(stage) /\ \A i \in 0..3 : c[i] = stage(i)
  <2> HIDE DEF stage
  <2>1. c[0] = stage(0) /\ c[1] = stage(1) /\ c[2] = stage(2) /\ c[3] = stage(3)
    OBVIOUS
  <2>2. \A i \in 0..3 : c[i] = stage(i)
    OBVIOUS
  <2> QED BY <2>1, <2>2 DEF FourSteps, Upward
<1>6. legalizeBitwise32ri(in) =
        (IF lookups THEN SaveRegs ELSE <<>>) \o Mov("srcdst", d)
        \o (IF lookups THEN MovImm("ecx", 0) ELSE <<>>) \o Upward(stage)
        \o (IF lookups THEN RestoreRegs ELSE <<>>) \o Mov(d, "srcdst")
  BY DEF legalizeBitwise32ri
<1>7. \A i \in 0..3 : WordBytes(in.imm)[i] = byte(i)
  BY DEF WordBytes
<1>8. \A i \in 0..3 : c[i] = IF IsIdentityByte(tab, byte(i)) THEN <<>>
                             ELSE IF IsConstantByte(tab, byte(i)) THEN s1(i) ELSE s2(i)
  <2> TAKE i \in 0..3
  <2> DEFINE p == IsIdentityByte(tab, byte(i))
             q == IsConstantByte(tab, byte(i))
             t0 == <<>>
             t1 == s1(i)
             t2 == s2(i)
  <2>1. stage(i) = CASE p -> t0 [] q -> t1 [] OTHER -> t2
    OBVIOUS
  <2>2. c[i] = stage(i)
    BY <1>5
  <2>3. ~(p /\ q)
    BY <1>2, SMT DEF IsIdentityByte, IsConstantByte, BitTables
  <2> HIDE DEF p, q, t0, t1, t2, stage, c
  <2>4. c[i] = IF p THEN t0 ELSE IF q THEN t1 ELSE t2
    BY <2>1, <2>2, <2>3
  <2> QED BY <2>4 DEF p, q, t0, t1, t2
<1>9. \A i \in 0..3 : looked(i) => lookups /\ W = InReg
  OBVIOUS
<1>10. W \in {InReg, {"srcdst"}}
  OBVIOUS
<1> HIDE DEF a, tab, byte
<1>11. \A i \in 0..3 : val(i) \in Byte /\ Ones(val(i)) = Combine(tab, Ones(a[i]), Ones(byte(i)))
  <2> TAKE i \in 0..3
  <2>1. CASE IsIdentityByte(tab, byte(i))
    <3>1. val(i) = a[i]
      BY <2>1
    <3> HIDE DEF val
    <3> QED BY <1>2, <1>4, <2>1, <3>1, ShortBytes
  <2>2. CASE ~IsIdentityByte(tab, byte(i)) /\ IsConstantByte(tab, byte(i))
    <3>1. val(i) = byte(i)
      BY <2>2
    <3> HIDE DEF val
    <3> QED BY <1>2, <1>4, <2>2, <3>1, ShortBytes
  <2>3. CASE ~IsIdentityByte(tab, byte(i)) /\ ~IsConstantByte(tab, byte(i))
    <3>1. val(i) = TableByte(tab, Indexing(a[i], byte(i), 0))
      BY <2>3
    <3> HIDE DEF val
    <3> QED BY <1>2, <1>4, <3>1, BitTableBytes
  <2> QED BY <2>1, <2>2, <2>3
<1>12. v \in Word /\ \A i \in 0..3 : v[i] = val(i)
  BY <1>11 DEF Word
<1>13. ASSUME NEW u \in Mems(D), u["srcdst"] = a, lookups => IsClear(u),
              NEW i \in 0..3, NEW t \in Mems(D), Beside(D, W, u, t), IsClear(u) => IsClear(t),
              t["srcdst"][i] = u["srcdst"][i]
       PROVE  StepsByte(D, W, c[i], i, t, v[i])
  <2> HIDE DEF W, c, v
  <2>1. CASE IsIdentityByte(tab, byte(i))
    <3>1. c[i] = <<>> /\ v[i] = a[i]
      BY <1>8, <1>12, <2>1
    <3>2. Runs(D, c[i], t, t) /\ Beside(D, W, t, t)
      BY <3>1, RunSkip DEF Beside
    <3>3. \A j \in 0..3 : t["srcdst"][j] = IF j = i THEN v[i] ELSE t["srcdst"][j]
      BY <1>13, <3>1
    <3> QED BY <3>2, <3>3 DEF StepsByte
  <2>2. CASE ~IsIdentityByte(tab, byte(i)) /\ IsConstantByte(tab, byte(i))
    <3>1. c[i] = s1(i) /\ v[i] = byte(i)
      BY <1>8, <1>12, <2>2
    <3> DEFINE sd == "srcdst"
    <3>2. sd \in D
      BY <1>1
    <3> HIDE DEF sd
    <3>3. PICK z \in Mems(D) : /\ Runs(D, Mov8(At(sd, i), Imm(byte(i))), t, z)
                               /\ ByteSet(D, t, z, sd, i, ByteFrom(t, Imm(byte(i))))
      BY <1>4, <3>2, StepByte
    <3>4. ByteFrom(t, Imm(byte(i))) = byte(i)
      BY DEF ByteFrom, Imm
    <3>5. \A p \in D : p # "srcdst" => z[p] = t[p]
      BY <3>3 DEF ByteSet, sd
    <3>6. Beside(D, W, t, z)
      BY <1>10, <3>5 DEF Beside, InReg
    <3>7. IsClear(t) => IsClear(z)
      BY <1>1, <3>5 DEF IsClear
    <3>8. \A j \in 0..3 : z["srcdst"][j] = IF j = i THEN v[i] ELSE t["srcdst"][j]
      BY <3>1, <3>3, <3>4 DEF ByteSet, sd
    <3>9. Runs(D, c[i], t, z)
      BY <3>1, <3>3 DEF sd
    <3> QED BY <3>6, <3>7, <3>8, <3>9 DEF StepsByte
  <2>3. CASE ~IsIdentityByte(tab, byte(i)) /\ ~IsConstantByte(tab, byte(i))
    <3>1. c[i] = s2(i) /\ v[i] = TableByte(tab, Indexing(a[i], byte(i), 0))
      BY <1>8, <1>12, <2>3
    <3>2. lookups /\ W = InReg
      BY <1>9, <2>3
    <3> HIDE DEF lookups
    <3> DEFINE s == Imm(byte(i))
               n == Indexing(a[i], byte(i), 0)
    <3>3. s \in Sources(D) /\ Steady(s) /\ ByteFrom(t, s) = byte(i)
      BY <1>4 DEF Steady, Imm, ByteFrom
    <3>4. IsClear(t) /\ n = Indexing(t["srcdst"][i], ByteFrom(t, s), 0)
      BY <1>13, <3>2, <3>3
    <3> HIDE DEF s, n
    <3>5. StepsByte(D, InReg, emitByteStageBitwiseInReg(i, s, tab), i, t, TableByte(tab, n))
      BY <1>1, <1>2, <3>3, <3>4, BitStageRuns
    <3> QED BY <3>1, <3>2, <3>5 DEF s, n
  <2> QED BY <2>1, <2>2, <2>3
<1> HIDE DEF c, v, stage, val, W
<1>14. ASSUME NEW u \in Mems(D), u["srcdst"] = a, lookups => IsClear(u)
       PROVE  \E t \in Mems(D) : Runs(D, Upward(stage), u, t) /\ Beside(D, W, u, t) /\ t["srcdst"] = v
  <2> HIDE DEF lookups
  <2>1. \A i \in 0..3, t \in Mems(D) :
          /\ Beside(D, W, u, t) /\ (IsClear(u) => IsClear(t)) /\ t["srcdst"][i] = u["srcdst"][i]
          => StepsByte(D, W, c[i], i, t, v[i])
    BY <1>13, <1>14
  <2>2. StepsWord(D, W, c, u, v)
    BY <1>1, <1>12, <2>1, FourStepsRun
  <2> QED BY <1>5, <2>2 DEF StepsWord
<1>15. Alters(D, legalizeBitwise32ri(in), x, d, v)
  <2>1. CASE lookups
    <3>1. W = InReg
      BY <2>1 DEF W
    <3>2. legalizeBitwise32ri(in) =
            SaveRegs \o Mov("srcdst", d) \o MovImm("ecx", 0) \o Upward(stage) \o RestoreRegs \o Mov(d, "srcdst")
      <4> DEFINE e1 == SaveRegs
                 e2 == MovImm("ecx", 0)
                 e3 == RestoreRegs
      <4>1. legalizeBitwise32ri(in) =
              (IF lookups THEN e1 ELSE <<>>) \o Mov("srcdst", d)
              \o (IF lookups THEN e2 ELSE <<>>) \o Upward(stage)
              \o (IF lookups THEN e3 ELSE <<>>) \o Mov(d, "srcdst")
        BY <1>6
      <4> HIDE DEF e1, e2, e3, lookups
      <4>2. /\ (IF lookups THEN e1 ELSE <<>>) = e1
            /\ (IF lookups THEN e2 ELSE <<>>) = e2
            /\ (IF lookups THEN e3 ELSE <<>>) = e3
        BY <2>1
      <4> QED BY <4>1, <4>2 DEF e1, e2, e3
    <3>3. PICK y \in Mems(D) : Runs(D, SaveRegs \o Mov("srcdst", d), x, y) /\ Opened(D, x, y, d)
      BY <1>1, Opens
    <3>4. PICK u \in Mems(D) : Runs(D, MovImm("ecx", 0), y, u) /\ WordSet(D, y, u, "ecx", WordBytes(0))
      BY <1>1, StepImm
    <3>5. u["srcdst"] = a /\ IsClear(u)
      BY <1>1, <3>3, <3>4, Immediates DEF WordSet, Opened, IsClear, a
    <3>6. PICK t \in Mems(D) : Runs(D, Upward(stage), u, t) /\ Beside(D, W, u, t) /\ t["srcdst"] = v
      BY <1>14, <3>5
    <3>7. Beside(D, Worked, y, t)
      BY <3>1, <3>4, <3>6 DEF Beside, Worked, InReg, WordSet
    <3> DEFINE f == SaveRegs \o Mov("srcdst", d) \o MovImm("ecx", 0) \o Upward(stage)
    <3>8. Runs(D, f, x, t)
      BY <3>3, <3>4, <3>6, RunThen
    <3> HIDE DEF f
    <3>9. Alters(D, f \o RestoreRegs \o Mov(d, "srcdst"), x, d, v)
      BY <1>1, <3>3, <3>6, <3>7, <3>8, Encloses
    <3> QED BY <3>2, <3>9 DEF f
  <2>2. CASE ~lookups
    <3>1. W = {"srcdst"}
      BY <2>2 DEF W
    <3> DEFINE e0 == <<>>
    <3>2. legalizeBitwise32ri(in) =
            e0 \o Mov("srcdst", d) \o e0 \o Upward(stage) \o e0 \o Mov(d, "srcdst")
      <4> DEFINE e1 == SaveRegs
                 e2 == MovImm("ecx", 0)
                 e3 == RestoreRegs
      <4>1. legalizeBitwise32ri(in) =
              (IF lookups THEN e1 ELSE e0) \o Mov("srcdst", d)
              \o (IF lookups THEN e2 ELSE e0) \o Upward(stage)
              \o (IF lookups THEN e3 ELSE e0) \o Mov(d, "srcdst")
        BY <1>6
      <4> HIDE DEF e0, e1, e2, e3, lookups
      <4>2. /\ (IF lookups THEN e1 ELSE e0) = e0
            /\ (IF lookups THEN e2 ELSE e0) = e0
            /\ (IF lookups THEN e3 ELSE e0) = e0
        BY <2>2
      <4> QED BY <4>1, <4>2
    <3>3. \A u \in Mems(D) : Runs(D, e0, u, u)
      BY RunSkip
    <3> HIDE DEF e0
    <3>4. PICK u \in Mems(D) : Runs(D, Mov("srcdst", d), x, u) /\ WordSet(D, x, u, "srcdst", x[d])
      BY <1>1, StepMov
    <3>5. u["srcdst"] = a
      BY <3>4 DEF WordSet, a
    <3>6. PICK t \in Mems(D) : Runs(D, Upward(stage), u, t) /\ Beside(D, W, u, t) /\ t["srcdst"] = v
      BY <1>14, <2>2, <3>5
    <3>7. PICK z \in Mems(D) : Runs(D, Mov(d, "srcdst"), t, z) /\ WordSet(D, t, z, d, t["srcdst"])
      BY <1>1, StepMov
    <3>8. Runs(D, legalizeBitwise32ri(in), x, z)
      BY <3>2, <3>3, <3>4, <3>6, <3>7, RunThen
    <3>9. z[d] = v
      BY <3>6, <3>7 DEF WordSet
    <3>10. \A p \in Regs \ {d} : z[p] = x[p]
      <4>1. Regs \subseteq D /\ "srcdst" \notin Regs
        BY <1>1 DEF Roomy, Regs
      <4> QED BY <3>1, <3>4, <3>6, <3>7, <4>1 DEF WordSet, Beside
    <3> QED BY <3>8, <3>9, <3>10 DEF Alters
  <2> QED BY <2>1, <2>2
<1>16. \A i \in 0..3 : Ones(v[i]) = Combine(tab, Ones(a[i]), Ones(WordBytes(in.imm)[i]))
  BY <1>7, <1>11, <1>12
<1> QED BY <1>12, <1>15, <1>16 DEF CombinesTo, a, tab

(* The bytes of the two constants that legalizeBitwise32ri treats apart.    *)
LEMMA MinusOne == \A i \in 0..3 : ImmByte(0, i) = 0 /\ ImmByte(-1, i) = 255
<1> DEFINE Part(n, d) == (n \div d) % 256
<1> DEFINE m == -1
<1>1. m \in Int /\ m + 1 = 0
  OBVIOUS
<1>2. /\ Part(0, 1) = 0 /\ Part(0, 256) = 0 /\ Part(0, 65536) = 0 /\ Part(0, 16777216) = 0
  OBVIOUS
<1>3. \A n : /\ ImmByte(n, 0) = Part(n, 1) /\ ImmByte(n, 1) = Part(n, 256)
             /\ ImmByte(n, 2) = Part(n, 65536) /\ ImmByte(n, 3) = Part(n, 16777216)
  BY Powers DEF ImmByte
<1> HIDE DEF m
<1>4. /\ Part(m, 1) = 255 /\ Part(m, 256) = 255 /\ Part(m, 65536) = 255 /\ Part(m, 16777216) = 255
  <2>1. m \div 1 = m /\ m \div 256 = m /\ m \div 65536 = m /\ m \div 16777216 = m
    BY <1>1, SMT
  <2>2. m % 256 = 255
    BY <1>1, SMT
  <2> QED BY <2>1, <2>2
<1> HIDE DEF Part
<1>5. \A i \in 0..3 : i = 0 \/ i = 1 \/ i = 2 \/ i = 3
  OBVIOUS
<1>6. \A i \in 0..3 : ImmByte(0, i) = 0 /\ ImmByte(m, i) = 255
  BY <1>2, <1>3, <1>4, <1>5
<1> QED BY <1>6 DEF m

(* The folds, and the rewrite where there are none.                         *)
LEMMA BitwiseImmAlters ==
  ASSUME NEW D, Based(D), NEW in, in.op \in BitwiseRI, in.dst \in GPR32, in.imm \in Int,
         NEW x \in Mems(D)
  PROVE  CombinesTo(D, BitwiseImm(in), x, in.dst, BitwiseTable(in), WordBytes(in.imm))
<1> DEFINE d == in.dst
           n == in.imm
           tab == BitwiseTable(in)
           b == WordBytes(n)
<1>1. d \in D /\ x[d] \in Word /\ n \in Int /\ b \in Word /\ \A i \in 0..3 : b[i] = ImmByte(n, i)
  BY BaseUse, Registers, Immediates DEF Mems, WordBytes
<1>2. \A i \in 0..3 : x[d][i] \in Byte /\ b[i] \in Byte
  BY <1>1 DEF Word
<1>3. tab \in BitTables
  BY BitwiseUses
<1>4. /\ in.op = "AND32ri" => tab = <<"and8">>
      /\ in.op = "OR32ri" => tab = <<"or8">>
      /\ in.op \in {"OR32ri", "XOR32ri"} => tab # <<"and8">>
  BY BitwiseUses DEF BitwiseRI, BitwiseRR
<1>5. CombinesTo(D, legalizeBitwise32ri(in), x, d, tab, b)
  BY BitwiseRIAlters
<1> DEFINE Same == \A i \in 0..3 : IsIdentityByte(tab, b[i])
           Fixed == \A i \in 0..3 : IsConstantByte(tab, b[i])
<1>6. \/ BitwiseImm(in) = MovImm(d, n) /\ Fixed
      \/ BitwiseImm(in) = <<>> /\ Same
      \/ BitwiseImm(in) = legalizeBitwise32ri(in)
  <2>1. CASE in.op = "AND32ri" /\ n = 0
    <3>1. BitwiseImm(in) = MovImm(d, n)
      BY <2>1 DEF BitwiseImm
    <3>2. Fixed
      BY <1>1, <1>4, <2>1, MinusOne DEF IsConstantByte
    <3> QED BY <3>1, <3>2
  <2>2. CASE in.op = "OR32ri" /\ n = -1
    <3>1. BitwiseImm(in) = MovImm(d, n)
      BY <2>2 DEF BitwiseImm
    <3>2. Fixed
      BY <1>1, <1>4, <2>2, MinusOne DEF IsConstantByte
    <3> QED BY <3>1, <3>2
  <2>3. CASE in.op = "AND32ri" /\ n = -1
    <3>1. BitwiseImm(in) = <<>>
      BY <2>3 DEF BitwiseImm
    <3>2. Same
      BY <1>1, <1>4, <2>3, MinusOne DEF IsIdentityByte
    <3> QED BY <3>1, <3>2
  <2>4. CASE in.op \in {"OR32ri", "XOR32ri"} /\ n = 0
    <3>1. BitwiseImm(in) = <<>>
      BY <2>4 DEF BitwiseImm
    <3>2. Same
      BY <1>1, <1>4, <2>4, MinusOne DEF IsIdentityByte
    <3> QED BY <3>1, <3>2
  <2>5. CASE /\ ~(in.op = "AND32ri" /\ n = 0) /\ ~(in.op = "OR32ri" /\ n = -1)
             /\ ~(in.op = "AND32ri" /\ n = -1) /\ ~(in.op \in {"OR32ri", "XOR32ri"} /\ n = 0)
    BY <2>5 DEF BitwiseImm
  <2> QED BY <2>1, <2>2, <2>3, <2>4, <2>5
<1> HIDE DEF d, n, tab, b
<1>7. CASE Fixed /\ BitwiseImm(in) = MovImm(d, n)
  <2>1. PICK y \in Mems(D) : Runs(D, MovImm(d, n), x, y) /\ WordSet(D, x, y, d, WordBytes(n))
    BY <1>1, StepImm
  <2>2. Regs \subseteq D
    BY BaseUse DEF Roomy
  <2>3. y[d] = b /\ \A p \in Regs \ {d} : y[p] = x[p]
    BY <2>1, <2>2 DEF WordSet, b
  <2>4. Alters(D, BitwiseImm(in), x, d, b)
    BY <1>7, <2>1, <2>3 DEF Alters
  <2>5. \A i \in 0..3 : Ones(b[i]) = Combine(tab, Ones(x[d][i]), Ones(b[i]))
    BY <1>2, <1>3, <1>7, ShortBytes
  <2> QED BY <1>1, <2>4, <2>5 DEF CombinesTo, d, tab, b, n
<1>8. CASE Same /\ BitwiseImm(in) = <<>>
  <2>1. Alters(D, BitwiseImm(in), x, d, x[d])
    BY <1>8, AltersNothing
  <2>2. \A i \in 0..3 : Ones(x[d][i]) = Combine(tab, Ones(x[d][i]), Ones(b[i]))
    BY <1>2, <1>3, <1>8, ShortBytes
  <2> QED BY <1>1, <2>1, <2>2 DEF CombinesTo, d, tab, b, n
<1>9. CASE BitwiseImm(in) = legalizeBitwise32ri(in)
  BY <1>5, <1>9 DEF d, tab, b, n
<1> QED BY <1>6, <1>7, <1>8, <1>9

-----------------------------------------------------------------------------
(* From bytes to bits: the words of X86Machine.                             *)

(* A bit of a word is a bit of one of its bytes. *)
LEMMA BitOfWord ==
  ASSUME NEW w, NEW k
  PROVE  k \in BitsOf(w) <=> k \in 0..31 /\ k % 8 \in Ones(w[k \div 8])
<1>1. \A m \in 0..31 : m % 8 \in 0..7
  BY SMT
<1> QED BY <1>1 DEF BitsOf, Ones

(* Bit k of a word is bit k % 8 of its byte k / 8.                          *)
LEMMA Places32 ==
  /\ \A k \in 0..31 : k \div 8 \in 0..3 /\ k % 8 \in 0..7 /\ 8 * (k \div 8) + (k % 8) = k
  /\ \A i \in 0..3, j \in 0..7 : 8 * i + j \in 0..31 /\ (8 * i + j) \div 8 = i /\ (8 * i + j) % 8 = j
<1>1. \A k \in 0..31 : k \div 8 \in 0..3 /\ k % 8 \in 0..7 /\ 8 * (k \div 8) + (k % 8) = k
  BY SMT
<1>2. \A i \in 0..3, j \in 0..7 : 8 * i + j \in 0..31 /\ (8 * i + j) \div 8 = i /\ (8 * i + j) % 8 = j
  BY SMT
<1> QED BY <1>1, <1>2

(* Eight bits of a set of 32. *)
Slice(x, i) == {j \in 0..7 : 8 * i + j \in x}

LEMMA SliceOfWord ==
  ASSUME NEW w, NEW i \in 0..3
  PROVE  Slice(BitsOf(w), i) = Ones(w[i])
<1>1. ASSUME NEW j \in 0..7 PROVE 8 * i + j \in BitsOf(w) <=> j \in Ones(w[i])
  <2>1. 8 * i + j \in 0..31 /\ (8 * i + j) \div 8 = i /\ (8 * i + j) % 8 = j
    BY Places32
  <2> QED BY <2>1, BitOfWord
<1>2. Ones(w[i]) \subseteq 0..7
  BY DEF Ones
<1> QED BY <1>1, <1>2 DEF Slice

LEMMA WordOfSlices ==
  ASSUME NEW w, NEW x, x \subseteq 0..31, \A i \in 0..3 : Ones(w[i]) = Slice(x, i)
  PROVE  BitsOf(w) = x
<1>1. ASSUME NEW k \in 0..31 PROVE k \in BitsOf(w) <=> k \in x
  <2> DEFINE i == k \div 8
             j == k % 8
  <2>1. i \in 0..3 /\ j \in 0..7 /\ 8 * i + j = k
    BY Places32
  <2>2. k \in BitsOf(w) <=> j \in Ones(w[i])
    BY BitOfWord
  <2> HIDE DEF i, j
  <2>3. j \in Slice(x, i) <=> k \in x
    BY <2>1 DEF Slice
  <2> QED BY <2>1, <2>2, <2>3
<1>2. BitsOf(w) \subseteq 0..31
  BY DEF BitsOf
<1> QED BY <1>1, <1>2

(* Bitwise operations on words are those on their bytes. *)
LEMMA CombineWords ==
  ASSUME NEW w, NEW a, NEW b, NEW tab \in BitTables,
         \A i \in 0..3 : Ones(w[i]) = Combine(tab, Ones(a[i]), Ones(b[i]))
  PROVE  BitsOf(w) = Combine(tab, BitsOf(a), BitsOf(b))
<1> DEFINE x == BitsOf(a)
           y == BitsOf(b)
<1>1. x \subseteq 0..31 /\ y \subseteq 0..31
  BY DEF BitsOf
<1>2. \A i \in 0..3 : Ones(a[i]) = Slice(x, i) /\ Ones(b[i]) = Slice(y, i)
  BY SliceOfWord
<1> HIDE DEF x, y
<1>3. \A i : Combine(tab, Slice(x, i), Slice(y, i)) = Slice(Combine(tab, x, y), i)
  BY DEF Combine, Slice
<1>4. Combine(tab, x, y) \subseteq 0..31
  BY <1>1 DEF Combine
<1>5. BitsOf(w) = Combine(tab, x, y)
  BY <1>2, <1>3, <1>4, WordOfSlices
<1> QED BY <1>5 DEF x, y

(* A carry goes one bit further when that bit generates one, or passes one  *)
(* on.                                                                      *)
LEMMA ReachesNext ==
  ASSUME NEW G, G \subseteq Int, NEW P
  PROVE  /\ (G \subseteq 0..31 => ~X86!Reaches(0, G, P))
         /\ \A k \in Nat : X86!Reaches(k + 1, G, P) <=> k \in G \/ (k \in P /\ X86!Reaches(k, G, P))
<1>1. ASSUME G \subseteq 0..31 PROVE ~X86!Reaches(0, G, P)
  BY <1>1 DEF X86!Reaches
<1>2. ASSUME NEW k \in Nat, X86!Reaches(k + 1, G, P), k \notin G PROVE k \in P /\ X86!Reaches(k, G, P)
  <2>1. PICK j \in G : j < k + 1 /\ \A l \in (j + 1)..((k + 1) - 1) : l \in P
    BY <1>2 DEF X86!Reaches
  <2>2. j \in Int /\ j < k /\ k \in (j + 1)..((k + 1) - 1)
    BY <1>2, <2>1
  <2>3. \A l \in (j + 1)..(k - 1) : l \in (j + 1)..((k + 1) - 1)
    BY <2>2
  <2> QED BY <2>1, <2>2, <2>3 DEF X86!Reaches
<1>3. ASSUME NEW k \in Nat, k \in G PROVE X86!Reaches(k + 1, G, P)
  <2>1. k < k + 1 /\ (k + 1)..((k + 1) - 1) = {}
    OBVIOUS
  <2> QED BY <1>3, <2>1 DEF X86!Reaches
<1>4. ASSUME NEW k \in Nat, k \in P, X86!Reaches(k, G, P) PROVE X86!Reaches(k + 1, G, P)
  <2>1. PICK j \in G : j < k /\ \A l \in (j + 1)..(k - 1) : l \in P
    BY <1>4 DEF X86!Reaches
  <2>2. j \in Int /\ j < k + 1
    BY <2>1
  <2>3. \A l \in (j + 1)..((k + 1) - 1) : l = k \/ l \in (j + 1)..(k - 1)
    BY <2>2
  <2> QED BY <1>4, <2>1, <2>2, <2>3 DEF X86!Reaches
<1> QED BY <1>1, <1>2, <1>3, <1>4

(* A byte is made of its bits. *)
Bit(S, j) == IF j \in S THEN 1 ELSE 0

LEMMA ByteOfBits ==
  ASSUME NEW S
  PROVE  /\ ByteOf(S) = Bit(S, 0) + 2 * Bit(S, 1) + 4 * Bit(S, 2) + 8 * Bit(S, 3) + 16 * Bit(S, 4)
                        + 32 * Bit(S, 5) + 64 * Bit(S, 6) + 128 * Bit(S, 7)
         /\ \A j : Bit(S, j) \in 0..1
<1>1. \A j : Bit(S, j) \in 0..1
  BY DEF Bit
<1>2. ByteOf(S) = Bit(S, 0) + 2 * Bit(S, 1) + 4 * Bit(S, 2) + 8 * Bit(S, 3) + 16 * Bit(S, 4)
                  + 32 * Bit(S, 5) + 64 * Bit(S, 6) + 128 * Bit(S, 7)
  BY TwoPowers DEF ByteOf, Bit
<1> QED BY <1>1, <1>2

LEMMA ByteOfOnes ==
  ASSUME NEW a \in Byte
  PROVE  ByteOf(Ones(a)) = a
<1> DEFINE P(d) == (a \div d) % 2
           S == Ones(a)
<1>1. a \in 0..255
  BY DEF Byte
<1>2. /\ Bit(S, 0) = P(1) /\ Bit(S, 1) = P(2) /\ Bit(S, 2) = P(4) /\ Bit(S, 3) = P(8)
      /\ Bit(S, 4) = P(16) /\ Bit(S, 5) = P(32) /\ Bit(S, 6) = P(64) /\ Bit(S, 7) = P(128)
  <2>1. /\ P(1) \in {0, 1} /\ P(2) \in {0, 1} /\ P(4) \in {0, 1} /\ P(8) \in {0, 1}
        /\ P(16) \in {0, 1} /\ P(32) \in {0, 1} /\ P(64) \in {0, 1} /\ P(128) \in {0, 1}
    BY <1>1, SMT
  <2>2. /\ 0 \in S <=> P(1) = 1
        /\ 1 \in S <=> P(2) = 1
        /\ 2 \in S <=> P(4) = 1
        /\ 3 \in S <=> P(8) = 1
    BY TwoPowers DEF Ones
  <2>3. /\ 4 \in S <=> P(16) = 1
        /\ 5 \in S <=> P(32) = 1
        /\ 6 \in S <=> P(64) = 1
        /\ 7 \in S <=> P(128) = 1
    BY TwoPowers DEF Ones
  <2> HIDE DEF P, S
  <2> QED BY <2>1, <2>2, <2>3 DEF Bit
<1> DEFINE h1 == a \div 2
           h2 == a \div 4
           h3 == a \div 8
           h4 == a \div 16
           h5 == a \div 32
           h6 == a \div 64
           h7 == a \div 128
<1>3. a = 2 * h1 + P(1) /\ h1 = 2 * h2 + P(2)
  BY <1>1, SMT
<1>4. h2 = 2 * h3 + P(4) /\ h3 = 2 * h4 + P(8)
  BY <1>1, SMT
<1>5. h4 = 2 * h5 + P(16) /\ h5 = 2 * h6 + P(32)
  BY <1>1, SMT
<1>6. h6 = 2 * h7 + P(64) /\ h7 = P(128)
  BY <1>1, SMT
<1>7. h1 \in Int /\ h2 \in Int /\ h3 \in Int /\ h4 \in Int /\ h5 \in Int /\ h6 \in Int /\ h7 \in Int
  BY <1>1, SMT
<1>8. /\ P(1) \in Int /\ P(2) \in Int /\ P(4) \in Int /\ P(8) \in Int
      /\ P(16) \in Int /\ P(32) \in Int /\ P(64) \in Int /\ P(128) \in Int
  BY <1>1, SMT
<1> HIDE DEF P, S, h1, h2, h3, h4, h5, h6, h7
<1>9. P(1) + 2 * P(2) + 4 * P(4) + 8 * P(8) + 16 * P(16) + 32 * P(32) + 64 * P(64) + 128 * P(128) = a
  BY <1>1, <1>3, <1>4, <1>5, <1>6, <1>7, <1>8, SMT
<1>10. ByteOf(S) = a
  BY <1>2, <1>9, ByteOfBits
<1> QED BY <1>10 DEF S

(* Eight adders in a row: what each adds up to is its bit of the sum and    *)
(* twice its carry.                                                         *)
LEMMA EightAdders ==
  ASSUME NEW S, NEW T, NEW U, NEW r, \A j \in 0..8 : r[j] \in 0..1,
         \A j \in 0..7 : Bit(S, j) + Bit(T, j) + r[j] = Bit(U, j) + 2 * r[j + 1]
  PROVE  ByteOf(S) + ByteOf(T) + r[0] = ByteOf(U) + 256 * r[8]
<1> DEFINE k0 == 0
           k1 == 1
           k2 == 2
           k3 == 3
           k4 == 4
           k5 == 5
           k6 == 6
           k7 == 7
<1>1. /\ k0 \in 0..7 /\ k1 \in 0..7 /\ k2 \in 0..7 /\ k3 \in 0..7 /\ k4 \in 0..7 /\ k5 \in 0..7
      /\ k6 \in 0..7 /\ k7 \in 0..7
  OBVIOUS
<1>2. /\ k0 + 1 = k1 /\ k1 + 1 = k2 /\ k2 + 1 = k3 /\ k3 + 1 = k4 /\ k4 + 1 = k5 /\ k5 + 1 = k6
      /\ k6 + 1 = k7 /\ k7 + 1 = 8
  OBVIOUS
<1> DEFINE E(j) == Bit(S, j) + Bit(T, j) + r[j] = Bit(U, j) + 2 * r[j + 1]
<1>3. \A j \in 0..7 : E(j)
  OBVIOUS
<1> HIDE DEF k0, k1, k2, k3, k4, k5, k6, k7, E
<1>4. E(k0) /\ E(k1) /\ E(k2) /\ E(k3) /\ E(k4) /\ E(k5) /\ E(k6) /\ E(k7)
  BY <1>1, <1>3
<1> DEFINE r0 == r[0]
           r1 == r[1]
           r2 == r[2]
           r3 == r[3]
           r4 == r[4]
           r5 == r[5]
           r6 == r[6]
           r7 == r[7]
           r8 == r[8]
<1>5. /\ r0 \in 0..1 /\ r1 \in 0..1 /\ r2 \in 0..1 /\ r3 \in 0..1 /\ r4 \in 0..1 /\ r5 \in 0..1
      /\ r6 \in 0..1 /\ r7 \in 0..1 /\ r8 \in 0..1
  OBVIOUS
<1>6. /\ Bit(S, 0) + Bit(T, 0) + r0 = Bit(U, 0) + 2 * r1
      /\ Bit(S, 1) + Bit(T, 1) + r1 = Bit(U, 1) + 2 * r2
      /\ Bit(S, 2) + Bit(T, 2) + r2 = Bit(U, 2) + 2 * r3
      /\ Bit(S, 3) + Bit(T, 3) + r3 = Bit(U, 3) + 2 * r4
      /\ Bit(S, 4) + Bit(T, 4) + r4 = Bit(U, 4) + 2 * r5
      /\ Bit(S, 5) + Bit(T, 5) + r5 = Bit(U, 5) + 2 * r6
      /\ Bit(S, 6) + Bit(T, 6) + r6 = Bit(U, 6) + 2 * r7
      /\ Bit(S, 7) + Bit(T, 7) + r7 = Bit(U, 7) + 2 * r8
  BY <1>2, <1>4, Zenon DEF E, k0, k1, k2, k3, k4, k5, k6, k7
<1> HIDE DEF r0, r1, r2, r3, r4, r5, r6, r7, r8
<1>7. ByteOf(S) + ByteOf(T) + r0 = ByteOf(U) + 256 * r8
  <2> DEFINE s(j) == Bit(S, j)
             t(j) == Bit(T, j)
             u(j) == Bit(U, j)
  <2>1. \A j : s(j) \in 0..1 /\ t(j) \in 0..1 /\ u(j) \in 0..1
    BY ByteOfBits
  <2>2. /\ ByteOf(S) = s(0) + 2 * s(1) + 4 * s(2) + 8 * s(3) + 16 * s(4) + 32 * s(5) + 64 * s(6) + 128 * s(7)
        /\ ByteOf(T) = t(0) + 2 * t(1) + 4 * t(2) + 8 * t(3) + 16 * t(4) + 32 * t(5) + 64 * t(6) + 128 * t(7)
        /\ ByteOf(U) = u(0) + 2 * u(1) + 4 * u(2) + 8 * u(3) + 16 * u(4) + 32 * u(5) + 64 * u(6) + 128 * u(7)
    BY ByteOfBits
  <2>3. /\ s(0) + t(0) + r0 = u(0) + 2 * r1 /\ s(1) + t(1) + r1 = u(1) + 2 * r2
        /\ s(2) + t(2) + r2 = u(2) + 2 * r3 /\ s(3) + t(3) + r3 = u(3) + 2 * r4
        /\ s(4) + t(4) + r4 = u(4) + 2 * r5 /\ s(5) + t(5) + r5 = u(5) + 2 * r6
        /\ s(6) + t(6) + r6 = u(6) + 2 * r7 /\ s(7) + t(7) + r7 = u(7) + 2 * r8
    BY <1>6
  <2> HIDE DEF s, t, u
  <2>4. /\ s(0) \in Int /\ s(1) \in Int /\ s(2) \in Int /\ s(3) \in Int
        /\ s(4) \in Int /\ s(5) \in Int /\ s(6) \in Int /\ s(7) \in Int
        /\ t(0) \in Int /\ t(1) \in Int /\ t(2) \in Int /\ t(3) \in Int
        /\ t(4) \in Int /\ t(5) \in Int /\ t(6) \in Int /\ t(7) \in Int
        /\ u(0) \in Int /\ u(1) \in Int /\ u(2) \in Int /\ u(3) \in Int
        /\ u(4) \in Int /\ u(5) \in Int /\ u(6) \in Int /\ u(7) \in Int
    BY <2>1
  <2>5. /\ r0 \in Int /\ r1 \in Int /\ r2 \in Int /\ r3 \in Int /\ r4 \in Int /\ r5 \in Int
        /\ r6 \in Int /\ r7 \in Int /\ r8 \in Int
    BY <1>5
  <2> DEFINE low(f(_)) == f(0) + 2 * f(1) + 4 * f(2) + 8 * f(3)
             high(f(_)) == f(4) + 2 * f(5) + 4 * f(6) + 8 * f(7)
  <2>6. low(s) + low(t) + r0 = low(u) + 16 * r4 /\ low(s) \in Int /\ low(t) \in Int /\ low(u) \in Int
    BY ONLY <2>3, <2>4, <2>5, SMT
  <2>7. high(s) + high(t) + r4 = high(u) + 16 * r8 /\ high(s) \in Int /\ high(t) \in Int /\ high(u) \in Int
    BY ONLY <2>3, <2>4, <2>5, SMT
  <2>8. /\ ByteOf(S) = low(s) + 16 * high(s) /\ ByteOf(T) = low(t) + 16 * high(t)
        /\ ByteOf(U) = low(u) + 16 * high(u)
    BY ONLY <2>2, <2>4, SMT
  <2> HIDE DEF low, high
  <2> QED BY ONLY <2>5, <2>6, <2>7, <2>8, SMT
<1> QED BY <1>7 DEF r0, r8

(* What the tables of sums and of differences say, given the carries of the *)
(* bits of one byte.                                                        *)
LEMMA AddTableBits ==
  ASSUME NEW a \in Byte, NEW b \in Byte, NEW r, \A j \in 0..8 : r[j] \in {0, 1},
         NEW U, U \subseteq 0..7,
         \A j \in 0..7 : Bit(Ones(a), j) + Bit(Ones(b), j) + r[j] = Bit(U, j) + 2 * r[j + 1],
         NEW n, n = Indexing(a, b, r[0])
  PROVE  /\ Ones(TableByte(<<"add8_sum">>, n)) = U
         /\ TableByte(<<"add8_carry">>, n) = r[8]
<1> DEFINE c == r[0]
           s == a + b + c
           u == ByteOf(U)
           v == r[8]
<1>1. c \in {0, 1} /\ v \in {0, 1} /\ 0 \in 0..8 /\ 8 \in 0..8
  OBVIOUS
<1>2. A(n) = a /\ B(n) = b /\ CarryIn(n) = c /\ n \in Nat
  BY <1>1, IndexParts
<1>3. \A t : emitAdd8Tables(t, n) = IF t = "add8_sum" THEN s % 256 ELSE s \div 256
  BY <1>2 DEF emitAdd8Tables
<1>4. TableByte(<<"add8_sum">>, n) = emitAdd8Tables("add8_sum", n)
      /\ TableByte(<<"add8_carry">>, n) = emitAdd8Tables("add8_carry", n)
  BY EmitterOf DEF AddTables
<1>5. s = u + 256 * v
  <2>1. \A j \in 0..8 : r[j] \in 0..1
    OBVIOUS
  <2>2. ByteOf(Ones(a)) + ByteOf(Ones(b)) + r[0] = ByteOf(U) + 256 * r[8]
    BY <2>1, EightAdders
  <2> QED BY <2>2, ByteOfOnes
<1>6. u \in 0..255 /\ Ones(u) = U
  BY OnesOfByteOf DEF Byte
<1> HIDE DEF s, u, v, c
<1>7. s % 256 = u /\ s \div 256 = v
  BY <1>1, <1>5, <1>6, SMT
<1>8. TableByte(<<"add8_sum">>, n) = u /\ TableByte(<<"add8_carry">>, n) = v
  BY <1>3, <1>4, <1>7
<1> QED BY <1>6, <1>8 DEF v

(* A difference with a borrow in and out, of two bytes.                     *)
LEMMA SubTableBits ==
  ASSUME NEW a \in Byte, NEW b \in Byte, NEW r, \A j \in 0..8 : r[j] \in {0, 1},
         NEW U, U \subseteq 0..7,
         \A j \in 0..7 : Bit(Ones(b), j) + Bit(U, j) + r[j] = Bit(Ones(a), j) + 2 * r[j + 1],
         NEW n, n = Indexing(a, b, r[0])
  PROVE  /\ Ones(TableByte(<<"sub8_diff">>, n)) = U
         /\ TableByte(<<"sub8_borrow">>, n) = r[8]
<1> DEFINE c == r[0]
           s == a - b - c
           u == ByteOf(U)
           v == r[8]
<1>1. c \in {0, 1} /\ v \in {0, 1} /\ 0 \in 0..8 /\ 8 \in 0..8 /\ a \in 0..255 /\ b \in 0..255
  BY DEF Byte
<1>2. A(n) = a /\ B(n) = b /\ CarryIn(n) = c /\ n \in Nat
  BY <1>1, IndexParts
<1>3. \A t : emitSub8Tables(t, n) = IF t = "sub8_diff" THEN s % 256 ELSE IF s < 0 THEN 1 ELSE 0
  BY <1>2 DEF emitSub8Tables
<1>4. TableByte(<<"sub8_diff">>, n) = emitSub8Tables("sub8_diff", n)
      /\ TableByte(<<"sub8_borrow">>, n) = emitSub8Tables("sub8_borrow", n)
  BY EmitterOf DEF SubTables
<1>5. b + u + c = a + 256 * v
  <2>1. \A j \in 0..8 : r[j] \in 0..1
    OBVIOUS
  <2>2. ByteOf(Ones(b)) + ByteOf(U) + r[0] = ByteOf(Ones(a)) + 256 * r[8]
    BY <2>1, EightAdders
  <2> QED BY <2>2, ByteOfOnes
<1>6. u \in 0..255 /\ Ones(u) = U
  BY OnesOfByteOf DEF Byte
<1>7. s = a - b - c
  OBVIOUS
<1> HIDE DEF s, u, v, c
<1>8. s \in Int /\ s = u - 256 * v
  BY <1>1, <1>5, <1>6, <1>7, SMT
<1>9. s % 256 = u
  BY <1>1, <1>6, <1>8, SMT
<1>10. v = IF s < 0 THEN 1 ELSE 0
  BY <1>1, <1>6, <1>8, SMT
<1>11. TableByte(<<"sub8_diff">>, n) = u /\ TableByte(<<"sub8_borrow">>, n) = v
  BY <1>3, <1>4, <1>9, <1>10
<1> QED BY <1>6, <1>11 DEF v

(* The carries into the bits of byte i, and out of it.                      *)
Ripple(G, P, i) == [j \in 0..8 |-> IF X86!Reaches(8 * i + j, G, P) THEN 1 ELSE 0]

LEMMA Ripples ==
  ASSUME NEW G, G \subseteq 0..31, NEW P
  PROVE  /\ \A i \in 0..3, j \in 0..8 : Ripple(G, P, i)[j] \in {0, 1}
         /\ Ripple(G, P, 0)[0] = 0
         /\ \A i \in 0..3 : Ripple(G, P, i)[8] = Ripple(G, P, i + 1)[0]
         /\ \A i \in 0..3, j \in 0..7 :
              /\ Ripple(G, P, i)[j] = 1 <=> X86!Reaches(8 * i + j, G, P)
              /\ Ripple(G, P, i)[j + 1] = 1 <=> \/ 8 * i + j \in G
                                                \/ 8 * i + j \in P /\ X86!Reaches(8 * i + j, G, P)
<1> DEFINE R(k) == X86!Reaches(k, G, P)
<1>1. ~R(0) /\ \A k \in Nat : R(k + 1) <=> k \in G \/ (k \in P /\ R(k))
  <2>1. G \subseteq Int
    OBVIOUS
  <2>2. /\ (G \subseteq 0..31 => ~X86!Reaches(0, G, P))
        /\ \A k \in Nat : X86!Reaches(k + 1, G, P) <=> k \in G \/ (k \in P /\ X86!Reaches(k, G, P))
    BY <2>1, ReachesNext
  <2>3. \A k \in Nat : X86!Reaches(k + 1, G, P) <=> k \in G \/ (k \in P /\ X86!Reaches(k, G, P))
    BY ONLY <2>2, Zenon
  <2>4. \A k \in Nat : R(k + 1) <=> k \in G \/ (k \in P /\ R(k))
    BY ONLY <2>3, Zenon
  <2>5. ~R(0)
    BY <2>2
  <2> QED BY ONLY <2>4, <2>5, Zenon
<1>2. \A i, j : j \in 0..8 => Ripple(G, P, i)[j] = IF R(8 * i + j) THEN 1 ELSE 0
  BY DEF Ripple
<1> HIDE DEF R
<1>3. \A i \in 0..3, j \in 0..8 : Ripple(G, P, i)[j] \in {0, 1}
  BY <1>2
<1>4. Ripple(G, P, 0)[0] = 0
  <2>1. 0 \in 0..8 /\ 8 * 0 + 0 = 0
    OBVIOUS
  <2>2. Ripple(G, P, 0)[0] = IF R(8 * 0 + 0) THEN 1 ELSE 0
    BY <1>2, <2>1
  <2>3. ~R(8 * 0 + 0)
    BY <1>1, <2>1
  <2> QED BY <2>2, <2>3
<1>5. ASSUME NEW i \in 0..3 PROVE Ripple(G, P, i)[8] = Ripple(G, P, i + 1)[0]
  <2>1. 8 \in 0..8 /\ 0 \in 0..8 /\ 8 * i + 8 = 8 * (i + 1) + 0
    OBVIOUS
  <2>2. Ripple(G, P, i)[8] = IF R(8 * i + 8) THEN 1 ELSE 0
    BY <1>2, <2>1
  <2>3. Ripple(G, P, i + 1)[0] = IF R(8 * (i + 1) + 0) THEN 1 ELSE 0
    BY <1>2, <2>1
  <2> QED BY <2>1, <2>2, <2>3
<1>6. ASSUME NEW i \in 0..3, NEW j \in 0..7
      PROVE  /\ Ripple(G, P, i)[j] = 1 <=> R(8 * i + j)
             /\ Ripple(G, P, i)[j + 1] = 1 <=> 8 * i + j \in G \/ (8 * i + j \in P /\ R(8 * i + j))
  <2> DEFINE k == 8 * i + j
  <2>1. k \in Nat /\ 8 * i + (j + 1) = k + 1 /\ j \in 0..8 /\ j + 1 \in 0..8
    OBVIOUS
  <2>2. Ripple(G, P, i)[j] = IF R(k) THEN 1 ELSE 0
    BY <1>2, <2>1
  <2>3. Ripple(G, P, i)[j + 1] = IF R(8 * i + (j + 1)) THEN 1 ELSE 0
    BY <1>2, <2>1
  <2>4. R(8 * i + (j + 1)) <=> R(k + 1)
    BY <2>1
  <2>5. R(k + 1) <=> k \in G \/ (k \in P /\ R(k))
    BY <1>1, <2>1
  <2> HIDE DEF k
  <2>6. /\ Ripple(G, P, i)[j] = 1 <=> R(k)
        /\ Ripple(G, P, i)[j + 1] = 1 <=> k \in G \/ (k \in P /\ R(k))
    BY <2>2, <2>3, <2>4, <2>5
  <2> QED BY <2>6 DEF k
<1> QED BY <1>3, <1>4, <1>5, <1>6 DEF R

(* The carry out of a byte is the carry into the next. *)
LEMMA CarriesAlong ==
  ASSUME NEW st, NEW ct, NEW a, NEW b, NEW q, NEW U, q[0] = 0,
         \A i \in 0..3 : /\ Ones(TableByte(st, Indexing(a[i], b[i], q[i]))) = U[i]
                         /\ TableByte(ct, Indexing(a[i], b[i], q[i])) = q[i + 1]
  PROVE  \A i \in 0..3 : Ones(SumOf(st, ct, a, b)[i]) = U[i]
<1> DEFINE n(i) == Indexing(a[i], b[i], q[i])
           k0 == 0
           k1 == 1
           k2 == 2
           k3 == 3
<1>1. k0 \in 0..3 /\ k1 \in 0..3 /\ k2 \in 0..3 /\ k3 \in 0..3
  OBVIOUS
<1>2. k0 + 1 = 1 /\ k1 + 1 = 2 /\ k2 + 1 = 3
  OBVIOUS
<1>3. \A i \in 0..3 : Ones(TableByte(st, n(i))) = U[i] /\ TableByte(ct, n(i)) = q[i + 1]
  BY Zenon
<1>4. \A i : n(i) = Indexing(a[i], b[i], q[i])
  OBVIOUS
<1> HIDE DEF k0, k1, k2, k3, n
<1>5. /\ TableByte(ct, n(k0)) = q[1] /\ TableByte(ct, n(k1)) = q[2] /\ TableByte(ct, n(k2)) = q[3]
  BY <1>1, <1>2, <1>3
<1>6. Index0(a, b) = n(k0)
  BY <1>4 DEF Index0, k0
<1>7. Index1(ct, a, b) = n(k1)
  BY <1>4, <1>5, <1>6 DEF Index1, k1
<1>8. Index2(ct, a, b) = n(k2)
  BY <1>4, <1>5, <1>7 DEF Index2, k2
<1>9. Index3(ct, a, b) = n(k3)
  BY <1>4, <1>5, <1>8 DEF Index3, k3
<1>10. /\ SumOf(st, ct, a, b)[k0] = TableByte(st, n(k0)) /\ SumOf(st, ct, a, b)[k1] = TableByte(st, n(k1))
       /\ SumOf(st, ct, a, b)[k2] = TableByte(st, n(k2)) /\ SumOf(st, ct, a, b)[k3] = TableByte(st, n(k3))
  BY <1>6, <1>7, <1>8, <1>9 DEF SumOf, k0, k1, k2, k3
<1>11. \A i \in 0..3 : i = k0 \/ i = k1 \/ i = k2 \/ i = k3
  BY DEF k0, k1, k2, k3
<1> QED BY <1>1, <1>3, <1>10, <1>11

(* One bit of a sum, and one of a difference.                               *)
LEMMA FullAdder ==
  ASSUME NEW X \in BOOLEAN, NEW Y \in BOOLEAN, NEW C \in BOOLEAN, NEW Z \in BOOLEAN,
         Z <=> (X <=> (Y <=> C)),
         NEW p \in {0, 1}, p = 1 <=> X, NEW q \in {0, 1}, q = 1 <=> Y,
         NEW c \in {0, 1}, c = 1 <=> C, NEW u \in {0, 1}, u = 1 <=> Z, NEW v \in {0, 1}
  PROVE  /\ (v = 1 <=> (X /\ Y) \/ ((X \/ Y) /\ C)) => p + q + c = u + 2 * v
         /\ (v = 1 <=> (Y /\ ~X) \/ ((~X \/ Y) /\ C)) => q + u + c = p + 2 * v
<1> DEFINE Goal == /\ (v = 1 <=> (X /\ Y) \/ ((X \/ Y) /\ C)) => p + q + c = u + 2 * v
                   /\ (v = 1 <=> (Y /\ ~X) \/ ((~X \/ Y) /\ C)) => q + u + c = p + 2 * v
<1>1. /\ p = IF X THEN 1 ELSE 0
      /\ q = IF Y THEN 1 ELSE 0
      /\ c = IF C THEN 1 ELSE 0
      /\ u = IF Z THEN 1 ELSE 0
  OBVIOUS
<1>2. ASSUME X, Y PROVE Goal
  <2>1. Z <=> C
    BY <1>2
  <2> QED BY <1>1, <1>2, <2>1
<1>3. ASSUME X, ~Y PROVE Goal
  <2>1. Z <=> ~C
    BY <1>3
  <2> QED BY <1>1, <1>3, <2>1
<1>4. ASSUME ~X, Y PROVE Goal
  <2>1. Z <=> ~C
    BY <1>4
  <2> QED BY <1>1, <1>4, <2>1
<1>5. ASSUME ~X, ~Y PROVE Goal
  <2>1. Z <=> C
    BY <1>5
  <2> QED BY <1>1, <1>5, <2>1
<1> QED BY <1>2, <1>3, <1>4, <1>5

(* The bits of a word, those of another, and the carries between them.      *)
LEMMA PlusBits ==
  ASSUME NEW x, x \subseteq 0..31, NEW y, y \subseteq 0..31
  PROVE  /\ X86!Plus(x, y) \subseteq 0..31
         /\ \A k \in 0..31 : k \in X86!Plus(x, y) <=>
              (k \in x <=> (k \in y <=> X86!Reaches(k, x \cap y, x \cup y)))
<1> DEFINE R(k) == X86!Reaches(k, x \cap y, x \cup y)
           C == {k \in 0..31 : R(k)}
<1>1. X86!Plus(x, y) = X86!Xor(X86!Xor(x, y), C)
  BY DEF X86!Plus, X86!Bits
<1>2. \A k \in 0..31 : k \in C <=> R(k)
  OBVIOUS
<1>3. C \subseteq 0..31
  OBVIOUS
<1> HIDE DEF C, R
<1>4. X86!Plus(x, y) \subseteq 0..31
  BY <1>1, <1>3 DEF X86!Xor
<1>5. \A k : k \in X86!Plus(x, y) <=> (k \in x <=> (k \in y <=> k \in C))
  BY <1>1 DEF X86!Xor
<1>6. \A k \in 0..31 : k \in X86!Plus(x, y) <=> (k \in x <=> (k \in y <=> R(k)))
  BY <1>2, <1>5
<1> QED BY <1>4, <1>6 DEF R

(* Bit k of a difference.                                                   *)
LEMMA MinusBits ==
  ASSUME NEW x, x \subseteq 0..31, NEW y, y \subseteq 0..31
  PROVE  /\ X86!Minus(x, y) \subseteq 0..31
         /\ \A k \in 0..31 : k \in X86!Minus(x, y) <=>
              (k \in x <=> (k \in y <=> X86!Reaches(k, y \ x, ((0..31) \ x) \cup y)))
<1> DEFINE R(k) == X86!Reaches(k, y \ x, ((0..31) \ x) \cup y)
           C == {k \in 0..31 : R(k)}
<1>1. X86!Minus(x, y) = X86!Xor(X86!Xor(x, y), C)
  BY DEF X86!Minus, X86!Bits
<1>2. \A k \in 0..31 : k \in C <=> R(k)
  OBVIOUS
<1>3. C \subseteq 0..31
  OBVIOUS
<1> HIDE DEF C, R
<1>4. X86!Minus(x, y) \subseteq 0..31
  BY <1>1, <1>3 DEF X86!Xor
<1>5. \A k : k \in X86!Minus(x, y) <=> (k \in x <=> (k \in y <=> k \in C))
  BY <1>1 DEF X86!Xor
<1>6. \A k \in 0..31 : k \in X86!Minus(x, y) <=> (k \in x <=> (k \in y <=> R(k)))
  BY <1>2, <1>5
<1> QED BY <1>4, <1>6 DEF R

(* The bits of z are those of x and y, and the carries of G and P; the       *)
(* carries of a sum, and the borrows of a difference.                       *)
XorsTo(x, y, G, P, z) ==
  \A k \in 0..31 : k \in z <=> (k \in x <=> (k \in y <=> X86!Reaches(k, G, P)))
Carries(x, y, G, P) ==
  \A k \in 0..31 : /\ k \in G <=> k \in x /\ k \in y
                   /\ k \in P <=> k \in x \/ k \in y
Borrows(x, y, G, P) ==
  \A k \in 0..31 : /\ k \in G <=> k \in y /\ k \notin x
                   /\ k \in P <=> k \notin x \/ k \in y
(* A row of adders for each byte of a word.                                 *)
AddsBit(a, b, z, r, i, j) ==
  Bit(Ones(a[i]), j) + Bit(Ones(b[i]), j) + r[j] = Bit(Slice(z, i), j) + 2 * r[j + 1]
SubtractsBit(a, b, z, r, i, j) ==
  Bit(Ones(b[i]), j) + Bit(Slice(z, i), j) + r[j] = Bit(Ones(a[i]), j) + 2 * r[j + 1]

LEMMA RowOfAdders ==
  ASSUME NEW a \in Word, NEW b \in Word, NEW z, NEW G, G \subseteq 0..31, NEW P,
         XorsTo(BitsOf(a), BitsOf(b), G, P, z),
         NEW i \in 0..3, NEW j \in 0..7
  PROVE  /\ Carries(BitsOf(a), BitsOf(b), G, P) => AddsBit(a, b, z, Ripple(G, P, i), i, j)
         /\ Borrows(BitsOf(a), BitsOf(b), G, P) => SubtractsBit(a, b, z, Ripple(G, P, i), i, j)
<1> DEFINE r == Ripple(G, P, i)
           k == 8 * i + j
           x == BitsOf(a)
           y == BitsOf(b)
           X == k \in x
           Y == k \in y
           C == X86!Reaches(k, G, P)
           Z == k \in z
           p == Bit(Ones(a[i]), j)
           q == Bit(Ones(b[i]), j)
           u == Bit(Slice(z, i), j)
           c == r[j]
           v == r[j + 1]
<1>1. k \in 0..31
  BY Places32
<1>2. X \in BOOLEAN /\ Y \in BOOLEAN /\ Z \in BOOLEAN /\ C \in BOOLEAN
  BY DEF X86!Reaches
<1>3. /\ p \in {0, 1} /\ (p = 1 <=> X)
      /\ q \in {0, 1} /\ (q = 1 <=> Y)
      /\ u \in {0, 1} /\ (u = 1 <=> Z)
  <2>1. Ones(a[i]) = Slice(x, i) /\ Ones(b[i]) = Slice(y, i)
    BY SliceOfWord
  <2>2. \A s : j \in Slice(s, i) <=> k \in s
    BY DEF Slice
  <2>3. \A S : Bit(S, j) \in {0, 1} /\ (Bit(S, j) = 1 <=> j \in S)
    BY DEF Bit
  <2> HIDE DEF k, x, y
  <2> QED BY <2>1, <2>2, <2>3
<1>4. /\ c \in {0, 1} /\ v \in {0, 1}
      /\ c = 1 <=> C
      /\ v = 1 <=> k \in G \/ (k \in P /\ C)
  <2>1. j \in 0..8 /\ j + 1 \in 0..8
    OBVIOUS
  <2> DEFINE Made(l, t) == /\ t[j] = 1 <=> X86!Reaches(l, G, P)
                           /\ t[j + 1] = 1 <=> l \in G \/ (l \in P /\ X86!Reaches(l, G, P))
  <2>2. Ripple(G, P, i)[j] \in {0, 1} /\ Ripple(G, P, i)[j + 1] \in {0, 1}
    BY <2>1, Ripples
  <2>3. Made(8 * i + j, Ripple(G, P, i))
    BY Ripples, Zenon
  <2>4. Made(k, r)
    BY <2>3
  <2> QED BY <2>2, <2>4
<1>5. Z <=> (X <=> (Y <=> C))
  BY <1>1 DEF XorsTo
<1> HIDE DEF p, q, u, c, v, C, X, Y, Z
<1>6. /\ (v = 1 <=> (X /\ Y) \/ ((X \/ Y) /\ C)) => p + q + c = u + 2 * v
      /\ (v = 1 <=> (Y /\ ~X) \/ ((~X \/ Y) /\ C)) => q + u + c = p + 2 * v
  BY ONLY <1>2, <1>3, <1>4, <1>5, FullAdder
<1>7. ASSUME Carries(x, y, G, P)
      PROVE  p + q + c = u + 2 * v
  <2>1. (k \in G <=> X /\ Y) /\ (k \in P <=> X \/ Y)
    BY <1>1, <1>7 DEF X, Y, Carries
  <2> QED BY <1>4, <1>6, <2>1
<1>8. ASSUME Borrows(x, y, G, P)
      PROVE  q + u + c = p + 2 * v
  <2>1. (k \in G <=> Y /\ ~X) /\ (k \in P <=> ~X \/ Y)
    BY <1>1, <1>8 DEF X, Y, Borrows
  <2> QED BY <1>4, <1>6, <2>1
<1>9. /\ Carries(x, y, G, P) => AddsBit(a, b, z, r, i, j)
      /\ Borrows(x, y, G, P) => SubtractsBit(a, b, z, r, i, j)
  BY <1>7, <1>8, Zenon DEF p, q, u, c, v, AddsBit, SubtractsBit
<1> QED BY <1>9

(* The stages add and subtract as the instructions do.                      *)
LEMMA PlusWord ==
  ASSUME NEW a \in Word, NEW b \in Word
  PROVE  BitsOf(SumOf(<<"add8_sum">>, <<"add8_carry">>, a, b)) = X86!Plus(BitsOf(a), BitsOf(b))
<1> DEFINE x == BitsOf(a)
           y == BitsOf(b)
           G == x \cap y
           P == x \cup y
           z == X86!Plus(x, y)
           st == <<"add8_sum">>
           ct == <<"add8_carry">>
           q == [i \in 0..4 |-> Ripple(G, P, i)[0]]
           U == [i \in 0..3 |-> Slice(z, i)]
           n(i) == Indexing(a[i], b[i], q[i])
<1>1. x \subseteq 0..31 /\ y \subseteq 0..31
  BY DEF BitsOf
<1>2. /\ z \subseteq 0..31
      /\ XorsTo(x, y, G, P, z)
  <2> HIDE DEF x, y
  <2> QED BY <1>1, PlusBits DEF XorsTo
<1>3. /\ G \subseteq 0..31
      /\ Carries(x, y, G, P)
  BY <1>1 DEF Carries
<1> HIDE DEF x, y, z, G, P
<1>4. /\ \A i \in 0..3, j \in 0..8 : Ripple(G, P, i)[j] \in {0, 1}
      /\ Ripple(G, P, 0)[0] = 0
      /\ \A i \in 0..3 : Ripple(G, P, i)[8] = Ripple(G, P, i + 1)[0]
  <2>1. G \subseteq 0..31
    BY <1>3
  <2> QED BY ONLY <2>1, Ripples, Zenon
<1>5. ASSUME NEW i \in 0..3
      PROVE  /\ Ones(TableByte(st, n(i))) = Slice(z, i)
             /\ TableByte(ct, n(i)) = Ripple(G, P, i + 1)[0]
  <2> DEFINE r == Ripple(G, P, i)
  <2>1. a[i] \in Byte /\ b[i] \in Byte
    BY DEF Word
  <2>2. \A j \in 0..8 : r[j] \in {0, 1}
    BY <1>4
  <2>3. r[8] = Ripple(G, P, i + 1)[0]
    BY <1>4
  <2>4. Slice(z, i) \subseteq 0..7
    BY DEF Slice
  <2>5. r = Ripple(G, P, i)
    OBVIOUS
  <2>6. i \in 0..4 /\ q[i] = r[0]
    OBVIOUS
  <2> HIDE DEF r, q
  <2>7. ASSUME NEW j \in 0..7
        PROVE  Bit(Ones(a[i]), j) + Bit(Ones(b[i]), j) + r[j] = Bit(Slice(z, i), j) + 2 * r[j + 1]
    <3>1. XorsTo(BitsOf(a), BitsOf(b), G, P, z) /\ Carries(BitsOf(a), BitsOf(b), G, P)
      BY <1>2, <1>3 DEF x, y
    <3>3. G \subseteq 0..31
      BY <1>3
    <3>4. AddsBit(a, b, z, Ripple(G, P, i), i, j)
      BY <3>1, <3>3, RowOfAdders
    <3> QED BY <3>4 DEF AddsBit, r
  <2>8. n(i) = Indexing(a[i], b[i], r[0])
    BY <2>6
  <2> HIDE DEF n
  <2>9. Ones(TableByte(<<"add8_sum">>, n(i))) = Slice(z, i) /\ TableByte(<<"add8_carry">>, n(i)) = r[8]
    BY ONLY <2>1, <2>2, <2>4, <2>7, <2>8, AddTableBits
  <2> QED BY <2>3, <2>9
<1>6. q[0] = 0
  BY <1>4
<1>7. \A i \in 0..3 : Ones(TableByte(st, n(i))) = U[i] /\ TableByte(ct, n(i)) = q[i + 1]
  <2>1. \A i \in 0..3 : U[i] = Slice(z, i) /\ q[i + 1] = Ripple(G, P, i + 1)[0]
    OBVIOUS
  <2> HIDE DEF U, q, n
  <2> QED BY <1>5, <2>1
<1>8. \A i \in 0..3 : Ones(SumOf(st, ct, a, b)[i]) = U[i]
  <2> HIDE DEF U, q, st, ct
  <2> QED BY ONLY <1>6, <1>7, CarriesAlong
<1>9. \A i \in 0..3 : U[i] = Slice(z, i)
  OBVIOUS
<1> HIDE DEF U, q, n
<1>10. BitsOf(SumOf(st, ct, a, b)) = z
  BY <1>2, <1>8, <1>9, WordOfSlices
<1> QED BY <1>10 DEF x, y, z

(* The four looked-up bytes are the difference of the words.                *)
LEMMA MinusWord ==
  ASSUME NEW a \in Word, NEW b \in Word
  PROVE  BitsOf(SumOf(<<"sub8_diff">>, <<"sub8_borrow">>, a, b)) = X86!Minus(BitsOf(a), BitsOf(b))
<1> DEFINE x == BitsOf(a)
           y == BitsOf(b)
           G == y \ x
           P == ((0..31) \ x) \cup y
           z == X86!Minus(x, y)
           st == <<"sub8_diff">>
           ct == <<"sub8_borrow">>
           q == [i \in 0..4 |-> Ripple(G, P, i)[0]]
           U == [i \in 0..3 |-> Slice(z, i)]
           n(i) == Indexing(a[i], b[i], q[i])
<1>1. x \subseteq 0..31 /\ y \subseteq 0..31
  BY DEF BitsOf
<1>2. /\ z \subseteq 0..31
      /\ XorsTo(x, y, G, P, z)
  <2> HIDE DEF x, y
  <2> QED BY <1>1, MinusBits DEF XorsTo
<1>3. /\ G \subseteq 0..31
      /\ Borrows(x, y, G, P)
  BY <1>1 DEF Borrows
<1> HIDE DEF x, y, z, G, P
<1>4. /\ \A i \in 0..3, j \in 0..8 : Ripple(G, P, i)[j] \in {0, 1}
      /\ Ripple(G, P, 0)[0] = 0
      /\ \A i \in 0..3 : Ripple(G, P, i)[8] = Ripple(G, P, i + 1)[0]
  <2>1. G \subseteq 0..31
    BY <1>3
  <2> QED BY ONLY <2>1, Ripples, Zenon
<1>5. ASSUME NEW i \in 0..3
      PROVE  /\ Ones(TableByte(st, n(i))) = Slice(z, i)
             /\ TableByte(ct, n(i)) = Ripple(G, P, i + 1)[0]
  <2> DEFINE r == Ripple(G, P, i)
  <2>1. a[i] \in Byte /\ b[i] \in Byte
    BY DEF Word
  <2>2. \A j \in 0..8 : r[j] \in {0, 1}
    BY <1>4
  <2>3. r[8] = Ripple(G, P, i + 1)[0]
    BY <1>4
  <2>4. Slice(z, i) \subseteq 0..7
    BY DEF Slice
  <2>5. r = Ripple(G, P, i)
    OBVIOUS
  <2>6. i \in 0..4 /\ q[i] = r[0]
    OBVIOUS
  <2> HIDE DEF r, q
  <2>7. ASSUME NEW j \in 0..7
        PROVE  Bit(Ones(b[i]), j) + Bit(Slice(z, i), j) + r[j] = Bit(Ones(a[i]), j) + 2 * r[j + 1]
    <3>1. XorsTo(BitsOf(a), BitsOf(b), G, P, z) /\ Borrows(BitsOf(a), BitsOf(b), G, P)
      BY <1>2, <1>3 DEF x, y
    <3>3. G \subseteq 0..31
      BY <1>3
    <3>4. SubtractsBit(a, b, z, Ripple(G, P, i), i, j)
      BY <3>1, <3>3, RowOfAdders
    <3> QED BY <3>4 DEF SubtractsBit, r
  <2>8. n(i) = Indexing(a[i], b[i], r[0])
    BY <2>6
  <2> HIDE DEF n
  <2>9. Ones(TableByte(<<"sub8_diff">>, n(i))) = Slice(z, i) /\ TableByte(<<"sub8_borrow">>, n(i)) = r[8]
    BY ONLY <2>1, <2>2, <2>4, <2>7, <2>8, SubTableBits
  <2> QED BY <2>3, <2>9
<1>6. q[0] = 0
  BY <1>4
<1>7. \A i \in 0..3 : Ones(TableByte(st, n(i))) = U[i] /\ TableByte(ct, n(i)) = q[i + 1]
  <2>1. \A i \in 0..3 : U[i] = Slice(z, i) /\ q[i + 1] = Ripple(G, P, i + 1)[0]
    OBVIOUS
  <2> HIDE DEF U, q, n
  <2> QED BY <1>5, <2>1
<1>8. \A i \in 0..3 : Ones(SumOf(st, ct, a, b)[i]) = U[i]
  <2> HIDE DEF U, q, st, ct
  <2> QED BY ONLY <1>6, <1>7, CarriesAlong
<1>9. \A i \in 0..3 : U[i] = Slice(z, i)
  OBVIOUS
<1> HIDE DEF U, q, n
<1>10. BitsOf(SumOf(st, ct, a, b)) = z
  BY <1>2, <1>8, <1>9, WordOfSlices
<1> QED BY <1>10 DEF x, y, z

(* The bytes of an immediate have its bits.                                 *)
LEMMA BitPowers ==
  /\ 2^8 = 256 /\ 2^9 = 512 /\ 2^10 = 1024 /\ 2^11 = 2048 /\ 2^12 = 4096 /\ 2^13 = 8192
  /\ 2^14 = 16384 /\ 2^15 = 32768 /\ 2^16 = 65536 /\ 2^17 = 131072 /\ 2^18 = 262144
  /\ 2^19 = 524288 /\ 2^20 = 1048576 /\ 2^21 = 2097152 /\ 2^22 = 4194304 /\ 2^23 = 8388608
  /\ 2^24 = 16777216 /\ 2^25 = 33554432 /\ 2^26 = 67108864 /\ 2^27 = 134217728
  /\ 2^28 = 268435456 /\ 2^29 = 536870912 /\ 2^30 = 1073741824
  /\ 256^0 = 1 /\ 256^1 = 256 /\ 256^2 = 65536 /\ 256^3 = 16777216
  OBVIOUS

(* The bits of a byte are those of the number it is the lowest byte of.     *)
LEMMA LowBits ==
  ASSUME NEW m \in Int
  PROVE  \A j \in 0..7 : ((m % 256) \div 2^j) % 2 = (m \div 2^j) % 2
<1>1. m % 256 \in 0..255 /\ m \div 256 \in Int /\ m = 256 * (m \div 256) + (m % 256)
  BY SMT
<1> DEFINE h == m \div 256
           l == m % 256
<1> HIDE DEF h, l
<1>2. l \in 0..255 /\ h \in Int /\ m = 256 * h + l
  BY <1>1 DEF h, l
<1>3. (m \div 1) % 2 = (l \div 1) % 2
  BY ONLY <1>2, SMT
<1>4. (m \div 2) % 2 = (l \div 2) % 2
  BY ONLY <1>2, SMT
<1>5. (m \div 4) % 2 = (l \div 4) % 2
  BY ONLY <1>2, SMT
<1>6. (m \div 8) % 2 = (l \div 8) % 2
  BY ONLY <1>2, SMT
<1>7. (m \div 16) % 2 = (l \div 16) % 2
  BY ONLY <1>2, SMT
<1>8. (m \div 32) % 2 = (l \div 32) % 2
  BY ONLY <1>2, SMT
<1>9. (m \div 64) % 2 = (l \div 64) % 2
  BY ONLY <1>2, SMT
<1>10. (m \div 128) % 2 = (l \div 128) % 2
  BY ONLY <1>2, SMT
<1> DEFINE P(j) == (l \div 2^j) % 2 = (m \div 2^j) % 2
<1>11. P(0) /\ P(1) /\ P(2) /\ P(3)
  BY ONLY <1>3, <1>4, <1>5, <1>6, TwoPowers, Zenon
<1>12. P(4) /\ P(5) /\ P(6) /\ P(7)
  BY ONLY <1>7, <1>8, <1>9, <1>10, TwoPowers, Zenon
<1> HIDE DEF P
<1>13. \A j \in 0..7 : j = 0 \/ j = 1 \/ j = 2 \/ j = 3 \/ j = 4 \/ j = 5 \/ j = 6 \/ j = 7
  OBVIOUS
<1>14. \A j \in 0..7 : P(j)
  BY <1>11, <1>12, <1>13
<1> QED BY <1>14 DEF P, l

(* A quotient of a quotient.                                                *)
LEMMA QuotientBits ==
  ASSUME NEW n \in Int
  PROVE  /\ \A j \in 0..7 : (n \div 1) \div 2^j = n \div 2^j
         /\ \A j \in 0..7 : (n \div 256) \div 2^j = n \div 2^(8 + j)
         /\ \A j \in 0..7 : (n \div 256^2) \div 2^j = n \div 2^(16 + j)
         /\ \A j \in 0..6 : (n \div 256^3) \div 2^j = n \div 2^(24 + j)
<1>0. \A j \in 0..7 : j = 0 \/ j = 1 \/ j = 2 \/ j = 3 \/ j = 4 \/ j = 5 \/ j = 6 \/ j = 7
  OBVIOUS
<1>1. \A j \in 0..7 : (n \div 1) \div 2^j = n \div 2^j
  BY SMT
<1>2. \A j \in 0..7 : (n \div 256) \div 2^j = n \div 2^(8 + j)
  <2> DEFINE P(j) == (n \div 256) \div 2^j = n \div 2^(8 + j)
  <2>1. P(0) /\ P(1)
    BY BitPowers, TwoPowers, SMT
  <2>2. P(2) /\ P(3)
    BY BitPowers, TwoPowers, SMT
  <2>3. P(4) /\ P(5)
    BY BitPowers, TwoPowers, SMT
  <2>4. P(6) /\ P(7)
    BY BitPowers, TwoPowers, SMT
  <2> HIDE DEF P
  <2>5. \A j \in 0..7 : P(j)
    BY <1>0, <2>1, <2>2, <2>3, <2>4
  <2> QED BY <2>5 DEF P
<1> DEFINE Third(j) == (n \div 256^2) \div 2^j = n \div 2^(16 + j)
           Fourth(j) == (n \div 256^3) \div 2^j = n \div 2^(24 + j)
<1>3. Third(0) /\ Third(1)
  BY BitPowers, TwoPowers, SMT
<1>4. Third(2) /\ Third(3)
  BY BitPowers, TwoPowers, SMT
<1>5. Third(4) /\ Third(5)
  BY BitPowers, TwoPowers, SMT
<1>6. Third(6) /\ Third(7)
  BY BitPowers, TwoPowers, SMT
<1>7. Fourth(0) /\ Fourth(1)
  BY BitPowers, TwoPowers, SMT
<1>8. Fourth(2) /\ Fourth(3)
  BY BitPowers, TwoPowers, SMT
<1>9. Fourth(4) /\ Fourth(5)
  BY BitPowers, TwoPowers, SMT
<1>10. Fourth(6)
  BY BitPowers, TwoPowers, SMT
<1> HIDE DEF Third, Fourth
<1>11. \A j \in 0..7 : Third(j)
  BY <1>0, <1>3, <1>4, <1>5, <1>6
<1>12. \A j \in 0..6 : Fourth(j)
  BY <1>0, <1>7, <1>8, <1>9, <1>10
<1>13. \A j \in 0..7 : (n \div 256^2) \div 2^j = n \div 2^(16 + j)
  BY <1>11 DEF Third
<1>14. \A j \in 0..6 : (n \div 256^3) \div 2^j = n \div 2^(24 + j)
  BY <1>12 DEF Fourth
<1> QED BY <1>1, <1>2, <1>13, <1>14

(* A constant that fits a register, in two's complement.                    *)
Immediate32(n) == n \in Int /\ -2147483647 - 1 =< n /\ n =< 2147483647

LEMMA BitsOfImm ==
  ASSUME NEW n, Immediate32(n)
  PROVE  BitsOf(WordBytes(n)) = X86!WordOf(n)
<1> DEFINE w == WordBytes(n)
           b(i, j) == ((n \div 256^i) \div 2^j) % 2 = 1
           k0 == 0
           k1 == 1
           k2 == 2
           k3 == 3
<1>1. n \in Int
  BY DEF Immediate32
<1>2. \A i \in 0..3 : i = k0 \/ i = k1 \/ i = k2 \/ i = k3
  OBVIOUS
<1>3. n \div 256^k0 \in Int /\ n \div 256^k1 \in Int /\ n \div 256^k2 \in Int /\ n \div 256^k3 \in Int
  BY <1>1, BitPowers, SMT
<1>4. 256^k0 = 1 /\ 256^k1 = 256
  BY BitPowers, SMT
<1>5. \A j \in 0..7 : (n \div 256^k0) \div 2^j = n \div 2^(8 * k0 + j)
  <2>1. \A j \in 0..7 : (n \div 1) \div 2^j = n \div 2^j
    BY <1>1, QuotientBits
  <2>2. \A j \in 0..7 : 8 * k0 + j = j
    OBVIOUS
  <2> HIDE DEF k0
  <2> QED BY <1>4, <2>1, <2>2
<1>6. \A j \in 0..7 : (n \div 256^k1) \div 2^j = n \div 2^(8 * k1 + j)
  <2>1. \A j \in 0..7 : (n \div 256) \div 2^j = n \div 2^(8 + j)
    BY <1>1, QuotientBits
  <2>2. 8 * k1 = 8
    OBVIOUS
  <2> HIDE DEF k1
  <2> QED BY <1>4, <2>1, <2>2
<1>7. \A j \in 0..7 : (n \div 256^k2) \div 2^j = n \div 2^(8 * k2 + j)
  <2>1. \A j \in 0..7 : (n \div 256^2) \div 2^j = n \div 2^(16 + j)
    BY <1>1, QuotientBits
  <2>2. 8 * k2 = 16 /\ k2 = 2
    OBVIOUS
  <2> HIDE DEF k2
  <2> QED BY <2>1, <2>2
<1>8. \A j \in 0..6 : (n \div 256^k3) \div 2^j = n \div 2^(8 * k3 + j)
  <2>1. \A j \in 0..6 : (n \div 256^3) \div 2^j = n \div 2^(24 + j)
    BY <1>1, QuotientBits
  <2>2. 8 * k3 = 24 /\ k3 = 3
    OBVIOUS
  <2> HIDE DEF k3
  <2> QED BY <2>1, <2>2
<1>9. b(3, 7) <=> n < 0
  <2>1. 256^3 = 16777216 /\ 2^7 = 128
    BY BitPowers, TwoPowers, SMT
  <2>2. ((n \div 16777216) \div 128) % 2 = 1 <=> n < 0
    BY SMT DEF Immediate32
  <2> QED BY ONLY <2>1, <2>2, SMT
<1>10. k0 \in 0..3 /\ k1 \in 0..3 /\ k2 \in 0..3 /\ k3 \in 0..3 /\ k3 = 3 /\ k0 # 3 /\ k1 # 3 /\ k2 # 3
  OBVIOUS
<1> HIDE DEF k0, k1, k2, k3
<1>11. ASSUME NEW i \in 0..3 PROVE n \div 256^i \in Int
  BY <1>2, <1>3
<1>12. ASSUME NEW i \in 0..3, NEW j \in 0..7, i = 3 => j # 7
       PROVE  (n \div 256^i) \div 2^j = n \div 2^(8 * i + j)
  <2>1. CASE i = k0
    BY <1>5, <2>1
  <2>2. CASE i = k1
    BY <1>6, <2>2
  <2>3. CASE i = k2
    BY <1>7, <2>3
  <2>4. CASE i = k3
    <3>1. j \in 0..6
      BY <1>10, <1>12, <2>4
    <3> QED BY <1>8, <2>4, <3>1
  <2> QED BY <1>2, <2>1, <2>2, <2>3, <2>4
<1>13. ASSUME NEW i \in 0..3, NEW j \in 0..7 PROVE j \in Ones(w[i]) <=> b(i, j)
  <2> DEFINE m == n \div 256^i
  <2>1. m \in Int
    BY <1>11
  <2>2. w[i] = m % 256
    BY DEF WordBytes, ImmByte
  <2> HIDE DEF m, w
  <2>3. ((m % 256) \div 2^j) % 2 = (m \div 2^j) % 2
    BY <2>1, LowBits
  <2>4. j \in Ones(w[i]) <=> (w[i] \div 2^j) % 2 = 1
    BY DEF Ones
  <2> QED BY <2>2, <2>3, <2>4 DEF m
<1> HIDE DEF w
<1>14. ASSUME NEW k \in 0..31 PROVE k \in BitsOf(w) <=> k \in X86!WordOf(n)
  <2> DEFINE i == k \div 8
             j == k % 8
  <2>1. i \in 0..3 /\ j \in 0..7 /\ 8 * i + j = k
    BY Places32
  <2>2. k \in BitsOf(w) <=> j \in Ones(w[i])
    BY BitOfWord
  <2> HIDE DEF i, j
  <2>3. k \in BitsOf(w) <=> b(i, j)
    BY <1>13, <2>1, <2>2
  <2>4. CASE i = 3 /\ j = 7
    <3>1. k = 31
      BY <2>1, <2>4
    <3>2. k \in BitsOf(w) <=> n < 0
      BY <1>9, <2>3, <2>4
    <3>3. 31 \in X86!WordOf(n) <=> n < 0
      BY DEF X86!WordOf
    <3> QED BY <3>1, <3>2, <3>3
  <2>5. CASE ~(i = 3 /\ j = 7)
    <3>1. k \in 0..30
      BY <2>1, <2>5
    <3>2. (n \div 256^i) \div 2^j = n \div 2^k
      BY <1>12, <2>1, <2>5
    <3>3. k \in BitsOf(w) <=> (n \div 2^k) % 2 = 1
      BY <2>3, <3>2
    <3>4. k # 31
      BY <3>1
    <3>5. k \in X86!WordOf(n) <=> (n \div 2^k) % 2 = 1
      BY <3>1, <3>4 DEF X86!WordOf
    <3> QED BY <3>3, <3>5
  <2> QED BY <2>4, <2>5
<1>15. BitsOf(w) \subseteq 0..31 /\ X86!WordOf(n) \subseteq 0..31
  BY DEF BitsOf, X86!WordOf
<1>16. BitsOf(w) = X86!WordOf(n)
  BY <1>14, <1>15
<1> QED BY <1>16 DEF w

(* Nothing to add, nothing to subtract.                                     *)
LEMMA AddNothing ==
  ASSUME NEW x, x \subseteq 0..31
  PROVE  /\ X86!WordOf(0) = {}
         /\ X86!Plus(x, {}) = x /\ X86!Minus(x, {}) = x
<1> DEFINE e == {}
           n == 0
<1>1. e \subseteq 0..31 /\ (\A k : k \notin e) /\ n = 0
  OBVIOUS
<1>2. Immediate32(n)
  BY DEF Immediate32
<1> HIDE DEF e, n
<1>3. X86!WordOf(n) = e
  <2> DEFINE w == WordBytes(n)
  <2>1. BitsOf(w) = X86!WordOf(n)
    BY <1>2, BitsOfImm
  <2>2. \A i \in 0..3 : w[i] = 0
    BY <1>1, Immediates
  <2>3. \A j \in 0..7 : j \notin Ones(0)
    <3> DEFINE P(j) == (0 \div 2^j) % 2 = 0
    <3>1. P(0) /\ P(1) /\ P(2) /\ P(3) /\ P(4) /\ P(5) /\ P(6) /\ P(7)
      BY TwoPowers, SMT
    <3>2. \A j \in 0..7 : j = 0 \/ j = 1 \/ j = 2 \/ j = 3 \/ j = 4 \/ j = 5 \/ j = 6 \/ j = 7
      OBVIOUS
    <3> HIDE DEF P
    <3>3. \A j \in 0..7 : P(j)
      BY <3>1, <3>2
    <3>4. \A j \in 0..7 : (0 \div 2^j) % 2 # 1
      <4> SUFFICES ASSUME NEW j \in 0..7 PROVE (0 \div 2^j) % 2 # 1
        OBVIOUS
      <4>1. (0 \div 2^j) % 2 = 0
        BY <3>3 DEF P
      <4> QED BY <4>1
    <3>5. Ones(0) = {j \in 0..7 : (0 \div 2^j) % 2 = 1}
      BY DEF Ones
    <3> QED BY <3>4, <3>5
  <2> HIDE DEF w
  <2>4. \A k : k \notin BitsOf(w)
    <3> SUFFICES ASSUME NEW k, k \in BitsOf(w) PROVE FALSE
      OBVIOUS
    <3>1. k \in 0..31 /\ k % 8 \in Ones(w[k \div 8])
      BY BitOfWord
    <3>2. k \div 8 \in 0..3 /\ k % 8 \in 0..7
      BY <3>1, Places32
    <3> QED BY <2>2, <2>3, <3>1, <3>2
  <2> QED BY <1>1, <2>1, <2>4
<1>4. X86!Plus(x, e) = x
  <2>1. \A k : ~X86!Reaches(k, x \cap e, x \cup e)
    BY <1>1 DEF X86!Reaches
  <2>2. /\ X86!Plus(x, e) \subseteq 0..31
        /\ \A k \in 0..31 : k \in X86!Plus(x, e) <=>
             (k \in x <=> (k \in e <=> X86!Reaches(k, x \cap e, x \cup e)))
    BY <1>1, PlusBits
  <2>3. \A k \in 0..31 : k \in X86!Plus(x, e) <=> k \in x
    BY <1>1, <2>1, <2>2
  <2> QED BY <2>2, <2>3
<1>5. X86!Minus(x, e) = x
  <2>1. \A k : ~X86!Reaches(k, e \ x, ((0..31) \ x) \cup e)
    BY <1>1 DEF X86!Reaches
  <2>2. /\ X86!Minus(x, e) \subseteq 0..31
        /\ \A k \in 0..31 : k \in X86!Minus(x, e) <=>
             (k \in x <=> (k \in e <=> X86!Reaches(k, e \ x, ((0..31) \ x) \cup e)))
    BY <1>1, MinusBits
  <2>3. \A k \in 0..31 : k \in X86!Minus(x, e) <=> k \in x
    BY <1>1, <2>1, <2>2
  <2> QED BY <2>2, <2>3
<1> QED BY <1>3, <1>4, <1>5 DEF e, n

(* The sum and the difference with an immediate operand.                    *)
LEMMA ByImmediate ==
  ASSUME NEW a \in Word, NEW n, Immediate32(n)
  PROVE  /\ BitsOf(SumBy(<<"add8_sum">>, <<"add8_carry">>, a, n)) = X86!Plus(BitsOf(a), X86!WordOf(n))
         /\ BitsOf(SumBy(<<"sub8_diff">>, <<"sub8_borrow">>, a, n)) = X86!Minus(BitsOf(a), X86!WordOf(n))
<1>1. BitsOf(a) \subseteq 0..31
  BY DEF BitsOf
<1>2. CASE n = 0
  BY <1>1, <1>2, AddNothing DEF SumBy
<1>3. CASE n # 0
  <2>1. n \in Int
    BY DEF Immediate32
  <2>2. WordBytes(n) \in Word
    BY <2>1, Immediates
  <2>3. BitsOf(WordBytes(n)) = X86!WordOf(n)
    BY BitsOfImm
  <2> QED BY <1>3, <2>2, <2>3, PlusWord, MinusWord DEF SumBy
<1> QED BY <1>2, <1>3

-----------------------------------------------------------------------------
(* The instructions whose chains are followed to the last bit: sums,        *)
(* differences and bitwise operations of registers and of 32-bit constants. *)
WithImmediate == AddSubRI \cup BitwiseRI \cup {"LEA32r"}
WithRegister == AddSubRR \cup BitwiseRR
Arithmetic(in) ==
  /\ in.op \in WithImmediate \cup WithRegister
  /\ in.op \in WithImmediate => Immediate32(in.imm)

(* Whether the second operand is a register.                                *)
LEMMA SecondOperand ==
  ASSUME NEW in \in Instructions
  PROVE  /\ in.op \in WithImmediate => "src" \notin DOMAIN in
         /\ in.op \in WithRegister => "src" \in DOMAIN in
<1> USE DEF Family1, Family2, AddSubRI, AddSubRR, BitwiseRI, BitwiseRR, ShiftRI, ShiftCL,
            BitScan, WithImmediate, WithRegister
<1>1. CASE in \in [op : Family1, dst : GPR32, imm : Int]
  BY <1>1
<1>2. CASE in \in [op : Family2, dst : GPR32, src : GPR32]
  BY <1>2
<1>3. CASE in \in [op : ShiftCL, dst : GPR32]
  BY <1>3
<1>4. CASE in \in [op : {"MUL32ri"}, dst : GPR32, src : GPR32, imm : Int]
  BY <1>4
<1>5. CASE in \in [op : {"MUL32rr"}, dst : GPR32, src : GPR32, src2 : GPR32]
  BY <1>5
<1>6. CASE in \in [op : {"CMP32ri"}, dst : GPR32, imm : Int, cc : Conditions]
  BY <1>6
<1>7. CASE in \in [op : {"CMP32rr"}, dst : GPR32, src : GPR32, cc : Conditions]
  BY <1>7
<1>8. CASE in \in [op : {"PUSH32r", "RET", "JMP"}]
  BY <1>8
<1>9. CASE in \in [op : {"CALL32d"}, size : Nat, args : Seq(ArgMovs)]
  BY <1>9
<1>10. CASE in \in [op : {"CALL32r"}, size : Nat, args : Seq(ArgMovs), callee : GPR32]
  BY <1>10
<1> QED BY <1>1, <1>2, <1>3, <1>4, <1>5, <1>6, <1>7, <1>8, <1>9, <1>10 DEF Instructions

(* What X86Machine says of each of them.                                    *)
LEMMA ResultIs ==
  ASSUME NEW in, NEW a, a = arch.regs[in.dst],
         NEW b, b = IF "src" \in DOMAIN in THEN arch.regs[in.src] ELSE X86!WordOf(in.imm)
  PROVE  /\ in.op \in {"ADD32ri", "ADD32rr"} => X86!Result(in) = X86!Plus(a, b)
         /\ in.op \in {"SUB32ri", "SUB32rr"} => X86!Result(in) = X86!Minus(a, b)
         /\ in.op \in {"AND32ri", "AND32rr"} => X86!Result(in) = a \cap b
         /\ in.op \in {"OR32ri", "OR32rr"} => X86!Result(in) = a \cup b
         /\ in.op \in {"XOR32ri", "XOR32rr"} => X86!Result(in) = X86!Xor(a, b)
         /\ in.op = "LEA32r" => X86!Result(in) = X86!Plus(arch.regs["ebp"], X86!WordOf(in.imm))
<1>1. in.op \in {"ADD32ri", "ADD32rr"} => X86!Result(in) = X86!Plus(a, b)
  BY DEF X86!Result
<1>2. in.op \in {"SUB32ri", "SUB32rr"} => X86!Result(in) = X86!Minus(a, b)
  BY DEF X86!Result
<1>3. in.op \in {"AND32ri", "AND32rr"} => X86!Result(in) = a \cap b
  BY DEF X86!Result
<1>4. in.op \in {"OR32ri", "OR32rr"} => X86!Result(in) = a \cup b
  BY DEF X86!Result
<1>5. in.op \in {"XOR32ri", "XOR32rr"} => X86!Result(in) = X86!Xor(a, b)
  BY DEF X86!Result
<1>6. in.op = "LEA32r" => X86!Result(in) = X86!Plus(arch.regs["ebp"], X86!WordOf(in.imm))
  BY DEF X86!Result
<1> QED BY <1>1, <1>2, <1>3, <1>4, <1>5, <1>6

(* The chain of an arithmetic instruction alters its destination, into the  *)
(* word that X86Machine says, and no other register.                        *)
Altered(D, in, x) ==
  \E w \in Word : Alters(D, Chain(in), x, in.dst, w) /\ BitsOf(w) = X86!Result(in)

(* What a chain puts into its destination is a word.                        *)
LEMMA AltersWord ==
  ASSUME NEW D, NEW c, NEW x, NEW d \in D, NEW w, Alters(D, c, x, d, w)
  PROVE  w \in Word
  BY DEF Alters, Mems

(* A bitwise chain does as X86Machine says.                                 *)
LEMMA BitwiseAltered ==
  ASSUME NEW D, NEW in, in.op \in BitwiseRI \cup BitwiseRR, NEW x, NEW b,
         CombinesTo(D, Chain(in), x, in.dst, BitwiseTable(in), b),
         NEW p, p = BitsOf(x[in.dst]), NEW q, q = BitsOf(b),
         in.op \in {"AND32ri", "AND32rr"} => X86!Result(in) = p \cap q,
         in.op \in {"OR32ri", "OR32rr"} => X86!Result(in) = p \cup q,
         in.op \in {"XOR32ri", "XOR32rr"} => X86!Result(in) = X86!Xor(p, q)
  PROVE  Altered(D, in, x)
<1> DEFINE tab == BitwiseTable(in)
<1>1. PICK w \in Word : /\ Alters(D, Chain(in), x, in.dst, w)
                        /\ \A i \in 0..3 : Ones(w[i]) = Combine(tab, Ones(x[in.dst][i]), Ones(b[i]))
  BY DEF CombinesTo
<1>2. /\ tab \in BitTables
      /\ in.op \in {"AND32rr", "AND32ri"} <=> tab = <<"and8">>
      /\ in.op \in {"OR32rr", "OR32ri"} <=> tab = <<"or8">>
  BY BitwiseUses
<1> HIDE DEF tab
<1>3. BitsOf(w) = Combine(tab, p, q)
  BY <1>1, <1>2, CombineWords
<1>4. <<"and8">> # <<"or8">>
  BY SMT
<1>5. CASE in.op \in {"AND32ri", "AND32rr"}
  <2>1. Combine(tab, p, q) = p \cap q
    BY <1>2, <1>5 DEF Combine
  <2> QED BY <1>1, <1>3, <1>5, <2>1 DEF Altered
<1>6. CASE in.op \in {"OR32ri", "OR32rr"}
  <2>1. Combine(tab, p, q) = p \cup q
    BY <1>2, <1>4, <1>6 DEF Combine
  <2> QED BY <1>1, <1>3, <1>6, <2>1 DEF Altered
<1>7. CASE in.op \in {"XOR32ri", "XOR32rr"}
  <2>1. in.op \notin {"AND32rr", "AND32ri"} /\ in.op \notin {"OR32rr", "OR32ri"}
    BY <1>7
  <2>2. Combine(tab, p, q) = X86!Xor(p, q)
    BY <1>2, <2>1 DEF Combine, X86!Xor
  <2> QED BY <1>1, <1>3, <1>7, <2>2 DEF Altered
<1> QED BY <1>5, <1>6, <1>7 DEF BitwiseRI, BitwiseRR

(* So does every arithmetic one, from any memory.                           *)
LEMMA ArithmeticAltered ==
  ASSUME NEW D, Roomy(D), NEW in \in Instructions, Arithmetic(in), Required(in.op) \subseteq D,
         NEW x \in Mems(D), arch.regs = [p \in Regs |-> BitsOf(x[p])]
  PROVE  Altered(D, in, x)
<1> DEFINE d == in.dst
           a == arch.regs[d]
           b == IF "src" \in DOMAIN in THEN arch.regs[in.src] ELSE X86!WordOf(in.imm)
<1>1. /\ in.op \in WithImmediate => d \in GPR32 /\ in.imm \in Int /\ Immediate32(in.imm)
      /\ in.op \in WithRegister => d \in GPR32 /\ in.src \in GPR32
      /\ in.op \in Opcodes
  BY Operands DEF Arithmetic, WithImmediate, WithRegister, Family1, Family2
<1>2. in.op \in WithImmediate \cup WithRegister
  BY DEF Arithmetic
<1>3. in.op \in Scanned
  BY <1>2 DEF WithImmediate, WithRegister, Scanned
<1>4. Based(D)
  BY <1>1, <1>3, RequiredHas DEF Based
<1>5. in.op \in WithRegister => "rhs" \in D
  BY <1>1, RequiredHas DEF WithRegister
<1>6. d \in GPR32 /\ GPR32 \subseteq Regs /\ GPR32 \subseteq D /\ "ebp" \in Regs /\ "ebp" \in D
  BY <1>1, <1>2, Registers DEF GPR32, Regs
<1>7. \A p \in GPR32 : x[p] \in Word
  BY <1>6 DEF Mems
<1>8. a = BitsOf(x[d]) /\ arch.regs["ebp"] = BitsOf(x["ebp"]) /\ x["ebp"] \in Word /\ x[d] \in Word
  BY <1>6, <1>7 DEF Mems
<1>9. /\ in.op \in WithImmediate => b = X86!WordOf(in.imm)
      /\ in.op \in WithRegister => b = BitsOf(x[in.src]) /\ x[in.src] \in Word
  BY <1>1, <1>6, <1>7, SecondOperand
<1>10. /\ in.op \in {"ADD32ri", "ADD32rr"} => X86!Result(in) = X86!Plus(a, b)
       /\ in.op \in {"SUB32ri", "SUB32rr"} => X86!Result(in) = X86!Minus(a, b)
       /\ in.op \in {"AND32ri", "AND32rr"} => X86!Result(in) = a \cap b
       /\ in.op \in {"OR32ri", "OR32rr"} => X86!Result(in) = a \cup b
       /\ in.op \in {"XOR32ri", "XOR32rr"} => X86!Result(in) = X86!Xor(a, b)
       /\ in.op = "LEA32r" => X86!Result(in) = X86!Plus(arch.regs["ebp"], X86!WordOf(in.imm))
  BY ResultIs
<1> HIDE DEF a, b, d
<1>11. CASE in.op \in AddSubRI
  <2> DEFINE sum == SumBy(<<"add8_sum">>, <<"add8_carry">>, x[d], in.imm)
             dif == SumBy(<<"sub8_diff">>, <<"sub8_borrow">>, x[d], in.imm)
  <2>1. in.op \in WithImmediate
    BY <1>11 DEF WithImmediate
  <2>2. Alters(D, legalizeADD32ri(in), x, d, sum) /\ Alters(D, legalizeSUB32ri(in), x, d, dif)
    BY <1>1, <1>4, <2>1, AddSubRIAlters DEF d
  <2>3. BitsOf(sum) = X86!Plus(a, b) /\ BitsOf(dif) = X86!Minus(a, b)
    BY <1>1, <1>8, <1>9, <2>1, ByImmediate
  <2> HIDE DEF sum, dif
  <2>4. sum \in Word /\ dif \in Word
    BY <1>6, <2>2, AltersWord
  <2>5. CASE in.op = "ADD32ri"
    <3>1. Chain(in) = legalizeADD32ri(in)
      BY <2>5 DEF Chain, AddSubRI, AddSubRR, BitwiseRI, BitwiseRR, ShiftRI,
                 ShiftCL, BitScan, Calls, Compare, Multiply
    <3> QED BY <1>10, <2>2, <2>3, <2>4, <2>5, <3>1 DEF Altered, d
  <2>6. CASE in.op = "SUB32ri"
    <3>1. Chain(in) = legalizeSUB32ri(in)
      BY <2>6 DEF Chain, AddSubRI, AddSubRR, BitwiseRI, BitwiseRR, ShiftRI,
                 ShiftCL, BitScan, Calls, Compare, Multiply
    <3> QED BY <1>10, <2>2, <2>3, <2>4, <2>6, <3>1 DEF Altered, d
  <2> QED BY <1>11, <2>5, <2>6 DEF AddSubRI
<1>12. CASE in.op \in AddSubRR
  <2> DEFINE sum == SumOf(<<"add8_sum">>, <<"add8_carry">>, x[d], x[in.src])
             dif == SumOf(<<"sub8_diff">>, <<"sub8_borrow">>, x[d], x[in.src])
  <2>1. in.op \in WithRegister
    BY <1>12 DEF WithRegister
  <2>2. Alters(D, legalizeADD32rr(in), x, d, sum) /\ Alters(D, legalizeSUB32rr(in), x, d, dif)
    BY <1>1, <1>4, <1>5, <2>1, AddSubRRAlters DEF d
  <2>3. BitsOf(sum) = X86!Plus(a, b) /\ BitsOf(dif) = X86!Minus(a, b)
    BY <1>8, <1>9, <2>1, PlusWord, MinusWord
  <2> HIDE DEF sum, dif
  <2>4. sum \in Word /\ dif \in Word
    BY <1>6, <2>2, AltersWord
  <2>5. CASE in.op = "ADD32rr"
    <3>1. Chain(in) = legalizeADD32rr(in)
      BY <2>5 DEF Chain, AddSubRI, AddSubRR, BitwiseRI, BitwiseRR, ShiftRI,
                 ShiftCL, BitScan, Calls, Compare, Multiply
    <3> QED BY <1>10, <2>2, <2>3, <2>4, <2>5, <3>1 DEF Altered, d
  <2>6. CASE in.op = "SUB32rr"
    <3>1. Chain(in) = legalizeSUB32rr(in)
      BY <2>6 DEF Chain, AddSubRI, AddSubRR, BitwiseRI, BitwiseRR, ShiftRI,
                 ShiftCL, BitScan, Calls, Compare, Multiply
    <3> QED BY <1>10, <2>2, <2>3, <2>4, <2>6, <3>1 DEF Altered, d
  <2> QED BY <1>12, <2>5, <2>6 DEF AddSubRR
<1>13. CASE in.op = "LEA32r"
  <2> DEFINE sum == SumBy(<<"add8_sum">>, <<"add8_carry">>, x["ebp"], in.imm)
  <2>1. in.op \in WithImmediate
    BY <1>13 DEF WithImmediate
  <2>2. Alters(D, legalizeLEA32rs(in), x, d, sum)
    BY <1>1, <1>4, <2>1, LEAAlters DEF d
  <2>3. BitsOf(sum) = X86!Plus(arch.regs["ebp"], X86!WordOf(in.imm))
    BY <1>1, <1>8, <2>1, ByImmediate
  <2> HIDE DEF sum
  <2>4. sum \in Word
    BY <1>6, <2>2, AltersWord
  <2>5. Chain(in) = legalizeLEA32rs(in)
    BY <1>13 DEF Chain, AddSubRI, AddSubRR, BitwiseRI, BitwiseRR, ShiftRI,
                 ShiftCL, BitScan, Calls, Compare, Multiply
  <2> QED BY <1>10, <1>13, <2>2, <2>3, <2>4, <2>5 DEF Altered, d
<1>14. CASE in.op \in BitwiseRI
  <2>1. in.op \in WithImmediate
    BY <1>14 DEF WithImmediate
  <2>2. Chain(in) = BitwiseImm(in)
    BY <1>14 DEF Chain, AddSubRI, AddSubRR, BitwiseRI, BitwiseRR, ShiftRI,
                 ShiftCL, BitScan, Calls, Compare, Multiply
  <2>3. CombinesTo(D, Chain(in), x, in.dst, BitwiseTable(in), WordBytes(in.imm))
    BY <1>1, <1>4, <1>14, <2>1, <2>2, BitwiseImmAlters DEF d
  <2>4. b = BitsOf(WordBytes(in.imm))
    BY <1>1, <1>9, <2>1, BitsOfImm
  <2> QED BY <1>8, <1>10, <1>14, <2>3, <2>4, BitwiseAltered DEF d
<1>15. CASE in.op \in BitwiseRR
  <2>1. in.op \in WithRegister
    BY <1>15 DEF WithRegister
  <2>2. Chain(in) = legalizeBitwise32rr(in)
    BY <1>15 DEF Chain, AddSubRI, AddSubRR, BitwiseRI, BitwiseRR, ShiftRI,
                 ShiftCL, BitScan, Calls, Compare, Multiply
  <2>3. CombinesTo(D, Chain(in), x, in.dst, BitwiseTable(in), x[in.src])
    BY <1>1, <1>4, <1>5, <1>15, <2>1, <2>2, BitwiseRRAlters DEF d
  <2> QED BY <1>8, <1>9, <1>10, <1>15, <2>1, <2>3, BitwiseAltered DEF d
<1> QED BY <1>2, <1>11, <1>12, <1>13, <1>14, <1>15 DEF WithImmediate, WithRegister

(* The slots that an instruction needs are there when it is rewritten.      *)
LEMMA SlotsThere ==
  ASSUME NEW mf \in Functions, NEW in \in InsnsOf(mf), Rewritten(in, mf)
  PROVE  Required(in.op) \subseteq Slots(mf)
<1>1. CASE in \in Insns /\ in.op \in mf.ops
  BY <1>1, FunctionsAssumption, ScanServesRewrites
<1>2. CASE in = Prologue(mf)
  <2>1. BaseSlots \subseteq Slots(mf)
    BY <1>2 DEF Rewritten, SubtractsFromESP
  <2>2. Required(in.op) = BaseSlots
    BY <1>2 DEF Prologue, Required, AddSubRI, BitwiseRI, AddSubRR, BitwiseRR, BitScan, Compare, Calls
  <2> QED BY <2>1, <2>2
<1> QED BY <1>1, <1>2 DEF InsnsOf

(* While a chain without stores runs, memory is on its way into Q.          *)
LeadsInto(D, c, k, x, Q) ==
  /\ c \in Seq(Movs(D)) /\ k \in 1..(Len(c) + 1)
  /\ \A j \in 1..Len(c) : Still(c[j])
  /\ \E s \in [1..(Len(c) + 1) -> SUBSET Mems(D)] :
       /\ \A j \in 1..Len(c) : Sound(D, c[j], s[j], s[j + 1])
       /\ x \in s[k] /\ s[Len(c) + 1] \subseteq Q

(* Each mov leads on, and at the end of the chain memory is there.          *)
LEMMA LeadsOn ==
  ASSUME NEW D, NEW c, NEW k, NEW x, NEW Q, LeadsInto(D, c, k, x, Q), k <= Len(c)
  PROVE  /\ Still(c[k])
         /\ \A y \in Mems(D) : Moves(c[k], x, y) => LeadsInto(D, c, k + 1, y, Q)
<1>1. PICK s \in [1..(Len(c) + 1) -> SUBSET Mems(D)] :
        /\ \A j \in 1..Len(c) : Sound(D, c[j], s[j], s[j + 1])
        /\ x \in s[k] /\ s[Len(c) + 1] \subseteq Q
  BY DEF LeadsInto
<1>2. c \in Seq(Movs(D)) /\ k \in 1..(Len(c) + 1) /\ Len(c) \in Nat /\ \A j \in 1..Len(c) : Still(c[j])
  BY DEF LeadsInto
<1>3. k \in 1..Len(c) /\ k + 1 \in 1..(Len(c) + 1)
  BY <1>2
<1>4. Sound(D, c[k], s[k], s[k + 1])
  BY <1>1, <1>3
<1>5. ASSUME NEW y \in Mems(D), Moves(c[k], x, y) PROVE LeadsInto(D, c, k + 1, y, Q)
  <2>1. y \in s[k + 1]
    BY <1>1, <1>4, <1>5 DEF Sound
  <2> QED BY <1>1, <1>2, <1>3, <2>1 DEF LeadsInto
<1> QED BY <1>2, <1>3, <1>5

LEMMA LeadsAway ==
  ASSUME NEW D, NEW c, NEW x, NEW y, Runs(D, c, x, y), NEW Q, y \in Q
  PROVE  LeadsInto(D, c, 1, x, Q)
<1>1. PICK s \in [1..(Len(c) + 1) -> SUBSET Mems(D)] :
        /\ {x} \subseteq s[1] /\ s[Len(c) + 1] \subseteq {y}
        /\ \A k \in 1..Len(c) : Sound(D, c[k], s[k], s[k + 1])
  BY DEF Runs, Triple
<1>2. c \in Seq(Movs(D)) /\ Len(c) \in Nat /\ \A k \in 1..Len(c) : Still(c[k])
  BY DEF Runs, Triple
<1>3. 1 \in 1..(Len(c) + 1) /\ x \in s[1] /\ s[Len(c) + 1] \subseteq Q
  BY <1>1, <1>2
<1> QED BY <1>1, <1>2, <1>3 DEF LeadsInto

LEMMA LeadsThere ==
  ASSUME NEW D, NEW c, NEW k, NEW x, NEW Q, LeadsInto(D, c, k, x, Q), k > Len(c)
  PROVE  x \in Q
<1>1. PICK s \in [1..(Len(c) + 1) -> SUBSET Mems(D)] : x \in s[k] /\ s[Len(c) + 1] \subseteq Q
  BY DEF LeadsInto
<1>2. c \in Seq(Movs(D)) /\ k \in 1..(Len(c) + 1) /\ Len(c) \in Nat
  BY DEF LeadsInto
<1>3. k = Len(c) + 1
  BY <1>2
<1> QED BY <1>1, <1>3

(* What memory holds when the chain of an arithmetic instruction ends: the  *)
(* result in the destination, and the other registers as they were.         *)
Finished(in) ==
  {y \in Mems(Places(fn)) : /\ BitsOf(y[in.dst]) = X86!Result(in)
                            /\ \A p \in Regs \ {in.dst} : BitsOf(y[p]) = arch.regs[p]}

(* Between instructions X86Machine sees the registers and the stack as they *)
(* are; within an arithmetic one it sees the stack as it is, and memory is  *)
(* on its way to the result.                                                *)
ArithmeticInv ==
  /\ arch.regs \in [Regs -> SUBSET (0..31)]
  /\ insn = None => arch = Architecture(mem, stack)
  /\ insn # None /\ Rewritten(insn, fn) /\ Arithmetic(insn) =>
       /\ arch.stack = Architecture(mem, stack).stack
       /\ LeadsInto(Places(fn), Code[insn], pc, mem, Finished(insn))

(* When an arithmetic instruction is fetched, its chain leads to its result. *)
LEMMA ArithmeticStarts ==
  ASSUME MachineInv, insn = None, arch = Architecture(mem, stack),
         NEW in \in InsnsOf(fn), Rewritten(in, fn), Arithmetic(in)
  PROVE  LeadsInto(Places(fn), Code[in], 1, mem, Finished(in))
<1> DEFINE D == Places(fn)
<1>1. fn \in Functions /\ mem \in Mems(D)
  BY DEF MachineInv, MachineTypes
<1>2. in \in Instructions /\ Code[in] = Chain(in)
  BY <1>1, InsnTyped, CodeIsChain
<1>4. Required(in.op) \subseteq D /\ Roomy(D)
  BY <1>1, SlotsThere, PlacesRoomy
<1>5. arch.regs = [p \in Regs |-> BitsOf(mem[p])]
  BY DEF Architecture
<1>6. Altered(D, in, mem)
  BY <1>1, <1>2, <1>4, <1>5, ArithmeticAltered
<1>7. PICK w \in Word : Alters(D, Code[in], mem, in.dst, w) /\ BitsOf(w) = X86!Result(in)
  BY <1>2, <1>6 DEF Altered
<1>8. PICK y \in Mems(D) : /\ Runs(D, Code[in], mem, y) /\ y[in.dst] = w
                           /\ \A p \in Regs \ {in.dst} : y[p] = mem[p]
  BY <1>7 DEF Alters
<1>9. y \in Finished(in)
  <2>1. \A p \in Regs \ {in.dst} : BitsOf(y[p]) = arch.regs[p]
    BY <1>5, <1>8
  <2>2. BitsOf(y[in.dst]) = X86!Result(in)
    BY <1>7, <1>8
  <2> QED BY <2>1, <2>2 DEF Finished
<1> HIDE DEF D
<1>10. LeadsInto(D, Code[in], 1, mem, Finished(in))
  BY <1>8, <1>9, LeadsAway
<1> QED BY <1>10 DEF D

(* A step of a chain makes of memory what its mov says, and touches the     *)
(* stack only if it is a store.                                             *)
ChainStep ==
  \/ Mov32 \/ Mov32Imm \/ MovByte \/ MovIndexed \/ MovLoad \/ MovStore \/ JumpMemory

LEMMA ChainSteps ==
  ASSUME MachineInv, ChainStep
  PROVE  /\ Running /\ Advance /\ Moves(Current, mem, mem')
         /\ Still(Current) => stack' = stack
<1> DEFINE m == Current
           D == Places(fn)
<1>1. /\ mem \in Mems(D) /\ stack \in [DOMAIN InitialStack -> Word] /\ Roomy(D) /\ Globals \subseteq D
  BY PlacesRoomy DEF MachineInv, MachineTypes, Roomy
<1>2. CASE Mov32
  BY <1>2 DEF Mov32, Moves
<1>3. CASE Mov32Imm
  BY <1>3 DEF Mov32Imm, Moves
<1>4. CASE MovByte
  BY <1>4 DEF MovByte, SourceByte, ByteFrom, Moves
<1>5. CASE MovIndexed
  BY <1>5 DEF MovIndexed, Index, IndexIn, Moves
<1>6. CASE MovLoad
  <2>1. /\ Running /\ m.op = "load" /\ Advance /\ stack' = stack /\ Cell \in DOMAIN stack
        /\ mem' = [mem EXCEPT ![m.dst] = stack[Cell]]
    BY <1>6 DEF MovLoad
  <2>2. stack[Cell] \in Word
    BY <1>1, <2>1
  <2> QED BY <2>1, <2>2 DEF Moves
<1>7. CASE MovStore
  <2>1. Running /\ m.op \in {"store", "storei"} /\ Advance /\ mem' = mem
    BY <1>7 DEF MovStore
  <2> QED BY <2>1 DEF Moves, Still
<1>8. CASE JumpMemory
  <2>1. Running /\ m.op = "jumpvia" /\ Advance /\ stack' = stack
    BY <1>8 DEF JumpMemory
  <2>2. PICK g \in PointedTo(mem[m.reg]) : mem' = [mem EXCEPT !["eip"] = mem[g]]
    BY <1>8 DEF JumpMemory
  <2>3. g \in D
    BY <1>1, <2>2, LabelsAssumption DEF PointedTo
  <2>4. mem[g] \in Word
    BY <1>1, <2>3 DEF Mems
  <2> QED BY <2>1, <2>2, <2>4 DEF Moves
<1> QED BY <1>2, <1>3, <1>4, <1>5, <1>6, <1>7, <1>8 DEF ChainStep

(* ArithmeticInv holds at first, and every step keeps it.                   *)
LEMMA ArithmeticBegins == Init => ArithmeticInv
<1> SUFFICES ASSUME Init PROVE ArithmeticInv
  OBVIOUS
<1>1. insn = None /\ arch = Architecture(mem, stack)
  BY DEF Init
<1>2. arch.regs \in [Regs -> SUBSET (0..31)]
  BY <1>1 DEF Architecture, BitsOf
<1> QED BY <1>1, <1>2 DEF ArithmeticInv

LEMMA ArithmeticInductive ==
  MachineInv /\ MachineInv' /\ ArithmeticInv /\ [Next]_vars => ArithmeticInv'
<1> SUFFICES ASSUME MachineInv, MachineInv', ArithmeticInv, [Next]_vars PROVE ArithmeticInv'
  OBVIOUS
<1>1. CASE Fetch
  <2>1. /\ insn = None /\ insn' \in InsnsOf(fn) /\ pc' = 1 /\ fn' = fn /\ mem' = mem
        /\ stack' = stack /\ arch' = arch
    BY <1>1 DEF Fetch
  <2>2. arch = Architecture(mem, stack) /\ fn \in Functions
    BY <2>1 DEF ArithmeticInv, MachineInv, MachineTypes
  <2>3. insn' # None
    BY <2>1, <2>2, InsnTyped
  <2> DEFINE in == insn'
  <2>4. ASSUME Rewritten(in, fn), Arithmetic(in)
        PROVE  LeadsInto(Places(fn), Code[in], 1, mem, Finished(in))
    <3>1. in \in InsnsOf(fn)
      BY <2>1
    <3> HIDE DEF in
    <3> QED BY <2>1, <2>2, <2>4, <3>1, ArithmeticStarts
  <2>5. Finished(insn)' = Finished(insn')
    BY <2>1 DEF Finished, X86!Result
  <2>6. Architecture(mem, stack)' = Architecture(mem, stack)
    BY <2>1 DEF Architecture
  <2> QED BY <2>1, <2>2, <2>3, <2>4, <2>5, <2>6 DEF ArithmeticInv
<1>2. CASE ChainStep
  <2>1. /\ Running /\ Advance /\ Moves(Current, mem, mem')
        /\ Still(Current) => stack' = stack
    BY <1>2, ChainSteps
  <2>2. fn' = fn /\ insn' = insn /\ pc' = pc + 1 /\ arch' = arch
    BY <2>1 DEF Advance
  <2>3. insn # None /\ Rewritten(insn, fn) /\ pc <= Len(Code[insn]) /\ Current = Code[insn][pc]
    BY <2>1 DEF Running, Current
  <2>4. mem' \in Mems(Places(fn))
    BY <2>2 DEF MachineInv, MachineTypes
  <2>5. ASSUME Arithmetic(insn)
        PROVE  /\ arch'.stack = Architecture(mem, stack).stack'
               /\ LeadsInto(Places(fn), Code[insn], pc + 1, mem', Finished(insn))
    <3>1. arch.stack = Architecture(mem, stack).stack /\ LeadsInto(Places(fn), Code[insn], pc, mem, Finished(insn))
      BY <2>3, <2>5 DEF ArithmeticInv
    <3>2. Still(Current) /\ LeadsInto(Places(fn), Code[insn], pc + 1, mem', Finished(insn))
      BY <2>1, <2>3, <2>4, <3>1, LeadsOn
    <3>3. stack' = stack
      BY <2>1, <3>2
    <3> QED BY <2>2, <3>1, <3>2, <3>3 DEF Architecture
  <2>6. Finished(insn)' = Finished(insn)
    BY <2>2 DEF Finished, X86!Result
  <2> QED BY <2>2, <2>3, <2>5, <2>6 DEF ArithmeticInv
<1>3. CASE Retire
  <2>1. insn' = None /\ arch' = Architecture(mem, stack) /\ mem' = mem /\ stack' = stack
    BY <1>3 DEF Retire
  <2>2. arch' = Architecture(mem, stack)'
    BY <2>1 DEF Architecture
  <2>3. arch'.regs \in [Regs -> SUBSET (0..31)]
    BY <2>1 DEF Architecture, BitsOf
  <2> QED BY <2>1, <2>2, <2>3 DEF ArithmeticInv
<1>4. CASE UNCHANGED vars
  <2>1. /\ fn' = fn /\ mem' = mem /\ stack' = stack /\ insn' = insn /\ pc' = pc /\ arch' = arch
    BY <1>4 DEF vars
  <2>2. Finished(insn)' = Finished(insn) /\ Architecture(mem, stack)' = Architecture(mem, stack)
    BY <2>1 DEF Finished, X86!Result, Architecture
  <2> QED BY <2>1, <2>2 DEF ArithmeticInv
<1> QED BY <1>1, <1>2, <1>3, <1>4 DEF Next, ChainStep

(* What the instruction does at once, its chain has done when it retires.   *)
LEMMA ArithmeticRetires ==
  ASSUME MachineInv, ArithmeticInv, Retire, Arithmetic(insn)
  PROVE  X86!Execute
<1> DEFINE d == insn.dst
<1>1. /\ insn # None /\ insn' = None /\ Rewritten(insn, fn) /\ pc > Len(Code[insn])
      /\ arch' = Architecture(mem, stack) /\ mem' = mem /\ stack' = stack
  BY DEF Retire
<1>2. /\ arch.stack = Architecture(mem, stack).stack
      /\ LeadsInto(Places(fn), Code[insn], pc, mem, Finished(insn))
  BY <1>1 DEF ArithmeticInv
<1>3. mem \in Finished(insn)
  BY <1>1, <1>2, LeadsThere
<1>4. /\ BitsOf(mem[d]) = X86!Result(insn)
      /\ \A p \in Regs \ {d} : BitsOf(mem[p]) = arch.regs[p]
  BY <1>3 DEF Finished
<1>5. arch'.regs = [p \in Regs |-> BitsOf(mem[p])] /\ arch'.stack = arch.stack
  BY <1>1, <1>2 DEF Architecture
<1>6. insn.op \notin {"PUSH32r", "CALL32d", "CALL32r", "RET", "JMP", "CMP32rr", "CMP32ri"}
  BY DEF Arithmetic, WithImmediate, WithRegister, AddSubRI, AddSubRR, BitwiseRI, BitwiseRR
<1>7. X86!After(insn) = [regs |-> [arch.regs EXCEPT ![d] = X86!Result(insn)], stack |-> arch.stack]
  BY <1>6 DEF X86!After
<1>8. X86!Unspecified(insn) = {}
  BY <1>6 DEF X86!Unspecified
<1>9. X86!Arch = Regs
  BY DEF X86!Arch, Regs
<1>10. ASSUME NEW p \in Regs PROVE arch'.regs[p] = X86!After(insn).regs[p]
  <2>1. CASE p = d
    <3>1. arch'.regs[p] = X86!Result(insn)
      BY <1>4, <1>5, <2>1
    <3>2. d \in DOMAIN arch.regs
      BY <2>1 DEF ArithmeticInv
    <3> QED BY <1>7, <2>1, <3>1, <3>2
  <2>2. CASE p # d
    <3>1. arch'.regs[p] = arch.regs[p]
      BY <1>4, <1>5, <2>2
    <3> QED BY <1>7, <2>2, <3>1
  <2> QED BY <2>1, <2>2
<1>11. arch'.regs \in [Regs -> SUBSET X86!Bits]
  BY <1>5 DEF BitsOf, X86!Bits
<1> QED BY <1>1, <1>5, <1>7, <1>8, <1>9, <1>10, <1>11 DEF X86!Execute

(* Each arithmetic instruction's chain computes, mov by mov and whatever    *)
(* the slots held before, what x86 computes at once: legalizeADD32ri,       *)
(* legalizeSUB32rr, legalizeBitwise32ri and the others, for every operand,  *)
(* choice of registers and program.                                         *)
THEOREM ArithmeticExact == Spec => [][Retire /\ Arithmetic(insn) => X86!Execute]_vars
<1>1. Init => ArithmeticInv
  BY ArithmeticBegins
<1>2. MachineInv /\ MachineInv' /\ ArithmeticInv /\ [Next]_vars => ArithmeticInv'
  BY ArithmeticInductive
<1>3. MachineInv /\ ArithmeticInv /\ [Next]_vars => [Retire /\ Arithmetic(insn) => X86!Execute]_vars
  BY ArithmeticRetires
<1> QED BY <1>1, <1>2, <1>3, MachineInvariant, PTL DEF Spec

(* A program of such instructions does what it did before it was rewritten. *)
THEOREM ArithmeticImplemented ==
  (\A in \in AllInsns : Arithmetic(in)) => (Spec => ImplementsX86)
<1> SUFFICES ASSUME \A in \in AllInsns : Arithmetic(in) PROVE Spec => X86!Spec
  BY DEF ImplementsX86
<1>1. Init => X86!Init
  <2> SUFFICES ASSUME Init PROVE X86!Init
    OBVIOUS
  <2>1. insn = None /\ arch = Architecture(mem, stack) /\ stack = InitialStack
    BY DEF Init
  <2>2. arch.regs \in [Regs -> SUBSET (0..31)] /\ arch.stack \in [DOMAIN InitialStack -> SUBSET (0..31)]
    BY <2>1 DEF Architecture, BitsOf
  <2> QED BY <2>1, <2>2 DEF X86!Init, X86!Bits, X86!Arch, Regs
<1>2. MachineInv /\ ArithmeticInv /\ [Next]_vars => [X86!Next]_(X86!vars)
  <2> SUFFICES ASSUME MachineInv, ArithmeticInv, [Next]_vars PROVE [X86!Next]_(X86!vars)
    OBVIOUS
  <2>1. CASE Fetch
    <3>1. /\ insn = None /\ insn' \in InsnsOf(fn) /\ arch' = arch /\ fn \in Functions
      BY <2>1 DEF Fetch, MachineInv, MachineTypes
    <3>2. insn' \in AllInsns
      BY <3>1, InsnTyped
    <3>3. X86!Fetch
      BY <3>1, <3>2 DEF X86!Fetch
    <3> QED BY <3>3 DEF X86!Next
  <2>2. CASE ChainStep
    <3>1. insn' = insn /\ arch' = arch
      BY <2>2, ChainSteps DEF Advance
    <3> QED BY <3>1 DEF X86!vars
  <2>3. CASE Retire
    <3>1. insn # None /\ insn \in InsnsOf(fn) /\ fn \in Functions
      BY <2>3 DEF Retire, MachineInv, MachineTypes
    <3>2. Arithmetic(insn)
      BY <3>1, InsnTyped
    <3>3. X86!Execute
      BY <2>3, <3>2, ArithmeticRetires
    <3> QED BY <3>3 DEF X86!Next
  <2>4. CASE UNCHANGED vars
    BY <2>4 DEF vars, X86!vars
  <2> QED BY <2>1, <2>2, <2>3, <2>4 DEF Next, ChainStep
<1>3. Init => ArithmeticInv
  BY ArithmeticBegins
<1>4. MachineInv /\ MachineInv' /\ ArithmeticInv /\ [Next]_vars => ArithmeticInv'
  BY ArithmeticInductive
<1> QED BY <1>1, <1>2, <1>3, <1>4, MachineInvariant, PTL DEF Spec, X86!Spec
===============================================================================
