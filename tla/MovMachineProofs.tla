--------------------------- MODULE MovMachineProofs ---------------------------
(***************************************************************************)
(* What holds of the movs that MovOnlyLegalize leaves, for any set of      *)
(* instructions with any operands, any functions and any contents of       *)
(* memory. TLC runs the chains of chosen instructions; here each chain is  *)
(* annotated once.                                                         *)
(*                                                                         *)
(* TablesInBounds is not inductive: that a look-up is within its table     *)
(* rests on the bytes of the index that the movs before it have set, and   *)
(* on a carry that an earlier stage left in CL. An annotation of a chain   *)
(* gives a set of memories to each place between its movs, such that each  *)
(* mov leads from one set into the next, and no memory of the set before a *)
(* look-up has an index past the table. Triple(D, c, P, Q) says that the   *)
(* chain c over the places D has one which starts with P and ends within   *)
(* Q. A chain is Free when P and Q are all memories. ChainFree: the chain  *)
(* of every instruction is. MachineInv: while a chain runs, memory is in   *)
(* the set of the place it has reached.                                    *)
(***************************************************************************)
EXTENDS MovMachine, FiniteSetTheorems, SequenceTheorems, TLAPS

(* First, the slot scan and the rewrites agree. TLC's run gives every opcode *)
(* a function of its own; these theorems are about functions of any mix of  *)
(* opcodes, any number of blocks and any stack objects.                     *)

(* Any opcode that the scan counts makes it reserve the base slots. *)
LEMMA BaseReserved ==
  ASSUME NEW mf, NEW op \in mf.ops, op \in Scanned
  PROVE  BaseSlots \subseteq Slots(mf) /\ Extra(op) \subseteq Slots(mf)
<1>1. NeedsByteOpScratch(mf)
  BY DEF NeedsByteOpScratch
<1>2. Extra(op) \subseteq UNION {Extra(o) : o \in mf.ops}
  OBVIOUS
<1> QED
  BY <1>1, <1>2 DEF Slots

(* What a rewrite needs is what the scan counts for its opcode, beside the  *)
(* dispatcher's slot for a compare.                                         *)
LEMMA RequiredCounted ==
  ASSUME NEW op \in Scanned
  PROVE  Required(op) \subseteq BaseSlots \cup Extra(op)
                                 \cup (IF op \in Compare THEN {"next_pc"} ELSE {})
<1>1. CASE op \in AddSubRI \cup BitwiseRI \cup {"SHL32ri", "SHR32ri", "LEA32r", "RET", "CTPOP32r"}
  <2>1. Required(op) = BaseSlots
    BY <1>1 DEF Required, AddSubRI, BitwiseRI, AddSubRR, BitwiseRR, BitScan, Compare, Calls
  <2> QED
    BY <2>1
<1>2. CASE op \in AddSubRR \cup BitwiseRR \cup BitScan
  <2>1. Required(op) = BaseSlots \cup {"rhs"}
    BY <1>2 DEF Required, AddSubRI, BitwiseRI, AddSubRR, BitwiseRR, BitScan, Compare, Calls
  <2>2. "rhs" \in Extra(op)
    BY <1>2 DEF Extra
  <2> QED
    BY <2>1, <2>2
<1>3. CASE op = "SAR32ri"
  <2>1. Required(op) = BaseSlots \cup {"sign"}
    BY <1>3 DEF Required, AddSubRI, BitwiseRI, AddSubRR, BitwiseRR, BitScan, Compare, Calls
  <2>2. "sign" \in Extra(op)
    BY <1>3 DEF Extra
  <2> QED
    BY <2>1, <2>2
<1>4. CASE op \in ShiftCL
  <2>1. Required(op) \subseteq BaseSlots \cup {"amount", "shifted"}
                               \cup (IF op = "SAR32rCL" THEN {"sign"} ELSE {})
    BY <1>4 DEF Required, AddSubRI, BitwiseRI, AddSubRR, BitwiseRR, BitScan, Compare, Calls, ShiftCL
  <2>2. "amount" \in Extra(op) /\ "shifted" \in Extra(op)
    BY <1>4 DEF Extra
  <2>3. op = "SAR32rCL" => "sign" \in Extra(op)
    BY DEF Extra
  <2> QED
    BY <2>1, <2>2, <2>3
<1>5. CASE op \in Multiply
  <2>1. Required(op) \subseteq BaseSlots \cup {"rhs", "mul_temp"}
                               \cup (IF op = "MUL32rr" THEN {"mul_rhs2"} ELSE {})
    BY <1>5 DEF Required, AddSubRI, BitwiseRI, AddSubRR, BitwiseRR, BitScan, Compare, Calls, Multiply
  <2>2. "rhs" \in Extra(op) /\ "mul_temp" \in Extra(op)
    BY <1>5 DEF Extra
  <2>3. op = "MUL32rr" => "mul_rhs2" \in Extra(op)
    BY DEF Extra
  <2> QED
    BY <2>1, <2>2, <2>3
<1>6. CASE op \in Compare
  <2>1. Required(op) = BaseSlots \cup {"rhs", "cmp_mask", "next_pc"}
    BY <1>6 DEF Required, AddSubRI, BitwiseRI, AddSubRR, BitwiseRR, BitScan, Compare, Calls
  <2>2. "rhs" \in Extra(op) /\ "cmp_mask" \in Extra(op)
    BY <1>6 DEF Extra
  <2> QED
    BY <1>6, <2>1, <2>2
<1> QED
  BY <1>1, <1>2, <1>3, <1>4, <1>5, <1>6 DEF Scanned, ShiftRI

(* No rewrite of MovOnlyLegalize is left without a slot that               *)
(* processFunctionBeforeFrameFinalized should have reserved for it.        *)
THEOREM ScanServesRewrites ==
  \A mf : IsFunction(mf) => \A op \in mf.ops : Required(op) \subseteq Slots(mf)
<1> SUFFICES ASSUME NEW mf, IsFunction(mf), NEW op \in mf.ops
             PROVE  Required(op) \subseteq Slots(mf)
  OBVIOUS
<1>1. op \in Compare \cup {"JMP"} => "next_pc" \in Slots(mf)
  BY DEF IsFunction, Slots, NeedsDispatcher
<1>2. CASE op \in Scanned
  BY <1>1, <1>2, BaseReserved, RequiredCounted
<1>3. CASE op \in Calls \cup {"PUSH32r", "JMP"}
  <2>1. Required(op) = IF op = "JMP" THEN {"next_pc"} ELSE {}
    BY <1>3 DEF Required, AddSubRI, BitwiseRI, AddSubRR, BitwiseRR, BitScan, Compare, Calls
  <2> QED
    BY <1>1, <2>1
<1> QED
  BY <1>2, <1>3 DEF IsFunction, Opcodes

(* The `sub esp` of a prologue can be rewritten in every function that      *)
(* returns; emitPrologue emits it only after the scan, so nothing counts it. *)
THEOREM ScanServesPrologue ==
  \A mf : "RET" \in mf.ops => Required("SUB32ri") \subseteq Slots(mf)
<1> SUFFICES ASSUME NEW mf, "RET" \in mf.ops
             PROVE  Required("SUB32ri") \subseteq Slots(mf)
  OBVIOUS
<1>1. Required("SUB32ri") = BaseSlots
  BY DEF Required, AddSubRI, BitwiseRI, AddSubRR, BitwiseRR, BitScan, Compare, Calls
<1>2. "RET" \in Scanned
  BY DEF Scanned
<1> QED
  BY <1>1, <1>2, BaseReserved

(* The comment on the scan, "Every function has at least one RET", is what  *)
(* ScanServesPrologue rests on. A function that does not return, has stack  *)
(* objects of none and holds nothing the scan counts, but has a block to    *)
(* jump to (a loop around calls), gets a frame for next_pc alone: its       *)
(* prologue subtracts from ESP, and the rewrite of that finds no slot.      *)
THEOREM NoReturnKeepsSub ==
  \A mf : mf.ops \cap Scanned = {} /\ mf.objects = 0 /\ mf.blocks \in Nat /\ mf.blocks >= 2
          => StackSize(mf) = 4 /\ ~(Required("SUB32ri") \subseteq Slots(mf))
<1> SUFFICES ASSUME NEW mf, mf.ops \cap Scanned = {}, mf.objects = 0,
                    mf.blocks \in Nat, mf.blocks >= 2
             PROVE  StackSize(mf) = 4 /\ ~(Required("SUB32ri") \subseteq Slots(mf))
  OBVIOUS
<1>1. Slots(mf) = {"next_pc"}
  BY DEF Slots, NeedsByteOpScratch, NeedsDispatcher
<1>2. Cardinality(Slots(mf)) = 1
  BY <1>1, FS_Singleton
<1>3. StackSize(mf) = 4
  BY <1>2 DEF StackSize
<1>4. Required("SUB32ri") = BaseSlots
  BY DEF Required, AddSubRI, BitwiseRI, AddSubRR, BitwiseRR, BitScan, Compare, Calls
<1>5. "idx" \in BaseSlots /\ "idx" \notin {"next_pc"}
  BY DEF BaseSlots
<1> QED
  BY <1>1, <1>3, <1>4, <1>5

-----------------------------------------------------------------------------

(* The tables by the bytes of their index: two, with or without a carry in  *)
(* a third; one; and one for each amount.                                   *)
TwoByte == {<<t>> : t \in AddTables \cup SubTables \cup BitwiseTables \cup MulTables}
OneByte == {<<t>> : t \in MaskTables \cup {"popcount8", "clz_or_8", "ctz_or_8"}}
ShiftTables8 == {<<t, k>> : t \in {"shl_byte", "shr_byte"}, k \in 1..7}
Tables == TwoByte \cup OneByte \cup ShiftTables8

(* The movs a chain may be made of, over a set of places D, and memories.   *)
BytePlaces(D) == D \X (0..3)
Sources(D) == [at : BytePlaces(D)] \cup [byte : Byte]

Movs(D) ==
  [op : {"mov32"}, dst : D, src : D]
  \cup [op : {"mov32i"}, dst : D, imm : Int]
  \cup [op : {"mov8"}, dst : BytePlaces(D), src : Sources(D)]
  \cup [op : {"lookup"}, dst : BytePlaces(D), table : Tables]
  \cup [op : {"load"}, dst : D, base : D, disp : Int]
  \cup [op : {"store"}, base : D, disp : Int, src : D]
  \cup [op : {"storei"}, base : D, disp : Int, imm : Int]
  \cup [op : {"jumpvia"}, reg : D]

Mems(D) == [D -> Word]

IndexIn(x) == x["ecx"][0] + 256 * x["ecx"][1] + 65536 * x["ecx"][2]
Fits(x, tab) == x["ecx"][3] = 0 /\ IndexIn(x) < TableSize(tab)
ByteFrom(x, s) == IF "byte" \in DOMAIN s THEN s.byte ELSE x[s.at[1]][s.at[2]]

(* What a mov makes of memory x. Of a load and of a jump it is enough that  *)
(* they bring a word.                                                       *)
Moves(m, x, y) ==
  CASE m.op = "mov32" -> y = [x EXCEPT ![m.dst] = x[m.src]]
    [] m.op = "mov32i" -> y = [x EXCEPT ![m.dst] = WordBytes(m.imm)]
    [] m.op = "mov8" -> y = [x EXCEPT ![m.dst[1]][m.dst[2]] = ByteFrom(x, m.src)]
    [] m.op = "lookup" -> y = [x EXCEPT ![m.dst[1]][m.dst[2]] = TableByte(m.table, IndexIn(x))]
    [] m.op = "load" -> \E w \in Word : y = [x EXCEPT ![m.dst] = w]
    [] m.op = "jumpvia" -> \E w \in Word : y = [x EXCEPT !["eip"] = w]
    [] OTHER -> y = x

(* From P the mov stays within its table and leads into Q.                  *)
Sound(D, m, P, Q) ==
  \A x \in P : /\ m.op = "lookup" => Fits(x, m.table)
               /\ \A y \in Mems(D) : Moves(m, x, y) => y \in Q

(* The chain has an annotation, a set s[k] of memories before its k-th mov. *)
Triple(D, c, P, Q) ==
  /\ c \in Seq(Movs(D))
  /\ \E s \in [1..(Len(c) + 1) -> SUBSET Mems(D)] :
       /\ P \subseteq s[1] /\ s[Len(c) + 1] \subseteq Q
       /\ \A k \in 1..Len(c) : Sound(D, c[k], s[k], s[k + 1])

(* Sequence: the annotations of two chains, one after the other. *)
LEMMA Then ==
  ASSUME NEW D, NEW c, NEW d, NEW P, NEW Q, NEW R,
         Triple(D, c, P, Q), Triple(D, d, Q, R)
  PROVE  Triple(D, c \o d, P, R)
<1>1. c \in Seq(Movs(D)) /\ d \in Seq(Movs(D))
  BY DEF Triple
<1>2. /\ c \o d \in Seq(Movs(D)) /\ Len(c \o d) = Len(c) + Len(d)
      /\ Len(c) \in Nat /\ Len(d) \in Nat
      /\ \A k \in 1..(Len(c) + Len(d)) : (c \o d)[k] = IF k <= Len(c) THEN c[k] ELSE d[k - Len(c)]
  BY <1>1, ConcatProperties, LenProperties
<1>3. PICK s \in [1..(Len(c) + 1) -> SUBSET Mems(D)] :
        /\ P \subseteq s[1] /\ s[Len(c) + 1] \subseteq Q
        /\ \A k \in 1..Len(c) : Sound(D, c[k], s[k], s[k + 1])
  BY DEF Triple
<1>4. PICK t \in [1..(Len(d) + 1) -> SUBSET Mems(D)] :
        /\ Q \subseteq t[1] /\ t[Len(d) + 1] \subseteq R
        /\ \A k \in 1..Len(d) : Sound(D, d[k], t[k], t[k + 1])
  BY DEF Triple
<1> DEFINE u == [k \in 1..(Len(c) + Len(d) + 1) |->
                   IF k <= Len(c) THEN s[k] ELSE t[k - Len(c)]]
<1> HIDE DEF u
<1>5. u \in [1..(Len(c) + Len(d) + 1) -> SUBSET Mems(D)]
  BY <1>2, <1>3, <1>4 DEF u
<1>6. P \subseteq u[1]
  BY <1>2, <1>3, <1>4 DEF u
<1>7. u[Len(c) + Len(d) + 1] \subseteq R
  BY <1>2, <1>3, <1>4 DEF u
<1>8. ASSUME NEW k \in 1..(Len(c) + Len(d)) PROVE Sound(D, (c \o d)[k], u[k], u[k + 1])
  <2>1. CASE k < Len(c)
    BY <1>2, <1>3, <2>1 DEF u
  <2>2. CASE k = Len(c)
    <3>1. s[Len(c) + 1] \subseteq t[1]
      BY <1>3, <1>4
    <3>2. Sound(D, c[k], s[k], s[k + 1])
      BY <1>2, <1>3, <2>2
    <3>3. Sound(D, c[k], s[k], t[1])
      BY <2>2, <3>1, <3>2 DEF Sound
    <3>4. u[k] = s[k] /\ u[k + 1] = t[1] /\ (c \o d)[k] = c[k]
      BY <1>2, <2>2 DEF u
    <3> QED BY <3>3, <3>4
  <2>3. CASE k > Len(c)
    <3>1. k - Len(c) \in 1..Len(d) /\ (k + 1) - Len(c) = (k - Len(c)) + 1
      BY <1>2, <2>3
    <3>2. Sound(D, d[k - Len(c)], t[k - Len(c)], t[(k - Len(c)) + 1])
      BY <1>4, <3>1
    <3>3. u[k] = t[k - Len(c)] /\ u[k + 1] = t[(k + 1) - Len(c)]
      BY <1>2, <2>3 DEF u
    <3>4. (c \o d)[k] = d[k - Len(c)]
      BY <1>2, <2>3
    <3> QED BY <3>1, <3>2, <3>3, <3>4
  <2> QED BY <1>2, <2>1, <2>2, <2>3
<1> QED BY <1>2, <1>5, <1>6, <1>7, <1>8 DEF Triple

(* Consequence. *)
LEMMA Weaken ==
  ASSUME NEW D, NEW c, NEW P, NEW Q, NEW P2, NEW Q2,
         Triple(D, c, P, Q), P2 \subseteq P, Q \subseteq Q2
  PROVE  Triple(D, c, P2, Q2)
<1> QED BY DEF Triple

(* The empty chain. *)
LEMMA Skip ==
  ASSUME NEW D, NEW P \in SUBSET Mems(D), NEW Q, P \subseteq Q
  PROVE  Triple(D, <<>>, P, Q)
<1>1. <<>> \in Seq(Movs(D)) /\ Len(<<>>) = 0
  OBVIOUS
<1>2. [k \in 1..1 |-> P] \in [1..1 -> SUBSET Mems(D)]
  OBVIOUS
<1> DEFINE s == [k \in 1..1 |-> P]
<1>3. s \in [1..(Len(<<>>) + 1) -> SUBSET Mems(D)] /\ P \subseteq s[1] /\ s[Len(<<>>) + 1] \subseteq Q
  BY <1>1, <1>2
<1>4. \A k \in 1..Len(<<>>) : Sound(D, (<<>>)[k], s[k], s[k + 1])
  BY <1>1
<1> QED BY <1>1, <1>3, <1>4 DEF Triple

(* A chain of one mov. *)
LEMMA One ==
  ASSUME NEW D, NEW m \in Movs(D), NEW P \in SUBSET Mems(D), NEW Q \in SUBSET Mems(D),
         Sound(D, m, P, Q)
  PROVE  Triple(D, <<m>>, P, Q)
<1>1. <<m>> \in Seq(Movs(D)) /\ Len(<<m>>) = 1 /\ <<m>>[1] = m
  OBVIOUS
<1> DEFINE s == [k \in 1..2 |-> IF k = 1 THEN P ELSE Q]
<1>2. s \in [1..2 -> SUBSET Mems(D)] /\ s[1] = P /\ s[2] = Q
  OBVIOUS
<1> HIDE DEF s
<1>3. \A k \in 1..1 : Sound(D, <<m>>[k], s[k], s[k + 1])
  BY <1>1, <1>2
<1> QED BY <1>1, <1>2, <1>3 DEF Triple
-----------------------------------------------------------------------------
(* The annotations needed: what is known of ECX before a look-up, of CL     *)
(* before a carry is used and of an index slot that is being packed. A set  *)
(* of memories is Local when only these places tell whether one is in it.   *)
Critical == {"ecx", "idx", "esp_dec_idx"}

Local(D, P) ==
  /\ P \in SUBSET Mems(D)
  /\ \A x \in P, y \in Mems(D) : (\A p \in Critical \cap D : y[p] = x[p]) => y \in P

Zeroed(D) ==
  {x \in Mems(D) : x["ecx"][1] = 0 /\ x["ecx"][2] = 0 /\ x["ecx"][3] = 0}
Clear(D) == {x \in Mems(D) : x["ecx"][2] = 0 /\ x["ecx"][3] = 0}
Carry(D) == {x \in Mems(D) : x["ecx"][0] \in {0, 1}}
Indexed(D) == {x \in Mems(D) : x["ecx"][2] \in {0, 1} /\ x["ecx"][3] = 0}
Packed(D, s) == {x \in Mems(D) : x[s][2] \in {0, 1} /\ x[s][3] = 0}

(* What the annotations say is about ECX and the index slots, nothing else. *)
LEMMA LocalSets ==
  ASSUME NEW D, "ecx" \in D
  PROVE  /\ Local(D, Mems(D)) /\ Local(D, Zeroed(D)) /\ Local(D, Clear(D))
         /\ Local(D, Carry(D)) /\ Local(D, Indexed(D))
         /\ \A s \in Critical \cap D : Local(D, Packed(D, s))
         /\ \A P, Q : Local(D, P) /\ Local(D, Q) => Local(D, P \cap Q)
<1> USE DEF Critical
<1>1. Local(D, Mems(D))
  BY DEF Local
<1>2. Local(D, Zeroed(D)) /\ Local(D, Clear(D))
  BY DEF Local, Zeroed, Clear
<1>3. Local(D, Carry(D)) /\ Local(D, Indexed(D))
  BY DEF Local, Carry, Indexed
<1>4. \A s \in Critical \cap D : Local(D, Packed(D, s))
  BY DEF Local, Packed
<1>5. \A P, Q : Local(D, P) /\ Local(D, Q) => Local(D, P \cap Q)
  BY DEF Local
<1> QED BY <1>1, <1>2, <1>3, <1>4, <1>5

(* A mov that touches no critical place keeps every local set. *)
LEMMA Keeps ==
  ASSUME NEW D, NEW m \in Movs(D), NEW P, Local(D, P),
         \A x \in Mems(D), y \in Mems(D) :
           Moves(m, x, y) => \A p \in Critical \cap D : y[p] = x[p],
         m.op = "lookup" => \A x \in P : Fits(x, m.table)
  PROVE  Triple(D, <<m>>, P, P)
<1>1. Sound(D, m, P, P)
  BY DEF Sound, Local
<1> QED BY <1>1, One DEF Local

(* A byte moved anywhere else keeps an annotation; so does a byte looked up. *)
LEMMA KeepMov8 ==
  ASSUME NEW D, NEW P, Local(D, P), NEW d \in D \ Critical, NEW i \in 0..3,
         NEW s \in Sources(D)
  PROVE  Triple(D, Mov8(At(d, i), s), P, P)
<1> DEFINE m == [op |-> "mov8", dst |-> <<d, i>>, src |-> s]
<1>1. m \in Movs(D)
  BY DEF Movs, BytePlaces
<1>2. \A x \in Mems(D), y \in Mems(D) :
        Moves(m, x, y) => \A p \in Critical \cap D : y[p] = x[p]
  BY DEF Moves, Mems
<1> QED BY <1>1, <1>2, Keeps DEF Mov8, At

(* The same of a look-up. *)
LEMMA KeepLookup ==
  ASSUME NEW D, NEW P, Local(D, P), NEW d \in D \ Critical, NEW i \in 0..3,
         NEW tab \in Tables, \A x \in P : Fits(x, tab)
  PROVE  Triple(D, Lookup(At(d, i), tab), P, P)
<1> DEFINE m == [op |-> "lookup", dst |-> <<d, i>>, table |-> tab]
<1>1. m \in Movs(D)
  BY DEF Movs, BytePlaces
<1>2. \A x \in Mems(D), y \in Mems(D) :
        Moves(m, x, y) => \A p \in Critical \cap D : y[p] = x[p]
  BY DEF Moves, Mems
<1> QED BY <1>1, <1>2, Keeps DEF Lookup, At
-----------------------------------------------------------------------------
(* The tables. *)
(* The places every function has, and the tables a carry is part of.        *)
Roomy(D) == Regs \cup Globals \subseteq D

CarryTables == {<<"add8_carry">>, <<"sub8_borrow">>}
ThreePart == {<<t>> : t \in AddTables \cup SubTables}

(* How many bytes MovAsmPrinter emits for each table. *)
LEMMA TableSizes ==
  /\ \A tab \in Tables : TableSize(tab) \in Nat /\ TableSize(tab) >= 256
  /\ \A tab \in TwoByte : TableSize(tab) >= 65536
  /\ \A tab \in ThreePart : TableSize(tab) >= 131072
  /\ \A tab \in OneByte \cup ShiftTables8 : TableSize(tab) = 256
  /\ \A tab : TableSize(tab) \in {131072, 65536, 256}
<1>1. \A tab : TableSize(tab) \in {131072, 65536, 256}
  BY SMT DEF TableSize, AddTables, SubTables, BitwiseTables, MulTables
<1>2. \A t \in AddTables \cup SubTables : TableSize(<<t>>) = 131072
  BY SMT DEF TableSize, AddTables, SubTables, BitwiseTables, MulTables
<1>3. \A tab \in TwoByte : TableSize(tab) \in {131072, 65536}
  BY SMT DEF TwoByte, TableSize
<1>4. \A tab \in OneByte \cup ShiftTables8 : TableSize(tab) = 256
  <2>1. \A t \in MaskTables \cup {"popcount8", "clz_or_8", "ctz_or_8"} : TableSize(<<t>>) = 256
    BY SMT DEF TableSize, AddTables, SubTables, BitwiseTables, MulTables, MaskTables
  <2>2. \A t \in {"shl_byte", "shr_byte"}, k \in 1..7 : TableSize(<<t, k>>) = 256
    BY SMT DEF TableSize, AddTables, SubTables, BitwiseTables, MulTables
  <2> QED BY SMT, <2>1, <2>2 DEF OneByte, ShiftTables8
<1> QED BY SMT, <1>1, <1>2, <1>3, <1>4 DEF ThreePart

(* The largest index that can be made of the bytes of ECX. *)
(* How large an index its bytes can make. *)
LEMMA IndexBounds ==
  ASSUME NEW x, x["ecx"][0] \in 0..255, x["ecx"][1] \in 0..255, x["ecx"][2] \in 0..1
  PROVE  /\ IndexIn(x) \in Nat /\ IndexIn(x) < 131072
         /\ x["ecx"][2] = 0 => IndexIn(x) < 65536
         /\ x["ecx"][2] = 0 /\ x["ecx"][1] = 0 => IndexIn(x) < 256
<1> DEFINE a == x["ecx"][0]
           b == x["ecx"][1]
           c == x["ecx"][2]
<1>1. IndexIn(x) = a + 256 * b + 65536 * c
  BY DEF IndexIn
<1>2. a \in 0..255 /\ b \in 0..255 /\ c \in 0..1
  OBVIOUS
<1> HIDE DEF a, b, c
<1>3. IndexIn(x) \in Nat /\ IndexIn(x) < 131072
  BY SMT, <1>1, <1>2
<1>4. c = 0 => IndexIn(x) < 65536
  BY SMT, <1>1, <1>2
<1>5. c = 0 /\ b = 0 => IndexIn(x) < 256
  BY SMT, <1>1, <1>2
<1> QED BY SMT, <1>3, <1>4, <1>5 DEF b, c

(* After `mov ecx, 0` and a byte in CL every table has an entry. *)
LEMMA ZeroedFits ==
  ASSUME NEW D, "ecx" \in D, NEW tab \in Tables, NEW x \in Zeroed(D)
  PROVE  Fits(x, tab)
<1>1. x["ecx"][0] \in 0..255 /\ x["ecx"][1] = 0 /\ x["ecx"][2] = 0 /\ x["ecx"][3] = 0
  BY SMT DEF Zeroed, Mems, Word, Byte
<1>2. IndexIn(x) \in Nat /\ IndexIn(x) < 256
  BY SMT, <1>1, IndexBounds
<1>3. IndexIn(x) < TableSize(tab)
  BY SMT, <1>2, TableSizes
<1> QED BY SMT, <1>1, <1>3 DEF Fits

(* With the upper half of ECX clear a table of two bytes does. *)
LEMMA ClearFits ==
  ASSUME NEW D, "ecx" \in D, NEW tab \in TwoByte, NEW x \in Clear(D)
  PROVE  Fits(x, tab)
<1>1. /\ x["ecx"][0] \in 0..255 /\ x["ecx"][1] \in 0..255
      /\ x["ecx"][2] = 0 /\ x["ecx"][3] = 0
  BY SMT DEF Clear, Mems, Word, Byte
<1>2. IndexIn(x) \in Nat /\ IndexIn(x) < 65536
  BY SMT, <1>1, IndexBounds
<1>3. tab \in Tables
  BY SMT DEF Tables
<1>4. IndexIn(x) < TableSize(tab)
  BY SMT, <1>2, <1>3, TableSizes
<1> QED BY SMT, <1>1, <1>4 DEF Fits

(* With a carry in the third byte a table of two bytes and a carry does. *)
LEMMA IndexedFits ==
  ASSUME NEW D, "ecx" \in D, NEW tab \in ThreePart, NEW x \in Indexed(D)
  PROVE  Fits(x, tab) /\ IndexIn(x) \in Nat /\ IndexIn(x) < 131072
<1>1. /\ x["ecx"][0] \in 0..255 /\ x["ecx"][1] \in 0..255
      /\ x["ecx"][2] \in 0..1 /\ x["ecx"][3] = 0
  BY SMT DEF Indexed, Mems, Word, Byte
<1>2. IndexIn(x) \in Nat /\ IndexIn(x) < 131072
  BY SMT, <1>1, IndexBounds
<1>3. tab \in Tables
  BY SMT DEF Tables, TwoByte, ThreePart
<1>4. IndexIn(x) < TableSize(tab)
  BY SMT, <1>2, <1>3, TableSizes
<1> QED BY SMT, <1>1, <1>2, <1>4 DEF Fits

(* Which emitter of MovAsmPrinter makes a table. *)
LEMMA EmitterOf ==
  ASSUME NEW i
  PROVE  /\ \A t \in AddTables : TableByte(<<t>>, i) = emitAdd8Tables(t, i)
         /\ \A t \in SubTables : TableByte(<<t>>, i) = emitSub8Tables(t, i)
         /\ \A t \in BitwiseTables : TableByte(<<t>>, i) = emitBitwise8Tables(t, i)
         /\ \A t \in MulTables : TableByte(<<t>>, i) = emitMul8Tables(t, i)
         /\ \A t \in {"shl_byte", "shr_byte"}, k \in 1..7 :
              TableByte(<<t, k>>, i) = emitShift8Tables(<<t, k>>, i)
         /\ \A t \in MaskTables : TableByte(<<t>>, i) = emitMaskTables(t, i)
         /\ TableByte(<<"popcount8">>, i) = emitPopcount8Table(i)
         /\ \A t \in {"clz_or_8", "ctz_or_8"} :
              TableByte(<<t>>, i) = emitBitscan8Tables(t, i)
<1> USE DEF TableByte, AddTables, SubTables, BitwiseTables, MulTables, MaskTables
<1>1. \A t \in AddTables : TableByte(<<t>>, i) = emitAdd8Tables(t, i)
  BY SMT
<1>2. \A t \in SubTables : TableByte(<<t>>, i) = emitSub8Tables(t, i)
  BY SMT
<1>3. \A t \in BitwiseTables : TableByte(<<t>>, i) = emitBitwise8Tables(t, i)
  BY SMT
<1>4. \A t \in MulTables : TableByte(<<t>>, i) = emitMul8Tables(t, i)
  BY SMT
<1>5. \A t \in {"shl_byte", "shr_byte"}, k \in 1..7 :
        TableByte(<<t, k>>, i) = emitShift8Tables(<<t, k>>, i)
  BY SMT
<1>6. \A t \in MaskTables : TableByte(<<t>>, i) = emitMaskTables(t, i)
  BY SMT
<1>7. TableByte(<<"popcount8">>, i) = emitPopcount8Table(i)
  BY SMT
<1>8. \A t \in {"clz_or_8", "ctz_or_8"} : TableByte(<<t>>, i) = emitBitscan8Tables(t, i)
  BY SMT
<1> QED BY ONLY <1>1, <1>2, <1>3, <1>4, <1>5, <1>6, <1>7, <1>8

(* The parts of an index of a table of two bytes and a carry. *)
LEMMA Digits ==
  ASSUME NEW i \in Nat, i < 131072
  PROVE  A(i) \in Byte /\ B(i) \in Byte /\ CarryIn(i) \in {0, 1}
  BY SMT DEF A, B, CarryIn, Byte

(* A carry or a borrow is 0 or 1. *)
LEMMA CarryByte ==
  ASSUME NEW tab \in CarryTables, NEW i \in Nat, i < 131072
  PROVE  TableByte(tab, i) \in {0, 1}
<1>1. CASE tab = <<"sub8_borrow">>
  <2>1. emitSub8Tables("sub8_borrow", i) \in {0, 1}
    BY SMT DEF emitSub8Tables
  <2>2. TableByte(tab, i) = emitSub8Tables("sub8_borrow", i)
    BY <1>1, EmitterOf DEF SubTables
  <2> QED BY <2>1, <2>2
<1>2. CASE tab = <<"add8_carry">>
  <2>1. TableByte(tab, i) = emitAdd8Tables("add8_carry", i)
    BY <1>2, EmitterOf DEF AddTables
  <2>2. emitAdd8Tables("add8_carry", i) = (A(i) + B(i) + CarryIn(i)) \div 256
    BY SMT DEF emitAdd8Tables
  <2> DEFINE a == A(i)
             b == B(i)
             c == CarryIn(i)
  <2>3. a \in 0..255 /\ b \in 0..255 /\ c \in {0, 1}
    BY Digits DEF Byte
  <2> HIDE DEF a, b, c
  <2>4. (a + b + c) \div 256 \in {0, 1}
    BY ONLY <2>3, SMT
  <2> QED BY <2>1, <2>2, <2>4 DEF a, b, c
<1> QED BY <1>1, <1>2 DEF CarryTables

(* What the bytes of an immediate are divided by. *)
LEMMA Powers == 256^0 = 1 /\ 256^1 = 256 /\ 256^2 = 65536 /\ 256^3 = 16777216
  OBVIOUS

(* An immediate is four bytes. *)
LEMMA Immediates ==
  /\ \A n \in Int, i \in 0..3 : ImmByte(n, i) \in Byte
  /\ \A n \in Int : WordBytes(n) \in Word
  /\ \A i \in 0..3 : WordBytes(0)[i] = 0
<1> DEFINE Part(n, d) == (n \div d) % 256
<1>1. \A n \in Int : /\ Part(n, 1) \in 0..255 /\ Part(n, 256) \in 0..255
                     /\ Part(n, 65536) \in 0..255 /\ Part(n, 16777216) \in 0..255
  OBVIOUS
<1>2. Part(0, 1) = 0 /\ Part(0, 256) = 0 /\ Part(0, 65536) = 0 /\ Part(0, 16777216) = 0
  OBVIOUS
<1>3. \A n : /\ ImmByte(n, 0) = Part(n, 1) /\ ImmByte(n, 1) = Part(n, 256)
             /\ ImmByte(n, 2) = Part(n, 65536) /\ ImmByte(n, 3) = Part(n, 16777216)
  BY Powers DEF ImmByte
<1> HIDE DEF Part
<1>4. \A i \in 0..3 : i = 0 \/ i = 1 \/ i = 2 \/ i = 3
  OBVIOUS
<1>5. \A n \in Int, i \in 0..3 : ImmByte(n, i) \in Byte
  BY <1>1, <1>3, <1>4 DEF Byte
<1>6. \A i \in 0..3 : ImmByte(0, i) = 0
  BY <1>2, <1>3, <1>4
<1> QED BY <1>5, <1>6 DEF WordBytes, Word

(* What the chains move bytes from. *)
LEMMA SourceTypes ==
  ASSUME NEW D
  PROVE  /\ \A p \in D, i \in 0..3 : At(p, i) \in Sources(D)
         /\ \A b \in Byte : Imm(b) \in Sources(D)
         /\ \A n \in Int, i \in 0..3 : Imm(ImmByte(n, i)) \in Sources(D)
         /\ Roomy(D) => DL \in Sources(D) /\ CL \in Sources(D)
<1>1. \A p \in D, i \in 0..3 : At(p, i) \in Sources(D)
  BY DEF At, Sources, BytePlaces
<1>2. \A b \in Byte : Imm(b) \in Sources(D)
  BY DEF Imm, Sources
<1>3. Roomy(D) => "edx" \in D /\ "ecx" \in D
  BY DEF Roomy, Regs
<1> QED BY <1>1, <1>2, <1>3, Immediates DEF DL, CL

-----------------------------------------------------------------------------
(* A mov that is no lookup goes anywhere. *)
LEMMA Goes ==
  ASSUME NEW D, NEW m \in Movs(D), m.op # "lookup", NEW P \in SUBSET Mems(D)
  PROVE  Triple(D, <<m>>, P, Mems(D))
<1>1. Sound(D, m, P, Mems(D))
  BY DEF Sound
<1> QED BY <1>1, One

(* The movs of registers, constants and the stack, of any memory. *)
LEMMA GoesMov ==
  ASSUME NEW D, NEW P \in SUBSET Mems(D), NEW d \in D, NEW s \in D
  PROVE  Triple(D, Mov(d, s), P, Mems(D))
<1>1. [op |-> "mov32", dst |-> d, src |-> s] \in Movs(D)
  BY DEF Movs
<1> QED BY <1>1, Goes DEF Mov

LEMMA GoesMovImm ==
  ASSUME NEW D, NEW P \in SUBSET Mems(D), NEW d \in D, NEW n \in Int
  PROVE  Triple(D, MovImm(d, n), P, Mems(D))
<1>1. [op |-> "mov32i", dst |-> d, imm |-> n] \in Movs(D)
  BY DEF Movs
<1> QED BY <1>1, Goes DEF MovImm

LEMMA GoesLoad ==
  ASSUME NEW D, NEW P \in SUBSET Mems(D), NEW d \in D, NEW b \in D, NEW n \in Int
  PROVE  Triple(D, Load(d, b, n), P, Mems(D))
<1>1. [op |-> "load", dst |-> d, base |-> b, disp |-> n] \in Movs(D)
  BY DEF Movs
<1> QED BY <1>1, Goes DEF Load

LEMMA GoesStore ==
  ASSUME NEW D, NEW P \in SUBSET Mems(D), NEW s \in D, NEW b \in D, NEW n \in Int
  PROVE  Triple(D, Store(b, n, s), P, Mems(D))
<1>1. [op |-> "store", base |-> b, disp |-> n, src |-> s] \in Movs(D)
  BY DEF Movs
<1> QED BY <1>1, Goes DEF Store

LEMMA GoesStoreImm ==
  ASSUME NEW D, NEW P \in SUBSET Mems(D), NEW b \in D, NEW n \in Int, NEW v \in Int
  PROVE  Triple(D, StoreImm(b, n, v), P, Mems(D))
<1>1. [op |-> "storei", base |-> b, disp |-> n, imm |-> v] \in Movs(D)
  BY DEF Movs
<1> QED BY <1>1, Goes DEF StoreImm

LEMMA GoesJumpVia ==
  ASSUME NEW D, NEW P \in SUBSET Mems(D), NEW r \in D
  PROVE  Triple(D, JumpVia(r), P, Mems(D))
<1>1. [op |-> "jumpvia", reg |-> r] \in Movs(D)
  BY DEF Movs
<1> QED BY <1>1, Goes DEF JumpVia
-----------------------------------------------------------------------------
(* What each mov that touches ECX or an index does to what is known of it. *)
(* `mov ecx, 0`. *)
LEMMA ZeroEcx ==
  ASSUME NEW D, "ecx" \in D
  PROVE  Triple(D, MovImm("ecx", 0), Mems(D), Zeroed(D))
<1> DEFINE m == [op |-> "mov32i", dst |-> "ecx", imm |-> 0]
<1>1. m \in Movs(D)
  BY DEF Movs
<1>2. \A x \in Mems(D), y \in Mems(D) : Moves(m, x, y) => y["ecx"] = WordBytes(0)
  BY DEF Moves, Mems
<1>3. Sound(D, m, Mems(D), Zeroed(D))
  BY <1>2, Immediates DEF Sound, Zeroed
<1> QED BY <1>1, <1>3, One DEF MovImm, Zeroed

(* Setting byte i of ECX or of an index leaves its other bytes.             *)
(* A byte mov changes one byte. *)
LEMMA OneByteSet ==
  ASSUME NEW D, NEW d \in D, NEW i \in 0..3, NEW s \in Sources(D), NEW x \in Mems(D),
         NEW y \in Mems(D), Moves([op |-> "mov8", dst |-> <<d, i>>, src |-> s], x, y)
  PROVE  /\ \A j \in 0..3 : y[d][j] = IF j = i THEN ByteFrom(x, s) ELSE x[d][j]
         /\ \A p \in D : p # d => y[p] = x[p]
<1>1. y = [x EXCEPT ![d][i] = ByteFrom(x, s)]
  BY DEF Moves
<1>2. x[d] \in [0..3 -> Byte]
  BY DEF Mems, Word
<1> QED BY <1>1, <1>2 DEF Mems

(* The mov of a byte is a step of a chain. *)
LEMMA ByteMov ==
  ASSUME NEW D, NEW d \in D, NEW i \in 0..3, NEW s \in Sources(D)
  PROVE  /\ [op |-> "mov8", dst |-> <<d, i>>, src |-> s] \in Movs(D)
         /\ Mov8(At(d, i), s) = <<[op |-> "mov8", dst |-> <<d, i>>, src |-> s]>>
  BY DEF Movs, BytePlaces, Mov8, At

(* A byte into CL leaves the upper half of ECX alone. *)
LEMMA SetCL ==
  ASSUME NEW D, "ecx" \in D, NEW s \in Sources(D)
  PROVE  Triple(D, Mov8(CL, s), Zeroed(D), Zeroed(D)) /\ Triple(D, Mov8(CL, s), Clear(D), Clear(D))
<1> DEFINE m == [op |-> "mov8", dst |-> <<"ecx", 0>>, src |-> s]
<1>1. m \in Movs(D) /\ Mov8(CL, s) = <<m>>
  BY ByteMov DEF CL
<1>2. \A x \in Mems(D), y \in Mems(D) : Moves(m, x, y) =>
        y["ecx"][1] = x["ecx"][1] /\ y["ecx"][2] = x["ecx"][2] /\ y["ecx"][3] = x["ecx"][3]
  BY OneByteSet
<1> HIDE DEF m
<1>3. m.op # "lookup"
  BY DEF m
<1>4. Sound(D, m, Zeroed(D), Zeroed(D))
  BY <1>2, <1>3 DEF Sound, Zeroed
<1>5. Sound(D, m, Clear(D), Clear(D))
  BY <1>2, <1>3 DEF Sound, Clear
<1> QED BY <1>1, <1>4, <1>5, One DEF Zeroed, Clear

(* A byte into CH does too. *)
LEMMA SetCH ==
  ASSUME NEW D, "ecx" \in D, NEW s \in Sources(D)
  PROVE  Triple(D, Mov8(CH, s), Zeroed(D), Clear(D)) /\ Triple(D, Mov8(CH, s), Clear(D), Clear(D))
<1> DEFINE m == [op |-> "mov8", dst |-> <<"ecx", 1>>, src |-> s]
<1>1. m \in Movs(D) /\ Mov8(CH, s) = <<m>>
  BY ByteMov DEF CH
<1>2. \A x \in Mems(D), y \in Mems(D) : Moves(m, x, y) =>
        y["ecx"][2] = x["ecx"][2] /\ y["ecx"][3] = x["ecx"][3]
  BY OneByteSet
<1> HIDE DEF m
<1>3. m.op # "lookup"
  BY DEF m
<1>4. Sound(D, m, Zeroed(D), Clear(D))
  BY <1>2, <1>3 DEF Sound, Zeroed, Clear
<1>5. Sound(D, m, Clear(D), Clear(D))
  BY <1>2, <1>3 DEF Sound, Clear
<1> QED BY <1>1, <1>4, <1>5, One DEF Zeroed, Clear

(* A look-up into CL changes CL only. *)
LEMMA LookCL ==
  ASSUME NEW D, "ecx" \in D, NEW tab \in Tables,
         NEW x \in Mems(D), NEW y \in Mems(D),
         Moves([op |-> "lookup", dst |-> <<"ecx", 0>>, table |-> tab], x, y)
  PROVE  /\ y["ecx"][0] = TableByte(tab, IndexIn(x))
         /\ y["ecx"][2] = x["ecx"][2] /\ y["ecx"][3] = x["ecx"][3]
<1>1. y = [x EXCEPT !["ecx"][0] = TableByte(tab, IndexIn(x))]
  BY DEF Moves
<1>2. x["ecx"] \in [0..3 -> Byte]
  BY DEF Mems, Word
<1> QED BY <1>1, <1>2 DEF Mems

(* A look-up into CL is a step of a chain. *)
LEMMA LookupMov ==
  ASSUME NEW D, "ecx" \in D, NEW tab \in Tables
  PROVE  /\ [op |-> "lookup", dst |-> <<"ecx", 0>>, table |-> tab] \in Movs(D)
         /\ Lookup(CL, tab) = <<[op |-> "lookup", dst |-> <<"ecx", 0>>, table |-> tab]>>
  BY DEF Movs, BytePlaces, Lookup, CL, At

(* The carry of a stage, looked up while its index is still in ECX.         *)
LEMMA GetCarry ==
  ASSUME NEW D, "ecx" \in D, NEW tab \in CarryTables
  PROVE  /\ Triple(D, Lookup(CL, tab), Indexed(D), Carry(D))
         /\ Triple(D, Lookup(CL, tab), Clear(D), Carry(D))
<1> DEFINE m == [op |-> "lookup", dst |-> <<"ecx", 0>>, table |-> tab]
<1>1. tab \in ThreePart /\ tab \in Tables
  BY DEF CarryTables, ThreePart, AddTables, SubTables, Tables, TwoByte
<1>2. m \in Movs(D) /\ Lookup(CL, tab) = <<m>>
  BY <1>1, LookupMov
<1>3. \A x \in Mems(D), y \in Mems(D) : Moves(m, x, y) => y["ecx"][0] = TableByte(tab, IndexIn(x))
  BY <1>1, LookCL
<1>4. m.table = tab
  OBVIOUS
<1> HIDE DEF m
<1>5. Clear(D) \subseteq Indexed(D)
  BY DEF Clear, Indexed
<1>6. \A x \in Indexed(D) :
        Fits(x, tab) /\ TableByte(tab, IndexIn(x)) \in {0, 1}
  BY <1>1, IndexedFits, CarryByte, SMT
<1>7. Sound(D, m, Indexed(D), Carry(D))
  BY <1>3, <1>4, <1>6 DEF Sound, Indexed, Carry
<1>8. Triple(D, Lookup(CL, tab), Indexed(D), Carry(D))
  BY <1>2, <1>7, One DEF Indexed, Carry
<1> QED BY <1>5, <1>8, Weaken

(* The high byte of a product is looked up into CL, over the index it came  *)
(* from.                                                                    *)
LEMMA GetHighProduct ==
  ASSUME NEW D, "ecx" \in D
  PROVE  Triple(D, Lookup(CL, <<"mul8_hi">>), Clear(D), Clear(D))
<1> DEFINE tab == <<"mul8_hi">>
           m == [op |-> "lookup", dst |-> <<"ecx", 0>>, table |-> tab]
<1>1. tab \in TwoByte /\ tab \in Tables
  BY DEF MulTables, Tables, TwoByte
<1> HIDE DEF tab
<1>2. m \in Movs(D) /\ Lookup(CL, tab) = <<m>>
  BY <1>1, LookupMov
<1>3. \A x \in Mems(D), y \in Mems(D) : Moves(m, x, y) =>
        y["ecx"][2] = x["ecx"][2] /\ y["ecx"][3] = x["ecx"][3]
  BY <1>1, LookCL
<1>4. m.table = tab
  OBVIOUS
<1> HIDE DEF m
<1>5. Sound(D, m, Clear(D), Clear(D))
  BY <1>1, <1>3, <1>4, ClearFits DEF Sound, Clear
<1>6. Triple(D, Lookup(CL, tab), Clear(D), Clear(D))
  BY <1>2, <1>5, One DEF Clear
<1> QED BY <1>6 DEF tab

(* An index is cleared, packed byte by byte and loaded into ECX whole.      *)
(* The slots in which an index is packed: a function's own, and the global  *)
(* one for ESP.                                                             *)
Slot == {"idx", "esp_dec_idx"}

(* The index slot is cleared before it is packed; CL may hold a carry. *)
LEMMA ZeroIndex ==
  ASSUME NEW D, "ecx" \in D, NEW s \in Slot \cap D
  PROVE  /\ Triple(D, MovImm(s, 0), Mems(D), Packed(D, s))
         /\ Triple(D, MovImm(s, 0), Carry(D), Carry(D) \cap Packed(D, s))
<1> DEFINE m == [op |-> "mov32i", dst |-> s, imm |-> 0]
<1>1. m \in Movs(D) /\ MovImm(s, 0) = <<m>>
  BY DEF Movs, MovImm
<1>2. \A x \in Mems(D), y \in Mems(D) : Moves(m, x, y) =>
        y[s] = WordBytes(0) /\ y["ecx"] = x["ecx"]
  BY DEF Moves, Mems, Slot
<1>3. m.op # "lookup"
  OBVIOUS
<1> HIDE DEF m
<1>4. Sound(D, m, Mems(D), Packed(D, s))
  BY <1>2, <1>3, Immediates DEF Sound, Packed
<1>5. Sound(D, m, Carry(D), Carry(D) \cap Packed(D, s))
  BY <1>2, <1>3, <1>4 DEF Sound, Carry
<1> QED BY <1>1, <1>4, <1>5, One DEF Carry, Packed

(* The carry goes into its third byte: this is where a stale one would do   *)
(* harm.                                                                    *)
LEMMA PackCarry ==
  ASSUME NEW D, "ecx" \in D, NEW s \in Slot \cap D
  PROVE  Triple(D, Mov8(At(s, 2), CL), Carry(D) \cap Packed(D, s), Packed(D, s))
<1> DEFINE m == [op |-> "mov8", dst |-> <<s, 2>>, src |-> CL]
<1>1. CL \in Sources(D)
  BY DEF CL, At, Sources, BytePlaces
<1>2. m \in Movs(D) /\ Mov8(At(s, 2), CL) = <<m>>
  BY <1>1, ByteMov
<1>3. \A x \in Mems(D), y \in Mems(D) : Moves(m, x, y) =>
        y[s][2] = ByteFrom(x, CL) /\ y[s][3] = x[s][3]
  BY <1>1, OneByteSet
<1>4. \A x : ByteFrom(x, CL) = x["ecx"][0]
  BY DEF ByteFrom, CL, At
<1>5. m.op # "lookup"
  OBVIOUS
<1> HIDE DEF m
<1>6. Sound(D, m, Carry(D) \cap Packed(D, s), Packed(D, s))
  BY <1>3, <1>4, <1>5 DEF Sound, Packed, Carry
<1> QED BY <1>2, <1>6, One DEF Carry, Packed

(* The operands go into the first two. *)
LEMMA PackByte ==
  ASSUME NEW D, "ecx" \in D, NEW s \in Slot \cap D, NEW i \in 0..1, NEW b \in Sources(D)
  PROVE  /\ Triple(D, Mov8(At(s, i), b), Packed(D, s), Packed(D, s))
         /\ Triple(D, Mov8(At(s, i), b), Carry(D) \cap Packed(D, s), Carry(D) \cap Packed(D, s))
<1> DEFINE m == [op |-> "mov8", dst |-> <<s, i>>, src |-> b]
<1>1. m \in Movs(D) /\ Mov8(At(s, i), b) = <<m>>
  BY ByteMov
<1>2. \A x \in Mems(D), y \in Mems(D) : Moves(m, x, y) =>
        y[s][2] = x[s][2] /\ y[s][3] = x[s][3]
  BY OneByteSet
<1>3. \A x \in Mems(D), y \in Mems(D) : Moves(m, x, y) => y["ecx"] = x["ecx"]
  BY OneByteSet DEF Slot
<1>4. m.op # "lookup"
  OBVIOUS
<1> HIDE DEF m
<1>5. Sound(D, m, Packed(D, s), Packed(D, s))
  BY <1>2, <1>4 DEF Sound, Packed
<1>6. Sound(D, m, Carry(D) \cap Packed(D, s), Carry(D) \cap Packed(D, s))
  BY <1>3, <1>5 DEF Sound, Carry
<1> QED BY <1>1, <1>5, <1>6, One DEF Packed

(* The packed index is loaded whole. *)
LEMMA LoadIndex ==
  ASSUME NEW D, "ecx" \in D, NEW s \in Slot \cap D
  PROVE  Triple(D, Mov("ecx", s), Packed(D, s), Indexed(D))
<1> DEFINE m == [op |-> "mov32", dst |-> "ecx", src |-> s]
<1>1. m \in Movs(D) /\ Mov("ecx", s) = <<m>>
  BY DEF Movs, Mov
<1>2. \A x \in Mems(D), y \in Mems(D) : Moves(m, x, y) => y["ecx"] = x[s]
  BY DEF Moves, Mems
<1>3. m.op # "lookup"
  OBVIOUS
<1> HIDE DEF m
<1>4. Sound(D, m, Packed(D, s), Indexed(D))
  BY <1>2, <1>3 DEF Sound, Packed, Indexed
<1> QED BY <1>1, <1>4, One DEF Packed, Indexed
-----------------------------------------------------------------------------
(* Longer chains. *)
LEMMA Then3 ==
  ASSUME NEW D, NEW c1, NEW c2, NEW c3, NEW P, NEW Q, NEW R, NEW S,
         Triple(D, c1, P, Q), Triple(D, c2, Q, R), Triple(D, c3, R, S)
  PROVE  Triple(D, c1 \o c2 \o c3, P, S)
<1>1. Triple(D, c1 \o c2, P, R)
  BY Then
<1> QED BY <1>1, Then

(* Four of them, and five. *)
LEMMA Then4 ==
  ASSUME NEW D, NEW c1, NEW c2, NEW c3, NEW c4, NEW P, NEW Q, NEW R, NEW S, NEW T,
         Triple(D, c1, P, Q), Triple(D, c2, Q, R), Triple(D, c3, R, S), Triple(D, c4, S, T)
  PROVE  Triple(D, c1 \o c2 \o c3 \o c4, P, T)
<1>1. Triple(D, c1 \o c2 \o c3, P, S)
  BY Then3
<1> QED BY <1>1, Then

LEMMA Then5 ==
  ASSUME NEW D, NEW c1, NEW c2, NEW c3, NEW c4, NEW c5,
         NEW P, NEW Q, NEW R, NEW S, NEW T, NEW U,
         Triple(D, c1, P, Q), Triple(D, c2, Q, R), Triple(D, c3, R, S), Triple(D, c4, S, T),
         Triple(D, c5, T, U)
  PROVE  Triple(D, c1 \o c2 \o c3 \o c4 \o c5, P, U)
<1>1. Triple(D, c1 \o c2 \o c3 \o c4, P, T)
  BY Then4
<1> QED BY <1>1, Then

(* A chain that any memory may enter: what follows it needs no more.        *)
Free(D, c) == Triple(D, c, Mems(D), Mems(D))

(* A chain that any memory may enter and that leaves any memory: what       *)
(* follows needs to know nothing of it.                                     *)
LEMMA Free2 ==
  ASSUME NEW D, NEW c1, NEW c2, Free(D, c1), Free(D, c2)
  PROVE  Free(D, c1 \o c2)
  BY Then DEF Free

LEMMA Free3 ==
  ASSUME NEW D, NEW c1, NEW c2, NEW c3, Free(D, c1), Free(D, c2), Free(D, c3)
  PROVE  Free(D, c1 \o c2 \o c3)
  BY Then3 DEF Free

LEMMA Free4 ==
  ASSUME NEW D, NEW c1, NEW c2, NEW c3, NEW c4,
         Free(D, c1), Free(D, c2), Free(D, c3), Free(D, c4)
  PROVE  Free(D, c1 \o c2 \o c3 \o c4)
  BY Then4 DEF Free

LEMMA Free5 ==
  ASSUME NEW D, NEW c1, NEW c2, NEW c3, NEW c4, NEW c5,
         Free(D, c1), Free(D, c2), Free(D, c3), Free(D, c4), Free(D, c5)
  PROVE  Free(D, c1 \o c2 \o c3 \o c4 \o c5)
  BY Then5 DEF Free

(* The movs that are free. *)
LEMMA FreeLeaves ==
  ASSUME NEW D, "ecx" \in D
  PROVE  /\ Free(D, <<>>)
         /\ \A d \in D, s \in D : Free(D, Mov(d, s))
         /\ \A d \in D, n \in Int : Free(D, MovImm(d, n))
         /\ \A d \in D, i \in 0..3, s \in Sources(D) : Free(D, Mov8(At(d, i), s))
         /\ \A d \in D, b \in D, n \in Int : Free(D, Load(d, b, n)) /\ Free(D, Store(b, n, d))
         /\ \A b \in D, n \in Int, v \in Int : Free(D, StoreImm(b, n, v))
         /\ \A r \in D : Free(D, JumpVia(r))
<1> USE DEF Free
<1>1. Free(D, <<>>)
  BY Skip
<1>2. \A d \in D, s \in D : Free(D, Mov(d, s))
  BY GoesMov
<1>3. \A d \in D, n \in Int : Free(D, MovImm(d, n))
  BY GoesMovImm
<1>4. ASSUME NEW d \in D, NEW i \in 0..3, NEW s \in Sources(D) PROVE Free(D, Mov8(At(d, i), s))
  <2> DEFINE m == [op |-> "mov8", dst |-> <<d, i>>, src |-> s]
  <2>1. m \in Movs(D) /\ Mov8(At(d, i), s) = <<m>> /\ m.op # "lookup"
    BY ByteMov
  <2> HIDE DEF m
  <2> QED BY <2>1, Goes
<1>5. \A d \in D, b \in D, n \in Int : Free(D, Load(d, b, n)) /\ Free(D, Store(b, n, d))
  BY GoesLoad, GoesStore
<1>6. \A b \in D, n \in Int, v \in Int : Free(D, StoreImm(b, n, v))
  BY GoesStoreImm
<1>7. \A r \in D : Free(D, JumpVia(r))
  BY GoesJumpVia
<1> QED BY ONLY <1>1, <1>2, <1>3, <1>4, <1>5, <1>6, <1>7
-----------------------------------------------------------------------------
(* The emitters of MovLegalize. *)
LEMMA Registers ==
  ASSUME NEW D, Roomy(D)
  PROVE  /\ "ecx" \in D /\ "edx" \in D \ Critical /\ "eax" \in D /\ "esp" \in D /\ "ebp" \in D
         /\ "eip" \in D /\ "esp_dec_srcdst" \in D \ Critical /\ "esp_dec_idx" \in D
         /\ "return_addr_slot" \in D /\ "indirect_callee_slot" \in D
         /\ DL \in Sources(D) /\ CL \in Sources(D)
         /\ GPR32 \subseteq D
  BY SourceTypes DEF Roomy, Regs, Globals, Critical, GPR32

(* DL is beside the index. *)
LEMMA KeepDL ==
  ASSUME NEW D, Roomy(D), NEW P, Local(D, P), NEW s \in Sources(D)
  PROVE  Triple(D, Mov8(DL, s), P, P)
  BY Registers, KeepMov8 DEF DL

(* emitUnaryByteLookupInReg: CL is the index, ECX was cleared. *)
LEMMA UnarySafe ==
  ASSUME NEW D, Roomy(D), NEW tab \in Tables
  PROVE  Triple(D, emitUnaryByteLookupInReg(tab), Mems(D), Clear(D))
         /\ Free(D, emitUnaryByteLookupInReg(tab))
<1>1. Triple(D, MovImm("ecx", 0), Mems(D), Zeroed(D))
  BY Registers, ZeroEcx
<1>2. Triple(D, Mov8(CL, DL), Zeroed(D), Zeroed(D))
  BY Registers, SetCL
<1>3. Triple(D, Lookup(DL, tab), Zeroed(D), Zeroed(D))
  BY Registers, LocalSets, ZeroedFits, KeepLookup DEF DL
<1>4. Triple(D, emitUnaryByteLookupInReg(tab), Mems(D), Zeroed(D))
  BY <1>1, <1>2, <1>3, Then3 DEF emitUnaryByteLookupInReg
<1>5. Zeroed(D) \subseteq Clear(D) /\ Clear(D) \subseteq Mems(D)
  BY DEF Zeroed, Clear
<1> QED BY <1>4, <1>5, Weaken DEF Free

(* A look-up into DL keeps the index. *)
LEMMA LookTwo ==
  ASSUME NEW D, Roomy(D), NEW tab \in TwoByte
  PROVE  Triple(D, Lookup(DL, tab), Clear(D), Clear(D))
<1>1. tab \in Tables
  BY DEF Tables
<1> QED BY <1>1, Registers, LocalSets, ClearFits, KeepLookup DEF DL

(* emitBinaryByteLookup: CL and CH are the index. *)
LEMMA BinarySafe ==
  ASSUME NEW D, Roomy(D), NEW b \in Sources(D), NEW tab \in TwoByte
  PROVE  Triple(D, emitBinaryByteLookup(b, tab), Mems(D), Clear(D))
         /\ Free(D, emitBinaryByteLookup(b, tab))
<1>1. Triple(D, MovImm("ecx", 0), Mems(D), Zeroed(D))
  BY Registers, ZeroEcx
<1>2. Triple(D, Mov8(CH, DL), Zeroed(D), Clear(D))
  BY Registers, SetCH
<1>3. Triple(D, Mov8(CL, b), Clear(D), Clear(D))
  BY Registers, SetCL
<1>4. Triple(D, Lookup(DL, tab), Clear(D), Clear(D))
  BY LookTwo
<1>5. Triple(D, emitBinaryByteLookup(b, tab), Mems(D), Clear(D))
  BY <1>1, <1>2, <1>3, <1>4, Then4 DEF emitBinaryByteLookup
<1>6. Clear(D) \subseteq Mems(D)
  BY DEF Clear
<1> QED BY <1>5, <1>6, Weaken DEF Free

(* Places a chain may use for bytes: all but ECX and the indexes. *)
(* Places that hold a value and no index.                                   *)
Buffers(D) == D \ Critical

(* One byte of a bitwise operation. *)
LEMMA BitwiseStageSafe ==
  ASSUME NEW D, Roomy(D), "srcdst" \in D, NEW i \in 0..3, NEW b \in Sources(D), NEW tab \in TwoByte
  PROVE  Triple(D, emitByteStageBitwiseInReg(i, b, tab), Clear(D), Clear(D))
<1>1. "srcdst" \in D \ Critical /\ At("srcdst", i) \in Sources(D)
  BY SourceTypes DEF Critical
<1>2. Triple(D, Mov8(CH, At("srcdst", i)), Clear(D), Clear(D))
  BY <1>1, Registers, SetCH
<1>3. Triple(D, Mov8(CL, b), Clear(D), Clear(D))
  BY Registers, SetCL
<1>4. Triple(D, Lookup(DL, tab), Clear(D), Clear(D))
  BY LookTwo
<1>5. Triple(D, Mov8(At("srcdst", i), DL), Clear(D), Clear(D))
  BY <1>1, Registers, LocalSets, KeepMov8
<1> QED BY <1>2, <1>3, <1>4, <1>5, Then4 DEF emitByteStageBitwiseInReg

(* emitOrByteAndStore. *)
LEMMA OrSafe ==
  ASSUME NEW D, Roomy(D), NEW buf \in Buffers(D), NEW i \in 0..3
  PROVE  Triple(D, emitOrByteAndStore(buf, i), Clear(D), Clear(D))
<1>1. At(buf, i) \in Sources(D) /\ <<"or8">> \in TwoByte
  BY SourceTypes DEF Buffers, TwoByte, BitwiseTables
<1>2. Triple(D, Mov8(CH, At(buf, i)), Clear(D), Clear(D))
  BY <1>1, Registers, SetCH
<1>3. Triple(D, Mov8(CL, DL), Clear(D), Clear(D))
  BY Registers, SetCL
<1>4. Triple(D, Lookup(DL, <<"or8">>), Clear(D), Clear(D))
  BY <1>1, LookTwo
<1>5. Triple(D, Mov8(At(buf, i), DL), Clear(D), Clear(D))
  BY Registers, LocalSets, KeepMov8 DEF Buffers
<1> QED BY <1>2, <1>3, <1>4, <1>5, Then4 DEF emitOrByteAndStore

(* emitLoadByteSrc: a byte past either end is zero, or the sign. *)
LEMMA LoadSourceSafe ==
  ASSUME NEW D, Roomy(D), NEW buf \in Buffers(D), NEW i \in Int, NEW isSAR,
         isSAR => "sign" \in D
  PROVE  Free(D, emitLoadByteSrc(buf, i, isSAR))
<1>1. \A s \in Sources(D) : Free(D, Mov8(DL, s))
  BY Registers, FreeLeaves DEF DL
<1>2. i \in 0..3 => At(buf, i) \in Sources(D)
  BY SourceTypes DEF Buffers
<1>3. isSAR => At("sign", 0) \in Sources(D)
  BY SourceTypes
<1>4. Imm(0) \in Sources(D)
  BY SourceTypes DEF Byte
<1> QED BY <1>1, <1>2, <1>3, <1>4 DEF emitLoadByteSrc

(* One byte of a shift, made of two bytes of the source. *)
LEMMA ShiftByteStageSafe ==
  ASSUME NEW D, Roomy(D), NEW src \in Buffers(D), NEW dst \in Buffers(D), NEW i \in 0..3,
         NEW low \in Int, NEW high \in Int, NEW tabs, tabs.low \in Tables, tabs.high \in Tables,
         NEW isSAR, isSAR => "sign" \in D
  PROVE  Free(D, emitShiftByteStage(src, dst, i, low, high, tabs, isSAR))
<1>1. Free(D, emitLoadByteSrc(src, low, isSAR)) /\ Free(D, emitLoadByteSrc(src, high, isSAR))
  BY LoadSourceSafe
<1>2. Free(D, emitUnaryByteLookupInReg(tabs.low))
  BY UnarySafe
<1>3. Free(D, Mov8(At(dst, i), DL))
  BY Registers, FreeLeaves DEF Buffers
<1>4. Triple(D, emitUnaryByteLookupInReg(tabs.high), Mems(D), Clear(D))
  BY UnarySafe
<1>5. Triple(D, emitOrByteAndStore(dst, i), Clear(D), Mems(D))
  BY OrSafe, Weaken DEF Clear
<1>6. Free(D, emitLoadByteSrc(src, low, isSAR) \o emitUnaryByteLookupInReg(tabs.low)
              \o Mov8(At(dst, i), DL) \o emitLoadByteSrc(src, high, isSAR))
  BY <1>1, <1>2, <1>3, Free4
<1> QED BY <1>4, <1>5, <1>6, Then3 DEF Free, emitShiftByteStage

(* The same, with the tables of an amount. *)
LEMMA ShiftBySafe ==
  ASSUME NEW D, Roomy(D), NEW in, NEW src \in Buffers(D), NEW dst \in Buffers(D), NEW i \in 0..3,
         NEW amt \in Nat, IsSAR(in) => "sign" \in D
  PROVE  Free(D, ShiftBy(in, src, dst, amt, i))
<1> DEFINE bits == amt % 8
           low == IF IsSHL(in) THEN i - amt \div 8 ELSE i + amt \div 8
           high == IF IsSHL(in) THEN low - 1 ELSE low + 1
           tabs == ShiftTables(in, bits)
<1>1. bits \in 0..7 /\ low \in Int /\ high \in Int
  OBVIOUS
<1>2. bits # 0 => bits \in 1..7 /\ 8 - bits \in 1..7
  BY <1>1
<1>3. bits # 0 => tabs.low \in Tables /\ tabs.high \in Tables
  BY <1>2 DEF ShiftTables, Tables, ShiftTables8
<1> HIDE DEF bits, low, high, tabs
<1>4. Free(D, emitLoadByteSrc(src, low, IsSAR(in)))
  BY <1>1, LoadSourceSafe
<1>5. Free(D, Mov8(At(dst, i), DL))
  BY Registers, FreeLeaves DEF Buffers
<1>6. bits = 0 => Free(D, emitLoadByteSrc(src, low, IsSAR(in)) \o Mov8(At(dst, i), DL))
  BY <1>4, <1>5, Free2
<1>7. bits # 0 => Free(D, emitShiftByteStage(src, dst, i, low, high, tabs, IsSAR(in)))
  BY <1>1, <1>3, ShiftByteStageSafe
<1>8. ShiftBy(in, src, dst, amt, i) =
        IF bits = 0 THEN emitLoadByteSrc(src, low, IsSAR(in)) \o Mov8(At(dst, i), DL)
        ELSE emitShiftByteStage(src, dst, i, low, high, tabs, IsSAR(in))
  BY DEF ShiftBy, bits, low, high, tabs
<1> QED BY <1>6, <1>7, <1>8

(* What is known between two stages of an addition: the carry in CL is one  *)
(* bit, but nothing before the first and after the last.                    *)
(* What a stage of an addition finds in CL: a carry, after the first.       *)
CarryAt(D, i) == IF i \in 1..3 THEN Carry(D) ELSE Mems(D)

(* A stage of an addition starts with the carry of the last. *)
LEMMA CarryIntoSafe ==
  ASSUME NEW D, Roomy(D), "idx" \in D, NEW i \in 0..3
  PROVE  Triple(D, emitIdxZero \o CarryInto(i), CarryAt(D, i), Packed(D, "idx"))
<1>1. "idx" \in Slot \cap D /\ "ecx" \in D
  BY Registers DEF Slot
<1>2. CASE i = 0
  <2>1. Triple(D, emitIdxZero, Mems(D), Packed(D, "idx"))
    BY <1>1, ZeroIndex DEF emitIdxZero
  <2>2. Triple(D, CarryInto(i), Packed(D, "idx"), Packed(D, "idx"))
    BY <1>2, Skip DEF CarryInto, Packed
  <2>3. CarryAt(D, i) = Mems(D)
    BY <1>2 DEF CarryAt
  <2> QED BY <2>1, <2>2, <2>3, Then
<1>3. CASE i \in 1..3
  <2>1. Triple(D, emitIdxZero, Carry(D), Carry(D) \cap Packed(D, "idx"))
    BY <1>1, ZeroIndex DEF emitIdxZero
  <2>2. Triple(D, CarryInto(i), Carry(D) \cap Packed(D, "idx"), Packed(D, "idx"))
    BY <1>1, <1>3, PackCarry DEF CarryInto
  <2>3. CarryAt(D, i) = Carry(D)
    BY <1>3 DEF CarryAt
  <2> QED BY <2>1, <2>2, <2>3, Then
<1> QED BY <1>2, <1>3

(* It packs both operands. *)
LEMMA PackASafe ==
  ASSUME NEW D, Roomy(D), "idx" \in D, NEW a \in Sources(D)
  PROVE  Triple(D, PackA(a), Packed(D, "idx"), Packed(D, "idx"))
<1>1. "idx" \in Slot \cap D /\ Local(D, Packed(D, "idx"))
  BY Registers, LocalSets DEF Slot, Critical
<1>2. Triple(D, Mov8(DL, a), Packed(D, "idx"), Packed(D, "idx"))
  BY <1>1, KeepDL
<1>3. "idx" \in Slot \cap D /\ "ecx" \in D /\ 1 \in 0..1 /\ DL \in Sources(D)
  BY <1>1, Registers
<1>4. Triple(D, Mov8(At("idx", 1), DL), Packed(D, "idx"), Packed(D, "idx"))
  BY ONLY <1>3, PackByte
<1> QED BY <1>2, <1>4, Then DEF PackA

(* The second of them. *)
LEMMA PackBSafe ==
  ASSUME NEW D, Roomy(D), "idx" \in D, NEW b \in Sources(D)
  PROVE  Triple(D, PackB(b), Packed(D, "idx"), Packed(D, "idx"))
<1>1. "idx" \in Slot \cap D /\ Local(D, Packed(D, "idx"))
  BY Registers, LocalSets DEF Slot, Critical
<1>2. Triple(D, Mov8(DL, b), Packed(D, "idx"), Packed(D, "idx"))
  BY <1>1, KeepDL
<1>3. "idx" \in Slot \cap D /\ "ecx" \in D /\ 0 \in 0..1
  BY <1>1, Registers
<1>4. \A s \in Sources(D) : Triple(D, Mov8(At("idx", 0), s), Packed(D, "idx"), Packed(D, "idx"))
  BY ONLY <1>3, PackByte
<1>5. Triple(D, Mov8(DL, b) \o Mov8(At("idx", 0), DL), Packed(D, "idx"), Packed(D, "idx"))
  BY <1>2, <1>4, Registers, Then
<1>6. Triple(D, <<>>, Packed(D, "idx"), Packed(D, "idx"))
  BY Skip DEF Packed
<1> QED BY <1>4, <1>5, <1>6 DEF PackB

(* It looks the sum up, *)
LEMMA TableLookupSafe ==
  ASSUME NEW D, Roomy(D), "idx" \in D, "srcdst" \in D, NEW tab \in ThreePart, NEW i \in 0..3
  PROVE  Triple(D, emitTableLookupAndStore(tab, i), Packed(D, "idx"), Indexed(D))
<1>1. "idx" \in Slot \cap D /\ "srcdst" \in D \ Critical /\ tab \in Tables
  BY DEF Slot, Critical, Tables, TwoByte, ThreePart
<1>2. Triple(D, Mov("ecx", "idx"), Packed(D, "idx"), Indexed(D))
  BY <1>1, Registers, LoadIndex
<1>3. Triple(D, Lookup(DL, tab), Indexed(D), Indexed(D))
  BY <1>1, Registers, LocalSets, IndexedFits, KeepLookup DEF DL
<1>4. Triple(D, Mov8(At("srcdst", i), DL), Indexed(D), Indexed(D))
  BY <1>1, Registers, LocalSets, KeepMov8
<1> QED BY <1>2, <1>3, <1>4, Then3 DEF emitTableLookupAndStore

(* and then the carry, at the same index, for the next stage. *)
LEMMA CarryOutSafe ==
  ASSUME NEW D, Roomy(D), NEW tab \in CarryTables, NEW i \in 0..3
  PROVE  /\ Triple(D, CarryOut(tab, i), Indexed(D), CarryAt(D, i + 1))
         /\ Triple(D, CarryOut(tab, i), Clear(D), CarryAt(D, i + 1))
<1>1. CASE i < 3
  <2>1. CarryAt(D, i + 1) = Carry(D) /\ CarryOut(tab, i) = Lookup(CL, tab)
    BY <1>1 DEF CarryAt, CarryOut
  <2> QED BY <2>1, Registers, GetCarry
<1>2. CASE i = 3
  <2>1. CarryAt(D, i + 1) = Mems(D) /\ CarryOut(tab, i) = <<>>
    BY <1>2 DEF CarryAt, CarryOut
  <2> QED BY <2>1, Skip DEF Indexed, Clear
<1> QED BY <1>1, <1>2

(* A stage of an addition or a subtraction, on byte i.                      *)
LEMMA StageSafe ==
  ASSUME NEW D, Roomy(D), "idx" \in D, "srcdst" \in D, NEW tab \in ThreePart,
         NEW carry \in CarryTables, NEW i \in 0..3, NEW b \in Sources(D)
  PROVE  Triple(D, emitIdxZero \o CarryInto(i) \o emitIdxPackAB(i, b)
                   \o emitTableLookupAndStore(tab, i) \o CarryOut(carry, i),
                CarryAt(D, i), CarryAt(D, i + 1))
<1>1. Triple(D, emitIdxZero \o CarryInto(i), CarryAt(D, i), Packed(D, "idx"))
  BY CarryIntoSafe
<1>2. Triple(D, PackA(At("srcdst", i)), Packed(D, "idx"), Packed(D, "idx"))
  BY PackASafe, SourceTypes
<1>3. Triple(D, PackB(b), Packed(D, "idx"), Packed(D, "idx"))
  BY PackBSafe
<1>4. Triple(D, emitIdxPackAB(i, b), Packed(D, "idx"), Packed(D, "idx"))
  BY <1>2, <1>3, Then DEF emitIdxPackAB
<1>5. Triple(D, emitTableLookupAndStore(tab, i), Packed(D, "idx"), Indexed(D))
  BY TableLookupSafe
<1>6. Triple(D, CarryOut(carry, i), Indexed(D), CarryAt(D, i + 1))
  BY CarryOutSafe
<1> QED BY <1>1, <1>4, <1>5, <1>6, Then4

(* emitByteStageAdd and emitByteStageSub. *)
LEMMA AddStageSafe ==
  ASSUME NEW D, Roomy(D), "idx" \in D, "srcdst" \in D, NEW i \in 0..3, NEW b \in Sources(D)
  PROVE  /\ Triple(D, emitByteStageAdd(i, b), CarryAt(D, i), CarryAt(D, i + 1))
         /\ Triple(D, emitByteStageSub(i, b), CarryAt(D, i), CarryAt(D, i + 1))
<1>1. /\ <<"add8_sum">> \in ThreePart /\ <<"add8_carry">> \in CarryTables
      /\ <<"sub8_diff">> \in ThreePart /\ <<"sub8_borrow">> \in CarryTables
  BY DEF ThreePart, CarryTables, AddTables, SubTables
<1>2. Triple(D, emitByteStageAdd(i, b), CarryAt(D, i), CarryAt(D, i + 1))
  BY <1>1, StageSafe DEF emitByteStageAdd
<1>3. Triple(D, emitByteStageSub(i, b), CarryAt(D, i), CarryAt(D, i + 1))
  BY <1>1, StageSafe DEF emitByteStageSub
<1> QED BY <1>2, <1>3

(* Four stages, the carry of each going into the next. *)
LEMMA FourStages ==
  ASSUME NEW D, NEW c0, NEW c1, NEW c2, NEW c3,
         Triple(D, c0, CarryAt(D, 0), CarryAt(D, 0 + 1)),
         Triple(D, c1, CarryAt(D, 1), CarryAt(D, 1 + 1)),
         Triple(D, c2, CarryAt(D, 2), CarryAt(D, 2 + 1)),
         Triple(D, c3, CarryAt(D, 3), CarryAt(D, 3 + 1))
  PROVE  Free(D, c0 \o c1 \o c2 \o c3)
<1>1. CarryAt(D, 0) = Mems(D) /\ CarryAt(D, 3 + 1) = Mems(D)
  BY DEF CarryAt
<1>2. 0 + 1 = 1 /\ 1 + 1 = 2 /\ 2 + 1 = 3
  OBVIOUS
<1> QED BY <1>1, <1>2, Then4 DEF Free

(* A carry that ripples through the product. *)
LEMMA CascadeCarrySafe ==
  ASSUME NEW D, Roomy(D), "idx" \in D, "srcdst" \in D, NEW k \in 1..3
  PROVE  Triple(D, CascadeCarry(k), CarryAt(D, k), CarryAt(D, k + 1))
<1>1. /\ <<"add8_sum">> \in ThreePart /\ <<"add8_carry">> \in CarryTables /\ k \in 0..3
      /\ CarryInto(k) = Mov8(At("idx", 2), CL)
  BY DEF ThreePart, CarryTables, AddTables, CarryInto
<1>2. Triple(D, emitIdxZero \o Mov8(At("idx", 2), CL), CarryAt(D, k), Packed(D, "idx"))
  BY <1>1, CarryIntoSafe
<1>3. Triple(D, Mov8(DL, At("srcdst", k)), Packed(D, "idx"), Packed(D, "idx"))
  <2>1. At("srcdst", k) \in Sources(D) /\ "idx" \in Critical \cap D
    BY <1>1, SourceTypes DEF Critical
  <2> QED BY <2>1, KeepDL, Registers, LocalSets
<1>4. Triple(D, Mov8(At("idx", 1), DL), Packed(D, "idx"), Packed(D, "idx"))
  <2>1. "idx" \in Slot \cap D /\ "ecx" \in D /\ 1 \in 0..1 /\ DL \in Sources(D)
    BY Registers DEF Slot
  <2> QED BY ONLY <2>1, PackByte
<1>5. Triple(D, emitTableLookupAndStore(<<"add8_sum">>, k), Packed(D, "idx"), Indexed(D))
  BY <1>1, TableLookupSafe
<1>6. Triple(D, CarryOut(<<"add8_carry">>, k), Indexed(D), CarryAt(D, k + 1))
  BY <1>1, CarryOutSafe
<1> QED BY <1>2, <1>3, <1>4, <1>5, <1>6, Then5 DEF CascadeCarry

(* cascadeAddDLAtPos: a byte added to the product, and the carries above it. *)
LEMMA CascadeSafe ==
  ASSUME NEW D, Roomy(D), "idx" \in D, "srcdst" \in D, NEW p \in 0..3
  PROVE  Free(D, cascadeAddDLAtPos(p))
<1>1. <<"add8_sum">> \in TwoByte /\ <<"add8_carry">> \in CarryTables
  BY DEF TwoByte, CarryTables, AddTables
<1>2. Triple(D, emitBinaryByteLookup(At("srcdst", p), <<"add8_sum">>), Mems(D), Clear(D))
  BY <1>1, BinarySafe, SourceTypes
<1>3. Triple(D, Mov8(At("srcdst", p), DL), Clear(D), Clear(D))
  <2>1. "srcdst" \in D \ Critical
    BY DEF Critical
  <2> QED BY <2>1, Registers, LocalSets, KeepMov8
<1>4. Triple(D, CarryOut(<<"add8_carry">>, p), Clear(D), CarryAt(D, p + 1))
  BY <1>1, CarryOutSafe
<1> DEFINE at(i) == IF i \in (p + 1)..3 THEN CascadeCarry(i) ELSE <<>>
           R(i) == IF i <= p + 1 THEN CarryAt(D, p + 1) ELSE CarryAt(D, i)
<1>5. ASSUME NEW i \in 0..3 PROVE Triple(D, at(i), R(i), R(i + 1))
  <2>1. CASE i \in (p + 1)..3
    <3>1. R(i) = CarryAt(D, i) /\ R(i + 1) = CarryAt(D, i + 1) /\ i \in 1..3
      BY <2>1
    <3> QED BY <2>1, <3>1, CascadeCarrySafe
  <2>2. CASE i \notin (p + 1)..3
    <3>1. R(i) = CarryAt(D, p + 1) /\ R(i + 1) = CarryAt(D, p + 1) /\ at(i) = <<>>
      BY <2>2
    <3>2. CarryAt(D, p + 1) \in SUBSET Mems(D)
      BY DEF CarryAt, Carry
    <3> QED BY <3>1, <3>2, Skip
  <2> QED BY <2>1, <2>2
<1>6. R(0) = CarryAt(D, p + 1) /\ R(4) = Mems(D)
  BY DEF CarryAt
<1>7. Bytes(p + 1, 3, CascadeCarry) = at(0) \o at(1) \o at(2) \o at(3)
  BY DEF Bytes
<1> HIDE DEF at, R
<1>8. /\ Triple(D, at(0), R(0), R(1)) /\ Triple(D, at(1), R(1), R(2))
      /\ Triple(D, at(2), R(2), R(3)) /\ Triple(D, at(3), R(3), R(4))
  <2>1. 0 + 1 = 1 /\ 1 + 1 = 2 /\ 2 + 1 = 3 /\ 3 + 1 = 4
    OBVIOUS
  <2> QED BY <1>5, <2>1
<1>9. Triple(D, Bytes(p + 1, 3, CascadeCarry), CarryAt(D, p + 1), Mems(D))
  BY <1>6, <1>7, <1>8, Then4
<1> QED BY <1>2, <1>3, <1>4, <1>9, Then4 DEF cascadeAddDLAtPos, Free

(* One of the ten partial products of four bytes by four. *)
LEMMA PartialProductSafe ==
  ASSUME NEW D, Roomy(D), {"idx", "srcdst", "rhs", "mul_temp"} \subseteq D,
         NEW in, in.op = "MUL32rr" => "mul_rhs2" \in D, in.op # "MUL32rr" => in.imm \in Int,
         NEW i \in 0..3, NEW j \in 0..(3 - i)
  PROVE  Free(D, PartialProduct(in, i, j))
<1> DEFINE b == IF in.op = "MUL32rr" THEN At("mul_rhs2", j) ELSE Imm(ImmByte(in.imm, j))
           p == i + j
<1>1. b \in Sources(D) /\ <<"mul8_lo">> \in TwoByte
  BY SourceTypes DEF TwoByte, MulTables
<1>2. p \in 0..3 /\ (p < 3 => p + 1 \in 0..3)
  OBVIOUS
<1>3. PartialProduct(in, i, j) =
        Mov8(DL, At("rhs", i)) \o emitBinaryByteLookup(b, <<"mul8_lo">>)
        \o (IF p < 3 THEN Lookup(CL, <<"mul8_hi">>) \o Mov8(At("mul_temp", 0), CL) ELSE <<>>)
        \o cascadeAddDLAtPos(p)
        \o (IF p < 3 THEN Mov8(DL, At("mul_temp", 0)) \o cascadeAddDLAtPos(p + 1) ELSE <<>>)
  BY DEF PartialProduct
<1> HIDE DEF b, p
<1>4. Triple(D, Mov8(DL, At("rhs", i)), Mems(D), Mems(D))
  <2>1. At("rhs", i) \in Sources(D)
    BY SourceTypes
  <2> QED BY <2>1, Registers, LocalSets, KeepDL
<1>5. Triple(D, emitBinaryByteLookup(b, <<"mul8_lo">>), Mems(D), Clear(D))
  BY <1>1, BinarySafe
<1>6. Triple(D, IF p < 3 THEN Lookup(CL, <<"mul8_hi">>) \o Mov8(At("mul_temp", 0), CL) ELSE <<>>,
             Clear(D), Mems(D))
  <2>1. Triple(D, Lookup(CL, <<"mul8_hi">>), Clear(D), Clear(D))
    BY Registers, GetHighProduct
  <2>2. "mul_temp" \in D \ Critical /\ 0 \in 0..3
    BY DEF Critical
  <2>3. Triple(D, Mov8(At("mul_temp", 0), CL), Clear(D), Clear(D))
    BY <2>2, Registers, LocalSets, KeepMov8
  <2>4. Triple(D, Lookup(CL, <<"mul8_hi">>) \o Mov8(At("mul_temp", 0), CL), Clear(D), Clear(D))
    BY <2>1, <2>3, Then
  <2>5. Clear(D) \subseteq Mems(D)
    BY DEF Clear
  <2>6. Triple(D, <<>>, Clear(D), Mems(D))
    BY <2>5, Skip
  <2> QED BY <2>4, <2>5, <2>6, Weaken
<1>7. Triple(D, cascadeAddDLAtPos(p), Mems(D), Mems(D))
  BY <1>2, CascadeSafe DEF Free
<1>8. Triple(D, IF p < 3 THEN Mov8(DL, At("mul_temp", 0)) \o cascadeAddDLAtPos(p + 1) ELSE <<>>,
             Mems(D), Mems(D))
  <2>1. p < 3 => Free(D, cascadeAddDLAtPos(p + 1))
    BY <1>2, CascadeSafe
  <2>2. At("mul_temp", 0) \in Sources(D)
    BY SourceTypes
  <2>3. Free(D, Mov8(DL, At("mul_temp", 0)))
    BY <2>2, Registers, LocalSets, KeepDL DEF Free
  <2>4. Free(D, <<>>)
    BY Registers, FreeLeaves
  <2> QED BY <2>1, <2>3, <2>4, Free2 DEF Free
<1> QED BY <1>3, <1>4, <1>5, <1>6, <1>7, <1>8, Then5 DEF Free
-----------------------------------------------------------------------------
(* The chain of each instruction, in a function that has its slots. *)
(* The base slots are there.                                                *)
Based(D) == Roomy(D) /\ BaseSlots \subseteq D

(* What the base slots are for. *)
LEMMA BaseUse ==
  ASSUME NEW D, Based(D)
  PROVE  /\ Roomy(D) /\ "idx" \in D /\ "srcdst" \in Buffers(D) /\ "srcdst" \in D
         /\ "save_ecx" \in D /\ "save_edx" \in D
  BY DEF Based, BaseSlots, Buffers, Critical

(* Saving and restoring ECX and EDX. *)
LEMMA SpillsSafe ==
  ASSUME NEW D, Based(D)
  PROVE  Free(D, SaveRegs) /\ Free(D, RestoreRegs)
<1>1. \A d \in D, s \in D : Free(D, Mov(d, s))
  BY BaseUse, Registers, FreeLeaves
<1>2. "save_ecx" \in D /\ "save_edx" \in D /\ "ecx" \in D /\ "edx" \in D
  BY BaseUse, Registers
<1>3. Free(D, SaveRegs)
  BY <1>1, <1>2, Free2 DEF SaveRegs
<1>4. Free(D, RestoreRegs)
  BY <1>1, <1>2, Free2 DEF RestoreRegs
<1> QED BY <1>3, <1>4

(* A chain between the two, *)
LEMMA BetweenSafe ==
  ASSUME NEW D, Based(D), NEW d \in GPR32, NEW chain, Free(D, chain)
  PROVE  Free(D, Between(d, chain))
<1>1. d \in D /\ "srcdst" \in D
  BY BaseUse, Registers
<1>2. Free(D, Mov("srcdst", d)) /\ Free(D, Mov(d, "srcdst"))
  BY <1>1, BaseUse, Registers, FreeLeaves
<1> QED BY <1>2, SpillsSafe, Free5 DEF Between

(* and one with two operands. *)
LEMMA BetweenRRSafe ==
  ASSUME NEW D, Based(D), "rhs" \in D, NEW in, in.dst \in GPR32, in.src \in GPR32,
         NEW chain, Free(D, chain)
  PROVE  Free(D, BetweenRR(in, chain))
<1>1. in.dst \in D /\ in.src \in D /\ "srcdst" \in D
  BY BaseUse, Registers
<1>2. Free(D, Mov("srcdst", in.dst)) /\ Free(D, Mov("rhs", in.src)) /\ Free(D, Mov(in.dst, "srcdst"))
  BY <1>1, BaseUse, Registers, FreeLeaves
<1>3. Free(D, SaveRegs \o Mov("srcdst", in.dst) \o Mov("rhs", in.src) \o chain)
  BY <1>2, SpillsSafe, Free4
<1> QED BY <1>2, <1>3, SpillsSafe, Free3 DEF BetweenRR

(* legalizeADD32ri and legalizeSUB32ri. *)
LEMMA AddSubRISafe ==
  ASSUME NEW D, Based(D), NEW in, in.dst \in GPR32, in.imm \in Int
  PROVE  Free(D, legalizeADD32ri(in)) /\ Free(D, legalizeSUB32ri(in))
<1> DEFINE b(i) == Imm(ImmByte(in.imm, i))
           add(i) == emitByteStageAdd(i, b(i))
           sub(i) == emitByteStageSub(i, b(i))
<1>1. \A i \in 0..3 : b(i) \in Sources(D)
  BY SourceTypes
<1> HIDE DEF b
<1>2. \A i \in 0..3 : Triple(D, add(i), CarryAt(D, i), CarryAt(D, i + 1))
                      /\ Triple(D, sub(i), CarryAt(D, i), CarryAt(D, i + 1))
  BY <1>1, BaseUse, AddStageSafe
<1>3. Upward(add) = add(0) \o add(1) \o add(2) \o add(3)
  BY DEF Upward
<1>4. Upward(sub) = sub(0) \o sub(1) \o sub(2) \o sub(3)
  BY DEF Upward
<1> HIDE DEF add, sub
<1>5. 0 \in 0..3 /\ 1 \in 0..3 /\ 2 \in 0..3 /\ 3 \in 0..3
  OBVIOUS
<1>6. Free(D, Upward(add))
  BY <1>2, <1>3, <1>5, FourStages
<1>7. Free(D, Upward(sub))
  BY <1>2, <1>4, <1>5, FourStages
<1>8. Free(D, <<>>)
  BY BaseUse, Registers, FreeLeaves
<1>9. legalizeADD32ri(in) = IF in.imm = 0 THEN <<>> ELSE Between(in.dst, Upward(add))
  BY DEF legalizeADD32ri, add, b
<1>10. legalizeSUB32ri(in) = IF in.imm = 0 THEN <<>> ELSE Between(in.dst, Upward(sub))
  BY DEF legalizeSUB32ri, sub, b
<1> QED BY <1>6, <1>7, <1>8, <1>9, <1>10, BetweenSafe

(* legalizeADD32rr and legalizeSUB32rr. *)
LEMMA AddSubRRSafe ==
  ASSUME NEW D, Based(D), "rhs" \in D, NEW in, in.dst \in GPR32, in.src \in GPR32
  PROVE  Free(D, legalizeADD32rr(in)) /\ Free(D, legalizeSUB32rr(in))
<1> DEFINE add(i) == emitByteStageAdd(i, At("rhs", i))
           sub(i) == emitByteStageSub(i, At("rhs", i))
<1>1. \A i \in 0..3 : At("rhs", i) \in Sources(D)
  BY SourceTypes
<1>2. \A i \in 0..3 : Triple(D, add(i), CarryAt(D, i), CarryAt(D, i + 1))
                      /\ Triple(D, sub(i), CarryAt(D, i), CarryAt(D, i + 1))
  BY <1>1, BaseUse, AddStageSafe
<1>3. Upward(add) = add(0) \o add(1) \o add(2) \o add(3)
  BY DEF Upward
<1>4. Upward(sub) = sub(0) \o sub(1) \o sub(2) \o sub(3)
  BY DEF Upward
<1> HIDE DEF add, sub
<1>5. 0 \in 0..3 /\ 1 \in 0..3 /\ 2 \in 0..3 /\ 3 \in 0..3
  OBVIOUS
<1>6. Free(D, Upward(add))
  BY <1>2, <1>3, <1>5, FourStages
<1>7. Free(D, Upward(sub))
  BY <1>2, <1>4, <1>5, FourStages
<1>8. legalizeADD32rr(in) = BetweenRR(in, Upward(add))
  BY DEF legalizeADD32rr, add
<1>9. legalizeSUB32rr(in) = BetweenRR(in, Upward(sub))
  BY DEF legalizeSUB32rr, sub
<1> QED BY <1>6, <1>7, <1>8, <1>9, BetweenRRSafe

(* legalizeLEA32rs. *)
LEMMA LEASafe ==
  ASSUME NEW D, Based(D), NEW in, in.dst \in GPR32, in.imm \in Int
  PROVE  Free(D, legalizeLEA32rs(in))
<1>1. Free(D, Mov(in.dst, "ebp"))
  BY BaseUse, Registers, FreeLeaves
<1> QED BY <1>1, AddSubRISafe, Free2 DEF legalizeLEA32rs

(* A bitwise operation uses a table of two bytes. *)
LEMMA BitwiseTables2 ==
  ASSUME NEW in, in.op \in BitwiseRI \cup BitwiseRR
  PROVE  BitwiseTable(in) \in TwoByte
  BY DEF BitwiseTable, BitwiseRI, BitwiseRR, TwoByte, BitwiseTables

(* `mov ecx, 0` clears its upper half. *)
LEMMA ClearEcx ==
  ASSUME NEW D, Roomy(D)
  PROVE  Triple(D, MovImm("ecx", 0), Mems(D), Clear(D))
<1>1. Zeroed(D) \subseteq Clear(D)
  BY DEF Zeroed, Clear
<1> QED BY <1>1, Registers, ZeroEcx, Weaken

(* legalizeBitwise32ri, *)
LEMMA BitwiseRISafe ==
  ASSUME NEW D, Based(D), NEW in, in.op \in BitwiseRI, in.dst \in GPR32, in.imm \in Int
  PROVE  Free(D, legalizeBitwise32ri(in))
<1> DEFINE tab == BitwiseTable(in)
           byte(i) == ImmByte(in.imm, i)
           looked(i) == ~IsIdentityByte(tab, byte(i)) /\ ~IsConstantByte(tab, byte(i))
           lookups == \E i \in 0..3 : looked(i)
           P == IF lookups THEN Clear(D) ELSE Mems(D)
           stage(i) ==
             CASE IsIdentityByte(tab, byte(i)) -> <<>>
               [] IsConstantByte(tab, byte(i)) -> Mov8(At("srcdst", i), Imm(byte(i)))
               [] OTHER -> emitByteStageBitwiseInReg(i, Imm(byte(i)), tab)
<1>1. tab \in TwoByte
  BY BitwiseTables2
<1>2. \A i \in 0..3 : Imm(byte(i)) \in Sources(D)
  BY SourceTypes
<1>3. legalizeBitwise32ri(in) =
        (IF lookups THEN SaveRegs ELSE <<>>) \o Mov("srcdst", in.dst)
        \o (IF lookups THEN MovImm("ecx", 0) ELSE <<>>) \o Upward(stage)
        \o (IF lookups THEN RestoreRegs ELSE <<>>) \o Mov(in.dst, "srcdst")
  BY DEF legalizeBitwise32ri
<1>4. Upward(stage) = stage(0) \o stage(1) \o stage(2) \o stage(3)
  BY DEF Upward
<1>5. Local(D, P)
  BY BaseUse, Registers, LocalSets
<1>6. ASSUME NEW i \in 0..3 PROVE Triple(D, stage(i), P, P)
  <2> DEFINE b == byte(i)
             s1 == Mov8(At("srcdst", i), Imm(b))
             s2 == emitByteStageBitwiseInReg(i, Imm(b), tab)
  <2>1. Triple(D, <<>>, P, P)
    BY <1>5, Skip DEF Local
  <2>2. Triple(D, s1, P, P)
    BY <1>2, <1>5, BaseUse, KeepMov8 DEF Buffers
  <2>3. looked(i) => Triple(D, s2, P, P)
    BY <1>1, <1>2, BaseUse, BitwiseStageSafe
  <2>4. stage(i) = CASE IsIdentityByte(tab, b) -> <<>>
                     [] IsConstantByte(tab, b) -> s1
                     [] OTHER -> s2
    OBVIOUS
  <2> HIDE DEF s1, s2, stage, P
  <2> QED BY <2>1, <2>2, <2>3, <2>4
<1> HIDE DEF stage
<1>7. Triple(D, Upward(stage), P, P)
  <2>1. 0 \in 0..3 /\ 1 \in 0..3 /\ 2 \in 0..3 /\ 3 \in 0..3
    OBVIOUS
  <2>2. /\ Triple(D, stage(0), P, P) /\ Triple(D, stage(1), P, P)
        /\ Triple(D, stage(2), P, P) /\ Triple(D, stage(3), P, P)
    BY <1>6, <2>1
  <2> HIDE DEF P
  <2> QED BY <1>4, <2>2, Then4
<1>8. Triple(D, IF lookups THEN MovImm("ecx", 0) ELSE <<>>, Mems(D), P)
  BY BaseUse, ClearEcx, Skip
<1>9. Free(D, IF lookups THEN SaveRegs ELSE <<>>) /\ Free(D, IF lookups THEN RestoreRegs ELSE <<>>)
  BY SpillsSafe, BaseUse, Registers, FreeLeaves
<1>10. Free(D, Mov("srcdst", in.dst)) /\ Free(D, Mov(in.dst, "srcdst"))
  BY BaseUse, Registers, FreeLeaves
<1>11. P \subseteq Mems(D)
  BY DEF Clear
<1> HIDE DEF P, lookups
<1>12. Triple(D, Upward(stage), P, Mems(D))
  BY <1>7, <1>11, Weaken
<1>13. Free(D, (IF lookups THEN SaveRegs ELSE <<>>) \o Mov("srcdst", in.dst)
         \o (IF lookups THEN MovImm("ecx", 0) ELSE <<>>) \o Upward(stage))
  BY <1>8, <1>9, <1>10, <1>12, Then4 DEF Free
<1> QED BY <1>3, <1>9, <1>10, <1>13, Free3

(* with the immediates it treats apart. *)
LEMMA BitwiseImmSafe ==
  ASSUME NEW D, Based(D), NEW in, in.op \in BitwiseRI, in.dst \in GPR32, in.imm \in Int
  PROVE  Free(D, BitwiseImm(in))
<1>1. Free(D, MovImm(in.dst, 0)) /\ Free(D, MovImm(in.dst, -1)) /\ Free(D, <<>>)
  BY BaseUse, Registers, FreeLeaves
<1>2. Free(D, legalizeBitwise32ri(in))
  BY BitwiseRISafe
<1>3. BitwiseImm(in) \in {MovImm(in.dst, 0), MovImm(in.dst, -1), <<>>, legalizeBitwise32ri(in)}
  BY DEF BitwiseImm
<1> QED BY <1>1, <1>2, <1>3

(* legalizeBitwise32rr. *)
LEMMA BitwiseRRSafe ==
  ASSUME NEW D, Based(D), "rhs" \in D, NEW in, in.op \in BitwiseRR,
         in.dst \in GPR32, in.src \in GPR32
  PROVE  Free(D, legalizeBitwise32rr(in))
<1> DEFINE stage(i) == emitByteStageBitwiseInReg(i, At("rhs", i), BitwiseTable(in))
<1>1. \A i \in 0..3 : Triple(D, stage(i), Clear(D), Clear(D))
  BY BitwiseTables2, SourceTypes, BaseUse, BitwiseStageSafe
<1>2. legalizeBitwise32rr(in) = BetweenRR(in, MovImm("ecx", 0) \o Upward(stage))
  BY DEF legalizeBitwise32rr
<1>3. Upward(stage) = stage(0) \o stage(1) \o stage(2) \o stage(3)
  BY DEF Upward
<1> HIDE DEF stage
<1>4. 0 \in 0..3 /\ 1 \in 0..3 /\ 2 \in 0..3 /\ 3 \in 0..3
  OBVIOUS
<1>5. Triple(D, Upward(stage), Clear(D), Clear(D))
  BY <1>1, <1>3, <1>4, Then4
<1>6. Clear(D) \subseteq Mems(D)
  BY DEF Clear
<1>7. Free(D, MovImm("ecx", 0) \o Upward(stage))
  BY <1>5, <1>6, BaseUse, ClearEcx, Then, Weaken DEF Free
<1> QED BY <1>2, <1>7, BetweenRRSafe

(* Four bytes, upward or downward. *)
LEMMA Loops ==
  ASSUME NEW D, NEW c0, NEW c1, NEW c2, NEW c3,
         Free(D, c0), Free(D, c1), Free(D, c2), Free(D, c3)
  PROVE  Free(D, c0 \o c1 \o c2 \o c3) /\ Free(D, c3 \o c2 \o c1 \o c0)
  BY Free4

(* The sign of an arithmetic shift is captured first. *)
LEMMA CaptureSafe ==
  ASSUME NEW D, Based(D), NEW in, IsSAR(in) => "sign" \in D
  PROVE  Free(D, CaptureSign(in))
<1>1. Free(D, <<>>)
  BY BaseUse, Registers, FreeLeaves
<1>2. ASSUME IsSAR(in) PROVE Free(D, CaptureSign(in))
  <2>1. At("srcdst", 3) \in Sources(D) /\ "edx" \in D /\ DL \in Sources(D)
    BY BaseUse, SourceTypes, Registers
  <2>2. Free(D, Mov8(DL, At("srcdst", 3)))
    BY <2>1, BaseUse, Registers, FreeLeaves DEF DL
  <2>3. <<"sar_sign">> \in Tables
    BY DEF Tables, OneByte, MaskTables
  <2>4. Free(D, emitUnaryByteLookupInReg(<<"sar_sign">>))
    BY <2>3, BaseUse, UnarySafe
  <2>5. Free(D, Mov8(At("sign", 0), DL))
    BY <1>2, <2>1, BaseUse, Registers, FreeLeaves
  <2> QED BY <1>2, <2>2, <2>4, <2>5, Free3 DEF CaptureSign
<1> QED BY <1>1, <1>2 DEF CaptureSign

(* legalizeShift32ri. *)
LEMMA ShiftRISafe ==
  ASSUME NEW D, Based(D), NEW in, in.dst \in GPR32, in.imm \in Int, IsSAR(in) => "sign" \in D
  PROVE  Free(D, legalizeShift32ri(in))
<1> DEFINE amt == in.imm % 32
           processByte(i) == ShiftBy(in, "srcdst", "srcdst", amt, i)
<1>1. amt \in Nat
  OBVIOUS
<1>2. \A i \in 0..3 : Free(D, processByte(i))
  BY <1>1, BaseUse, ShiftBySafe
<1>3. Upward(processByte) = processByte(0) \o processByte(1) \o processByte(2) \o processByte(3)
  BY DEF Upward
<1>4. Downward(processByte) = processByte(3) \o processByte(2) \o processByte(1) \o processByte(0)
  BY DEF Downward
<1>5. legalizeShift32ri(in) =
        IF amt = 0 THEN <<>>
        ELSE Between(in.dst,
               CaptureSign(in)
               \o (IF IsSHL(in) THEN Downward(processByte) ELSE Upward(processByte)))
  BY DEF legalizeShift32ri
<1> HIDE DEF processByte
<1>6. 0 \in 0..3 /\ 1 \in 0..3 /\ 2 \in 0..3 /\ 3 \in 0..3
  OBVIOUS
<1>7. Free(D, Upward(processByte)) /\ Free(D, Downward(processByte))
  BY <1>2, <1>3, <1>4, <1>6, Loops
<1>8. Free(D, CaptureSign(in)
              \o (IF IsSHL(in) THEN Downward(processByte) ELSE Upward(processByte)))
  BY <1>7, CaptureSafe, Free2
<1>9. Free(D, <<>>)
  BY BaseUse, Registers, FreeLeaves
<1> HIDE DEF amt
<1> QED BY <1>5, <1>8, <1>9, BetweenSafe

(* A bit of the amount, as a mask. *)
LEMMA MaskSafe ==
  ASSUME NEW D, Roomy(D), "amount" \in D, NEW k \in 0..4
  PROVE  Free(D, MaskOfAmountBit(k))
<1>1. /\ At("amount", 0) \in Sources(D) /\ DL \in Sources(D) /\ "ecx" \in D /\ "edx" \in D
      /\ 0 \in 0..3 /\ 1 \in 0..3 /\ 2 \in 0..3
  BY SourceTypes, Registers
<1>2. Free(D, Mov8(DL, At("amount", 0)))
  BY <1>1, FreeLeaves DEF DL
<1>3. 2^k \in Byte
  <2>1. 2^0 = 1 /\ 2^1 = 2 /\ 2^2 = 4 /\ 2^3 = 8 /\ 2^4 = 16
    OBVIOUS
  <2>2. k = 0 \/ k = 1 \/ k = 2 \/ k = 3 \/ k = 4
    OBVIOUS
  <2>3. 2^k \in {1, 2, 4, 8, 16}
    BY ONLY <2>1, <2>2, Zenon
  <2> QED BY ONLY <2>3 DEF Byte
<1>4. /\ <<"and8">> \in TwoByte /\ <<"xor8">> \in TwoByte
      /\ <<"select_mask">> \in Tables
  BY DEF TwoByte, BitwiseTables, Tables, OneByte, MaskTables
<1>5. Free(D, emitBinaryByteLookup(Imm(2^k), <<"and8">>))
  BY <1>3, <1>4, BinarySafe, SourceTypes
<1>6. Free(D, emitUnaryByteLookupInReg(<<"select_mask">>))
  BY <1>4, UnarySafe
<1>7. 255 \in Byte
  BY DEF Byte
<1>8. Free(D, emitBinaryByteLookup(Imm(255), <<"xor8">>))
  BY <1>4, <1>7, BinarySafe, SourceTypes
<1>9. Free(D, Mov8(At("amount", 1), DL)) /\ Free(D, Mov8(At("amount", 2), DL))
  BY <1>1, FreeLeaves
<1>10. Free(D, Mov8(DL, At("amount", 0)) \o emitBinaryByteLookup(Imm(2^k), <<"and8">>)
               \o emitUnaryByteLookupInReg(<<"select_mask">>) \o Mov8(At("amount", 1), DL))
  BY <1>2, <1>5, <1>6, <1>9, Free4
<1> QED BY <1>8, <1>9, <1>10, Free3 DEF MaskOfAmountBit

(* A byte of what was shifted or of what was not. *)
LEMMA SelectSafe ==
  ASSUME NEW D, Based(D), "amount" \in D, "shifted" \in D, NEW i \in 0..3
  PROVE  Free(D, SelectShifted(i))
<1>1. /\ At("amount", 1) \in Sources(D) /\ At("amount", 2) \in Sources(D)
      /\ At("shifted", i) \in Sources(D) /\ At("srcdst", i) \in Sources(D)
      /\ DL \in Sources(D) /\ "ecx" \in D /\ "edx" \in D /\ "srcdst" \in D
      /\ <<"and8">> \in TwoByte
  BY BaseUse, SourceTypes, Registers DEF TwoByte, BitwiseTables
<1>2. Free(D, Mov8(DL, At("amount", 2))) /\ Free(D, Mov8(DL, At("amount", 1)))
  BY <1>1, FreeLeaves DEF DL
<1>3. Free(D, emitBinaryByteLookup(At("srcdst", i), <<"and8">>))
  BY <1>1, BaseUse, BinarySafe
<1>4. Free(D, Mov8(At("srcdst", i), DL))
  BY <1>1, FreeLeaves
<1>5. Free(D, Mov8(DL, At("amount", 2)) \o emitBinaryByteLookup(At("srcdst", i), <<"and8">>)
              \o Mov8(At("srcdst", i), DL) \o Mov8(DL, At("amount", 1)))
  BY <1>2, <1>3, <1>4, Free4
<1>6. Triple(D, emitBinaryByteLookup(At("shifted", i), <<"and8">>), Mems(D), Clear(D))
  BY <1>1, BaseUse, BinarySafe
<1>7. Triple(D, emitOrByteAndStore("srcdst", i), Clear(D), Mems(D))
  BY BaseUse, OrSafe, Weaken DEF Clear
<1> QED BY <1>5, <1>6, <1>7, Then3 DEF Free, SelectShifted

(* A shift by a power of two, or not. *)
LEMMA ShiftStageSafe ==
  ASSUME NEW D, Based(D), "amount" \in D, "shifted" \in D, NEW in, IsSAR(in) => "sign" \in D,
         NEW k \in 0..4
  PROVE  Free(D, ShiftStage(in, k))
<1> DEFINE amt == 2^k
           processOneByte(i) == ShiftBy(in, "srcdst", "shifted", amt, i)
           downward == IsSHL(in) /\ k < 3
<1>1. amt \in Nat
  <2>1. 2^0 = 1 /\ 2^1 = 2 /\ 2^2 = 4 /\ 2^3 = 8 /\ 2^4 = 16
    OBVIOUS
  <2>2. k = 0 \/ k = 1 \/ k = 2 \/ k = 3 \/ k = 4
    OBVIOUS
  <2>3. 2^k \in {1, 2, 4, 8, 16}
    BY ONLY <2>1, <2>2, Zenon
  <2> QED BY ONLY <2>3
<1>2. \A i \in 0..3 : Free(D, processOneByte(i))
  <2>1. "shifted" \in Buffers(D)
    BY DEF Buffers, Critical
  <2> HIDE DEF amt
  <2> QED BY <1>1, <2>1, BaseUse, ShiftBySafe
<1>3. /\ Upward(processOneByte) =
           processOneByte(0) \o processOneByte(1) \o processOneByte(2) \o processOneByte(3)
      /\ Downward(processOneByte) =
           processOneByte(3) \o processOneByte(2) \o processOneByte(1) \o processOneByte(0)
  BY DEF Upward, Downward
<1>4. Upward(SelectShifted) =
        SelectShifted(0) \o SelectShifted(1) \o SelectShifted(2) \o SelectShifted(3)
  BY DEF Upward
<1>5. ShiftStage(in, k) =
        (IF downward THEN Downward(processOneByte) ELSE Upward(processOneByte))
        \o MaskOfAmountBit(k) \o Upward(SelectShifted)
  BY DEF ShiftStage
<1>6. 0 \in 0..3 /\ 1 \in 0..3 /\ 2 \in 0..3 /\ 3 \in 0..3
  OBVIOUS
<1> HIDE DEF processOneByte, downward
<1>7. Free(D, IF downward THEN Downward(processOneByte) ELSE Upward(processOneByte))
  BY <1>2, <1>3, <1>6, Loops
<1>8. \A i \in 0..3 : Free(D, SelectShifted(i))
  BY SelectSafe
<1>9. Free(D, Upward(SelectShifted))
  BY <1>4, <1>6, <1>8, Free4
<1> QED BY <1>5, <1>7, <1>9, BaseUse, MaskSafe, Free3

(* legalizeShift32rCL: five of those. *)
LEMMA ShiftCLSafe ==
  ASSUME NEW D, Based(D), "amount" \in D, "shifted" \in D, NEW in, in.dst \in GPR32,
         IsSAR(in) => "sign" \in D
  PROVE  Free(D, legalizeShift32rCL(in))
<1>1. Free(D, Mov8(At("amount", 0), CL))
  BY BaseUse, Registers, FreeLeaves
<1>2. Free(D, emitIdxZero)
  BY BaseUse, Registers, FreeLeaves DEF emitIdxZero
<1>3. /\ Free(D, ShiftStage(in, 0)) /\ Free(D, ShiftStage(in, 1)) /\ Free(D, ShiftStage(in, 2))
      /\ Free(D, ShiftStage(in, 3)) /\ Free(D, ShiftStage(in, 4))
  <2>1. 0 \in 0..4 /\ 1 \in 0..4 /\ 2 \in 0..4 /\ 3 \in 0..4 /\ 4 \in 0..4
    OBVIOUS
  <2> QED BY <2>1, ShiftStageSafe
<1>4. Free(D, CaptureSign(in) \o emitIdxZero \o ShiftStage(in, 0))
  BY <1>2, <1>3, CaptureSafe, Free3
<1>5. Free(D, CaptureSign(in) \o emitIdxZero \o ShiftStage(in, 0) \o ShiftStage(in, 1)
              \o ShiftStage(in, 2) \o ShiftStage(in, 3) \o ShiftStage(in, 4))
  BY <1>3, <1>4, Free5
<1> QED BY <1>1, <1>5, BetweenSafe, Free2 DEF legalizeShift32rCL

(* DL := tab[byte i of srcdst], and so on: the small steps of the counts.   *)
LEMMA StepsSafe ==
  ASSUME NEW D, Roomy(D)
  PROVE  /\ \A p \in D, i \in 0..3 : /\ Free(D, Mov8(DL, At(p, i)))
                                     /\ Free(D, Mov8(At(p, i), DL))
                                     /\ \A b \in Byte : Free(D, Mov8(At(p, i), Imm(b)))
         /\ \A p \in D, i \in 0..3, tab \in TwoByte : Free(D, emitBinaryByteLookup(At(p, i), tab))
         /\ \A b \in Byte, tab \in TwoByte : Free(D, emitBinaryByteLookup(Imm(b), tab))
         /\ \A tab \in Tables : Free(D, emitUnaryByteLookupInReg(tab))
         /\ {<<"and8">>, <<"or8">>, <<"xor8">>, <<"add8_sum">>} \subseteq TwoByte
         /\ {<<"popcount8">>, <<"ctz_or_8">>, <<"clz_or_8">>, <<"zero_mask">>, <<"sar_sign">>,
             <<"select_mask">>} \subseteq Tables
<1>1. \A p \in D, i \in 0..3 : At(p, i) \in Sources(D)
  BY SourceTypes
<1>2. \A b \in Byte : Imm(b) \in Sources(D)
  BY SourceTypes
<1>3. DL \in Sources(D) /\ "ecx" \in D /\ "edx" \in D
  BY Registers
<1>4. \A p \in D, i \in 0..3 : /\ Free(D, Mov8(DL, At(p, i))) /\ Free(D, Mov8(At(p, i), DL))
                               /\ \A b \in Byte : Free(D, Mov8(At(p, i), Imm(b)))
  BY <1>1, <1>2, <1>3, FreeLeaves DEF DL
<1>5. \A p \in D, i \in 0..3, tab \in TwoByte : Free(D, emitBinaryByteLookup(At(p, i), tab))
  BY <1>1, BinarySafe
<1>6. \A b \in Byte, tab \in TwoByte : Free(D, emitBinaryByteLookup(Imm(b), tab))
  BY <1>2, BinarySafe
<1>7. \A tab \in Tables : Free(D, emitUnaryByteLookupInReg(tab))
  BY UnarySafe
<1>8. {<<"and8">>, <<"or8">>, <<"xor8">>, <<"add8_sum">>} \subseteq TwoByte
  BY DEF TwoByte, BitwiseTables, AddTables
<1>9. {<<"popcount8">>, <<"ctz_or_8">>, <<"clz_or_8">>, <<"zero_mask">>, <<"sar_sign">>,
       <<"select_mask">>} \subseteq Tables
  BY DEF Tables, OneByte, MaskTables
<1> QED BY ONLY <1>4, <1>5, <1>6, <1>7, <1>8, <1>9

(* A chain that reads one register and writes another. *)
LEMMA UnaryBetweenSafe ==
  ASSUME NEW D, Based(D), NEW in, in.dst \in GPR32, in.src \in GPR32, NEW chain, Free(D, chain)
  PROVE  Free(D, UnaryBetween(in, chain))
<1>1. "srcdst" \in D /\ in.dst \in D /\ in.src \in D /\ 0 \in Byte
      /\ 1 \in 0..3 /\ 2 \in 0..3 /\ 3 \in 0..3
  BY BaseUse, Registers DEF Byte
<1>2. Free(D, Mov("srcdst", in.src)) /\ Free(D, Mov(in.dst, "srcdst"))
  BY <1>1, BaseUse, Registers, FreeLeaves
<1>3. /\ Free(D, Mov8(At("srcdst", 1), Imm(0))) /\ Free(D, Mov8(At("srcdst", 2), Imm(0)))
      /\ Free(D, Mov8(At("srcdst", 3), Imm(0)))
  BY <1>1, BaseUse, StepsSafe
<1>4. Free(D, ClearUpper)
  BY <1>3, Free3 DEF ClearUpper
<1>5. Free(D, SaveRegs \o Mov("srcdst", in.src) \o chain \o ClearUpper)
  BY <1>2, <1>4, SpillsSafe, Free4
<1> QED BY <1>2, <1>5, SpillsSafe, Free3 DEF UnaryBetween

(* legalizeCTPOP32r. *)
LEMMA PopcountSafe ==
  ASSUME NEW D, Based(D), NEW in, in.dst \in GPR32, in.src \in GPR32
  PROVE  Free(D, legalizeCTPOP32r(in))
<1> DEFINE count(i) == Mov8(DL, At("srcdst", i)) \o emitUnaryByteLookupInReg(<<"popcount8">>)
                       \o Mov8(At("srcdst", i), DL)
           sum(i) == Mov8(DL, At("srcdst", 0))
                     \o emitBinaryByteLookup(At("srcdst", i), <<"add8_sum">>)
                     \o Mov8(At("srcdst", 0), DL)
<1>1. "srcdst" \in D /\ Roomy(D) /\ 0 \in 0..3 /\ 1 \in 0..3 /\ 2 \in 0..3 /\ 3 \in 0..3
  BY BaseUse
<1>2. ASSUME NEW i \in 0..3 PROVE Free(D, count(i))
  <2>1. Free(D, Mov8(DL, At("srcdst", i))) /\ Free(D, Mov8(At("srcdst", i), DL))
    BY <1>1, StepsSafe
  <2>2. Free(D, emitUnaryByteLookupInReg(<<"popcount8">>))
    BY <1>1, StepsSafe
  <2> QED BY <2>1, <2>2, Free3
<1>3. ASSUME NEW i \in 0..3 PROVE Free(D, sum(i))
  <2>1. Free(D, Mov8(DL, At("srcdst", 0))) /\ Free(D, Mov8(At("srcdst", 0), DL))
    BY <1>1, StepsSafe
  <2>2. Free(D, emitBinaryByteLookup(At("srcdst", i), <<"add8_sum">>))
    BY <1>1, StepsSafe
  <2> QED BY <2>1, <2>2, Free3
<1>4. Upward(count) = count(0) \o count(1) \o count(2) \o count(3)
  BY DEF Upward
<1>5. Bytes(1, 3, sum) = <<>> \o sum(1) \o sum(2) \o sum(3)
  BY DEF Bytes
<1>6. legalizeCTPOP32r(in) = UnaryBetween(in, Upward(count) \o Bytes(1, 3, sum))
  BY DEF legalizeCTPOP32r
<1> HIDE DEF count, sum
<1>7. Free(D, <<>>)
  BY <1>1, Registers, FreeLeaves
<1>8. Free(D, Upward(count)) /\ Free(D, Bytes(1, 3, sum))
  BY <1>1, <1>2, <1>3, <1>4, <1>5, <1>7, Free4
<1> QED BY <1>6, <1>8, Free2, UnaryBetweenSafe

(* One byte of a bit scan. *)
LEMMA ScanByteSafe ==
  ASSUME NEW D, Based(D), "rhs" \in D, NEW in, NEW i \in 0..3
  PROVE  Free(D, ScanByte(in, i))
<1> DEFINE alive == At("rhs", 0)
           running == At("rhs", 1)
           temp == At("rhs", 2)
           tab == IF in.op = "CTTZ32r" THEN <<"ctz_or_8">> ELSE <<"clz_or_8">>
<1>1. "srcdst" \in D /\ Roomy(D) /\ 0 \in 0..3 /\ 1 \in 0..3 /\ 2 \in 0..3
  BY BaseUse
<1>2. /\ Free(D, Mov8(DL, At("srcdst", i))) /\ Free(D, Mov8(DL, alive))
      /\ Free(D, Mov8(DL, running)) /\ Free(D, Mov8(temp, DL)) /\ Free(D, Mov8(running, DL))
      /\ Free(D, Mov8(alive, DL))
  BY <1>1, StepsSafe
<1>3. /\ Free(D, emitBinaryByteLookup(temp, <<"and8">>))
      /\ Free(D, emitBinaryByteLookup(temp, <<"add8_sum">>))
  BY <1>1, StepsSafe
<1>4. Free(D, emitUnaryByteLookupInReg(tab)) /\ Free(D, emitUnaryByteLookupInReg(<<"zero_mask">>))
  BY <1>1, StepsSafe
<1> DEFINE load == Mov8(DL, At("srcdst", i))
           loadAlive == Mov8(DL, alive)
           and == emitBinaryByteLookup(temp, <<"and8">>)
           keep == Mov8(temp, DL)
           first == load \o emitUnaryByteLookupInReg(tab) \o keep \o loadAlive \o and
           second == first \o keep \o Mov8(DL, running)
                     \o emitBinaryByteLookup(temp, <<"add8_sum">>) \o Mov8(running, DL)
           third == second \o load \o emitUnaryByteLookupInReg(<<"zero_mask">>) \o keep \o loadAlive
<1>5. ScanByte(in, i) = third \o and \o Mov8(alive, DL)
  BY DEF ScanByte
<1> HIDE DEF load, loadAlive, and, keep
<1>6. Free(D, first)
  BY <1>2, <1>3, <1>4, Free5 DEF load, loadAlive, and, keep
<1> HIDE DEF first
<1>7. Free(D, second)
  BY <1>2, <1>3, <1>6, Free5 DEF keep
<1> HIDE DEF second
<1>8. Free(D, third)
  BY <1>2, <1>4, <1>7, Free5 DEF load, keep, loadAlive
<1> HIDE DEF third
<1> QED BY <1>2, <1>3, <1>5, <1>8, Free3 DEF and

(* legalizeBitScan32r. *)
LEMMA BitScanSafe ==
  ASSUME NEW D, Based(D), "rhs" \in D, NEW in, in.dst \in GPR32, in.src \in GPR32
  PROVE  Free(D, legalizeBitScan32r(in))
<1> DEFINE scan(i) == ScanByte(in, i)
           all == IF in.op = "CTTZ32r" THEN Upward(scan) ELSE Downward(scan)
<1>1. /\ "srcdst" \in D /\ Roomy(D) /\ 0 \in Byte /\ 255 \in Byte
      /\ 0 \in 0..3 /\ 1 \in 0..3 /\ 2 \in 0..3 /\ 3 \in 0..3
  BY BaseUse DEF Byte
<1>2. \A i \in 0..3 : Free(D, scan(i))
  BY ScanByteSafe
<1>3. /\ Upward(scan) = scan(0) \o scan(1) \o scan(2) \o scan(3)
      /\ Downward(scan) = scan(3) \o scan(2) \o scan(1) \o scan(0)
  BY DEF Upward, Downward
<1>4. legalizeBitScan32r(in) =
        UnaryBetween(in, Mov8(At("rhs", 0), Imm(255)) \o Mov8(At("rhs", 1), Imm(0)) \o all
                         \o Mov8(DL, At("rhs", 1)) \o Mov8(At("srcdst", 0), DL))
  BY DEF legalizeBitScan32r
<1> HIDE DEF scan
<1>5. Free(D, all)
  BY <1>1, <1>2, <1>3, Loops
<1> HIDE DEF all
<1>6. /\ Free(D, Mov8(At("rhs", 0), Imm(255))) /\ Free(D, Mov8(At("rhs", 1), Imm(0)))
      /\ Free(D, Mov8(DL, At("rhs", 1))) /\ Free(D, Mov8(At("srcdst", 0), DL))
  BY <1>1, StepsSafe
<1>7. Free(D, Mov8(At("rhs", 0), Imm(255)) \o Mov8(At("rhs", 1), Imm(0)) \o all
              \o Mov8(DL, At("rhs", 1)) \o Mov8(At("srcdst", 0), DL))
  BY <1>5, <1>6, Free5
<1> QED BY <1>4, <1>7, UnaryBetweenSafe

(* legalizeMUL32. *)
LEMMA MulSafe ==
  ASSUME NEW D, Based(D), "rhs" \in D, "mul_temp" \in D,
         NEW in, in.dst \in GPR32, in.src \in GPR32,
         in.op = "MUL32rr" => "mul_rhs2" \in D /\ in.src2 \in GPR32,
         in.op # "MUL32rr" => in.imm \in Int
  PROVE  Free(D, legalizeMUL32(in))
<1> DEFINE cell(i, j) == PartialProduct(in, i, j)
           at(i, j) == IF j \in 0..(3 - i) THEN cell(i, j) ELSE <<>>
           row(i) == LET c(j) == cell(i, j) IN Bytes(0, 3 - i, c)
<1>1. /\ "srcdst" \in D /\ Roomy(D) /\ {"idx", "srcdst", "rhs", "mul_temp"} \subseteq D
      /\ 0 \in 0..3 /\ 1 \in 0..3 /\ 2 \in 0..3 /\ 3 \in 0..3 /\ "ecx" \in D
      /\ in.dst \in D /\ in.src \in D
  BY BaseUse, Registers
<1>2. Free(D, <<>>)
  BY <1>1, FreeLeaves
<1>3. \A i \in 0..3, j \in 0..3 : Free(D, at(i, j))
  BY <1>1, <1>2, PartialProductSafe
<1>4. \A i : row(i) = at(i, 0) \o at(i, 1) \o at(i, 2) \o at(i, 3)
  BY DEF Bytes
<1>5. legalizeMUL32(in) =
        SaveRegs \o Mov("rhs", in.src)
        \o (IF in.op = "MUL32rr" THEN Mov("mul_rhs2", in.src2) ELSE <<>>)
        \o MovImm("srcdst", 0) \o Upward(row) \o RestoreRegs \o Mov(in.dst, "srcdst")
  BY DEF legalizeMUL32
<1>6. Upward(row) = row(0) \o row(1) \o row(2) \o row(3)
  BY DEF Upward
<1> HIDE DEF at, row
<1>7. \A i \in 0..3 : Free(D, row(i))
  BY <1>1, <1>3, <1>4, Free4
<1>8. Free(D, Upward(row))
  BY <1>1, <1>6, <1>7, Free4
<1>9. /\ Free(D, Mov("rhs", in.src)) /\ Free(D, Mov(in.dst, "srcdst"))
      /\ Free(D, MovImm("srcdst", 0))
      /\ Free(D, IF in.op = "MUL32rr" THEN Mov("mul_rhs2", in.src2) ELSE <<>>)
  BY <1>1, <1>2, Registers, FreeLeaves
<1>10. Free(D, SaveRegs \o Mov("rhs", in.src)
               \o (IF in.op = "MUL32rr" THEN Mov("mul_rhs2", in.src2) ELSE <<>>)
               \o MovImm("srcdst", 0) \o Upward(row))
  BY <1>8, <1>9, SpillsSafe, Free5
<1> QED BY <1>5, <1>9, <1>10, SpillsSafe, Free3

(* A comparison and the jump behind it. *)
(* A compare, with its slots.                                               *)
Compares(D, in) ==
  /\ Based(D) /\ {"rhs", "cmp_mask", "next_pc"} \subseteq D
  /\ in.op = "CMP32rr" \/ in.imm \in Int

(* What a compare needs. *)
LEMMA CompareUse ==
  ASSUME NEW D, NEW in, Compares(D, in)
  PROVE  /\ Based(D) /\ Roomy(D) /\ "ecx" \in D /\ "srcdst" \in D
         /\ "rhs" \in D /\ "cmp_mask" \in D /\ "next_pc" \in D
         /\ "rhs" \in Buffers(D) /\ "cmp_mask" \in Buffers(D) /\ "next_pc" \in Buffers(D)
         /\ 0 \in 0..3 /\ 1 \in 0..3 /\ 2 \in 0..3 /\ 3 \in 0..3
         /\ 0 \in Byte /\ 255 \in Byte
         /\ Free(D, <<>>)
         /\ \A i \in 0..3 : CmpRhs(in, i) \in Sources(D)
<1>1. Based(D) /\ "rhs" \in D /\ "cmp_mask" \in D /\ "next_pc" \in D
  BY DEF Compares
<1>2. Roomy(D) /\ "ecx" \in D /\ "srcdst" \in D
  BY <1>1, BaseUse, Registers
<1>3. "rhs" \in Buffers(D) /\ "cmp_mask" \in Buffers(D) /\ "next_pc" \in Buffers(D)
  BY <1>1 DEF Buffers, Critical
<1>4. 0 \in 0..3 /\ 1 \in 0..3 /\ 2 \in 0..3 /\ 3 \in 0..3 /\ 0 \in Byte /\ 255 \in Byte
  BY DEF Byte
<1>5. Free(D, <<>>)
  BY <1>2, FreeLeaves
<1>6. \A i \in 0..3 : CmpRhs(in, i) \in Sources(D)
  BY <1>1, SourceTypes DEF Compares, CmpRhs
<1> QED BY <1>1, <1>2, <1>3, <1>4, <1>5, <1>6

(* Inverting the mask of a condition. *)
LEMMA InvertSafe ==
  ASSUME NEW D, NEW in, Compares(D, in)
  PROVE  Free(D, Invert)
  BY CompareUse, StepsSafe DEF Invert

(* Whether any byte of a word is not zero. *)
LEMMA OrReduceSafe ==
  ASSUME NEW D, NEW in, Compares(D, in)
  PROVE  Free(D, OrReduce)
<1> DEFINE or(i) == emitBinaryByteLookup(At("srcdst", i), <<"or8">>)
<1>1. \A i \in 0..3 : Free(D, or(i))
  BY CompareUse, StepsSafe
<1>2. Bytes(1, 3, or) = <<>> \o or(1) \o or(2) \o or(3)
  BY DEF Bytes
<1>3. OrReduce = Mov8(DL, At("srcdst", 0)) \o Bytes(1, 3, or)
  BY DEF OrReduce
<1> HIDE DEF or
<1>4. Free(D, Bytes(1, 3, or))
  BY <1>1, <1>2, CompareUse, Free4
<1>5. Free(D, Mov8(DL, At("srcdst", 0)))
  BY CompareUse, StepsSafe
<1> QED BY <1>3, <1>4, <1>5, Free2

(* The mask of an equality. *)
LEMMA EqualMaskSafe ==
  ASSUME NEW D, NEW in, Compares(D, in)
  PROVE  Free(D, EqualMask(in))
<1> DEFINE xor(i) == Mov8(DL, At("srcdst", i)) \o emitBinaryByteLookup(CmpRhs(in, i), <<"xor8">>)
                     \o Mov8(At("srcdst", i), DL)
<1>1. ASSUME NEW i \in 0..3 PROVE Free(D, xor(i))
  <2>1. Free(D, Mov8(DL, At("srcdst", i))) /\ Free(D, Mov8(At("srcdst", i), DL))
    BY CompareUse, StepsSafe
  <2>2. Free(D, emitBinaryByteLookup(CmpRhs(in, i), <<"xor8">>))
    BY CompareUse, StepsSafe, BinarySafe
  <2> QED BY <2>1, <2>2, Free3
<1>2. Upward(xor) = xor(0) \o xor(1) \o xor(2) \o xor(3)
  BY DEF Upward
<1>3. EqualMask(in) =
        Upward(xor) \o OrReduce \o emitUnaryByteLookupInReg(<<"select_mask">>)
        \o (IF in.cc = "E" THEN Invert ELSE <<>>)
  BY DEF EqualMask
<1> HIDE DEF xor
<1>4. Free(D, Upward(xor))
  BY <1>1, <1>2, CompareUse, Free4
<1>5. Free(D, emitUnaryByteLookupInReg(<<"select_mask">>))
  BY CompareUse, StepsSafe
<1>6. Free(D, IF in.cc = "E" THEN Invert ELSE <<>>)
  BY InvertSafe, CompareUse
<1> QED BY <1>3, <1>4, <1>5, <1>6, OrReduceSafe, Free4

(* The signs, kept before the subtraction overwrites them. *)
LEMMA SignsSafe ==
  ASSUME NEW D, NEW in, Compares(D, in)
  PROVE  Free(D, SignsBeforeSub(in))
<1> DEFINE other == Imm(Mask(ImmByte(in.imm, 3) >= 128))
           sign == emitUnaryByteLookupInReg(<<"sar_sign">>)
           rr == Mov8(DL, At("rhs", 3)) \o sign
                 \o emitBinaryByteLookup(At("cmp_mask", 2), <<"xor8">>)
           ri == emitBinaryByteLookup(other, <<"xor8">>)
           both == IF in.op = "CMP32rr" THEN rr ELSE ri
<1>1. SignsBeforeSub(in) =
        Mov8(DL, At("srcdst", 3)) \o sign \o Mov8(At("cmp_mask", 2), DL) \o both
        \o Mov8(At("cmp_mask", 3), DL)
  BY DEF SignsBeforeSub
<1>2. other \in Sources(D)
  <2>1. Mask(ImmByte(in.imm, 3) >= 128) \in Byte
    BY CompareUse DEF Mask
  <2> QED BY <2>1, SourceTypes
<1>3. Free(D, ri)
  BY <1>2, CompareUse, StepsSafe, BinarySafe
<1>4. Free(D, sign)
  BY CompareUse, StepsSafe
<1>5. Free(D, Mov8(DL, At("rhs", 3))) /\ Free(D, emitBinaryByteLookup(At("cmp_mask", 2), <<"xor8">>))
  BY CompareUse, StepsSafe
<1>6. Free(D, rr)
  BY <1>4, <1>5, Free3
<1> HIDE DEF rr, ri, sign
<1>7. Free(D, both)
  BY <1>3, <1>6
<1> HIDE DEF both
<1>8. /\ Free(D, Mov8(DL, At("srcdst", 3))) /\ Free(D, Mov8(At("cmp_mask", 2), DL))
      /\ Free(D, Mov8(At("cmp_mask", 3), DL))
  BY CompareUse, StepsSafe
<1> QED BY <1>1, <1>4, <1>7, <1>8, Free5

(* A byte of that subtraction. *)
LEMMA SubByteSafe ==
  ASSUME NEW D, NEW in, Compares(D, in), NEW i \in 0..3
  PROVE  Triple(D, SubByte(in, i), CarryAt(D, i), CarryAt(D, i + 1))
<1>1. /\ Roomy(D) /\ "idx" \in D /\ "srcdst" \in D /\ "ecx" \in D /\ CmpRhs(in, i) \in Sources(D)
      /\ At("srcdst", i) \in Sources(D)
  BY CompareUse, BaseUse, SourceTypes
<1>2. Triple(D, emitIdxZero \o CarryInto(i), CarryAt(D, i), Packed(D, "idx"))
  BY <1>1, CarryIntoSafe
<1>3. Triple(D, PackA(At("srcdst", i)), Packed(D, "idx"), Packed(D, "idx"))
  BY <1>1, PackASafe
<1>4. "idx" \in Critical \cap D /\ "idx" \in Slot \cap D
  BY <1>1 DEF Critical, Slot
<1>5. Triple(D, Mov8(DL, CmpRhs(in, i)), Packed(D, "idx"), Packed(D, "idx"))
  BY <1>1, <1>4, LocalSets, KeepDL
<1>6. Triple(D, Mov8(At("idx", 0), DL), Packed(D, "idx"), Packed(D, "idx"))
  <2>1. DL \in Sources(D) /\ 0 \in 0..1 /\ "ecx" \in D
    BY <1>1, Registers
  <2> QED BY ONLY <1>4, <2>1, PackByte
<1>7. <<"sub8_diff">> \in ThreePart /\ <<"sub8_borrow">> \in CarryTables
  BY DEF ThreePart, CarryTables, SubTables
<1>8. Triple(D, emitTableLookupAndStore(<<"sub8_diff">>, i), Packed(D, "idx"), Indexed(D))
  BY <1>1, <1>7, TableLookupSafe
<1>9. Triple(D, Lookup(CL, <<"sub8_borrow">>), Indexed(D), Carry(D))
  BY <1>1, <1>7, GetCarry
<1>10. Carry(D) \subseteq CarryAt(D, i + 1)
  BY DEF CarryAt, Carry
<1> DEFINE front == emitIdxZero \o CarryInto(i) \o PackA(At("srcdst", i))
<1>11. Triple(D, front, CarryAt(D, i), Packed(D, "idx"))
  BY <1>2, <1>3, Then
<1>12. SubByte(in, i) =
        front \o Mov8(DL, CmpRhs(in, i)) \o Mov8(At("idx", 0), DL)
        \o emitTableLookupAndStore(<<"sub8_diff">>, i) \o Lookup(CL, <<"sub8_borrow">>)
  BY DEF SubByte
<1> HIDE DEF front
<1>13. Triple(D, SubByte(in, i), CarryAt(D, i), Carry(D))
  BY <1>5, <1>6, <1>8, <1>9, <1>11, <1>12, Then5
<1> QED BY <1>10, <1>13, Weaken

(* Whether it came to zero. *)
LEMMA ZeroFlagSafe ==
  ASSUME NEW D, NEW in, Compares(D, in)
  PROVE  Free(D, ZeroFlag)
<1>1. Free(D, emitUnaryByteLookupInReg(<<"select_mask">>)) /\ Free(D, Mov8(At("cmp_mask", 1), DL))
  BY CompareUse, StepsSafe
<1> QED BY <1>1, OrReduceSafe, InvertSafe, Free4 DEF ZeroFlag

(* The masks of a signed and of an unsigned order. *)
LEMMA MasksSafe ==
  ASSUME NEW D, NEW in, Compares(D, in)
  PROVE  Free(D, SignedMask(in)) /\ Free(D, UnsignedMask(in))
<1> DEFINE orEqual(cond) ==
             IF cond THEN emitBinaryByteLookup(At("cmp_mask", 1), <<"or8">>) ELSE <<>>
           invert(cond) == IF cond THEN Invert ELSE <<>>
           sign == emitUnaryByteLookupInReg(<<"sar_sign">>)
<1>1. \A cond \in BOOLEAN : Free(D, orEqual(cond)) /\ Free(D, invert(cond))
  BY CompareUse, StepsSafe, InvertSafe
<1>2. /\ Free(D, Mov8(DL, At("srcdst", 3))) /\ Free(D, Mov8(At("cmp_mask", 0), DL))
      /\ Free(D, Mov8(DL, At("cmp_mask", 0)))
      /\ Free(D, sign) /\ Free(D, emitUnaryByteLookupInReg(<<"select_mask">>))
  BY CompareUse, StepsSafe
<1>3. /\ Free(D, emitBinaryByteLookup(At("cmp_mask", 2), <<"xor8">>))
      /\ Free(D, emitBinaryByteLookup(At("cmp_mask", 3), <<"and8">>))
      /\ Free(D, emitBinaryByteLookup(At("cmp_mask", 0), <<"xor8">>))
  BY CompareUse, StepsSafe
<1> DEFINE front == Mov8(DL, At("srcdst", 3)) \o sign \o Mov8(At("cmp_mask", 0), DL)
                    \o emitBinaryByteLookup(At("cmp_mask", 2), <<"xor8">>)
                    \o emitBinaryByteLookup(At("cmp_mask", 3), <<"and8">>)
<1>4. Free(D, front)
  BY <1>2, <1>3, Free5
<1>5. SignedMask(in) =
        front \o emitBinaryByteLookup(At("cmp_mask", 0), <<"xor8">>)
        \o orEqual(in.cc \in {"LE", "G"}) \o invert(in.cc \in {"GE", "G"})
  BY DEF SignedMask
<1>6. UnsignedMask(in) =
        Mov8(DL, At("cmp_mask", 0)) \o emitUnaryByteLookupInReg(<<"select_mask">>)
        \o orEqual(in.cc \in {"BE", "A"}) \o invert(in.cc \in {"AE", "A"})
  BY DEF UnsignedMask
<1> HIDE DEF front, orEqual, invert, sign
<1>7. Free(D, SignedMask(in))
  <2>1. (in.cc \in {"LE", "G"}) \in BOOLEAN /\ (in.cc \in {"GE", "G"}) \in BOOLEAN
    OBVIOUS
  <2>2. Free(D, orEqual(in.cc \in {"LE", "G"})) /\ Free(D, invert(in.cc \in {"GE", "G"}))
    BY <1>1, <2>1
  <2> QED BY <1>3, <1>4, <1>5, <2>2, Free4
<1>8. Free(D, UnsignedMask(in))
  <2>1. (in.cc \in {"BE", "A"}) \in BOOLEAN /\ (in.cc \in {"AE", "A"}) \in BOOLEAN
    OBVIOUS
  <2>2. Free(D, orEqual(in.cc \in {"BE", "A"})) /\ Free(D, invert(in.cc \in {"AE", "A"}))
    BY <1>1, <2>1
  <2> QED BY <1>2, <1>6, <2>2, Free4
<1> QED BY <1>7, <1>8

(* The mask of any order. *)
LEMMA OrderMaskSafe ==
  ASSUME NEW D, NEW in, Compares(D, in)
  PROVE  Free(D, OrderMask(in))
<1> DEFINE sub(i) == SubByte(in, i)
           signed == in.cc \in {"L", "GE", "LE", "G"}
           signs == IF signed THEN SignsBeforeSub(in) ELSE <<>>
           mask == IF signed THEN SignedMask(in) ELSE UnsignedMask(in)
<1>1. \A i \in 0..3 : Triple(D, sub(i), CarryAt(D, i), CarryAt(D, i + 1))
  BY SubByteSafe
<1>2. Upward(sub) = sub(0) \o sub(1) \o sub(2) \o sub(3)
  BY DEF Upward
<1>3. OrderMask(in) = signs \o Upward(sub) \o Mov8(At("cmp_mask", 0), CL) \o ZeroFlag \o mask
  BY DEF OrderMask
<1> HIDE DEF sub
<1>4. 0 \in 0..3 /\ 1 \in 0..3 /\ 2 \in 0..3 /\ 3 \in 0..3
  OBVIOUS
<1>5. Free(D, Upward(sub))
  BY <1>1, <1>2, <1>4, FourStages
<1>6. Free(D, signs) /\ Free(D, mask)
  BY CompareUse, SignsSafe, MasksSafe
<1>7. Free(D, Mov8(At("cmp_mask", 0), CL))
  BY CompareUse, Registers, FreeLeaves
<1> HIDE DEF signs, mask
<1> QED BY <1>3, <1>5, <1>6, <1>7, ZeroFlagSafe, Free5

(* A byte of the address of the block to go to. *)
LEMMA TargetSafe ==
  ASSUME NEW D, NEW in, Compares(D, in), NEW i \in 0..3
  PROVE  Free(D, SelectTarget(i))
<1>1. /\ Free(D, Mov8(DL, At("cmp_mask", 1))) /\ Free(D, Mov8(DL, At("cmp_mask", 0)))
      /\ Free(D, Mov8(At("next_pc", i), DL))
      /\ Free(D, emitBinaryByteLookup(At("rhs", i), <<"and8">>))
  BY CompareUse, StepsSafe
<1>2. Free(D, Mov8(DL, At("cmp_mask", 1)) \o emitBinaryByteLookup(At("rhs", i), <<"and8">>)
              \o Mov8(At("next_pc", i), DL) \o Mov8(DL, At("cmp_mask", 0)))
  BY <1>1, Free4
<1>3. Triple(D, emitBinaryByteLookup(At("srcdst", i), <<"and8">>), Mems(D), Clear(D))
  BY CompareUse, StepsSafe, SourceTypes, BinarySafe
<1>4. Triple(D, emitOrByteAndStore("next_pc", i), Clear(D), Mems(D))
  BY CompareUse, OrSafe, Weaken DEF Clear
<1> QED BY <1>2, <1>3, <1>4, Then3 DEF Free, SelectTarget

(* legalizeCmpJccPairs. *)
LEMMA CompareSafe ==
  ASSUME NEW D, NEW in, Compares(D, in), in.dst \in GPR32,
         in.op = "CMP32rr" => in.src \in GPR32
  PROVE  Free(D, legalizeCmpJccPairs(in))
<1> DEFINE rhs == IF in.op = "CMP32rr" THEN Mov("rhs", in.src) ELSE <<>>
           mask == IF in.cc \in {"E", "NE"} THEN EqualMask(in) ELSE OrderMask(in)
           front == SaveRegs \o Mov("srcdst", in.dst) \o rhs \o mask \o Mov8(At("cmp_mask", 0), DL)
           middle == front \o Invert \o Mov8(At("cmp_mask", 1), DL)
                     \o MovImm("srcdst", TrueLabel) \o MovImm("rhs", FalseLabel)
<1>1. legalizeCmpJccPairs(in) = middle \o Upward(SelectTarget) \o RestoreRegs \o JumpTo("next_pc")
  BY DEF legalizeCmpJccPairs
<1>2. in.dst \in D /\ (in.op = "CMP32rr" => in.src \in D) /\ "eip" \in D
      /\ TrueLabel \in Int /\ FalseLabel \in Int
  BY CompareUse, Registers, LabelsAssumption
<1>3. /\ Free(D, rhs) /\ Free(D, Mov("srcdst", in.dst)) /\ Free(D, MovImm("srcdst", TrueLabel))
      /\ Free(D, MovImm("rhs", FalseLabel)) /\ Free(D, JumpTo("next_pc"))
  BY <1>2, CompareUse, FreeLeaves DEF JumpTo
<1>4. Free(D, mask)
  BY EqualMaskSafe, OrderMaskSafe
<1>5. Free(D, Mov8(At("cmp_mask", 0), DL)) /\ Free(D, Mov8(At("cmp_mask", 1), DL))
  BY CompareUse, StepsSafe
<1>6. Free(D, SaveRegs) /\ Free(D, RestoreRegs)
  BY CompareUse, SpillsSafe
<1> HIDE DEF rhs, mask
<1>7. Free(D, front)
  BY <1>3, <1>4, <1>5, <1>6, Free5
<1> HIDE DEF front
<1>8. Free(D, middle)
  BY <1>3, <1>5, <1>7, InvertSafe, Free5
<1> HIDE DEF middle
<1>9. Upward(SelectTarget) = SelectTarget(0) \o SelectTarget(1) \o SelectTarget(2) \o SelectTarget(3)
  BY DEF Upward
<1>10. \A i \in 0..3 : Free(D, SelectTarget(i))
  BY TargetSafe
<1>11. Free(D, Upward(SelectTarget))
  BY <1>9, <1>10, CompareUse, Free4
<1> QED BY <1>1, <1>3, <1>6, <1>8, <1>11, Free4

(* ESP lowered in global scratch. *)
LEMMA DecrementSafe ==
  ASSUME NEW D, Roomy(D), NEW k \in Int
  PROVE  Free(D, DecrementESP(k))
<1> DEFINE s == "esp_dec_idx"
           b(i) == Imm(ImmByte(k, i))
           lowByte(i) == IF ImmByte(k, i) # 0 THEN Mov8(At(s, 0), b(i)) ELSE <<>>
           carry(i) == IF i > 0 THEN Mov8(At(s, 2), CL) ELSE <<>>
           stage(i) ==
             MovImm("esp_dec_idx", 0)
             \o Mov8(DL, At("esp_dec_srcdst", i)) \o Mov8(At("esp_dec_idx", 1), DL)
             \o (IF ImmByte(k, i) # 0 THEN Mov8(At("esp_dec_idx", 0), Imm(ImmByte(k, i))) ELSE <<>>)
             \o (IF i > 0 THEN Mov8(At("esp_dec_idx", 2), CL) ELSE <<>>)
             \o Mov("ecx", "esp_dec_idx") \o Lookup(DL, <<"sub8_diff">>)
             \o Mov8(At("esp_dec_srcdst", i), DL) \o CarryOut(<<"sub8_borrow">>, i)
           C(i) == IF i = 0 THEN Mems(D) ELSE Carry(D)
           CP(i) == C(i) \cap Packed(D, s)
<1>1. /\ s \in Slot \cap D /\ s \in Critical \cap D /\ "ecx" \in D /\ DL \in Sources(D)
      /\ "esp_dec_srcdst" \in D \ Critical /\ "eax" \in D /\ "esp" \in D
      /\ 0 \in 0..1 /\ 1 \in 0..1
  BY Registers DEF Slot, Critical
<1>2. /\ <<"sub8_diff">> \in ThreePart /\ <<"sub8_diff">> \in Tables
      /\ <<"sub8_borrow">> \in CarryTables
  BY DEF ThreePart, CarryTables, SubTables, Tables, TwoByte
<1>3. \A i \in 0..3 : b(i) \in Sources(D) /\ At("esp_dec_srcdst", i) \in Sources(D)
  BY <1>1, SourceTypes
<1>4. ASSUME NEW i \in 0..3 PROVE Triple(D, stage(i), CarryAt(D, i), CarryAt(D, i + 1))
  <2>1. CarryAt(D, i) = C(i) /\ Local(D, CP(i))
    <3>1. i = 0 \/ i \in 1..3
      OBVIOUS
    <3>2. CarryAt(D, i) = C(i)
      BY <3>1 DEF CarryAt
    <3>3. Local(D, C(i)) /\ Local(D, Packed(D, s))
      BY <1>1, LocalSets
    <3> QED BY <1>1, <3>2, <3>3, LocalSets
  <2>2. Packed(D, s) = Mems(D) \cap Packed(D, s)
    BY DEF Packed
  <2>3. Triple(D, MovImm(s, 0), C(i), CP(i))
    BY <1>1, <2>2, ZeroIndex
  <2>4. Triple(D, Mov8(DL, At("esp_dec_srcdst", i)), CP(i), CP(i))
    BY <1>3, <2>1, KeepDL
  <2>5. \A j \in 0..1, x \in Sources(D) : Triple(D, Mov8(At(s, j), x), CP(i), CP(i))
    BY <1>1, <2>2, PackByte
  <2>6. Triple(D, Mov8(At(s, 1), DL), CP(i), CP(i))
    BY ONLY <1>1, <2>5
  <2>7. Triple(D, lowByte(i), CP(i), CP(i))
    <3>1. Triple(D, <<>>, CP(i), CP(i))
      BY <2>1, Skip DEF Local
    <3>2. Triple(D, Mov8(At(s, 0), b(i)), CP(i), CP(i))
      BY <1>1, <1>3, <2>5
    <3> HIDE DEF CP, b
    <3> QED BY <3>1, <3>2
  <2>8. Triple(D, carry(i), CP(i), Packed(D, s))
    <3>1. CASE i = 0
      <4>1. carry(i) = <<>>
        BY <3>1
      <4> QED BY <4>1, Skip DEF Packed
    <3>2. CASE i > 0
      <4>1. carry(i) = Mov8(At(s, 2), CL) /\ CP(i) = Carry(D) \cap Packed(D, s)
        BY <3>2
      <4> QED BY <4>1, <1>1, PackCarry
    <3> QED BY <3>1, <3>2
  <2>9. Triple(D, Mov("ecx", s), Packed(D, s), Indexed(D))
    BY <1>1, LoadIndex
  <2>10. Triple(D, Lookup(DL, <<"sub8_diff">>), Indexed(D), Indexed(D))
    BY <1>1, <1>2, Registers, LocalSets, IndexedFits, KeepLookup DEF DL
  <2>11. Triple(D, Mov8(At("esp_dec_srcdst", i), DL), Indexed(D), Indexed(D))
    BY <1>1, LocalSets, KeepMov8
  <2>12. Triple(D, CarryOut(<<"sub8_borrow">>, i), Indexed(D), CarryAt(D, i + 1))
    BY <1>2, CarryOutSafe
  <2> DEFINE front == MovImm(s, 0) \o Mov8(DL, At("esp_dec_srcdst", i)) \o Mov8(At(s, 1), DL)
                      \o lowByte(i) \o carry(i)
  <2>13. stage(i) = front \o Mov("ecx", s) \o Lookup(DL, <<"sub8_diff">>)
                    \o Mov8(At("esp_dec_srcdst", i), DL) \o CarryOut(<<"sub8_borrow">>, i)
    OBVIOUS
  <2> HIDE DEF C, CP, lowByte, carry, stage
  <2>14. Triple(D, front, C(i), Packed(D, s))
    BY <2>3, <2>4, <2>6, <2>7, <2>8, Then5
  <2> HIDE DEF front
  <2> QED BY <2>1, <2>9, <2>10, <2>11, <2>12, <2>13, <2>14, Then5
<1>5. Upward(stage) = stage(0) \o stage(1) \o stage(2) \o stage(3)
  BY DEF Upward
<1>6. DecrementESP(k) =
        MovImm("eax", AddressOf["esp_dec_srcdst"]) \o Mov("esp_dec_srcdst", "esp")
        \o Upward(stage) \o Mov("esp", "esp_dec_srcdst")
  BY DEF DecrementESP
<1> HIDE DEF stage
<1>7. Free(D, Upward(stage))
  <2>1. 0 \in 0..3 /\ 1 \in 0..3 /\ 2 \in 0..3 /\ 3 \in 0..3
    OBVIOUS
  <2> QED BY <1>4, <1>5, <2>1, FourStages
<1>8. AddressOf["esp_dec_srcdst"] \in Int
  BY LabelsAssumption DEF Globals
<1>9. /\ Free(D, MovImm("eax", AddressOf["esp_dec_srcdst"]))
      /\ Free(D, Mov("esp_dec_srcdst", "esp")) /\ Free(D, Mov("esp", "esp_dec_srcdst"))
  BY <1>1, <1>8, FreeLeaves
<1> QED BY <1>6, <1>7, <1>9, Free4

(* legalizePushEbpPrologue. *)
LEMMA PushSafe ==
  ASSUME NEW D, Roomy(D)
  PROVE  Free(D, legalizePushEbpPrologue)
<1>1. Free(D, Store("esp", -4, "ebp"))
  BY Registers, FreeLeaves
<1> QED BY <1>1, DecrementSafe, Free2 DEF legalizePushEbpPrologue

(* legalizeCFG. *)
LEMMA DispatchSafe ==
  ASSUME NEW D, Roomy(D), "next_pc" \in D
  PROVE  Free(D, legalizeCFG)
<1>1. Free(D, MovImm("next_pc", TrueLabel)) /\ Free(D, JumpTo("next_pc"))
  BY Registers, FreeLeaves, LabelsAssumption DEF JumpTo
<1> QED BY <1>1, Free2 DEF legalizeCFG

(* legalizeRetEpilogueTail. *)
LEMMA ReturnSafe ==
  ASSUME NEW D, Based(D)
  PROVE  Free(D, legalizeRetEpilogueTail)
<1> DEFINE stage(i) == emitByteStageAdd(i, Imm(ImmByte(8, i)))
           front == Mov("esp", "ebp") \o Mov("save_edx", "edx")
                    \o Load("edx", "esp", 4) \o MovImm("ecx", AddressOf["return_addr_slot"])
                    \o Mov("return_addr_slot", "edx")
           middle == front \o Mov("save_ecx", "ecx") \o Mov("srcdst", "esp") \o Upward(stage)
                     \o RestoreRegs
<1>1. \A i \in 0..3 : Triple(D, stage(i), CarryAt(D, i), CarryAt(D, i + 1))
  <2>1. \A i \in 0..3 : Imm(ImmByte(8, i)) \in Sources(D)
    BY SourceTypes
  <2> QED BY <2>1, BaseUse, AddStageSafe
<1>2. Upward(stage) = stage(0) \o stage(1) \o stage(2) \o stage(3)
  BY DEF Upward
<1>3. legalizeRetEpilogueTail =
        middle \o Mov("esp", "srcdst") \o Load("ebp", "esp", -8) \o JumpVia("ecx")
  BY DEF legalizeRetEpilogueTail
<1> HIDE DEF stage
<1>4. 0 \in 0..3 /\ 1 \in 0..3 /\ 2 \in 0..3 /\ 3 \in 0..3
  OBVIOUS
<1>5. Free(D, Upward(stage))
  BY <1>1, <1>2, <1>4, FourStages
<1>6. /\ "esp" \in D /\ "ebp" \in D /\ "edx" \in D /\ "ecx" \in D /\ "save_edx" \in D
      /\ "save_ecx" \in D /\ "srcdst" \in D /\ "return_addr_slot" \in D
      /\ AddressOf["return_addr_slot"] \in Int /\ 4 \in Int /\ -8 \in Int
  BY BaseUse, Registers, LabelsAssumption DEF Globals
<1>7. /\ Free(D, Mov("esp", "ebp")) /\ Free(D, Mov("save_edx", "edx"))
      /\ Free(D, Load("edx", "esp", 4)) /\ Free(D, MovImm("ecx", AddressOf["return_addr_slot"]))
      /\ Free(D, Mov("return_addr_slot", "edx"))
  BY <1>6, FreeLeaves
<1>8. /\ Free(D, Mov("save_ecx", "ecx")) /\ Free(D, Mov("srcdst", "esp"))
      /\ Free(D, Mov("esp", "srcdst")) /\ Free(D, Load("ebp", "esp", -8)) /\ Free(D, JumpVia("ecx"))
  BY <1>6, FreeLeaves
<1>9. Free(D, front)
  BY <1>7, Free5
<1> HIDE DEF front
<1>10. Free(D, middle)
  BY <1>5, <1>8, <1>9, SpillsSafe, Free5
<1> HIDE DEF middle
<1> QED BY <1>3, <1>8, <1>10, Free4

(* Code without lookups. *)
LEMMA Straight ==
  ASSUME NEW D, NEW c \in Seq(Movs(D)), \A k \in 1..Len(c) : c[k].op # "lookup"
  PROVE  Free(D, c)
<1> DEFINE s == [k \in 1..(Len(c) + 1) |-> Mems(D)]
<1>1. Len(c) \in Nat
  OBVIOUS
<1>2. s \in [1..(Len(c) + 1) -> SUBSET Mems(D)] /\ s[1] = Mems(D) /\ s[Len(c) + 1] = Mems(D)
  BY <1>1
<1>3. \A k \in 1..Len(c) : s[k] = Mems(D) /\ s[k + 1] = Mems(D)
  BY <1>1
<1> HIDE DEF s
<1>4. \A k \in 1..Len(c) : Sound(D, c[k], s[k], s[k + 1])
  BY <1>3 DEF Sound
<1> QED BY <1>2, <1>4 DEF Free, Triple

(* Arguments stored deeper are arguments. *)
LEMMA DeeperArgs ==
  ASSUME NEW args \in Seq(ArgMovs)
  PROVE  Deeper(args) \in Seq(ArgMovs)
<1>1. \A m \in ArgMovs : m.op = "store" => [m EXCEPT !.disp = @ + 4] \in ArgMovs
  BY DEF ArgMovs
<1>2. Len(args) \in Nat /\ DOMAIN args = 1..Len(args) /\ \A k \in 1..Len(args) : args[k] \in ArgMovs
  OBVIOUS
<1>3. Deeper(args) \in [1..Len(args) -> ArgMovs]
  BY <1>1, <1>2 DEF Deeper
<1> QED BY <1>2, <1>3

(* They are copies, constants and stores. *)
LEMMA ArgsSafe ==
  ASSUME NEW D, Roomy(D), NEW args \in Seq(ArgMovs)
  PROVE  Free(D, args) /\ Free(D, Deeper(args))
<1>1. \A m \in ArgMovs : m \in Movs(D) /\ m.op # "lookup"
  BY Registers DEF ArgMovs, Movs
<1>2. \A c \in Seq(ArgMovs) : Free(D, c)
  <2> SUFFICES ASSUME NEW c \in Seq(ArgMovs) PROVE Free(D, c)
    OBVIOUS
  <2>1. \A k \in 1..Len(c) : c[k] \in ArgMovs
    OBVIOUS
  <2>2. c \in Seq(Movs(D))
    BY <1>1, <2>1
  <2> QED BY <1>1, <2>1, <2>2, Straight
<1> QED BY <1>2, DeeperArgs

(* The callee of an indirect call, kept and fetched. *)
LEMMA CalleeSafe ==
  ASSUME NEW D, Roomy(D), NEW in, in.callee \in GPR32
  PROVE  Free(D, StashCallee(in)) /\ Free(D, FetchCallee)
<1> DEFINE r == IF in.callee = "ecx" THEN "eax" ELSE "ecx"
<1>1. /\ r \in D /\ "eax" \in D /\ "ecx" \in D /\ "indirect_callee_slot" \in D /\ in.callee \in D
      /\ AddressOf["indirect_callee_slot"] \in Int
  BY Registers, LabelsAssumption DEF Globals
<1>2. StashCallee(in) = MovImm(r, AddressOf["indirect_callee_slot"])
                        \o Mov("indirect_callee_slot", in.callee)
  BY DEF StashCallee
<1> HIDE DEF r
<1>3. Free(D, MovImm(r, AddressOf["indirect_callee_slot"])) /\ Free(D, Mov("indirect_callee_slot", in.callee))
  BY <1>1, FreeLeaves
<1>4. Free(D, MovImm("eax", AddressOf["indirect_callee_slot"])) /\ Free(D, Mov("eax", "indirect_callee_slot"))
  BY <1>1, FreeLeaves
<1>5. Free(D, StashCallee(in))
  BY <1>2, <1>3, Free2
<1>6. Free(D, FetchCallee)
  BY <1>4, Free2 DEF FetchCallee
<1> QED BY <1>5, <1>6

(* legalizeCallSites: only one that was not folded subtracts from ESP. *)
LEMMA CallSafe ==
  ASSUME NEW D, Roomy(D), NEW in, in.op \in Calls, in.size \in Nat, in.args \in Seq(ArgMovs),
         in.op = "CALL32r" => in.callee \in GPR32,
         in.size > 0 /\ ~Folds(in) => Based(D)
  PROVE  Free(D, legalizeCallSites(in))
<1> DEFINE reserve == legalizeSUB32ri([dst |-> "esp", imm |-> in.size])
           return == StoreImm("esp", 0, ReturnLabel)
<1>1. legalizeCallSites(in) =
        IF Folds(in)
          THEN DecrementESP(4 + in.size) \o Deeper(in.args) \o return \o Jump(CalleeLabel)
        ELSE IF in.op = "CALL32d"
          THEN reserve \o in.args \o DecrementESP(4) \o return \o Jump(CalleeLabel)
        ELSE reserve \o in.args \o StashCallee(in) \o DecrementESP(4) \o return
             \o FetchCallee \o JumpTo("eax")
  BY DEF legalizeCallSites
<1>2. "ecx" \in D /\ "eax" \in D /\ "esp" \in D /\ "eip" \in D /\ ReturnLabel \in Int
      /\ CalleeLabel \in Int /\ 4 + in.size \in Int
  BY Registers, LabelsAssumption
<1>3. ~Folds(in) => Free(D, reserve)
  <2> DEFINE sub == [dst |-> "esp", imm |-> in.size]
  <2>1. sub.dst = "esp" /\ sub.imm = in.size /\ "esp" \in GPR32
    BY DEF GPR32, Regs
  <2> HIDE DEF sub
  <2>2. CASE in.size = 0
    <3>1. legalizeSUB32ri(sub) = <<>>
      BY <2>1, <2>2 DEF legalizeSUB32ri
    <3> QED BY <1>2, <3>1, FreeLeaves DEF sub
  <2>3. CASE in.size > 0
    <3>1. Based(D) => Free(D, legalizeSUB32ri(sub))
      BY <2>1, AddSubRISafe
    <3> QED BY <2>3, <3>1 DEF sub
  <2> QED BY <2>2, <2>3
<1>4. Free(D, in.args) /\ Free(D, Deeper(in.args))
  BY ArgsSafe
<1>5. Free(D, return) /\ Free(D, Jump(CalleeLabel)) /\ Free(D, JumpTo("eax"))
  BY <1>2, FreeLeaves DEF Jump, JumpTo
<1>6. Free(D, DecrementESP(4 + in.size)) /\ Free(D, DecrementESP(4))
  BY <1>2, DecrementSafe
<1> HIDE DEF reserve, return
<1>7. CASE Folds(in)
  <2>1. Free(D, DecrementESP(4 + in.size) \o Deeper(in.args) \o return \o Jump(CalleeLabel))
    BY <1>4, <1>5, <1>6, Free4
  <2> QED BY <1>1, <1>7, <2>1
<1>8. CASE ~Folds(in) /\ in.op = "CALL32d"
  <2>1. Free(D, reserve \o in.args \o DecrementESP(4) \o return \o Jump(CalleeLabel))
    BY <1>3, <1>4, <1>5, <1>6, <1>8, Free5
  <2> QED BY <1>1, <1>8, <2>1
<1>9. CASE ~Folds(in) /\ in.op # "CALL32d"
  <2>1. in.callee \in GPR32
    BY <1>9 DEF Calls
  <2>2. Free(D, StashCallee(in)) /\ Free(D, FetchCallee)
    BY <2>1, CalleeSafe
  <2>3. Free(D, reserve \o in.args \o StashCallee(in) \o DecrementESP(4) \o return)
    BY <1>3, <1>4, <1>5, <1>6, <1>9, <2>2, Free5
  <2>4. Free(D, reserve \o in.args \o StashCallee(in) \o DecrementESP(4) \o return
                \o FetchCallee \o JumpTo("eax"))
    BY <1>5, <2>2, <2>3, Free3
  <2> QED BY <1>1, <1>9, <2>4
<1> QED BY <1>7, <1>8, <1>9
-----------------------------------------------------------------------------
(* The operands that an instruction of each opcode has. *)
Family1 == AddSubRI \cup BitwiseRI \cup ShiftRI \cup {"LEA32r"}
Family2 == AddSubRR \cup BitwiseRR \cup BitScan \cup {"CTPOP32r"}

(* The operands that each opcode has. *)
LEMMA Operands ==
  ASSUME NEW in \in Instructions
  PROVE  /\ in.op \in Family1 => in.dst \in GPR32 /\ in.imm \in Int
         /\ in.op \in Family2 => in.dst \in GPR32 /\ in.src \in GPR32
         /\ in.op \in ShiftCL => in.dst \in GPR32
         /\ in.op = "MUL32ri" => in.dst \in GPR32 /\ in.src \in GPR32 /\ in.imm \in Int
         /\ in.op = "MUL32rr" => in.dst \in GPR32 /\ in.src \in GPR32 /\ in.src2 \in GPR32
         /\ in.op = "CMP32ri" => in.dst \in GPR32 /\ in.imm \in Int
         /\ in.op = "CMP32rr" => in.dst \in GPR32 /\ in.src \in GPR32
         /\ in.op \in Calls => in.size \in Nat /\ in.args \in Seq(ArgMovs)
         /\ in.op = "CALL32r" => in.callee \in GPR32
         /\ in.op \in Opcodes
<1> USE DEF Family1, Family2, AddSubRI, AddSubRR, BitwiseRI, BitwiseRR, ShiftRI, ShiftCL,
            BitScan, Calls, Opcodes, Scanned, Compare, Multiply
<1>1. CASE in \in [op : Family1, dst : GPR32, imm : Int]
  BY <1>1
<1>2. CASE in \in [op : Family2, dst : GPR32, src : GPR32]
  BY <1>2
<1>3. CASE in \in [op : ShiftCL, dst : GPR32]
  BY <1>3
<1>4. CASE in \in [op : {"MUL32ri"}, dst : GPR32, src : GPR32, imm : Int]
  BY <1>4
<1>5. CASE in \in [op : {"MUL32rr"}, dst : GPR32, src : GPR32, src2 : GPR32]
  BY <1>5
<1>6. CASE in \in [op : {"CMP32ri"}, dst : GPR32, imm : Int, cc : Conditions]
  BY <1>6
<1>7. CASE in \in [op : {"CMP32rr"}, dst : GPR32, src : GPR32, cc : Conditions]
  BY <1>7
<1>8. CASE in \in [op : {"PUSH32r", "RET", "JMP"}]
  BY <1>8
<1>9. CASE in \in [op : {"CALL32d"}, size : Nat, args : Seq(ArgMovs)]
  BY <1>9
<1>10. CASE in \in [op : {"CALL32r"}, size : Nat, args : Seq(ArgMovs), callee : GPR32]
  BY <1>10
<1> QED BY <1>1, <1>2, <1>3, <1>4, <1>5, <1>6, <1>7, <1>8, <1>9, <1>10 DEF Instructions

(* A prologue is one more subtraction. *)
LEMMA SlotsFinite ==
  ASSUME NEW mf, IsFunction(mf)
  PROVE  IsFiniteSet(Slots(mf)) /\ StackSize(mf) \in Nat
<1>1. Slots(mf) \subseteq AllSlots
  <2>1. \A op : Extra(op) \subseteq AllSlots
    BY DEF Extra, AllSlots
  <2>2. BaseSlots \subseteq AllSlots /\ "next_pc" \in AllSlots
    BY DEF AllSlots
  <2> QED BY <2>1, <2>2 DEF Slots
<1>2. IsFiniteSet(AllSlots)
  <2>1. IsFiniteSet({"save_ecx"} \cup {"save_edx"} \cup {"srcdst"} \cup {"idx"})
    BY FS_Singleton, FS_Union
  <2>2. IsFiniteSet({"rhs"} \cup {"sign"} \cup {"amount"} \cup {"shifted"})
    BY FS_Singleton, FS_Union
  <2>3. IsFiniteSet({"cmp_mask"} \cup {"mul_temp"} \cup {"mul_rhs2"} \cup {"next_pc"})
    BY FS_Singleton, FS_Union
  <2>4. AllSlots = ({"save_ecx"} \cup {"save_edx"} \cup {"srcdst"} \cup {"idx"})
                   \cup ({"rhs"} \cup {"sign"} \cup {"amount"} \cup {"shifted"})
                   \cup ({"cmp_mask"} \cup {"mul_temp"} \cup {"mul_rhs2"} \cup {"next_pc"})
    BY DEF AllSlots, BaseSlots
  <2> QED BY <2>1, <2>2, <2>3, <2>4, FS_Union
<1>3. IsFiniteSet(Slots(mf))
  BY <1>1, <1>2, FS_Subset
<1>4. Cardinality(Slots(mf)) \in Nat
  BY <1>3, FS_CardinalityType
<1>5. mf.objects \in Nat
  BY DEF IsFunction
<1> QED BY <1>3, <1>4, <1>5 DEF StackSize

(* The prologue is one of the instructions. *)
LEMMA AllTyped == AllInsns \subseteq Instructions
<1>1. \A mf \in Functions : Prologue(mf) \in Instructions
  <2> SUFFICES ASSUME NEW mf \in Functions PROVE Prologue(mf) \in Instructions
    OBVIOUS
  <2>1. StackSize(mf) \in Int
    BY FunctionsAssumption, SlotsFinite
  <2>2. "SUB32ri" \in AddSubRI /\ "esp" \in GPR32
    BY DEF AddSubRI, GPR32, Regs
  <2> QED BY <2>1, <2>2 DEF Prologue, Instructions
<1> QED BY <1>1, InsnsAssumption DEF AllInsns

(* What Required asks for, slot by slot. *)
LEMMA RequiredHas ==
  ASSUME NEW op \in Opcodes
  PROVE  /\ op \in Scanned => BaseSlots \subseteq Required(op)
         /\ op \in AddSubRR \cup BitwiseRR \cup BitScan \cup Multiply \cup Compare
              => "rhs" \in Required(op)
         /\ op \in {"SAR32ri", "SAR32rCL"} => "sign" \in Required(op)
         /\ op \in ShiftCL => "amount" \in Required(op) /\ "shifted" \in Required(op)
         /\ op \in Multiply => "mul_temp" \in Required(op)
         /\ op = "MUL32rr" => "mul_rhs2" \in Required(op)
         /\ op \in Compare => "cmp_mask" \in Required(op)
         /\ op \in Compare \cup {"JMP"} => "next_pc" \in Required(op)
<1> USE DEF AddSubRI, AddSubRR, BitwiseRI, BitwiseRR, ShiftRI, ShiftCL, BitScan, Calls,
            Compare, Multiply
<1>1. CASE op \in AddSubRI \cup BitwiseRI \cup {"SHL32ri", "SHR32ri", "LEA32r", "RET", "CTPOP32r"}
  <2>1. Required(op) = BaseSlots
    BY <1>1 DEF Required
  <2> QED BY <1>1, <2>1
<1>2. CASE op \in AddSubRR \cup BitwiseRR \cup BitScan
  <2>1. Required(op) = BaseSlots \cup {"rhs"}
    BY <1>2 DEF Required
  <2> QED BY <1>2, <2>1
<1>3. CASE op = "SAR32ri"
  <2>1. Required(op) = BaseSlots \cup {"sign"}
    BY <1>3 DEF Required
  <2> QED BY <1>3, <2>1
<1>4. CASE op \in ShiftCL
  <2>1. Required(op) = IF op = "SAR32rCL" THEN BaseSlots \cup {"amount", "shifted", "sign"}
                       ELSE BaseSlots \cup {"amount", "shifted"}
    BY <1>4 DEF Required
  <2> QED BY <1>4, <2>1
<1>5. CASE op \in Multiply
  <2>1. Required(op) = IF op = "MUL32rr" THEN BaseSlots \cup {"rhs", "mul_temp", "mul_rhs2"}
                       ELSE BaseSlots \cup {"rhs", "mul_temp"}
    BY <1>5 DEF Required
  <2> QED BY <1>5, <2>1
<1>6. CASE op \in Compare
  <2>1. Required(op) = BaseSlots \cup {"rhs", "cmp_mask", "next_pc"}
    BY <1>6 DEF Required
  <2> QED BY <1>6, <2>1
<1>7. CASE op \in Calls \cup {"PUSH32r"}
  BY <1>7 DEF Scanned
<1>8. CASE op = "JMP"
  <2>1. Required(op) = {"next_pc"}
    BY <1>8 DEF Required
  <2> QED BY <1>8, <2>1 DEF Scanned
<1> QED BY <1>1, <1>2, <1>3, <1>4, <1>5, <1>6, <1>7, <1>8 DEF Opcodes, Scanned

(* The chain of an instruction may be entered with anything in memory, if   *)
(* the function has its slots.                                              *)
THEOREM ChainFree ==
  ASSUME NEW D, Roomy(D), NEW in \in Instructions, Required(in.op) \subseteq D,
         in.op \in Calls /\ in.size > 0 /\ ~Folds(in) => BaseSlots \subseteq D
  PROVE  Free(D, Chain(in))
<1>1. in.op \in Opcodes
  BY Operands
<1>2. in.op \in Scanned => Based(D)
  BY <1>1, RequiredHas DEF Based
<1> USE DEF AddSubRI, AddSubRR, BitwiseRI, BitwiseRR, ShiftRI, ShiftCL, BitScan, Calls,
            Compare, Multiply, Family1, Family2
<1>3. CASE in.op \in AddSubRI
  <2>1. Chain(in) = IF in.op = "ADD32ri" THEN legalizeADD32ri(in) ELSE legalizeSUB32ri(in)
    BY <1>3 DEF Chain
  <2>2. Based(D) /\ in.dst \in GPR32 /\ in.imm \in Int
    BY <1>2, <1>3, Operands DEF Scanned
  <2> QED BY ONLY <2>1, <2>2, AddSubRISafe
<1>4. CASE in.op \in AddSubRR
  <2>1. Chain(in) = IF in.op = "ADD32rr" THEN legalizeADD32rr(in) ELSE legalizeSUB32rr(in)
    BY <1>4 DEF Chain
  <2>2. Based(D) /\ in.dst \in GPR32 /\ in.src \in GPR32
    BY <1>2, <1>4, Operands DEF Scanned
  <2>3. "rhs" \in D
    BY <1>1, <1>4, RequiredHas
  <2> QED BY ONLY <2>1, <2>2, <2>3, AddSubRRSafe
<1>5. CASE in.op \in BitwiseRI
  <2>1. Chain(in) = BitwiseImm(in)
    BY <1>5 DEF Chain
  <2>2. Based(D) /\ in.dst \in GPR32 /\ in.imm \in Int
    BY <1>2, <1>5, Operands DEF Scanned
  <2> QED BY <1>5, <2>1, <2>2, BitwiseImmSafe
<1>6. CASE in.op \in BitwiseRR
  <2>1. Chain(in) = legalizeBitwise32rr(in)
    BY <1>6 DEF Chain
  <2>2. Based(D) /\ in.dst \in GPR32 /\ in.src \in GPR32
    BY <1>2, <1>6, Operands DEF Scanned
  <2>3. "rhs" \in D
    BY <1>1, <1>6, RequiredHas
  <2> QED BY <1>6, <2>1, <2>2, <2>3, BitwiseRRSafe
<1>7. CASE in.op \in ShiftRI
  <2>1. Chain(in) = legalizeShift32ri(in)
    BY <1>7 DEF Chain
  <2>2. Based(D) /\ in.dst \in GPR32 /\ in.imm \in Int
    BY <1>2, <1>7, Operands DEF Scanned
  <2>3. IsSAR(in) => "sign" \in D
    BY <1>1, <1>7, RequiredHas DEF IsSAR
  <2> QED BY ONLY <2>1, <2>2, <2>3, ShiftRISafe
<1>8. CASE in.op \in ShiftCL
  <2>1. Chain(in) = legalizeShift32rCL(in)
    BY <1>8 DEF Chain
  <2>2. Based(D) /\ in.dst \in GPR32
    BY <1>2, <1>8, Operands DEF Scanned
  <2>3. (IsSAR(in) => "sign" \in D) /\ "amount" \in D /\ "shifted" \in D
    BY <1>1, <1>8, RequiredHas DEF IsSAR
  <2> QED BY ONLY <2>1, <2>2, <2>3, ShiftCLSafe
<1>9. CASE in.op = "CTPOP32r"
  <2>1. Chain(in) = legalizeCTPOP32r(in)
    BY <1>9 DEF Chain
  <2>2. Based(D) /\ in.dst \in GPR32 /\ in.src \in GPR32
    BY <1>2, <1>9, Operands DEF Scanned
  <2> QED BY ONLY <2>1, <2>2, PopcountSafe
<1>10. CASE in.op \in BitScan
  <2>1. Chain(in) = legalizeBitScan32r(in)
    BY <1>10 DEF Chain
  <2>2. Based(D) /\ in.dst \in GPR32 /\ in.src \in GPR32
    BY <1>2, <1>10, Operands DEF Scanned
  <2>3. "rhs" \in D
    BY <1>1, <1>10, RequiredHas
  <2> QED BY ONLY <2>1, <2>2, <2>3, BitScanSafe
<1>11. CASE in.op \in Multiply
  <2>1. Chain(in) = legalizeMUL32(in)
    BY <1>11 DEF Chain
  <2>2. /\ Based(D) /\ in.dst \in GPR32 /\ in.src \in GPR32
        /\ in.op = "MUL32rr" => in.src2 \in GPR32
        /\ in.op # "MUL32rr" => in.imm \in Int
    BY <1>2, <1>11, Operands DEF Scanned
  <2>3. "rhs" \in D /\ "mul_temp" \in D /\ (in.op = "MUL32rr" => "mul_rhs2" \in D)
    BY <1>1, <1>11, RequiredHas
  <2> QED BY ONLY <2>1, <2>2, <2>3, MulSafe
<1>12. CASE in.op = "LEA32r"
  <2>1. Chain(in) = legalizeLEA32rs(in)
    BY <1>12 DEF Chain
  <2>2. Based(D) /\ in.dst \in GPR32 /\ in.imm \in Int
    BY <1>2, <1>12, Operands DEF Scanned
  <2> QED BY ONLY <2>1, <2>2, LEASafe
<1>13. CASE in.op \in Compare
  <2>1. Chain(in) = legalizeCmpJccPairs(in)
    BY <1>13 DEF Chain
  <2>2. /\ Based(D) /\ in.dst \in GPR32
        /\ in.op = "CMP32rr" => in.src \in GPR32
        /\ in.op = "CMP32rr" \/ in.imm \in Int
    BY <1>2, <1>13, Operands DEF Scanned
  <2>3. {"rhs", "cmp_mask", "next_pc"} \subseteq D
    BY <1>1, <1>13, RequiredHas
  <2>4. Compares(D, in)
    BY <2>2, <2>3 DEF Compares
  <2> QED BY ONLY <2>1, <2>2, <2>4, CompareSafe
<1>14. CASE in.op = "PUSH32r"
  <2>1. Chain(in) = legalizePushEbpPrologue
    BY <1>14 DEF Chain
  <2> QED BY <2>1, PushSafe
<1>15. CASE in.op \in Calls
  <2>1. Chain(in) = legalizeCallSites(in)
    BY <1>15 DEF Chain
  <2>2. in.size \in Nat /\ in.args \in Seq(ArgMovs) /\ (in.op = "CALL32r" => in.callee \in GPR32)
    BY <1>15, Operands
  <2>3. in.size > 0 /\ ~Folds(in) => Based(D)
    BY <1>15 DEF Based
  <2> QED BY <1>15, <2>1, <2>2, <2>3, CallSafe
<1>16. CASE in.op = "RET"
  <2>1. Chain(in) = legalizeRetEpilogueTail
    BY <1>16 DEF Chain
  <2>2. Based(D)
    BY <1>2, <1>16 DEF Scanned
  <2> QED BY ONLY <2>1, <2>2, ReturnSafe
<1>17. CASE in.op = "JMP"
  <2>1. Chain(in) = legalizeCFG
    BY <1>17 DEF Chain
  <2>2. "next_pc" \in D
    BY <1>1, <1>17, RequiredHas
  <2> QED BY <2>1, <2>2, DispatchSafe
<1> QED
  BY <1>1, <1>3, <1>4, <1>5, <1>6, <1>7, <1>8, <1>9, <1>10, <1>11, <1>12, <1>13, <1>14, <1>15,
     <1>16, <1>17 DEF Opcodes, Scanned
-----------------------------------------------------------------------------
(* Every entry of every table is a byte. *)
LEMMA TwoPowers ==
  /\ 2^0 = 1 /\ 2^1 = 2 /\ 2^2 = 4 /\ 2^3 = 8 /\ 2^4 = 16 /\ 2^5 = 32 /\ 2^6 = 64 /\ 2^7 = 128
  /\ 2^8 = 256
  OBVIOUS

(* The bytes of the tables of sums and differences. *)
LEMMA AddBytes ==
  ASSUME NEW i \in Nat, i < 131072
  PROVE  /\ \A t \in AddTables : TableByte(<<t>>, i) \in Byte
         /\ \A t \in SubTables : TableByte(<<t>>, i) \in Byte
<1> DEFINE a == A(i)
           b == B(i)
           c == CarryIn(i)
<1>1. a \in 0..255 /\ b \in 0..255 /\ c \in {0, 1}
  BY Digits DEF Byte
<1>2. \A t : emitAdd8Tables(t, i) = IF t = "add8_sum" THEN (a + b + c) % 256 ELSE (a + b + c) \div 256
  BY DEF emitAdd8Tables
<1>3. \A t : emitSub8Tables(t, i) = IF t = "sub8_diff" THEN (a - b - c) % 256
                                     ELSE IF a - b - c < 0 THEN 1 ELSE 0
  BY DEF emitSub8Tables
<1> HIDE DEF a, b, c
<1>4. (a + b + c) % 256 \in 0..255 /\ (a + b + c) \div 256 \in 0..255 /\ (a - b - c) % 256 \in 0..255
  BY ONLY <1>1, SMT
<1> DEFINE sum == (a + b + c) % 256
           carry == (a + b + c) \div 256
           diff == (a - b - c) % 256
           borrow == IF a - b - c < 0 THEN 1 ELSE 0
<1>5. borrow \in 0..255
  OBVIOUS
<1> HIDE DEF sum, carry, diff, borrow
<1>6. \A t : emitAdd8Tables(t, i) \in 0..255
  BY ONLY <1>2, <1>4, Zenon DEF sum, carry
<1>7. \A t : emitSub8Tables(t, i) \in 0..255
  BY ONLY <1>3, <1>4, <1>5, Zenon DEF diff, borrow
<1> QED BY ONLY <1>6, <1>7, EmitterOf, Zenon DEF Byte

(* Bits make a byte. *)
LEMMA ByteOfBytes ==
  ASSUME NEW S
  PROVE  ByteOf(S) \in Byte
<1> DEFINE bit(k, v) == IF k \in S THEN v ELSE 0
<1>1. ByteOf(S) = bit(0, 1) + bit(1, 2) + bit(2, 4) + bit(3, 8) + bit(4, 16) + bit(5, 32)
                  + bit(6, 64) + bit(7, 128)
  BY TwoPowers DEF ByteOf
<1>2. /\ bit(0, 1) \in {0, 1} /\ bit(1, 2) \in {0, 2} /\ bit(2, 4) \in {0, 4}
      /\ bit(3, 8) \in {0, 8} /\ bit(4, 16) \in {0, 16} /\ bit(5, 32) \in {0, 32}
      /\ bit(6, 64) \in {0, 64} /\ bit(7, 128) \in {0, 128}
  OBVIOUS
<1> HIDE DEF bit
<1> QED BY SMT, <1>1, <1>2 DEF Byte

(* Both halves of a product are bytes. *)
LEMMA Products ==
  ASSUME NEW a \in 0..255, NEW b \in 0..255
  PROVE  (a * b) % 256 \in 0..255 /\ (a * b) \div 256 \in 0..255
<1>1. a * b \in Nat /\ a * b <= 255 * b
  BY SMT
<1> DEFINE p == a * b
<1>2. p \in Nat /\ p <= 65025
  BY SMT, <1>1
<1> HIDE DEF p
<1>3. p % 256 \in 0..255 /\ p \div 256 \in 0..255
  BY SMT, <1>2
<1> QED BY <1>3 DEF p

(* What is left of a shifted byte is one. *)
LEMMA Shifts ==
  ASSUME NEW a \in 0..255, NEW k \in 1..7
  PROVE  (a * 2^k) % 256 \in 0..255 /\ a \div 2^k \in 0..255
<1>1. 2^k \in {2, 4, 8, 16, 32, 64, 128}
  <2>1. k = 1 \/ k = 2 \/ k = 3 \/ k = 4 \/ k = 5 \/ k = 6 \/ k = 7
    OBVIOUS
  <2>2. \/ 2^k = 2^1 \/ 2^k = 2^2 \/ 2^k = 2^3 \/ 2^k = 2^4 \/ 2^k = 2^5 \/ 2^k = 2^6 \/ 2^k = 2^7
    BY ONLY <2>1, Zenon
  <2> DEFINE d == 2^k
  <2>3. d = 2 \/ d = 4 \/ d = 8 \/ d = 16 \/ d = 32 \/ d = 64 \/ d = 128
    <3> HIDE DEF d
    <3>1. d = 2^1 \/ d = 2^2 \/ d = 2^3 \/ d = 2^4 \/ d = 2^5 \/ d = 2^6 \/ d = 2^7
      BY ONLY <2>2, Zenon DEF d
    <3> QED BY ONLY <3>1, TwoPowers, SMT
  <2> QED BY ONLY <2>3, SMT
<1> DEFINE d == 2^k
<1> HIDE DEF d
<1>2. d = 2 \/ d = 4 \/ d = 8 \/ d = 16 \/ d = 32 \/ d = 64 \/ d = 128
  BY <1>1 DEF d
<1>3. (a * d) % 256 \in 0..255 /\ a \div d \in 0..255
  BY SMT, <1>2
<1> QED BY <1>3 DEF d

(* A byte that is not zero has a first bit and a last. *)
LEMMA Scans ==
  ASSUME NEW a \in 1..255
  PROVE  /\ \E k \in 0..7 : a \div 2^(7 - k) = 1
         /\ \E k \in 0..7 : a % 2^(k + 1) = 2^k
<1>1. \/ a \div 128 = 1 \/ a \div 64 = 1 \/ a \div 32 = 1 \/ a \div 16 = 1 \/ a \div 8 = 1
      \/ a \div 4 = 1 \/ a \div 2 = 1 \/ a \div 1 = 1
  BY SMT
<1>2. \/ a % 2 = 1 \/ a % 4 = 2 \/ a % 8 = 4 \/ a % 16 = 8 \/ a % 32 = 16 \/ a % 64 = 32
      \/ a % 128 = 64 \/ a % 256 = 128
  BY SMT
<1> DEFINE lead(k) == a \div 2^(7 - k) = 1
           trail(k) == a % 2^(k + 1) = 2^k
<1>3. /\ lead(0) <=> a \div 128 = 1
      /\ lead(1) <=> a \div 64 = 1
      /\ lead(2) <=> a \div 32 = 1
      /\ lead(3) <=> a \div 16 = 1
      /\ lead(4) <=> a \div 8 = 1
      /\ lead(5) <=> a \div 4 = 1
      /\ lead(6) <=> a \div 2 = 1
      /\ lead(7) <=> a \div 1 = 1
  BY TwoPowers, SMT
<1>4. /\ trail(0) <=> a % 2 = 1
      /\ trail(1) <=> a % 4 = 2
      /\ trail(2) <=> a % 8 = 4
      /\ trail(3) <=> a % 16 = 8
      /\ trail(4) <=> a % 32 = 16
      /\ trail(5) <=> a % 64 = 32
      /\ trail(6) <=> a % 128 = 64
      /\ trail(7) <=> a % 256 = 128
  BY TwoPowers, SMT
<1>5. /\ 0 \in 0..7 /\ 1 \in 0..7 /\ 2 \in 0..7 /\ 3 \in 0..7 /\ 4 \in 0..7 /\ 5 \in 0..7
      /\ 6 \in 0..7 /\ 7 \in 0..7
  OBVIOUS
<1> HIDE DEF lead, trail
<1>6. \E k \in 0..7 : lead(k)
  BY ONLY <1>1, <1>3, <1>5, SMT
<1>7. \E k \in 0..7 : trail(k)
  BY ONLY <1>2, <1>4, <1>5, SMT
<1> QED BY <1>6, <1>7 DEF lead, trail

(* A byte has at most eight bits. *)
LEMMA Popcounts ==
  ASSUME NEW a
  PROVE  emitPopcount8Table(a) \in Byte
<1>1. IsFiniteSet(0..7) /\ Cardinality(0..7) = 8
  <2>1. 0 \in Int /\ 7 \in Int /\ (IF 0 > 7 THEN 0 ELSE 7 - 0 + 1) = 8
    OBVIOUS
  <2> QED BY ONLY <2>1, FS_Interval
<1>2. Ones(a) \subseteq 0..7
  BY DEF Ones
<1>3. IsFiniteSet(Ones(a)) /\ Cardinality(Ones(a)) <= 8
  BY <1>1, <1>2, FS_Subset
<1>4. Cardinality(Ones(a)) \in Nat
  BY <1>3, FS_CardinalityType
<1> QED BY <1>3, <1>4, SMT DEF emitPopcount8Table, Byte

(* Whatever is within a table of MovAsmPrinter is a byte. *)
THEOREM TableBytes ==
  ASSUME NEW tab \in Tables, NEW i \in Nat, i < TableSize(tab)
  PROVE  TableByte(tab, i) \in Byte
<1>1. CASE tab \in TwoByte
  <2>1. PICK t \in AddTables \cup SubTables \cup BitwiseTables \cup MulTables : tab = <<t>>
    BY <1>1 DEF TwoByte
  <2>2. i < 131072
    <3>1. TableSize(tab) \in {131072, 65536, 256}
      BY TableSizes
    <3> QED BY <3>1, SMT
  <2>3. CASE t \in AddTables \cup SubTables
    BY <2>1, <2>2, <2>3, AddBytes
  <2>4. CASE t \in BitwiseTables
    <3>1. TableByte(tab, i) = emitBitwise8Tables(t, i)
      BY <2>1, <2>4, EmitterOf
    <3>2. emitBitwise8Tables(t, i) \in Byte
      BY <2>4, ByteOfBytes DEF emitBitwise8Tables, BitwiseTables
    <3> QED BY <3>1, <3>2
  <2>5. CASE t \in MulTables
    <3>1. TableByte(tab, i) = emitMul8Tables(t, i)
      BY <2>1, <2>5, EmitterOf
    <3>2. emitMul8Tables(t, i) \in Byte
      <4> DEFINE a == A(i)
                 b == B(i)
                 low == (a * b) % 256
                 high == (a * b) \div 256
      <4>1. a \in 0..255 /\ b \in 0..255
        BY <2>2, Digits DEF Byte
      <4>2. emitMul8Tables(t, i) = IF t = "mul8_lo" THEN low ELSE high
        BY DEF emitMul8Tables
      <4> HIDE DEF a, b
      <4>3. low \in 0..255 /\ high \in 0..255
        BY ONLY <4>1, Products
      <4> HIDE DEF low, high
      <4> QED BY ONLY <4>2, <4>3, SMT DEF Byte
    <3> QED BY <3>1, <3>2
  <2> QED BY <2>1, <2>3, <2>4, <2>5
<1>2. CASE tab \in OneByte \cup ShiftTables8
  <2>1. TableSize(tab) = 256
    BY <1>2, TableSizes
  <2>2. i \in 0..255
    BY <2>1, SMT
  <2>3. CASE tab \in ShiftTables8
    <3>1. PICK t \in {"shl_byte", "shr_byte"}, k \in 1..7 : tab = <<t, k>>
      BY <2>3 DEF ShiftTables8
    <3>2. TableByte(tab, i) = emitShift8Tables(<<t, k>>, i)
      BY <3>1, EmitterOf
    <3>3. emitShift8Tables(<<t, k>>, i) = IF t = "shl_byte" THEN (i * 2^k) % 256 ELSE i \div 2^k
      BY DEF emitShift8Tables
    <3>4. (i * 2^k) % 256 \in 0..255 /\ i \div 2^k \in 0..255
      BY <2>2, Shifts
    <3> DEFINE l == (i * 2^k) % 256
               r == i \div 2^k
    <3> HIDE DEF l, r
    <3>5. emitShift8Tables(<<t, k>>, i) = IF t = "shl_byte" THEN l ELSE r
      BY <3>3 DEF l, r
    <3>6. l \in 0..255 /\ r \in 0..255
      BY <3>4 DEF l, r
    <3> QED BY ONLY <3>2, <3>5, <3>6, Zenon DEF Byte
  <2>4. CASE tab \in OneByte
    <3>1. PICK t \in MaskTables \cup {"popcount8", "clz_or_8", "ctz_or_8"} : tab = <<t>>
      BY <2>4 DEF OneByte
    <3>2. CASE t \in MaskTables
      <4>1. TableByte(tab, i) = emitMaskTables(t, i)
        BY <3>1, <3>2, EmitterOf
      <4>2. \A p : Mask(p) \in Byte
        BY DEF Mask, Byte
      <4>3. emitMaskTables(t, i) \in Byte
        BY <3>2, <4>2 DEF emitMaskTables, MaskTables
      <4> QED BY <4>1, <4>3
    <3>3. CASE t = "popcount8"
      BY <3>1, <3>3, EmitterOf, Popcounts
    <3>4. CASE t \in {"clz_or_8", "ctz_or_8"}
      <4>1. TableByte(tab, i) = emitBitscan8Tables(t, i)
        BY <3>1, <3>4, EmitterOf
      <4>2. 8 \in Byte /\ \A k \in 0..7 : k \in Byte
        BY DEF Byte
      <4>3. i = 0 => emitBitscan8Tables(t, i) = 8
        BY DEF emitBitscan8Tables
      <4>4. i # 0 => emitBitscan8Tables(t, i) \in 0..7
        <5> SUFFICES ASSUME i # 0 PROVE emitBitscan8Tables(t, i) \in 0..7
          OBVIOUS
        <5>1. i \in 1..255
          BY <2>2, SMT
        <5>2. (CHOOSE k \in 0..7 : i \div 2^(7 - k) = 1) \in 0..7
          BY <5>1, Scans
        <5>3. (CHOOSE k \in 0..7 : i % 2^(k + 1) = 2^k) \in 0..7
          BY <5>1, Scans
        <5> DEFINE lead == CHOOSE k \in 0..7 : i \div 2^(7 - k) = 1
                   trail == CHOOSE k \in 0..7 : i % 2^(k + 1) = 2^k
        <5>4. emitBitscan8Tables(t, i) = IF t = "clz_or_8" THEN lead ELSE trail
          BY DEF emitBitscan8Tables
        <5> HIDE DEF lead, trail
        <5>5. lead \in 0..7 /\ trail \in 0..7
          BY <5>2, <5>3 DEF lead, trail
        <5> QED BY <5>4, <5>5
      <4> QED BY <4>1, <4>2, <4>3, <4>4
    <3> QED BY <3>1, <3>2, <3>3, <3>4
  <2> QED BY <1>2, <2>3, <2>4
<1> QED BY <1>1, <1>2 DEF Tables
-----------------------------------------------------------------------------
(* What every state of the machine is like. While a chain runs, memory is   *)
(* what an annotation of the chain says of the place it has reached: that   *)
(* is what keeps its index within the next table. Before a chain and after  *)
(* one memory is anything, so that nothing is known but types.              *)
Reached(D, c, k, x) ==
  /\ c \in Seq(Movs(D)) /\ k \in 1..(Len(c) + 1)
  /\ \E s \in [1..(Len(c) + 1) -> SUBSET Mems(D)] :
       /\ \A j \in 1..Len(c) : Sound(D, c[j], s[j], s[j + 1])
       /\ x \in s[k]

MachineTypes ==
  /\ fn \in Functions
  /\ mem \in Mems(Places(fn))
  /\ stack \in [DOMAIN InitialStack -> Word]
  /\ pc \in Nat /\ retired \in 0..MaxRetired
  /\ insn = None \/ insn \in InsnsOf(fn)

ChainReached ==
  insn # None /\ Rewritten(insn, fn) => Reached(Places(fn), Code[insn], pc, mem)

MachineInv ==
  /\ MachineTypes /\ ChainReached
  /\ IF insn = None THEN pc = 0 ELSE retired < MaxRetired

(* Code is a table of the chains. *)
LEMMA CodeIsChain ==
  ASSUME NEW in \in AllInsns
  PROVE  Code[in] = Chain(in)
<1> DEFINE f == [i \in AllInsns |-> Chain(i)]
<1>1. Tabulated(f) = f
  BY DEF Tabulated
<1>2. f[in] = Chain(in)
  OBVIOUS
<1> QED BY <1>1, <1>2 DEF Code

(* The places of a function have the registers and the global slots. *)
LEMMA PlacesRoomy ==
  ASSUME NEW mf
  PROVE  Roomy(Places(mf)) /\ Slots(mf) \subseteq Places(mf)
  BY DEF Roomy, Places

(* The instructions of a function are instructions. *)
LEMMA InsnTyped ==
  ASSUME NEW mf \in Functions, NEW in \in InsnsOf(mf)
  PROVE  in \in AllInsns /\ in \in Instructions /\ in # None
<1>1. in \in AllInsns
  BY DEF InsnsOf, AllInsns
<1>2. in \in Instructions
  BY <1>1, AllTyped
<1> QED BY <1>1, <1>2, InsnsAssumption

(* An instruction that is rewritten starts a chain that may run.            *)
LEMMA ChainStarts ==
  ASSUME NEW mf \in Functions, NEW in \in InsnsOf(mf), Rewritten(in, mf),
         NEW x \in Mems(Places(mf))
  PROVE  Reached(Places(mf), Code[in], 1, x)
<1> DEFINE D == Places(mf)
<1>1. in \in AllInsns /\ in \in Instructions /\ Code[in] = Chain(in)
  BY InsnTyped, CodeIsChain
<1>2. Roomy(D) /\ Slots(mf) \subseteq D
  BY PlacesRoomy
<1>3. Free(D, Code[in])
  <2>1. CASE Code[in] = <<>>
    BY <2>1, <1>2, Registers, FreeLeaves
  <2>2. CASE Code[in] # <<>>
    <3>1. Required(in.op) \subseteq D
      BY <1>2, <2>2 DEF Rewritten
    <3>2. in.op \in Calls /\ in.size > 0 /\ ~Folds(in) => BaseSlots \subseteq D
      BY <1>2 DEF Rewritten, SubtractsFromESP
    <3> QED BY <1>1, <1>2, <3>1, <3>2, ChainFree
  <2> QED BY <2>1, <2>2
<1> HIDE DEF D
<1>4. PICK s \in [1..(Len(Code[in]) + 1) -> SUBSET Mems(D)] :
        /\ Mems(D) \subseteq s[1]
        /\ \A k \in 1..Len(Code[in]) : Sound(D, Code[in][k], s[k], s[k + 1])
  BY <1>3 DEF Free, Triple
<1>5. Code[in] \in Seq(Movs(D)) /\ Len(Code[in]) \in Nat
  BY <1>3 DEF Free, Triple
<1>6. 1 \in 1..(Len(Code[in]) + 1) /\ x \in s[1]
  BY <1>4, <1>5 DEF D
<1> QED BY <1>4, <1>5, <1>6 DEF Reached, D

(* The step of the chain that is about to be taken is sound.                *)
LEMMA StepSound ==
  ASSUME NEW D, NEW c, NEW k, NEW x, Reached(D, c, k, x), k <= Len(c)
  PROVE  /\ c[k] \in Movs(D) /\ k \in Nat /\ k + 1 \in Nat
         /\ c[k].op = "lookup" => Fits(x, c[k].table)
         /\ \A y \in Mems(D) : Moves(c[k], x, y) => Reached(D, c, k + 1, y)
<1>1. PICK s \in [1..(Len(c) + 1) -> SUBSET Mems(D)] :
        /\ \A j \in 1..Len(c) : Sound(D, c[j], s[j], s[j + 1])
        /\ x \in s[k]
  BY DEF Reached
<1>2. c \in Seq(Movs(D)) /\ k \in 1..(Len(c) + 1) /\ Len(c) \in Nat
  BY DEF Reached
<1>3. k \in 1..Len(c) /\ k + 1 \in 1..(Len(c) + 1) /\ k \in Nat /\ k + 1 \in Nat
  BY <1>2
<1>4. c[k] \in Movs(D)
  BY <1>2, <1>3
<1>5. Sound(D, c[k], s[k], s[k + 1])
  BY <1>1, <1>3
<1>6. c[k].op = "lookup" => Fits(x, c[k].table)
  BY <1>1, <1>5 DEF Sound
<1>7. ASSUME NEW y \in Mems(D), Moves(c[k], x, y) PROVE Reached(D, c, k + 1, y)
  <2>1. y \in s[k + 1]
    BY <1>1, <1>5, <1>7 DEF Sound
  <2> QED BY <1>1, <1>2, <1>3, <2>1 DEF Reached
<1> QED BY <1>3, <1>4, <1>6, <1>7

(* The fields of a mov, by its opcode. *)
LEMMA MovFields ==
  ASSUME NEW D, NEW m \in Movs(D)
  PROVE  /\ m.op = "mov32" => m.dst \in D /\ m.src \in D
         /\ m.op = "mov32i" => m.dst \in D /\ m.imm \in Int
         /\ m.op = "mov8" => m.dst \in BytePlaces(D) /\ m.src \in Sources(D)
         /\ m.op = "lookup" => m.dst \in BytePlaces(D) /\ m.table \in Tables
         /\ m.op = "load" => m.dst \in D /\ m.base \in D /\ m.disp \in Int
         /\ m.op = "store" => m.base \in D /\ m.src \in D /\ m.disp \in Int
         /\ m.op = "storei" => m.base \in D /\ m.imm \in Int /\ m.disp \in Int
         /\ m.op = "jumpvia" => m.reg \in D
         /\ m.op \in {"mov32", "mov32i", "mov8", "lookup", "load", "store", "storei", "jumpvia"}
<1>1. CASE m \in [op : {"mov32"}, dst : D, src : D]
  BY <1>1
<1>2. CASE m \in [op : {"mov32i"}, dst : D, imm : Int]
  BY <1>2
<1>3. CASE m \in [op : {"mov8"}, dst : BytePlaces(D), src : Sources(D)]
  BY <1>3
<1>4. CASE m \in [op : {"lookup"}, dst : BytePlaces(D), table : Tables]
  BY <1>4
<1>5. CASE m \in [op : {"load"}, dst : D, base : D, disp : Int]
  BY <1>5
<1>6. CASE m \in [op : {"store"}, base : D, disp : Int, src : D]
  BY <1>6
<1>7. CASE m \in [op : {"storei"}, base : D, disp : Int, imm : Int]
  BY <1>7
<1>8. CASE m \in [op : {"jumpvia"}, reg : D]
  BY <1>8
<1> QED BY <1>1, <1>2, <1>3, <1>4, <1>5, <1>6, <1>7, <1>8 DEF Movs

(* A mov names places. *)
LEMMA NamedPlaces ==
  ASSUME NEW D, "ecx" \in D, NEW m \in Movs(D)
  PROVE  Named(m) \subseteq D
<1> USE MovFields DEF Named
<1>1. m.op \in {"mov32", "mov32i", "load", "store", "storei", "jumpvia"} => Named(m) \subseteq D
  OBVIOUS
<1>2. m.op = "lookup" => Named(m) \subseteq D
  BY DEF BytePlaces
<1>3. m.op = "mov8" => Named(m) \subseteq D
  <2>1. m.op = "mov8" => m.dst[1] \in D
    BY DEF BytePlaces
  <2>2. m.op = "mov8" /\ "at" \in DOMAIN m.src => m.src.at[1] \in D
    BY DEF Sources, BytePlaces
  <2> QED BY <2>1, <2>2
<1> QED BY <1>1, <1>2, <1>3

(* The contents of memory stay words. *)
LEMMA StoreWord ==
  ASSUME NEW D, NEW x \in Mems(D), NEW d \in D, NEW w \in Word
  PROVE  [x EXCEPT ![d] = w] \in Mems(D)
  BY DEF Mems

(* The same of a byte. *)
LEMMA StoreByte ==
  ASSUME NEW D, NEW x \in Mems(D), NEW p \in BytePlaces(D), NEW b \in Byte
  PROVE  [x EXCEPT ![p[1]][p[2]] = b] \in Mems(D)
<1>1. p[1] \in D /\ p[2] \in 0..3
  BY DEF BytePlaces
<1>2. [x[p[1]] EXCEPT ![p[2]] = b] \in Word
  BY <1>1 DEF Mems, Word
<1>3. [x EXCEPT ![p[1]][p[2]] = b] = [x EXCEPT ![p[1]] = [x[p[1]] EXCEPT ![p[2]] = b]]
  OBVIOUS
<1> QED BY <1>1, <1>2, <1>3, StoreWord

(* What a byte mov moves is a byte. *)
LEMMA SourceIsByte ==
  ASSUME NEW D, NEW x \in Mems(D), NEW s \in Sources(D)
  PROVE  ByteFrom(x, s) \in Byte
  BY DEF ByteFrom, Sources, BytePlaces, Mems, Word

(* An index is a number. *)
LEMMA IndexNat ==
  ASSUME NEW D, "ecx" \in D, NEW x \in Mems(D)
  PROVE  IndexIn(x) \in Nat
<1> DEFINE a == x["ecx"][0]
           b == x["ecx"][1]
           c == x["ecx"][2]
<1>1. a \in Nat /\ b \in Nat /\ c \in Nat
  BY DEF Mems, Word, Byte
<1>2. IndexIn(x) = a + 256 * b + 65536 * c
  BY DEF IndexIn
<1> HIDE DEF a, b, c
<1> QED BY SMT, <1>1, <1>2

(* A step of a chain: what is left to show of an action is that memory      *)
(* stays made of words and changes as its mov says.                         *)
LEMMA Advances ==
  ASSUME MachineInv, Running, Advance, mem' \in Mems(Places(fn)),
         stack' \in [DOMAIN InitialStack -> Word], Moves(Current, mem, mem')
  PROVE  MachineInv'
<1>1. Reached(Places(fn), Code[insn], pc, mem) /\ pc <= Len(Code[insn]) /\ insn # None
  BY DEF MachineInv, ChainReached, Running
<1>2. Reached(Places(fn), Code[insn], pc + 1, mem') /\ pc + 1 \in Nat
  BY <1>1, StepSound DEF Current
<1>3. fn' = fn /\ insn' = insn /\ pc' = pc + 1 /\ retired' = retired
  BY DEF Advance
<1>4. MachineTypes'
  BY <1>2, <1>3 DEF MachineInv, MachineTypes
<1>5. ChainReached'
  BY <1>2, <1>3 DEF ChainReached
<1>6. insn' # None /\ retired' < MaxRetired
  BY <1>1, <1>3 DEF MachineInv
<1> QED BY <1>4, <1>5, <1>6 DEF MachineInv

(* MachineInv is inductive: it holds at first, *)
LEMMA MachineStarts == Init => MachineInv
<1> SUFFICES ASSUME Init PROVE MachineInv
  OBVIOUS
<1>1. PICK r \in RegFiles, g \in Garbage : mem = [p \in Places(fn) |-> IF p \in Regs THEN r[p] ELSE g]
  BY DEF Init
<1>2. r \in [Regs -> Word] /\ g \in Word
  BY WordsAssumption
<1>3. mem \in Mems(Places(fn))
  BY <1>1, <1>2 DEF Mems
<1>4. MachineTypes
  BY <1>3, WordsAssumption, MaxRetiredAssumption DEF Init, MachineTypes
<1> QED BY <1>4 DEF Init, MachineInv, ChainReached

(* and every step of the machine keeps it. *)
LEMMA MachineInductive == MachineInv /\ [Next]_vars => MachineInv'
<1> SUFFICES ASSUME MachineInv, [Next]_vars PROVE MachineInv'
  OBVIOUS
<1> DEFINE D == Places(fn)
<1>1. /\ fn \in Functions /\ mem \in Mems(D) /\ stack \in [DOMAIN InitialStack -> Word]
      /\ pc \in Nat /\ retired \in 0..MaxRetired /\ Roomy(D) /\ "ecx" \in D /\ "eip" \in D
      /\ Globals \subseteq D
  BY PlacesRoomy, Registers DEF MachineInv, MachineTypes, Roomy
<1>2. Running => /\ Current \in Movs(D)
                 /\ Current.op = "lookup" => Fits(mem, Current.table)
  <2>1. Running => Reached(D, Code[insn], pc, mem) /\ pc <= Len(Code[insn])
    BY DEF MachineInv, ChainReached, Running
  <2> QED BY <2>1, StepSound DEF Current
<1>3. CASE Fetch
  <2>1. /\ insn' \in InsnsOf(fn) /\ pc' = 1 /\ fn' = fn /\ mem' = mem /\ stack' = stack
        /\ retired' = retired /\ retired < MaxRetired
    BY <1>3 DEF Fetch
  <2>2. insn' # None
    BY <1>1, <2>1, InsnTyped
  <2>3. MachineTypes'
    BY <1>1, <2>1 DEF MachineTypes
  <2>4. ChainReached'
    <3>1. Rewritten(insn', fn) => Reached(Places(fn), Code[insn'], 1, mem)
      BY <1>1, <2>1, ChainStarts
    <3> QED BY <2>1, <3>1 DEF ChainReached
  <2> QED BY <2>1, <2>2, <2>3, <2>4 DEF MachineInv
<1> DEFINE m == Current
<1>4. CASE Mov32
  <2>1. Running /\ m.op = "mov32" /\ mem' = [mem EXCEPT ![m.dst] = mem[m.src]] /\ Advance
        /\ stack' = stack
    BY <1>4 DEF Mov32
  <2>2. m.dst \in D /\ m.src \in D
    BY <1>2, <2>1, MovFields
  <2>3. mem' \in Mems(D)
    BY <1>1, <2>1, <2>2, StoreWord DEF Mems
  <2>4. Moves(m, mem, mem')
    BY <2>1 DEF Moves
  <2> QED BY <1>1, <2>1, <2>3, <2>4, Advances
<1>5. CASE Mov32Imm
  <2>1. Running /\ m.op = "mov32i" /\ mem' = [mem EXCEPT ![m.dst] = WordBytes(m.imm)] /\ Advance
        /\ stack' = stack
    BY <1>5 DEF Mov32Imm
  <2>2. m.dst \in D /\ m.imm \in Int
    BY <1>2, <2>1, MovFields
  <2>3. mem' \in Mems(D)
    BY <1>1, <2>1, <2>2, StoreWord, Immediates
  <2>4. Moves(m, mem, mem')
    BY <2>1 DEF Moves
  <2> QED BY <1>1, <2>1, <2>3, <2>4, Advances
<1>6. CASE MovByte
  <2>1. /\ Running /\ m.op = "mov8" /\ Advance /\ stack' = stack
        /\ mem' = [mem EXCEPT ![m.dst[1]][m.dst[2]] = ByteFrom(mem, m.src)]
    BY <1>6 DEF MovByte, SourceByte, ByteFrom
  <2>2. m.dst \in BytePlaces(D) /\ m.src \in Sources(D)
    BY <1>2, <2>1, MovFields
  <2>3. mem' \in Mems(D)
    BY <1>1, <2>1, <2>2, StoreByte, SourceIsByte
  <2>4. Moves(m, mem, mem')
    BY <2>1 DEF Moves
  <2> QED BY <1>1, <2>1, <2>3, <2>4, Advances
<1>7. CASE MovIndexed
  <2>1. /\ Running /\ m.op = "lookup" /\ Advance /\ stack' = stack
        /\ mem' = [mem EXCEPT ![m.dst[1]][m.dst[2]] = TableByte(m.table, IndexIn(mem))]
    BY <1>7 DEF MovIndexed, Index, IndexIn
  <2>2. m.dst \in BytePlaces(D) /\ m.table \in Tables
    BY <1>2, <2>1, MovFields
  <2>3. TableByte(m.table, IndexIn(mem)) \in Byte
    BY <1>1, <1>2, <2>1, <2>2, IndexNat, TableBytes DEF Fits
  <2>4. mem' \in Mems(D)
    BY <1>1, <2>1, <2>2, <2>3, StoreByte
  <2>5. Moves(m, mem, mem')
    BY <2>1 DEF Moves
  <2> QED BY <1>1, <2>1, <2>4, <2>5, Advances
<1>8. CASE MovLoad
  <2>1. /\ Running /\ m.op = "load" /\ Advance /\ stack' = stack /\ Cell \in DOMAIN stack
        /\ mem' = [mem EXCEPT ![m.dst] = stack[Cell]]
    BY <1>8 DEF MovLoad
  <2>2. m.dst \in D /\ stack[Cell] \in Word
    BY <1>1, <1>2, <2>1, MovFields
  <2>3. mem' \in Mems(D)
    BY <1>1, <2>1, <2>2, StoreWord
  <2>4. Moves(m, mem, mem')
    BY <2>1, <2>2 DEF Moves
  <2> QED BY <1>1, <2>1, <2>3, <2>4, Advances
<1>9. CASE MovStore
  <2> DEFINE w == IF m.op = "store" THEN mem[m.src] ELSE WordBytes(m.imm)
  <2>1. /\ Running /\ m.op \in {"store", "storei"} /\ Advance /\ mem' = mem
        /\ Cell \in DOMAIN stack /\ stack' = [stack EXCEPT ![Cell] = w]
    BY <1>9 DEF MovStore
  <2>2. w \in Word
    BY <1>1, <1>2, <2>1, MovFields, Immediates DEF Mems
  <2> HIDE DEF w
  <2>3. stack' \in [DOMAIN InitialStack -> Word]
    BY <1>1, <2>1, <2>2
  <2>4. Moves(m, mem, mem')
    BY <2>1 DEF Moves
  <2> QED BY <1>1, <2>1, <2>3, <2>4, Advances
<1>10. CASE JumpMemory
  <2>1. /\ Running /\ m.op = "jumpvia" /\ Advance /\ stack' = stack
    BY <1>10 DEF JumpMemory
  <2>2. PICK g \in PointedTo(mem[m.reg]) : mem' = [mem EXCEPT !["eip"] = mem[g]]
    BY <1>10 DEF JumpMemory
  <2>3. g \in D
    BY <1>1, <2>2, LabelsAssumption DEF PointedTo
  <2>4. mem[g] \in Word
    BY <1>1, <2>3 DEF Mems
  <2>5. mem' \in Mems(D)
    BY <1>1, <2>2, <2>4, StoreWord
  <2>6. Moves(m, mem, mem')
    BY <2>1, <2>2, <2>4 DEF Moves
  <2> QED BY <1>1, <2>1, <2>5, <2>6, Advances
<1>11. CASE Retire
  <2>1. /\ insn # None /\ insn' = None /\ pc' = 0 /\ retired' = retired + 1
        /\ fn' = fn /\ mem' = mem /\ stack' = stack
    BY <1>11 DEF Retire
  <2>2. retired < MaxRetired
    BY <2>1 DEF MachineInv
  <2>3. MachineTypes'
    BY <1>1, <2>1, <2>2, MaxRetiredAssumption DEF MachineTypes
  <2> QED BY <2>1, <2>3 DEF MachineInv, ChainReached
<1>12. CASE UNCHANGED vars
  <2>1. /\ fn' = fn /\ mem' = mem /\ stack' = stack /\ insn' = insn /\ pc' = pc
        /\ retired' = retired
    BY <1>12 DEF vars
  <2>2. MachineTypes' /\ ChainReached'
    BY <2>1 DEF MachineInv, MachineTypes, ChainReached
  <2> QED BY <2>1, <2>2 DEF MachineInv
<1> QED
  BY <1>3, <1>4, <1>5, <1>6, <1>7, <1>8, <1>9, <1>10, <1>11, <1>12 DEF Next
(* MachineInv holds of every state the machine reaches.                     *)
LEMMA MachineInvariant == Spec => []MachineInv
<1>1. Init => MachineInv
  BY MachineStarts
<1>2. MachineInv /\ [Next]_vars => MachineInv'
  BY MachineInductive
<1> QED BY <1>1, <1>2, PTL DEF Spec

(* Memory stays made of bytes, whatever the rewrites load, look up or store, *)
(* and a chain that is about to run names only slots that                   *)
(* processFunctionBeforeFrameFinalized reserved.                            *)
THEOREM MachineTyped == Spec => []MachineTypeOK
<1>1. MachineInv => MachineTypeOK
  <2> SUFFICES ASSUME MachineInv PROVE MachineTypeOK
    OBVIOUS
  <2>1. ASSUME pc = 1, Rewritten(insn, fn), NEW k \in 1..Len(Code[insn])
        PROVE  Named(Code[insn][k]) \subseteq Places(fn)
    <3>1. insn # None
      BY <2>1 DEF MachineInv
    <3>2. Code[insn] \in Seq(Movs(Places(fn)))
      BY <2>1, <3>1 DEF MachineInv, ChainReached, Reached
    <3>3. "ecx" \in Places(fn)
      BY DEF Places, Regs
    <3> QED BY <2>1, <3>2, <3>3, NamedPlaces
  <2> QED BY <2>1 DEF MachineInv, MachineTypes, Mems, MachineTypeOK
<1> QED BY <1>1, MachineInvariant, PTL

(* No rewrite reads past the end of a table of MovAsmPrinter: whatever      *)
(* instructions a function has, and whatever ECX and the index slot held.   *)
THEOREM TablesKept == Spec => []TablesInBounds
<1>1. MachineInv => TablesInBounds
  <2> SUFFICES ASSUME MachineInv, Running, Current.op = "lookup" PROVE InTable(Current.table)
    BY DEF TablesInBounds
  <2>1. Reached(Places(fn), Code[insn], pc, mem) /\ pc <= Len(Code[insn])
    BY DEF MachineInv, ChainReached, Running
  <2>2. Fits(mem, Current.table)
    BY <2>1, StepSound DEF Current
  <2> QED BY <2>2 DEF Fits, InTable, Index, IndexIn
<1> QED BY <1>1, MachineInvariant, PTL

(* No arithmetic instruction is left in .text when every function is one    *)
(* the scan serves: NoReturnKeepsSub has one that it does not.              *)
THEOREM MovOnlyKept == Served => (Spec => []MovOnly)
<1> SUFFICES ASSUME Served PROVE Spec => []MovOnly
  OBVIOUS
<1>1. ASSUME NEW mf \in Functions, NEW in \in InsnsOf(mf) PROVE Rewritten(in, mf)
  <2>1. IsFunction(mf)
    BY FunctionsAssumption
  <2>2. NeedsByteOpScratch(mf) => BaseSlots \subseteq Slots(mf)
    BY DEF Slots
  <2>3. CASE in \in Insns /\ in.op \in mf.ops
    <3>1. Required(in.op) \subseteq Slots(mf)
      BY <2>1, <2>3, ScanServesRewrites
    <3>2. ASSUME in = Prologue(mf)
          PROVE  BaseSlots \subseteq Slots(mf) /\ StackSize(mf) > 0
      <4>1. in.op \in Scanned
        BY <3>2 DEF Prologue, Scanned, AddSubRI
      <4>2. BaseSlots \subseteq Slots(mf)
        BY <2>3, <4>1, BaseReserved
      <4>3. IsFiniteSet(Slots(mf)) /\ Slots(mf) # {} /\ mf.objects \in Nat
        BY <2>1, <4>2, SlotsFinite DEF BaseSlots, IsFunction
      <4>4. Cardinality(Slots(mf)) \in Nat /\ Cardinality(Slots(mf)) # 0
        BY <4>3, FS_EmptySet, FS_CardinalityType
      <4> QED BY <4>2, <4>3, <4>4 DEF StackSize
    <3>3. SubtractsFromESP(in, mf) => BaseSlots \subseteq Slots(mf) /\ PrologueInBudget(mf)
      BY <2>2, <2>3, <3>2 DEF SubtractsFromESP, Served
    <3> QED BY <3>1, <3>3 DEF Rewritten
  <2>4. CASE in = Prologue(mf) /\ StackSize(mf) > 0
    <3>1. BaseSlots \subseteq Slots(mf) /\ PrologueInBudget(mf)
      BY <2>2, <2>4 DEF Served
    <3>2. Required(in.op) = BaseSlots
      BY <2>4 DEF Prologue, Required, AddSubRI, BitwiseRI, AddSubRR, BitwiseRR, BitScan,
                  Compare, Calls
    <3> QED BY <3>1, <3>2 DEF Rewritten
  <2> QED BY <2>3, <2>4 DEF InsnsOf
<1>2. MachineInv => MovOnly
  BY <1>1 DEF MachineInv, MachineTypes, MovOnly
<1> QED BY <1>2, MachineInvariant, PTL
===============================================================================
