------------------------- MODULE NarrowMemoryProofs -------------------------
(***************************************************************************)
(* For every program, memory and byte width: in whatever order the         *)
(* instructions of a block are run that keeps the declared order, memory   *)
(* and loads see the program's order.                                      *)
(***************************************************************************)
EXTENDS NarrowMemory, MovISelProofs

(* What is already executed is closed under the declared order, memory is   *)
(* what that much of the program leaves behind, and every load that has run *)
(* read what the program's order would have shown it.                       *)
Closed == \A p \in done, o \in Instructions : Before(o, p) => o \in done
MemoryInOrder == \A b \in Addresses : LastWritten(mem[b], start[b], done, b)
LoadsInOrder ==
  \A o \in done : ~IsStore(o) =>
    \A j \in 0..3 : LastWritten(words[o][j], start[Base(o) + j], Earlier(Place(o)), Base(o) + j)
OrderInv ==
  /\ block \in Blocks /\ start \in Contents
  /\ done \subseteq Instructions /\ DOMAIN words = Instructions
  /\ Closed /\ MemoryInOrder /\ LoadsInOrder

-----------------------------------------------------------------------------
(* An instruction stands for a part of its access, and stays in memory.     *)
LEMMA InstructionFacts ==
  ASSUME block \in Blocks, NEW o \in Instructions
  PROVE  /\ Place(o) \in Nat /\ Acc(o) = block[Place(o)] /\ Acc(o) \in Accesses
         /\ Part(o) \in {0, 1} /\ (Whole(Acc(o)) => Part(o) = 0)
         /\ At(o) \in Addresses
         /\ Whole(Acc(o)) => At(o) + 3 \in Addresses
<1>1. PICK k \in DOMAIN block : \E part \in Parts(block[k]) : o = <<k, part, block[k]>>
  BY DEF Instructions
<1>2. PICK part \in Parts(block[k]) : o = <<k, part, block[k]>>
  BY <1>1
<1>3. /\ block \in Seq(Accesses)
      /\ block[k].addr + Size(block[k]) - 1 \in Addresses
  BY BlocksAssumption
<1>4. k \in Nat /\ block[k] \in Accesses
  BY <1>3
<1>5. Place(o) = k /\ Part(o) = part /\ Acc(o) = block[k]
  BY <1>2 DEF Place, Part, Acc
<1>6. ByteBits \in Nat \ {0} /\ LastAddress \in Nat
  BY ByteAssumption, MemoryAssumption
<1>7. /\ block[k].addr \in Addresses
      /\ block[k].bits \in {1, ByteBits, 2 * ByteBits, 4 * ByteBits}
  BY <1>4 DEF Accesses
<1>8. part \in {0, 1} /\ (part = 1 => block[k].bits = 2 * ByteBits)
  BY DEF Parts, Split
<1>9. Whole(block[k]) => part = 0
  BY <1>6, <1>8 DEF Whole
<1>10. CASE part = 0
  <2>1. At(o) = block[k].addr
    BY <1>5, <1>7, <1>6, <1>10 DEF At, Addresses
  <2>2. Whole(block[k]) => Size(block[k]) = 4
    BY DEF Whole, Size
  <2>3. Whole(block[k]) => At(o) + 3 \in Addresses
    BY <1>3, <1>7, <2>1, <2>2, <1>6 DEF Addresses
  <2> QED BY <1>4, <1>5, <1>7, <1>8, <1>9, <2>1, <2>3
<1>11. CASE part = 1
  <2>1. Size(block[k]) = 2 /\ ~Whole(block[k])
    BY <1>6, <1>8, <1>11 DEF Size, Whole
  <2>2. At(o) = block[k].addr + 1
    BY <1>5, <1>11 DEF At
  <2>3. At(o) \in Addresses
    BY <1>3, <1>6, <1>7, <2>1, <2>2 DEF Addresses
  <2> QED BY <1>4, <1>5, <1>8, <2>1, <2>3
<1> QED BY <1>8, <1>10, <1>11

(* A store is declared to touch what it writes.                             *)
LEMMA StoreDeclared == ASSUME NEW o PROVE Writes(o) \subseteq Declared(o)
BY DEF Writes, Declared

(* A load is declared to touch the whole word it reads, which is memory:    *)
(* memory is whole words.                                                   *)
LEMMA LoadDeclared ==
  ASSUME block \in Blocks, NEW o \in Instructions, ~IsStore(o), NEW j \in 0..3
  PROVE  Base(o) + j \in Declared(o) /\ Base(o) + j \in Addresses
<1>1. LastAddress \in Nat /\ LastAddress % 4 = 3
  BY MemoryAssumption
<1>2. At(o) \in Addresses /\ (Whole(Acc(o)) => At(o) + 3 \in Addresses)
  BY InstructionFacts
<1>3. CASE Whole(Acc(o))
  BY <1>1, <1>2, <1>3 DEF Base, Declared, Addresses
<1>4. CASE ~Whole(Acc(o))
  <2>1. Base(o) = At(o) - (At(o) % 4) /\ Declared(o) = Addresses
    BY <1>4 DEF Base, Declared
  <2>2. At(o) \in Nat /\ At(o) =< LastAddress
    BY <1>1, <1>2 DEF Addresses
  <2>3. At(o) - (At(o) % 4) + j \in 0..LastAddress
    BY <1>1, <2>2
  <2> QED BY <2>1, <2>3 DEF Addresses
<1> QED BY <1>3, <1>4

(* A store stores what it is meant to.                                      *)
LEMMA StoredMeant ==
  ASSUME block \in Blocks, NEW o \in Instructions, NEW b \in Writes(o)
  PROVE  Stored(o, b) = Meant(o, b)
<1>1. /\ Acc(o).addr \in Nat /\ Part(o) \in {0, 1} /\ (Whole(Acc(o)) => Part(o) = 0)
  BY InstructionFacts, MemoryAssumption DEF Accesses, Addresses
<1>2. CASE Whole(Acc(o))
  <2>1. At(o) = Acc(o).addr
    BY <1>1, <1>2 DEF At
  <2> QED BY <1>2, <2>1 DEF Stored, Meant
<1>3. CASE ~Whole(Acc(o))
  <2>1. b = At(o)
    BY <1>3 DEF Writes
  <2>2. b - Acc(o).addr = Part(o)
    BY <1>1, <2>1 DEF At
  <2> QED BY <1>3, <2>2 DEF Stored, Meant
<1> QED BY <1>2, <1>3

(* Only the instructions that write a byte matter to it.                    *)
LEMMA SameWriters ==
  ASSUME NEW m, NEW before, NEW b, NEW S, NEW T,
         \A p : b \in Writes(p) => (p \in S <=> p \in T),
         LastWritten(m, before, S, b)
  PROVE  LastWritten(m, before, T, b)
BY DEF LastWritten

(* Instructions of different places that touch a common byte, one of them   *)
(* writing it, are ordered.                                                 *)
LEMMA Ordered ==
  ASSUME NEW o, NEW p, NEW b, b \in Declared(o), b \in Declared(p),
         IsStore(o) \/ IsStore(p), Place(o) < Place(p)
  PROVE  Before(o, p)
BY DEF Before

LEMMA WriterIsStore == ASSUME NEW o, NEW b \in Writes(o) PROVE IsStore(o)
BY DEF Writes

-----------------------------------------------------------------------------
(* Both kinds of instruction keep what has run closed under the order.      *)
LEMMA ClosedKept ==
  ASSUME Closed, NEW o, Ready(o), done' = done \cup {o}, block' = block
  PROVE  Closed'
<1>1. Instructions' = Instructions
  BY DEF Instructions
<1> SUFFICES ASSUME NEW p \in done \cup {o}, NEW other \in Instructions, Before(other, p)
             PROVE  other \in done \cup {o}
  BY <1>1 DEF Closed
<1> QED BY DEF Closed, Ready

LEMMA StoreStep ==
  ASSUME OrderInv, NEW o \in Instructions, ExecuteStore(o)
  PROVE  OrderInv'
<1>1. /\ block' = block /\ start' = start /\ words' = words /\ done' = done \cup {o}
      /\ Ready(o) /\ IsStore(o)
      /\ mem' = [b \in Addresses |-> IF b \in Writes(o) THEN Stored(o, b) ELSE mem[b]]
  BY DEF ExecuteStore
<1>2. Instructions' = Instructions
  BY <1>1 DEF Instructions
<1>3. Closed'
  BY <1>1, ClosedKept DEF OrderInv
<1>4. MemoryInOrder'
  <2> SUFFICES ASSUME NEW b \in Addresses
               PROVE  LastWritten(mem'[b], start[b], done \cup {o}, b)
    BY <1>1 DEF MemoryInOrder
  <2>1. CASE b \in Writes(o)
    <3>1. mem'[b] = Meant(o, b)
      BY <1>1, <2>1, StoredMeant DEF OrderInv
    <3> SUFFICES ASSUME NEW p \in done \cup {o}, b \in Writes(p),
                        \A w \in done \cup {o} : b \in Writes(w) => Place(w) =< Place(p)
                 PROVE  mem'[b] = Meant(p, b)
      BY <2>1 DEF LastWritten
    <3>2. Place(o) =< Place(p)
      BY <2>1
    <3>3. p \in Instructions
      BY DEF OrderInv
    <3>4. ~Before(o, p) \/ p = o
      BY <1>1, <3>3 DEF OrderInv, Closed, Ready
    <3>5. Place(o) = Place(p)
      <4>1. Place(o) \in Nat /\ Place(p) \in Nat
        BY <3>3, InstructionFacts DEF OrderInv
      <4>2. ~(Place(o) < Place(p))
        BY <2>1, <3>4, <4>1, <1>1, StoreDeclared, Ordered
      <4> QED BY <3>2, <4>1, <4>2
    <3>6. Acc(o) = Acc(p)
      BY <3>3, <3>5, InstructionFacts DEF OrderInv
    <3> QED BY <3>1, <3>6 DEF Meant
  <2>2. CASE b \notin Writes(o)
    <3>1. mem'[b] = mem[b]
      BY <1>1, <2>2
    <3>2. LastWritten(mem[b], start[b], done, b)
      BY DEF OrderInv, MemoryInOrder
    <3>3. \A p : b \in Writes(p) => (p \in done <=> p \in done \cup {o})
      BY <2>2
    <3> QED BY <3>1, <3>2, <3>3, SameWriters
  <2> QED BY <2>1, <2>2
<1>5. LoadsInOrder'
  <2>1. \A k : Earlier(k)' = Earlier(k)
    BY <1>2 DEF Earlier
  <2> SUFFICES ASSUME NEW l \in done \cup {o}, ~IsStore(l), NEW j \in 0..3
               PROVE  LastWritten(words[l][j], start[Base(l) + j], Earlier(Place(l)), Base(l) + j)
    BY <1>1, <2>1 DEF LoadsInOrder
  <2>2. l \in done
    BY <1>1
  <2> QED BY <2>2 DEF OrderInv, LoadsInOrder
<1> QED BY <1>1, <1>2, <1>3, <1>4, <1>5 DEF OrderInv

LEMMA LoadStep ==
  ASSUME OrderInv, NEW o \in Instructions, ExecuteLoad(o)
  PROVE  OrderInv'
<1>1. /\ block' = block /\ start' = start /\ mem' = mem /\ done' = done \cup {o}
      /\ Ready(o) /\ ~IsStore(o)
      /\ words' = [words EXCEPT ![o] = [j \in 0..3 |-> mem[Base(o) + j]]]
  BY DEF ExecuteLoad
<1>2. Instructions' = Instructions
  BY <1>1 DEF Instructions
<1>3. Closed'
  BY <1>1, ClosedKept DEF OrderInv
<1>4. MemoryInOrder'
  <2> SUFFICES ASSUME NEW b \in Addresses
               PROVE  LastWritten(mem[b], start[b], done \cup {o}, b)
    BY <1>1 DEF MemoryInOrder
  <2>1. LastWritten(mem[b], start[b], done, b)
    BY DEF OrderInv, MemoryInOrder
  <2>2. \A p : b \in Writes(p) => (p \in done <=> p \in done \cup {o})
    BY <1>1, WriterIsStore
  <2> QED BY <2>1, <2>2, SameWriters
<1>5. LoadsInOrder'
  <2>1. \A k : Earlier(k)' = Earlier(k)
    BY <1>2 DEF Earlier
  <2> SUFFICES ASSUME NEW l \in done \cup {o}, ~IsStore(l), NEW j \in 0..3
               PROVE  LastWritten(words'[l][j], start[Base(l) + j], Earlier(Place(l)), Base(l) + j)
    BY <1>1, <2>1 DEF LoadsInOrder
  <2>2. CASE l # o
    <3>1. words'[l] = words[l] /\ l \in done
      BY <1>1, <2>2
    <3> QED BY <3>1 DEF OrderInv, LoadsInOrder
  <2>3. CASE l = o
    <3> DEFINE b == Base(o) + j
    <3>1. words'[o][j] = mem[b]
      BY <1>1 DEF OrderInv
    <3>2. b \in Declared(o) /\ b \in Addresses
      BY <1>1, LoadDeclared DEF OrderInv
    <3>3. LastWritten(mem[b], start[b], done, b)
      BY <3>2 DEF OrderInv, MemoryInOrder
    <3>4. ASSUME NEW p, b \in Writes(p)
          PROVE  p \in done <=> p \in Earlier(Place(o))
      <4>1. IsStore(p) /\ b \in Declared(p)
        BY <3>4, WriterIsStore, StoreDeclared
      <4>2. ASSUME p \in Earlier(Place(o)) PROVE p \in done
        <5>1. p \in Instructions /\ Place(p) < Place(o)
          BY <4>2 DEF Earlier
        <5>2. Before(p, o)
          BY <3>2, <4>1, <5>1, Ordered
        <5> QED BY <1>1, <5>1, <5>2 DEF Ready
      <4>3. ASSUME p \in done PROVE p \in Earlier(Place(o))
        <5>1. p \in Instructions
          BY <4>3 DEF OrderInv
        <5>2. /\ Place(o) \in Nat /\ Acc(o) = block[Place(o)]
              /\ Place(p) \in Nat /\ Acc(p) = block[Place(p)]
          BY <5>1, InstructionFacts DEF OrderInv
        <5>3. Place(p) # Place(o)
          BY <1>1, <4>1, <5>2 DEF IsStore
        <5>4. ~(Place(o) < Place(p))
          <6>1. ~Before(o, p)
            BY <1>1, <4>3 DEF OrderInv, Closed, Ready
          <6> QED BY <3>2, <4>1, <6>1, Ordered
        <5>5. Place(p) < Place(o)
          BY <5>2, <5>3, <5>4
        <5> QED BY <5>1, <5>5 DEF Earlier
      <4> QED BY <4>2, <4>3
    <3>5. LastWritten(mem[b], start[b], Earlier(Place(o)), b)
      BY <3>3, <3>4, SameWriters
    <3> QED BY <2>3, <3>1, <3>5
  <2> QED BY <2>2, <2>3
<1>6. DOMAIN words' = Instructions'
  BY <1>1, <1>2 DEF OrderInv
<1> QED BY <1>1, <1>2, <1>3, <1>4, <1>5, <1>6 DEF OrderInv

LEMMA StartsInOrder == NarrowInit => OrderInv
<1> SUFFICES ASSUME NarrowInit PROVE OrderInv
  OBVIOUS
<1>1. /\ block \in Blocks /\ start \in Contents
      /\ done = {} /\ mem = start /\ DOMAIN words = Instructions
  BY DEF NarrowInit
<1>2. MemoryInOrder
  BY <1>1 DEF MemoryInOrder, LastWritten
<1> QED BY <1>1, <1>2 DEF OrderInv, Closed, LoadsInOrder

(* Narrow accesses keep the program's order, for every block, every memory  *)
(* of whole words and every schedule: a store that is split in two, and a   *)
(* load that reads the bytes around its field, are declared broadly enough. *)
THEOREM NarrowInOrder == NarrowSpec => []InOrder
<1>1. NarrowInit => OrderInv
  BY StartsInOrder
<1>2. OrderInv /\ [NarrowNext]_memVars => OrderInv'
  <2> SUFFICES ASSUME OrderInv, [NarrowNext]_memVars PROVE OrderInv'
    OBVIOUS
  <2>1. CASE UNCHANGED memVars
    <3>1. block' = block /\ start' = start /\ mem' = mem /\ done' = done /\ words' = words
      BY <2>1 DEF memVars
    <3>2. Instructions' = Instructions
      BY <3>1 DEF Instructions
    <3>3. \A k : Earlier(k)' = Earlier(k)
      BY <3>2 DEF Earlier
    <3>4. Closed' /\ MemoryInOrder'
      BY <3>1, <3>2 DEF OrderInv, Closed, MemoryInOrder
    <3>5. LoadsInOrder'
      BY <3>1, <3>3 DEF OrderInv, LoadsInOrder
    <3> QED BY <3>1, <3>2, <3>4, <3>5 DEF OrderInv
  <2>2. CASE NarrowNext
    BY <2>2, StoreStep, LoadStep DEF NarrowNext
  <2> QED BY <2>1, <2>2
<1>3. OrderInv => InOrder
  BY DEF OrderInv, InOrder, MemoryInOrder, LoadsInOrder
<1> QED BY <1>1, <1>2, <1>3, PTL DEF NarrowSpec

-----------------------------------------------------------------------------
(* Narrow loads.                                                            *)

(* A byte, two, three and four.                                             *)
LEMMA BytePowers ==
  LET p == 2^ByteBits
  IN  /\ ByteBits \in Nat \ {0}
      /\ \A k \in 0..(4 * ByteBits) : 2^k \in Nat \ {0}
      /\ 2^0 = 1 /\ 2^1 = 2 /\ \E h \in Nat \ {0} : p = 2 * h
      /\ 2^(2 * ByteBits) = p * p /\ 2^(3 * ByteBits) = (p * p) * p
      /\ 2^(4 * ByteBits) = (p * p) * (p * p)
<1> DEFINE B == ByteBits
           p == 2^B
<1>1. B \in Nat \ {0} /\ PowersDouble(4 * B) /\ 4 * B \in Nat
  BY ByteAssumption, WordPowers
<1>2. \A k \in 0..(4 * B) : 2^k \in Nat \ {0}
  <2>1. \A k \in 0..(4 * B) : 2^k \in Nat /\ 2^k > k
    BY <1>1, PowerPositive
  <2> QED BY <2>1
<1>3. 2^0 = 1 /\ 2^1 = 2
  <2>1. 2^0 = 1 /\ 2^(0 + 1) = 2 * 2^0
    BY <1>1 DEF PowersDouble
  <2> QED BY <2>1
<1>4. p = 2 * 2^(B - 1) /\ 2^(B - 1) \in Nat \ {0}
  <2>1. B - 1 \in 0..(4 * B - 1) /\ B - 1 \in 0..(4 * B) /\ (B - 1) + 1 = B
    BY <1>1
  <2> QED BY <1>1, <1>2, <2>1 DEF PowersDouble
<1>5. 2^(2 * B) = p * p
  <2>1. B + B = 2 * B /\ B + B =< 4 * B /\ B \in Nat
    BY <1>1
  <2>2. 2^(B + B) = p * p
    BY <1>1, <2>1, PowerAdds
  <2> QED BY <2>1, <2>2
<1>6. 2^(3 * B) = (p * p) * p
  <2>1. 2 * B + B = 3 * B /\ 2 * B + B =< 4 * B /\ B \in Nat /\ 2 * B \in Nat
    BY <1>1
  <2>2. 2^(2 * B + B) = 2^(2 * B) * p
    BY <1>1, <2>1, PowerAdds
  <2> QED BY <1>5, <2>1, <2>2
<1>7. 2^(4 * B) = (p * p) * (p * p)
  <2>1. 2 * B + 2 * B = 4 * B /\ 2 * B + 2 * B =< 4 * B /\ 2 * B \in Nat
    BY <1>1
  <2>2. 2^(2 * B + 2 * B) = 2^(2 * B) * 2^(2 * B)
    BY <1>1, <2>1, PowerAdds
  <2> QED BY <1>5, <2>1, <2>2
<1> QED BY <1>1, <1>2, <1>3, <1>4, <1>5, <1>6, <1>7

(* Two values that are both what was last written to a byte are the same,   *)
(* and such a value is a byte.                                              *)
LEMMA LastIsOne ==
  ASSUME block \in Blocks, NEW S \in SUBSET Instructions, NEW b, NEW before,
         before \in Words(ByteBits), NEW u, LastWritten(u, before, S, b)
  PROVE  /\ u \in Words(ByteBits)
         /\ \A v : LastWritten(v, before, S, b) => v = u
<1>1. CASE \A o \in S : b \notin Writes(o)
  BY <1>1 DEF LastWritten
<1>2. CASE \E o \in S : b \in Writes(o)
  <2> DEFINE Left == {Len(block) - Place(o) : o \in {p \in S : b \in Writes(p)}}
  <2>1. \A o \in Instructions : Place(o) \in 1..Len(block)
    <3> TAKE o \in Instructions
    <3>1. PICK k \in DOMAIN block : \E part \in Parts(block[k]) : o = <<k, part, block[k]>>
      BY DEF Instructions
    <3>2. Place(o) = k
      BY <3>1 DEF Place
    <3>3. block \in Seq(Accesses)
      BY BlocksAssumption
    <3> QED BY <3>1, <3>2, <3>3
  <2>2. Len(block) \in Nat
    BY BlocksAssumption
  <2>3. Left \in SUBSET Nat /\ Left # {}
    BY <1>2, <2>1, <2>2
  <2>4. PICK l \in Left : \A m \in Left : l =< m
    <3> HIDE DEF Left
    <3> QED BY <2>3, LeastNumber
  <2>5. PICK o \in S : b \in Writes(o) /\ l = Len(block) - Place(o)
    BY <2>4
  <2>6. ASSUME NEW p \in S, b \in Writes(p) PROVE Place(p) =< Place(o)
    <3>1. l =< Len(block) - Place(p)
      BY <2>4, <2>6
    <3>2. Place(p) \in 1..Len(block) /\ Place(o) \in 1..Len(block)
      BY <2>1
    <3> QED BY <2>2, <2>5, <3>1, <3>2
  <2>7. \A v : LastWritten(v, before, S, b) => v = Meant(o, b)
    BY <2>5, <2>6 DEF LastWritten
  <2>8. Meant(o, b) \in Words(ByteBits)
    <3>1. /\ Acc(o) \in Accesses /\ Place(o) \in Nat /\ Part(o) \in {0, 1}
          /\ (Whole(Acc(o)) => Part(o) = 0)
      BY InstructionFacts
    <3>2. Acc(o).val \in Nat /\ Acc(o).addr \in Nat
      BY <3>1, MemoryAssumption DEF Accesses, Addresses
    <3>3. b - Acc(o).addr \in 0..3
      BY <2>5, <3>1, <3>2 DEF Writes, At
    <3> DEFINE j == b - Acc(o).addr
    <3>4. ByteBits * j \in 0..(4 * ByteBits)
      <4> HIDE DEF j
      <4> QED BY <3>3, BytePowers DEF j
    <3>5. 2^(ByteBits * j) \in Nat \ {0} /\ 2^ByteBits \in Nat \ {0}
      <4>1. ByteBits \in 0..(4 * ByteBits)
        BY BytePowers
      <4> HIDE DEF j
      <4> QED BY <3>4, <4>1, BytePowers
    <3>6. Meant(o, b) = (Acc(o).val \div 2^(ByteBits * j)) % 2^ByteBits
      BY DEF Meant, Low, LShr
    <3> DEFINE k == Acc(o).val \div 2^(ByteBits * j)
    <3>7. k \in Nat
      <4> HIDE DEF j
      <4> QED BY <3>2, <3>5, Division
    <3> DEFINE p == 2^ByteBits
    <3>8. p \in Nat \ {0}
      BY <3>5
    <3> HIDE DEF k, j, p
    <3>9. k \in Int
      BY <3>7
    <3>10. k % p \in 0..(p - 1)
      BY <3>8, <3>9, Remainders
    <3> QED BY <3>6, <3>10 DEF Words, k, p
  <2> QED BY <2>7, <2>8
<1> QED BY <1>1, <1>2

(* Every byte that a load has read is the one the program's order shows it. *)
LEMMA WordSeen ==
  ASSUME OrderInv, NEW o \in done, ~IsStore(o), NEW j \in 0..3
  PROVE  /\ words[o][j] = ByteSeen(Place(o), Base(o) + j)
         /\ words[o][j] \in Words(ByteBits)
<1>1. block \in Blocks /\ start \in Contents /\ o \in Instructions
  BY DEF OrderInv
<1>2. Base(o) + j \in Addresses
  BY <1>1, LoadDeclared
<1>3. start[Base(o) + j] \in Words(ByteBits)
  BY <1>1, <1>2, ContentsAssumption
<1>4. LastWritten(words[o][j], start[Base(o) + j], Earlier(Place(o)), Base(o) + j)
  BY DEF OrderInv, LoadsInOrder
<1>5. Earlier(Place(o)) \in SUBSET Instructions
  BY DEF Earlier
<1> DEFINE seen(v) == LastWritten(v, start[Base(o) + j], Earlier(Place(o)), Base(o) + j)
<1>6. words[o][j] \in Words(ByteBits) /\ \A v : seen(v) => v = words[o][j]
  BY <1>1, <1>3, <1>4, <1>5, LastIsOne
<1>7. ByteSeen(Place(o), Base(o) + j) = CHOOSE v \in Words(ByteBits) : seen(v)
  BY DEF ByteSeen
<1>8. seen(words[o][j])
  BY <1>4
<1> HIDE DEF seen
<1> QED BY <1>6, <1>7, <1>8

(* The number with four digits in base p, and what division finds in it.    *)
FourDigits(v, p, a, b, c, e) == v = a + b * p + c * (p * p) + e * ((p * p) * p)
DigitsFound(v, p, a, b, c, e) ==
  /\ v \in 0..((p * p) * (p * p) - 1)
  /\ v % p = a /\ v % (p * p) = a + b * p
  /\ (v \div p) % p = b
  /\ (v \div (p * p)) % p = c /\ (v \div (p * p)) % (p * p) = c + e * p
  /\ (v \div ((p * p) * p)) % p = e
  /\ v \div p = (c + e * p) * p + b
  /\ v \div (p * p) = e * p + c
  /\ v \div ((p * p) * p) = e
  /\ v = ((c + e * p) * p + b) * p + a

(* The digits of a number of four are found by dividing it.                 *)
LEMMA Digits ==
  ASSUME NEW p \in Nat \ {0}, NEW a \in 0..(p - 1), NEW b \in 0..(p - 1),
         NEW c \in 0..(p - 1), NEW e \in 0..(p - 1), NEW v, FourDigits(v, p, a, b, c, e)
  PROVE  DigitsFound(v, p, a, b, c, e)
<1> USE DEF FourDigits
<1> SUFFICES /\ v \in 0..((p * p) * (p * p) - 1)
             /\ v % p = a /\ v % (p * p) = a + b * p
             /\ (v \div p) % p = b
             /\ (v \div (p * p)) % p = c /\ (v \div (p * p)) % (p * p) = c + e * p
             /\ (v \div ((p * p) * p)) % p = e
             /\ v \div p = (c + e * p) * p + b
             /\ v \div (p * p) = e * p + c
             /\ v \div ((p * p) * p) = e
             /\ v = ((c + e * p) * p + b) * p + a
  BY DEF DigitsFound
<1>1. v = ((c + e * p) * p + b) * p + a
  BY SMT
<1>2. c + e * p \in Nat /\ (c + e * p) * p + b \in Nat /\ v \in Nat
  BY <1>1
<1>3. v \div p = (c + e * p) * p + b /\ v % p = a
  BY <1>1, <1>2, DivUnique
<1>4. ((c + e * p) * p + b) % p = b
  BY <1>2, DivUnique
<1>5. ASSUME NEW k \in 0..(p - 1), NEW l \in 0..(p - 1) PROVE k + l * p \in 0..(p * p - 1)
  <2>1. (l + 1) * p =< p * p
    BY TimesMonotone
  <2>2. (l + 1) * p = l * p + p /\ l * p \in Nat /\ p * p \in Nat
    OBVIOUS
  <2> QED BY <2>1, <2>2
<1>6. v \div (p * p) = c + e * p /\ v % (p * p) = a + b * p
  <2>1. v = (c + e * p) * (p * p) + (a + b * p)
    BY SMT
  <2>2. a + b * p \in 0..(p * p - 1) /\ p * p \in Nat \ {0}
    BY <1>5
  <2> DEFINE k == c + e * p
             l == a + b * p
             t == p * p
  <2>3. v = k * t + l /\ k \in Nat /\ l \in Nat /\ l < t /\ t \in Nat \ {0}
    BY <1>2, <2>1, <2>2
  <2> HIDE DEF k, l, t
  <2>4. v \div t = k /\ v % t = l
    BY <1>2, <2>3, DivUnique
  <2> QED BY <2>4 DEF k, l, t
<1>7. (c + e * p) % p = c /\ (c + e * p) \div p = e
  <2>1. c + e * p = e * p + c
    OBVIOUS
  <2> QED BY <1>2, <2>1, DivUnique
<1>8. (c + e * p) % (p * p) = c + e * p
  <2>1. c + e * p \in 0..(p * p - 1) /\ p * p \in Nat
    BY <1>5
  <2> DEFINE k == c + e * p
             t == p * p
  <2>2. k \in Nat /\ t \in Nat /\ k < t
    BY <2>1
  <2> HIDE DEF k, t
  <2>3. k % t = k
    BY <2>2, ModSmall
  <2> QED BY <2>3 DEF k, t
<1>9. v \div ((p * p) * p) = e
  <2>1. v = e * ((p * p) * p) + (c * (p * p) + (a + b * p))
    BY SMT
  <2>2. c * (p * p) + (a + b * p) < (p * p) * p
    <3>1. a + b * p \in 0..(p * p - 1) /\ p * p \in Nat
      BY <1>5
    <3>2. (c + 1) * (p * p) =< p * (p * p)
      BY <3>1, TimesMonotone
    <3>3. (c + 1) * (p * p) = c * (p * p) + p * p /\ p * (p * p) = (p * p) * p
          /\ c * (p * p) \in Nat
      BY SMT
    <3> QED BY <3>1, <3>2, <3>3
  <2> DEFINE l == c * (p * p) + (a + b * p)
             t == (p * p) * p
  <2>3. v = e * t + l /\ l \in Nat /\ l < t /\ t \in Nat \ {0}
    BY <2>1, <2>2
  <2> HIDE DEF l, t
  <2>4. v \div t = e
    BY <1>2, <2>3, DivUnique
  <2> QED BY <2>4 DEF t
<1>10. e % p = e
  BY ModSmall
<1>11. v < (p * p) * (p * p)
  <2> DEFINE k == c + e * p
             l == a + b * p
             t == p * p
  <2>1. k \in 0..(t - 1) /\ l \in 0..(t - 1) /\ t \in Nat /\ v = k * t + l
    <3>1. v = (c + e * p) * (p * p) + (a + b * p)
      BY SMT
    <3> QED BY <1>5, <3>1
  <2> HIDE DEF k, l, t
  <2>2. (k + 1) * t =< t * t
    BY <2>1, TimesMonotone
  <2>3. (k + 1) * t = k * t + t /\ k * t \in Nat /\ t * t \in Nat
    BY <2>1
  <2>4. v < t * t
    BY <2>1, <2>2, <2>3
  <2> QED BY <2>4 DEF t
<1>12. v \in 0..((p * p) * (p * p) - 1)
  BY <1>2, <1>11
<1> QED BY <1>1, <1>3, <1>4, <1>6, <1>7, <1>8, <1>9, <1>10, <1>12

(* The field of a narrow load in the word around it.                        *)
LEMMA FieldBytes ==
  ASSUME OrderInv, NEW o \in done, ~IsStore(o), ~Whole(Acc(o))
  PROVE  LET seen(b) == ByteSeen(Place(o), b)
         IN  /\ Field(o, ByteBits) = seen(At(o)) /\ seen(At(o)) \in Words(ByteBits)
             /\ Field(o, 1) = seen(At(o)) % 2
             /\ At(o) % 4 \in {0, 2} =>
                  /\ Field(o, 2 * ByteBits) = seen(At(o)) + seen(At(o) + 1) * 2^ByteBits
                  /\ seen(At(o) + 1) \in Words(ByteBits)
<1> DEFINE p == 2^ByteBits
           j == At(o) % 4
           seen(b) == ByteSeen(Place(o), b)
           a == words[o][0]
           b == words[o][1]
           c == words[o][2]
           e == words[o][3]
           v == a + b * p + c * (p * p) + e * ((p * p) * p)
<1>1. /\ p \in Nat \ {0} /\ 2^0 = 1 /\ 2^1 = 2 /\ ByteBits \in Nat \ {0}
      /\ 2^(2 * ByteBits) = p * p /\ 2^(3 * ByteBits) = (p * p) * p
  <2>1. ByteBits \in 0..(4 * ByteBits)
    BY BytePowers
  <2> QED BY <2>1, BytePowers
<1>2. PICK h \in Nat \ {0} : p = 2 * h
  BY BytePowers
<1>3. At(o) \in Nat /\ o \in Instructions
  BY InstructionFacts, MemoryAssumption DEF OrderInv, Addresses
<1>4. j \in 0..3 /\ Base(o) + j = At(o)
  <2>1. Base(o) = At(o) - j
    BY DEF Base
  <2>2. j \in 0..3
    BY <1>3, SMT
  <2> HIDE DEF j
  <2> QED BY <1>3, <2>1, <2>2
<1>5. \A k \in 0..3 : words[o][k] = seen(Base(o) + k) /\ words[o][k] \in 0..(p - 1)
  BY WordSeen DEF Words
<1>6. WordOf(words[o]) = v
  BY <1>1 DEF WordOf
<1>7. \A n_ : Field(o, n_) = (v \div 2^(ByteBits * j)) % 2^n_
  BY <1>6 DEF Field, Low, LShr
<1>8. a \in 0..(p - 1) /\ b \in 0..(p - 1) /\ c \in 0..(p - 1) /\ e \in 0..(p - 1)
  BY <1>5
<1> HIDE DEF p, j, seen, a, b, c, e
<1>9. DigitsFound(v, p, a, b, c, e) /\ v \in Nat
  <2>1. FourDigits(v, p, a, b, c, e)
    BY DEF FourDigits
  <2> HIDE DEF v
  <2>2. DigitsFound(v, p, a, b, c, e)
    BY <1>1, <1>8, <2>1, Digits
  <2> DEFINE m == (p * p) * (p * p) - 1
  <2>3. v \in 0..m
    BY <2>2 DEF DigitsFound
  <2> HIDE DEF m
  <2>4. v \in Int /\ 0 =< v
    BY <2>3, SMT
  <2> QED BY <2>2, <2>4
<1>10. \A t, s \in Nat : (t * p + s) % 2 = s % 2
  BY <1>2, LowestBit
<1> HIDE DEF v
<1>11. CASE j = 0
  <2>1. 2^(ByteBits * j) = 1
    <3>1. ByteBits * j = 0
      BY <1>1, <1>11
    <3> QED BY <1>1, <3>1
  <2>2. \A n_ : Field(o, n_) = v % 2^n_
    <3>1. v \div 1 = v
      BY <1>9 DEF DigitsFound
    <3> QED BY <1>7, <2>1, <3>1
  <2>3. a = seen(At(o)) /\ b = seen(At(o) + 1)
    <3>1. Base(o) = At(o) /\ Base(o) + 0 = At(o)
      BY <1>3, <1>4, <1>11 DEF Base
    <3>2. words[o][0] = seen(Base(o) + 0) /\ words[o][1] = seen(Base(o) + 1)
      BY <1>5
    <3> QED BY <3>1, <3>2 DEF a, b
  <2>4. Field(o, 1) = a % 2
    <3>1. (c + e * p) * p + b \in Nat /\ a \in Nat
      BY <1>1, <1>8
    <3>2. (((c + e * p) * p + b) * p + a) % 2 = a % 2
      BY <1>10, <3>1
    <3> QED BY <1>1, <1>9, <2>2, <3>2 DEF DigitsFound
  <2>5. Field(o, ByteBits) = a /\ Field(o, 2 * ByteBits) = a + b * p
    BY <1>1, <1>9, <2>2 DEF DigitsFound, p
  <2> QED BY <1>8, <2>3, <2>4, <2>5 DEF p, seen, Words
<1>12. CASE j = 1
  <2>1. 2^(ByteBits * j) = p
    <3>1. ByteBits * j = ByteBits
      BY <1>1, <1>12
    <3> QED BY <3>1 DEF p
  <2>2. b = seen(At(o))
    <3>1. Base(o) + 1 = At(o)
      BY <1>4, <1>12
    <3>2. words[o][1] = seen(Base(o) + 1)
      BY <1>5
    <3> QED BY <3>1, <3>2 DEF b
  <2>3. Field(o, ByteBits) = b
    BY <1>7, <1>9, <2>1 DEF DigitsFound, p
  <2>4. Field(o, 1) = b % 2
    <3>1. c + e * p \in Nat /\ b \in Nat
      BY <1>1, <1>8
    <3>2. ((c + e * p) * p + b) % 2 = b % 2
      BY <1>10, <3>1
    <3> QED BY <1>1, <1>7, <1>9, <2>1, <3>2 DEF DigitsFound
  <2>5. ~(At(o) % 4 \in {0, 2})
    BY <1>12 DEF j
  <2> QED BY <1>8, <2>2, <2>3, <2>4, <2>5 DEF p, seen, Words
<1>13. CASE j = 2
  <2>1. 2^(ByteBits * j) = p * p
    <3>1. ByteBits * j = 2 * ByteBits
      BY <1>1, <1>13
    <3> QED BY <1>1, <3>1
  <2>2. c = seen(At(o)) /\ e = seen(At(o) + 1)
    <3>1. Base(o) + 2 = At(o) /\ Base(o) + 3 = At(o) + 1
      <4>1. Base(o) \in Int
        BY <1>3 DEF Base
      <4> QED BY <1>4, <1>13, <4>1
    <3>2. words[o][2] = seen(Base(o) + 2) /\ words[o][3] = seen(Base(o) + 3)
      BY <1>5
    <3> QED BY <3>1, <3>2 DEF c, e
  <2>3. Field(o, ByteBits) = c /\ Field(o, 2 * ByteBits) = c + e * p
    BY <1>1, <1>7, <1>9, <2>1 DEF DigitsFound, p
  <2>4. Field(o, 1) = c % 2
    <3>1. e \in Nat /\ c \in Nat
      BY <1>8
    <3>2. (e * p + c) % 2 = c % 2
      BY <1>10, <3>1
    <3> QED BY <1>1, <1>7, <1>9, <2>1, <3>2 DEF DigitsFound
  <2> QED BY <1>8, <2>2, <2>3, <2>4 DEF p, seen, Words
<1>14. CASE j = 3
  <2>1. 2^(ByteBits * j) = (p * p) * p
    <3>1. ByteBits * j = 3 * ByteBits
      BY <1>1, <1>14
    <3> QED BY <1>1, <3>1
  <2>2. e = seen(At(o))
    <3>1. Base(o) + 3 = At(o)
      BY <1>4, <1>14
    <3>2. words[o][3] = seen(Base(o) + 3)
      BY <1>5
    <3> QED BY <3>1, <3>2 DEF e
  <2>3. Field(o, ByteBits) = e /\ Field(o, 1) = e % 2
    BY <1>1, <1>7, <1>9, <2>1 DEF DigitsFound, p
  <2>4. ~(At(o) % 4 \in {0, 2})
    BY <1>14 DEF j
  <2> QED BY <1>8, <2>2, <2>3, <2>4 DEF p, seen, Words
<1> QED BY <1>4, <1>11, <1>12, <1>13, <1>14

(* A whole word is its four bytes, each at its place.                       *)
LEMMA WholeWord ==
  ASSUME OrderInv, NEW o \in done, ~IsStore(o), Whole(Acc(o))
  PROVE  LET p == 2^ByteBits
             seen(b) == ByteSeen(Place(o), b)
         IN  /\ \A b \in 0..3 : seen(At(o) + b) \in 0..(p - 1)
             /\ FourDigits(WordOf(words[o]), p, seen(At(o) + 0), seen(At(o) + 1),
                           seen(At(o) + 2), seen(At(o) + 3))
<1> DEFINE p == 2^ByteBits
<1>1. 2^(2 * ByteBits) = p * p /\ 2^(3 * ByteBits) = (p * p) * p
  BY BytePowers
<1>2. Base(o) = At(o)
  BY DEF Base
<1>3. \A k \in 0..3 : words[o][k] = ByteSeen(Place(o), At(o) + k) /\ words[o][k] \in 0..(p - 1)
  BY <1>2, WordSeen DEF Words
<1>4. WordOf(words[o]) = words[o][0] + words[o][1] * p + words[o][2] * (p * p)
                         + words[o][3] * ((p * p) * p)
  BY <1>1 DEF WordOf
<1> QED BY <1>3, <1>4 DEF FourDigits

(* Shifted up to the sign bit and back down arithmetically, a field of t     *)
(* bits is the word of its signed value.                                    *)
LEMMA SignExtends ==
  ASSUME NEW t \in Nat \ {0}, NEW u \in Nat, t + u = WordBits, NEW z \in 0..(2^t - 1)
  PROVE  Sra(Shl(WordBits, z, u), u) = Word(WordBits, Signed(t, z))
<1> DEFINE m == 2^t
           s == 2^u
           h == 2^(t - 1)
           w == 2^WordBits
<1>1. WordBits \in Nat /\ t \in 0..WordBits /\ u \in 0..WordBits /\ t - 1 \in 0..WordBits
  BY ByteAssumption DEF WordBits
<1>2. PowersDouble(WordBits)
  BY WordPowers DEF WordBits
<1>3. w = m * s
  BY <1>1, <1>2, PowerAdds
<1>4. m \in Nat \ {0} /\ s \in Nat \ {0} /\ h \in Nat \ {0} /\ w \in Nat \ {0}
  BY <1>1, <1>2, PowerPositive
<1>5. 2^(WordBits - 1) = h * s
  <2>1. t - 1 + u = WordBits - 1 /\ t - 1 \in Nat /\ t - 1 + u =< WordBits
    BY <1>1
  <2> QED BY <1>1, <1>2, <2>1, PowerAdds
<1>6. Shl(WordBits, z, u) = z * s
  <2>1. WordBits - u = t
    BY <1>1
  <2>2. z \in 0..(m - 1)
    OBVIOUS
  <2>3. z % 2^(WordBits - u) = z % m
    BY <2>1
  <2> HIDE DEF m
  <2>4. z % m = z
    BY <1>4, <2>2, SMT
  <2> QED BY <2>3, <2>4 DEF Shl
<1>7. z \in Nat
  <2>1. z \in 0..(m - 1)
    OBVIOUS
  <2> HIDE DEF m
  <2> QED BY <2>1
<1>8. Signed(t, z) = IF z < h THEN z ELSE z - m
  BY DEF Signed
<1>9. Signed(WordBits, z * s) = IF z * s < h * s THEN z * s ELSE z * s - m * s
  BY <1>3, <1>5 DEF Signed
<1> HIDE DEF m, s, h, w
<1>10. z < h <=> z * s < h * s
  <2>1. z < h => z * s < h * s
    <3> SUFFICES ASSUME z < h PROVE z * s < h * s
      OBVIOUS
    <3>1. z + 1 =< h /\ (z + 1) * s =< h * s /\ (z + 1) * s = z * s + s
      BY <1>4, <1>7, TimesMonotone
    <3>2. z * s \in Nat /\ h * s \in Nat
      BY <1>4, <1>7
    <3> QED BY <1>4, <3>1, <3>2
  <2>2. ~(z < h) => ~(z * s < h * s)
    <3> SUFFICES ASSUME h =< z PROVE ~(z * s < h * s)
      BY <1>4, <1>7
    <3>1. h * s =< z * s
      BY <1>4, <1>7, TimesMonotone
    <3>2. z * s \in Nat /\ h * s \in Nat
      BY <1>4, <1>7
    <3> QED BY <3>1, <3>2
  <2> QED BY <2>1, <2>2
<1>11. Signed(WordBits, z * s) = Signed(t, z) * s /\ Signed(t, z) \in Int
  <2>1. (z - m) * s = z * s - m * s /\ z - m \in Int
    BY <1>4, <1>7
  <2> QED BY <1>7, <1>8, <1>9, <1>10, <2>1
<1>12. (Signed(t, z) * s) \div s = Signed(t, z)
  BY <1>4, <1>11, Multiple
<1> QED BY <1>6, <1>11, <1>12 DEF Sra, s

(* Two bytes are less than any number of two digits.                        *)
LEMMA TwoDigits ==
  ASSUME NEW p \in Nat \ {0}, NEW a \in 0..(p - 1), NEW b \in 0..(p - 1)
  PROVE  a + b * p \in 0..(p * p - 1) /\ (a + b * p) % (p * p) = a + b * p
<1>1. (b + 1) * p =< p * p /\ (b + 1) * p = b * p + p /\ b * p \in Nat
  BY TimesMonotone
<1>2. p * p \in Nat \ {0}
  BY SMT
<1> DEFINE v == a + b * p
           m == p * p
<1>3. v \in 0..(m - 1) /\ m \in Nat \ {0}
  BY <1>1, <1>2
<1> HIDE DEF v, m
<1>4. v % m = v
  BY <1>3, SMT
<1> QED BY <1>3, <1>4 DEF v, m

(* What a load takes from the words it has read are the bytes at its        *)
(* address, in one word or across two.                                      *)
LEMMA RawSeen ==
  ASSUME OrderInv, NEW k \in DOMAIN block, Loaded(k)
  PROVE  Raw(k) = FieldSeen(k) /\ FieldSeen(k) \in 0..(2^(block[k].bits) - 1)
<1> DEFINE a == block[k]
           o == <<k, 0, a>>
           half == <<k, 1, a>>
           p == 2^ByteBits
           s(j) == ByteSeen(k, a.addr + j)
<1>1. a \in Accesses /\ block \in Seq(Accesses) /\ a.kind = "load"
  BY BlocksAssumption DEF OrderInv, Loaded
<1>2. /\ a.addr \in Nat /\ a.align \in {1, 2, 4} /\ a.addr % a.align = 0
      /\ a.bits \in {1, ByteBits, 2 * ByteBits, 4 * ByteBits}
  <2>1. a.addr % a.align = 0
    BY BlocksAssumption DEF OrderInv
  <2> QED BY <1>1, <2>1, MemoryAssumption DEF Accesses, Addresses
<1>3. /\ o \in done /\ Place(o) = k /\ Acc(o) = a /\ Part(o) = 0 /\ ~IsStore(o) /\ At(o) = a.addr
  <2>1. o \in Instructions
    BY DEF Instructions, Parts
  <2>2. Place(o) = k /\ Acc(o) = a /\ Part(o) = 0
    BY DEF Place, Acc, Part
  <2>3. o \in done
    BY <2>1, <2>2 DEF Loaded
  <2>4. ~IsStore(o)
    BY <1>1, <2>2 DEF IsStore
  <2>5. At(o) = a.addr
    BY <1>2, <2>2 DEF At
  <2> QED BY <2>2, <2>3, <2>4, <2>5
<1>4. /\ p \in Nat \ {0} /\ 2^0 = 1 /\ 2^1 = 2 /\ ByteBits \in Nat \ {0}
      /\ 2^(2 * ByteBits) = p * p /\ 2^(3 * ByteBits) = (p * p) * p
      /\ 2^(4 * ByteBits) = (p * p) * (p * p)
  <2>1. ByteBits \in 0..(4 * ByteBits)
    BY BytePowers
  <2> QED BY <2>1, BytePowers
<1>5. /\ Size(a) = IF Whole(a) THEN 4 ELSE IF a.bits = 2 * ByteBits THEN 2 ELSE 1
      /\ ByteBits * 0 = 0 /\ ByteBits * 1 = ByteBits
      /\ ByteBits * 2 = 2 * ByteBits /\ ByteBits * 3 = 3 * ByteBits
  BY <1>4 DEF Size, Whole
<1>6. FieldSeen(k) =
        (s(0) * 1 + (IF Size(a) > 1 THEN s(1) * p ELSE 0)
         + (IF Size(a) > 2 THEN s(2) * (p * p) + s(3) * ((p * p) * p) ELSE 0)) % 2^(a.bits)
  BY <1>4, <1>5 DEF FieldSeen
<1>7. CASE Whole(a)
  <2> DEFINE v == WordOf(words[o])
             m == (p * p) * (p * p)
  <2>1. /\ \A b \in 0..3 : s(b) \in 0..(p - 1)
        /\ FourDigits(v, p, s(0), s(1), s(2), s(3))
    BY <1>3, <1>7, WholeWord
  <2>2. s(0) \in 0..(p - 1) /\ s(1) \in 0..(p - 1) /\ s(2) \in 0..(p - 1) /\ s(3) \in 0..(p - 1)
    BY <2>1
  <2>3. Raw(k) = v
    BY <1>7 DEF Raw
  <2>4. Size(a) = 4 /\ 2^(a.bits) = m
    BY <1>4, <1>5, <1>7 DEF Whole
  <2>5. FieldSeen(k) = (s(0) * 1 + s(1) * p + (s(2) * (p * p) + s(3) * ((p * p) * p))) % m
    BY <1>6, <2>4
  <2> HIDE DEF p, s, v, m
  <2>6. DigitsFound(v, p, s(0), s(1), s(2), s(3))
    BY <1>4, <2>1, <2>2, Digits
  <2>7. v \in 0..(m - 1) /\ m \in Nat \ {0}
    <3>1. v \in 0..(m - 1)
      BY <2>6 DEF DigitsFound, m
    <3>2. m \in Nat \ {0}
      BY <1>4, SMT DEF m
    <3> QED BY <3>1, <3>2
  <2>8. s(0) * 1 + s(1) * p + (s(2) * (p * p) + s(3) * ((p * p) * p)) = v
    <3>1. v = s(0) + s(1) * p + s(2) * (p * p) + s(3) * ((p * p) * p)
      BY <2>1 DEF FourDigits
    <3>2. /\ s(0) \in Int /\ s(1) * p \in Int /\ s(2) * (p * p) \in Int
          /\ s(3) * ((p * p) * p) \in Int
      BY <1>4, <2>2
    <3> QED BY <3>1, <3>2
  <2>9. v % m = v
    BY <2>7, SMT
  <2> QED BY <2>3, <2>4, <2>5, <2>7, <2>8, <2>9
<1>8. CASE ~Whole(a)
  <2>1. /\ Field(o, ByteBits) = s(0) /\ s(0) \in 0..(p - 1)
        /\ Field(o, 1) = s(0) % 2
        /\ a.addr % 4 \in {0, 2} =>
             /\ Field(o, 2 * ByteBits) = s(0) + s(1) * p
             /\ s(1) \in 0..(p - 1)
    <3>1. a.addr + 0 = a.addr
      BY <1>2
    <3> QED BY <1>3, <1>8, <3>1, FieldBytes DEF Words
  <2>2. s(0) \in Nat /\ s(0) * 1 = s(0)
    <3> HIDE DEF p, s
    <3> QED BY <1>4, <2>1
  <2>3. CASE a.bits = 1 \/ a.bits = ByteBits
    <3>1. Size(a) = 1 /\ a.bits # 2 * ByteBits
      BY <1>4, <1>5, <1>8, <2>3
    <3>2. FieldSeen(k) = s(0) % 2^(a.bits)
      <4>1. FieldSeen(k) = (s(0) * 1 + 0 + 0) % 2^(a.bits)
        BY <1>6, <3>1
      <4>2. s(0) * 1 + 0 + 0 = s(0)
        BY <2>2
      <4> QED BY <4>1, <4>2
    <3>3. Raw(k) = Field(o, a.bits)
      BY <1>8, <3>1 DEF Raw, Split
    <3> HIDE DEF s, p
    <3>4. CASE a.bits = 1
      <4>1. s(0) % 2 \in 0..1
        BY <2>2, SMT
      <4> QED BY <1>4, <2>1, <3>2, <3>3, <3>4, <4>1
    <3>5. CASE a.bits = ByteBits
      <4>1. s(0) % p = s(0)
        BY <1>4, <2>1, SMT
      <4>2. 2^(a.bits) = p
        BY <3>5 DEF p
      <4> QED BY <2>1, <3>2, <3>3, <3>5, <4>1, <4>2
    <3> QED BY <2>3, <3>4, <3>5
  <2>4. CASE a.bits = 2 * ByteBits
    <3>1. Size(a) = 2 /\ 2^(a.bits) = p * p
      BY <1>4, <1>5, <1>8, <2>4
    <3>2. s(1) \in 0..(p - 1) /\ Raw(k) = s(0) + s(1) * p
      <4>1. CASE a.align = 1
        <5>1. Split(a)
          BY <2>4, <4>1 DEF Split
        <5>2. /\ half \in done /\ Place(half) = k /\ Acc(half) = a /\ Part(half) = 1
              /\ ~IsStore(half) /\ At(half) = a.addr + 1
          <6>1. half \in Instructions
            BY <5>1 DEF Instructions, Parts
          <6>2. Place(half) = k /\ Acc(half) = a /\ Part(half) = 1
            BY DEF Place, Acc, Part
          <6>3. half \in done
            BY <6>1, <6>2 DEF Loaded
          <6>4. ~IsStore(half) /\ At(half) = a.addr + 1
            BY <1>1, <6>2 DEF IsStore, At
          <6> QED BY <6>2, <6>3, <6>4
        <5>3. Field(half, ByteBits) = s(1) /\ s(1) \in 0..(p - 1)
          BY <1>8, <5>2, FieldBytes DEF Words
        <5>4. Raw(k) = s(0) + Shl(WordBits, s(1), ByteBits)
          BY <1>8, <2>1, <5>1, <5>3 DEF Raw
        <5>5. Shl(WordBits, s(1), ByteBits) = (s(1) % ((p * p) * p)) * p
          <6>1. WordBits - ByteBits = 3 * ByteBits
            BY <1>4 DEF WordBits
          <6> QED BY <1>4, <6>1 DEF Shl
        <5>6. s(1) % ((p * p) * p) = s(1)
          <6> HIDE DEF s, p
          <6> DEFINE m == (p * p) * p
          <6>1. m \in Nat \ {0} /\ p =< m
            <7>1. p * p \in Nat /\ 1 =< p * p
              BY <1>4, SMT
            <7>2. 1 * p =< (p * p) * p
              BY <1>4, <7>1, TimesMonotone
            <7> QED BY <1>4, <7>1, <7>2
          <6> HIDE DEF m
          <6>2. s(1) \in 0..(m - 1)
            BY <1>4, <5>3, <6>1
          <6>3. s(1) % m = s(1)
            BY <6>1, <6>2, SMT
          <6> QED BY <6>3 DEF m
        <5> QED BY <5>3, <5>4, <5>5, <5>6
      <4>2. CASE a.align # 1
        <5>1. ~Split(a)
          BY <1>1, <1>2, <4>2 DEF Split
        <5>2. a.addr % 4 \in {0, 2}
          <6>1. CASE a.align = 2
            <7>1. a.addr % 2 = 0
              BY <1>2, <6>1
            <7> QED BY <1>2, <7>1, SMT
          <6>2. CASE a.align = 4
            BY <1>2, <6>2
          <6> QED BY <1>2, <4>2, <6>1, <6>2
        <5>3. Raw(k) = Field(o, 2 * ByteBits)
          BY <1>8, <2>4, <5>1 DEF Raw
        <5> QED BY <2>1, <5>2, <5>3
      <4> QED BY <4>1, <4>2
    <3>3. FieldSeen(k) = (s(0) * 1 + s(1) * p + 0) % (p * p)
      BY <1>6, <3>1
    <3> HIDE DEF s, p
    <3>4. s(0) * 1 + s(1) * p + 0 = s(0) + s(1) * p
      BY <1>4, <2>2, <3>2
    <3>5. /\ s(0) + s(1) * p \in 0..(p * p - 1)
          /\ (s(0) + s(1) * p) % (p * p) = s(0) + s(1) * p
      BY <1>4, <2>1, <3>2, TwoDigits
    <3>6. FieldSeen(k) = s(0) + s(1) * p
      BY <3>3, <3>4, <3>5, Zenon
    <3> QED BY <3>1, <3>2, <3>5, <3>6, Zenon
  <2>5. a.bits # 4 * ByteBits
    BY <1>8 DEF Whole
  <2> QED BY <1>2, <2>3, <2>4, <2>5
<1> QED BY <1>7, <1>8
=============================================================================
