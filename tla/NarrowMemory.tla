---------------------------- MODULE NarrowMemory ----------------------------
(***************************************************************************)
(* Loads and stores narrower than a word, as MovISelLowering expands them  *)
(* for a machine whose loads are words. A narrow load reads the aligned    *)
(* word around its field and shifts the field out; a 16-bit store is two   *)
(* byte stores. What one access of the program touches is then more than   *)
(* it did, while the scheduler goes on reordering instructions as far as   *)
(* what each is declared to touch allows.                                  *)
(*                                                                         *)
(* A block is a sequence of accesses. An instruction of its expansion is a *)
(* triple <<place, part, access>>; they run in any order the scheduler may *)
(* choose. A volatile narrow access is declined by the lowering and does   *)
(* not compile, so that no block has one.                                  *)
(***************************************************************************)
EXTENDS MachineWord, Sequences

CONSTANTS
  ByteBits,      \* 8 in the code
  LastAddress,   \* memory is 0..LastAddress, whole words of 4 bytes
  Blocks,        \* the straight-line pieces of code
  Contents       \* what the memory may hold before one

Addresses == 0..LastAddress
Accesses ==
  [kind : {"load", "store"}, bits : {1, ByteBits, 2 * ByteBits, 4 * ByteBits},
   addr : Addresses, align : {1, 2, 4}, ext : {"zext", "sext"}, val : Nat]

(* Bytes of an access in memory; an i1 takes one. *)
Size(a) == IF a.bits = 4 * ByteBits THEN 4 ELSE IF a.bits = 2 * ByteBits THEN 2 ELSE 1

ASSUME ByteAssumption == ByteBits \in Nat \ {0}
ASSUME MemoryAssumption == LastAddress \in Nat /\ LastAddress % 4 = 3
ASSUME ContentsAssumption == Contents \subseteq [Addresses -> Words(ByteBits)]
ASSUME WordPowers == PowersDouble(4 * ByteBits)
ASSUME BlocksAssumption ==
  \A b \in Blocks :
    /\ b \in Seq(Accesses)
    /\ \A k \in DOMAIN b :
         b[k].addr % b[k].align = 0 /\ b[k].addr + Size(b[k]) - 1 \in Addresses

VARIABLES
  block,     \* the block that runs
  start,     \* the memory it found
  mem,       \* the memory now
  done,      \* the instructions that have been executed
  words      \* the word that each load instruction has read
memVars == <<block, start, mem, done, words>>

(* A 16-bit store, and a 16-bit load that may straddle two words, is split. *)
(* Mutant: only the store is.                                               *)
SplitStores(a) == a.bits = 2 * ByteBits /\ a.kind = "store"
Split(a) == a.bits = 2 * ByteBits /\ (a.kind = "store" \/ a.align < 2)
Parts(a) == IF Split(a) THEN {0, 1} ELSE {0}
Instructions == UNION {{<<k, part, block[k]>> : part \in Parts(block[k])} : k \in DOMAIN block}

Place(o) == o[1]
Part(o) == o[2]
Acc(o) == o[3]
IsStore(o) == Acc(o).kind = "store"
Whole(a) == a.bits = 4 * ByteBits
At(o) == Acc(o).addr + Part(o)

(* What an instruction touches: a store its bytes, a load a word, which for *)
(* a narrow load is the aligned one around it.                              *)
Writes(o) == IF ~IsStore(o) THEN {} ELSE IF Whole(Acc(o)) THEN At(o)..(At(o) + 3) ELSE {At(o)}
Base(o) == IF Whole(Acc(o)) THEN At(o) ELSE At(o) - (At(o) % 4)

(* What it is declared to touch. The word of a narrow load is declared to   *)
(* be anywhere (an empty MachinePointerInfo), as its distance from the      *)
(* field is not a constant.                                                 *)
(* Mutant: the second half of a store is declared without its offset.       *)
DeclaredHalf(o) ==
  IF Whole(Acc(o)) THEN At(o)..(At(o) + 3) ELSE IF IsStore(o) THEN {Acc(o).addr} ELSE Addresses
Declared(o) ==
  IF Whole(Acc(o)) THEN At(o)..(At(o) + 3) ELSE IF IsStore(o) THEN {At(o)} ELSE Addresses

(* The order the scheduler has to keep: the two halves of a store are       *)
(* chained, and accesses of which one stores stay in order if what they are *)
(* declared to touch may overlap.                                           *)
Before(o, p) ==
  \/ Place(o) = Place(p) /\ Part(o) < Part(p) /\ IsStore(o)
  \/ /\ Place(o) < Place(p) /\ (IsStore(o) \/ IsStore(p))
     /\ Declared(o) \cap Declared(p) # {}

Ready(o) ==
  /\ o \in Instructions \ done
  /\ \A p \in Instructions : Before(p, o) => p \in done

(* The byte that goes to address b: of the whole value, or the lowest of    *)
(* the value, which has been shifted down for the second half.              *)
Stored(o, b) ==
  LET val == Acc(o).val
  IN IF Whole(Acc(o)) THEN Low(LShr(val, ByteBits * (b - At(o))), ByteBits)
     ELSE Low(LShr(val, ByteBits * Part(o)), ByteBits)

NarrowInit ==
  /\ block \in Blocks /\ start \in Contents
  /\ mem = start /\ done = {}
  /\ words = [o \in Instructions |-> [j \in 0..3 |-> 0]]

ExecuteStore(o) ==
  /\ Ready(o) /\ IsStore(o)
  /\ mem' = [b \in Addresses |-> IF b \in Writes(o) THEN Stored(o, b) ELSE mem[b]]
  /\ done' = done \cup {o}
  /\ UNCHANGED <<block, start, words>>

ExecuteLoad(o) ==
  /\ Ready(o) /\ ~IsStore(o)
  /\ words' = [words EXCEPT ![o] = [j \in 0..3 |-> mem[Base(o) + j]]]
  /\ done' = done \cup {o}
  /\ UNCHANGED <<block, start, mem>>

NarrowNext == \E o \in Instructions : ExecuteStore(o) \/ ExecuteLoad(o)
NarrowSpec == NarrowInit /\ [][NarrowNext]_memVars

(* What a load makes of its words: the field shifted down to bit 0 and      *)
(* masked, two bytes put together again (disjoint, so that | is +), and for *)
(* a sign extension a shift up and an arithmetic shift down.                *)
WordBits == 4 * ByteBits
WordOf(w) == w[0] + w[1] * 2^ByteBits + w[2] * 2^(2 * ByteBits) + w[3] * 2^(3 * ByteBits)
Field(o, bits) == Low(LShr(WordOf(words[o]), ByteBits * (At(o) % 4)), bits)
Raw(k) ==
  LET a == block[k]
  IN IF Whole(a) THEN WordOf(words[<<k, 0, a>>])
     ELSE IF Split(a) THEN Field(<<k, 0, a>>, ByteBits)
                           + Shl(WordBits, Field(<<k, 1, a>>, ByteBits), ByteBits)
     ELSE Field(<<k, 0, a>>, a.bits)
Sra(x, k) == Word(WordBits, Signed(WordBits, x) \div 2^k)
LoadResult(k) ==
  LET unused == WordBits - block[k].bits
  IN IF block[k].ext = "sext" /\ ~Whole(block[k]) THEN Sra(Shl(WordBits, Raw(k), unused), unused)
     ELSE Raw(k)

-----------------------------------------------------------------------------
(* The byte that store o is meant to leave at address b of its range.       *)
Meant(o, b) == Low(LShr(Acc(o).val, ByteBits * (b - Acc(o).addr)), ByteBits)

(* Value m is what the instructions S, executed in the program's order,     *)
(* leave at address b: what the last of them to write it meant, or what was *)
(* there before.                                                            *)
LastWritten(m, before, S, b) ==
  /\ (\A o \in S : b \notin Writes(o)) => m = before
  /\ \A o \in S :
       b \in Writes(o) /\ (\A p \in S : b \in Writes(p) => Place(p) =< Place(o)) => m = Meant(o, b)

(* However the scheduler interleaves the instructions, memory ends up as    *)
(* the program's order leaves it, and every word a load reads is the one it *)
(* would have read: no store is lost, and no load runs ahead of a store to  *)
(* any byte of its word.                                                    *)
Earlier(k) == {p \in Instructions : Place(p) < k}
InOrder ==
  /\ done = Instructions => \A b \in Addresses : LastWritten(mem[b], start[b], Instructions, b)
  /\ \A o \in done : ~IsStore(o) =>
       \A j \in 0..3 : LastWritten(words[o][j], start[Base(o) + j], Earlier(Place(o)), Base(o) + j)

(* A narrow load returns its field, whether or not that straddles two words *)
(* and whichever byte of its word it starts at, extended as the program     *)
(* asks: as an integer, the bytes at its address weighted by their place,   *)
(* less than 0 if it is signed and its top bit is set.                      *)
ByteSeen(k, b) == CHOOSE v \in Words(ByteBits) : LastWritten(v, start[b], Earlier(k), b)
FieldSeen(k) ==
  LET a == block[k]
      byte(j) == ByteSeen(k, a.addr + j) * 2^(ByteBits * j)
      whole == byte(0) + (IF Size(a) > 1 THEN byte(1) ELSE 0)
               + (IF Size(a) > 2 THEN byte(2) + byte(3) ELSE 0)
  IN whole % 2^a.bits
Loaded(k) == block[k].kind = "load" /\ \A o \in Instructions : Place(o) = k => o \in done
LoadsRight ==
  \A k \in DOMAIN block : Loaded(k) =>
    LET signed == block[k].ext = "sext" /\ ~Whole(block[k])
    IN LoadResult(k) = Word(WordBits, IF signed THEN Signed(block[k].bits, FieldSeen(k))
                                                ELSE FieldSeen(k))
=============================================================================
