--------------------------- MODULE MCRuntimeCalls ---------------------------
(* A 14-bit i32 with a float of 6 exponent and 7 mantissa bits, a 28-bit   *)
(* i64 with a double of 9 and 18, and a 5-bit integer division; bytes of 2 *)
(* bits and two words of memory for the blocks; a 5-bit i32 for what is    *)
(* expanded in line.                                                       *)
EXTENDS RuntimeCalls, SequencesExt

MCPow2 == [k \in 0..Width |-> 2^k]

(* The words whose exponent and mantissa are at or next to a boundary. *)
Samples(f, exps, mans) ==
  {Pack(f, s, e, m) : s \in 0..1, e \in exps, m \in mans}

MCFloats ==
  Samples(F32, {0, 1, 2, 8, 30, 31, 34, 38, 39, 43, 62, 63}, {0, 1, 63, 64, 127})
MCDoubles ==
  Samples(F64, {0, 1, 3, 224, 225, 254, 255, 260, 268, 273, 283, 287, 510, 511},
               {0, 1, 2^17, 2^18 - 1})
  \cup Samples(F64, {254, 268}, {2^13 - 1, 2^13, 2^13 + 1, 2^10, 3 * 2^10, 2^17 + 1})

(* Every i32, and the i64 within 1 of a power of two or of its negative.   *)
MCInts == Words(IntBits)
MCLongs ==
  {Word(2 * IntBits, s * (2^k + m)) : s \in {-1, 1}, k \in 0..27, m \in {-1, 0, 1}}
  \cup {Word(2 * IntBits, s * (2^k + 2^(k \div 2))) : s \in {-1, 1}, k \in 8..27}

(* Every block of three of these accesses: of every width, at addresses     *)
(* where they start, end or straddle a word, overlapping in whole and part. *)
Access(kind, bits, addr, align, ext, val) ==
  [kind |-> kind, bits |-> bits, addr |-> addr, align |-> align, ext |-> ext, val |-> val]
MCStores ==
  {Access("store", 4, a, 1, "zext", 6) : a \in {1, 3, 4}}
  \cup {Access("store", 2, a, 1, "zext", 1) : a \in {0, 2, 4}}
  \cup {Access("store", 8, a, 1, "zext", 228) : a \in {0, 2}}
MCLoads ==
  {Access("load", 1, 2, 1, "sext", 0)}
  \cup {Access("load", 2, a, 1, e, 0) : a \in {0, 3}, e \in {"sext", "zext"}}
  \cup {Access("load", 4, a, 2, "sext", 0) : a \in {0, 2}}
  \cup {Access("load", 4, a, 1, "sext", 0) : a \in {1, 3}}
  \cup {Access("load", 8, a, 1, "zext", 0) : a \in {0, 3}}
MCAccesses == MCStores \cup MCLoads
MCBlocks == {<<a, b, c>> : a \in MCAccesses, b \in MCAccesses, c \in MCAccesses}
MCContents == {[b \in 0..7 |-> (b + 2) % 4]}

(* Vectors of every small number of lanes, a power of two or not. *)
MCVectors == SeqOf({1, 6, 19, 31}, 5) \ {<<>>}
=============================================================================
