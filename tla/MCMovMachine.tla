---------------------------- MODULE MCMovMachine ----------------------------
(* Every opcode with every choice of its registers among EAX, ECX and EDX,  *)
(* on words whose bytes are at or next to a carry, a sign or a zero.        *)
EXTENDS MovMachine

MCTrue == 305419896      \* 0x12345678
MCFalse == -1698898192   \* 0x9ABCDEF0
MCReturn == 134513664
MCCallee == -1090519041
MCAddressOf == [g \in Globals |-> CASE g = "esp_dec_srcdst" -> 134520832
                                    [] g = "esp_dec_idx" -> 134520836
                                    [] g = "return_addr_slot" -> 134520848
                                    [] g = "indirect_callee_slot" -> 134520852]

W(b3, b2, b1, b0) == [i \in 0..3 |-> <<b0, b1, b2, b3>>[i + 1]]
(* ESP is at a page boundary, so that a push borrows from three bytes, and  *)
(* EBP below one, so that a return carries.                                 *)
File(a, c, d) ==
  [r \in Regs |-> CASE r = "eax" -> a [] r = "ecx" -> c [] r = "edx" -> d
                    [] r = "ebp" -> W(8, 4, 255, 252) [] r = "esp" -> W(8, 4, 0, 0)
                    [] r = "eip" -> W(8, 4, 1, 2)]
StackTop == 134479872
MCInitialStack ==
  [a \in {StackTop - 4 * k : k \in 1..5} \cup {StackTop + 65532, StackTop + 65536} |->
     WordBytes(-a)]

MCRegFiles == {
  File(W(0, 0, 0, 0), W(0, 0, 0, 1), W(255, 255, 255, 255)),
  File(W(128, 0, 0, 0), W(127, 255, 255, 255), W(128, 0, 0, 0)),
  File(W(1, 35, 69, 103), W(255, 0, 255, 31), W(0, 255, 0, 128)),
  File(W(0, 0, 1, 0), W(0, 0, 0, 255), W(0, 0, 128, 128)),
  File(W(165, 90, 195, 60), W(18, 52, 86, 116), W(254, 220, 186, 152)),
  File(W(255, 255, 255, 254), W(255, 255, 255, 32), W(255, 255, 255, 253)),
  File(W(127, 255, 255, 255), W(128, 0, 0, 2), W(0, 0, 0, 1))}

MCGarbage == {W(0, 0, 0, 0), W(165, 255, 1, 128)}

GPR == {"eax", "ecx", "edx"}
Imms == {0, 1, -1, 255, -256, 65280, 16711935, 2147483647, -2147483647 - 1, 19088743}

(* Arguments: a register that a moved chain would spoil, ones that are made  *)
(* in between, a copy of one that is not, one that looks at ESP, and a store *)
(* to a local in between.                                                    *)
Arg(i, r) == Store("esp", 4 * i, r)
MCArgs == {
  Arg(0, "ebp") \o Arg(1, "ebp"), Arg(0, "ecx"),
  MovImm("eax", 65537) \o Arg(0, "eax") \o Arg(1, "eax"),
  MovImm("edx", -1) \o Arg(1, "edx") \o Arg(0, "eax"),
  Mov("eax", "edx") \o Arg(0, "eax"),
  Mov("ecx", "ebp") \o Mov("edx", "ecx") \o Arg(1, "edx"),
  Mov("edx", "esp") \o Arg(0, "edx"),
  Arg(1, "ebp") \o Store("ebp", 0, "ebp") \o Arg(0, "ebp")}

MCInsns ==
  [op : AddSubRI \cup BitwiseRI, dst : GPR, imm : Imms]
  \cup [op : AddSubRR \cup BitwiseRR, dst : GPR, src : GPR]
  \cup [op : ShiftRI, dst : GPR, imm : {0, 1, 7, 8, 12, 16, 23, 31, 33}]
  \cup [op : ShiftCL, dst : GPR]
  \cup [op : {"CTPOP32r"} \cup BitScan, dst : GPR, src : GPR]
  \cup [op : {"LEA32r"}, dst : GPR, imm : {0, -4, 12}]
  \cup [op : {"MUL32ri"}, dst : {"eax", "ecx"}, src : {"ecx", "edx"}, imm : {0, 10, -1, 65537}]
  \cup [op : {"MUL32rr"}, dst : {"eax", "edx"}, src : {"eax", "ecx"}, src2 : {"ecx", "edx"}]
  \cup [op : {"CMP32ri"}, dst : {"eax", "edx"}, imm : {0, -1, 256, -2147483647 - 1},
        cc : {"E", "NE", "B", "AE", "BE", "A", "L", "GE", "LE", "G"}]
  \cup [op : {"CMP32rr"}, dst : {"eax"}, src : GPR,
        cc : {"E", "NE", "B", "AE", "BE", "A", "L", "GE", "LE", "G"}]
  \cup [op : {"PUSH32r", "RET", "JMP"}]
  \cup [op : {"CALL32d"}, size : {0, 8}, args : {<<>>}]
  \cup [op : {"CALL32d"}, size : {8}, args : MCArgs]
  \cup [op : {"CALL32r"}, size : {8}, args : MCArgs, callee : GPR]

(* The smallest function for each opcode; a call or a push is in one that    *)
(* returns. And two frames, either side of the size the prologue can open.   *)
Fun(ops, blocks, objects) == [ops |-> ops, blocks |-> blocks, objects |-> objects]
MCFunctions ==
  {Fun({op}, IF op \in Compare THEN 2 ELSE 1, 0) : op \in Scanned}
  \cup {Fun({"RET", op}, 1, 0) : op \in Calls \cup {"PUSH32r"}}
  \cup {Fun({"RET", "JMP"}, 2, 0)}
  \cup {Fun({}, 1, 0), Fun({}, 1, 1), Fun({"RET"}, 2, 995), Fun({}, 1, 996)}

(* These are functions that MovOnlyKept is about. *)
ASSUME MCServed == Served
===============================================================================
