------------------------------- MODULE Decode -------------------------------
(***************************************************************************)
(* execute_Decode (ISimulator/src/Decode.cpp) on instruction words: the    *)
(* fields it takes out, the tables it looks operations up in, and the words*)
(* it rejects.  A word is a sequence of 32 bits, the most significant      *)
(* first, which is how getbit numbers them (from 0).  The outcome is the   *)
(* record of Insts; a distance is in instructions, and the immediate of lui*)
(* and auipc, which they shift by 12, in units of 2^12.                    *)
(***************************************************************************)
EXTENDS Integers, Sequences

(* getbit(inst, s, e): the number that bits s to e are.                    *)
GetBit(word, s, e) ==
  LET value[n \in 0 .. (e - s + 1)] ==
        IF n = 0 THEN 0 ELSE 2 * value[n - 1] + word[s + n]
  IN value[e - s + 1]

(* ext_signed(src, x), for a src of x bits.                                *)
ExtSign(src, x) == IF src \div 2^(x - 1) = 0 THEN src ELSE src - 2^x

Illegal == "illegal"

Opcode(word) == GetBit(word, 25, 31)
Fuc3(word)   == GetBit(word, 17, 19)
Fuc7(word)   == GetBit(word, 0, 6)
Rd(word)     == GetBit(word, 20, 24)
Rs1(word)    == GetBit(word, 12, 16)
Rs2(word)    == GetBit(word, 7, 11)
Imm12(word)  == ExtSign(GetBit(word, 0, 11), 12)
Imm20(word)  == ExtSign(GetBit(word, 0, 19), 20)
StoreImm(word) == ExtSign(32 * GetBit(word, 0, 6) + GetBit(word, 20, 24), 12)

\* A mutation: a shift amount has five bits, as in RV32.
ShamtOf32(word) == GetBit(word, 7, 11)

(* imm5 of OP_I, which has six bits in RV64.                               *)
Shamt(word) == GetBit(word, 6, 11)

(* offset >> 1 of OP_BEQ and of OP_JAL.                                    *)
BranchDistance(word) ==
  ExtSign((2048 * GetBit(word, 0, 0) + 1024 * GetBit(word, 24, 24)
           + 16 * GetBit(word, 1, 6) + GetBit(word, 20, 23)) \div 2, 11)
JumpDistance(word) ==
  ExtSign((2^19 * GetBit(word, 0, 0) + 2048 * GetBit(word, 12, 19)
           + 1024 * GetBit(word, 11, 11) + GetBit(word, 1, 10)) \div 2, 19)

-----------------------------------------------------------------------------
(* The switches.                                                           *)

(* Entries of a table, and what it gives for a key: default if none.       *)
Lookup(table, key) ==
  IF \E entry \in table : entry[1] = key
    THEN (CHOOSE entry \in table : entry[1] = key)[2]
    ELSE Illegal

(* switch(fuc7 * 16 + fuc3) of OP_R and OP_RW.                             *)
RegisterTable ==
  {<<0, "add">>, <<16, "mul">>, <<512, "sub">>, <<1, "sll">>, <<17, "mulh">>,
   <<18, "mulhsu">>, <<19, "mulhu">>, <<2, "slt">>, <<3, "sltu">>,
   <<4, "xor">>, <<20, "div">>, <<21, "divu">>, <<5, "srl">>, <<517, "sra">>,
   <<6, "or">>, <<22, "rem">>, <<23, "remu">>, <<7, "and">>}

RegisterWordTable ==
  {<<0, "addw">>, <<512, "subw">>, <<1, "sllw">>, <<5, "srlw">>,
   <<517, "sraw">>, <<16, "mulw">>, <<20, "divw">>, <<22, "remw">>,
   <<23, "remuw">>}

RegisterOp(word) ==
  LET key == 16 * Fuc7(word) + Fuc3(word)
  IN Lookup(IF Opcode(word) = 51 THEN RegisterTable ELSE RegisterWordTable, key)

(* switch(fuc3) of OP_I and OP_IW, but for the shifts to the right.        *)
ImmediateTable ==
  {<<0, "add">>, <<2, "slt">>, <<3, "sltu">>, <<4, "xor">>, <<6, "or">>,
   <<7, "and">>}

\* A mutation: any word with the funct3 of srai is taken for one.
ShiftOpUnchecked(word) ==
  IF Opcode(word) = 19
    THEN IF Fuc3(word) = 1 THEN "sll"
         ELSE IF Fuc7(word) = 0 THEN "srl" ELSE "sra"
    ELSE IF Fuc3(word) = 1 THEN "sllw"
         ELSE IF Fuc7(word) = 0 THEN "srlw" ELSE "sraw"

(* OP_I looks at the upper six bits for slli, srli and srai; OP_IW at all  *)
(* seven, and at none of them for slliw.                                   *)
ShiftOp(word) ==
  LET f6 == GetBit(word, 0, 5)
      f7 == Fuc7(word)
  IN IF Opcode(word) = 19
       THEN CASE Fuc3(word) = 1 /\ f6 = 0  -> "sll"
              [] Fuc3(word) = 5 /\ f6 = 0  -> "srl"
              [] Fuc3(word) = 5 /\ f6 = 16 -> "sra"
              [] OTHER -> Illegal
       ELSE CASE Fuc3(word) = 1            -> "sllw"
              [] Fuc3(word) = 5 /\ f7 = 0  -> "srlw"
              [] Fuc3(word) = 5 /\ f7 = 32 -> "sraw"
              [] OTHER -> Illegal

IsShift(word) == Fuc3(word) \in {1, 5}

ImmediateOp(word) ==
  IF IsShift(word) THEN ShiftOp(word)
  ELSE IF Opcode(word) = 19 THEN Lookup(ImmediateTable, Fuc3(word))
  ELSE IF Fuc3(word) = 0 THEN "addw" ELSE Illegal

ImmediateOf(word) ==
  IF ~ IsShift(word) THEN Imm12(word)
  ELSE IF Opcode(word) = 19 THEN Shamt(word) ELSE GetBit(word, 7, 11)

(* switch(fuc3) of OP_LW, OP_SW and OP_BEQ.                                *)
LoadTable == {<<0, "b">>, <<1, "h">>, <<2, "w">>, <<3, "d">>, <<4, "bu">>,
              <<5, "hu">>, <<6, "wu">>}
StoreTable == {<<0, "b">>, <<1, "h">>, <<2, "w">>, <<3, "d">>}
BranchTable == {<<0, "beq">>, <<1, "bne">>, <<4, "blt">>, <<5, "bge">>,
                <<6, "bltu">>, <<7, "bgeu">>}

(* OP_SCALL: ebreak and the CSR instructions only print.                   *)
SystemKind(word) ==
  CASE Fuc3(word) = 0 -> (CASE GetBit(word, 0, 11) = 0 -> "ecall"
                            [] GetBit(word, 0, 11) = 1 -> "none"
                            [] OTHER -> Illegal)
    [] Fuc3(word) = 4 -> Illegal
    [] OTHER          -> "none"

-----------------------------------------------------------------------------
(* execute_Decode.                                                         *)

Decoded(kind, op, rd, rs1, rs2, imm) ==
  [kind |-> IF op = Illegal THEN Illegal ELSE kind, op |-> op, rd |-> rd,
   rs1 |-> rs1, rs2 |-> rs2, imm |-> imm]

(* Fields that no stage uses are 0.                                        *)
Decode(w) ==
  LET opcode == Opcode(w)
  IN CASE opcode \in {51, 59} ->
            Decoded("alu", RegisterOp(w), Rd(w), Rs1(w), Rs2(w), 0)
       [] opcode \in {19, 27} ->
            Decoded("alui", ImmediateOp(w), Rd(w), Rs1(w), 0, ImmediateOf(w))
       [] opcode = 3 ->
            Decoded("load", Lookup(LoadTable, Fuc3(w)), Rd(w), Rs1(w), 0, Imm12(w))
       [] opcode = 35 ->
            Decoded("store", Lookup(StoreTable, Fuc3(w)), 0, Rs1(w), Rs2(w),
                    StoreImm(w))
       [] opcode = 99 ->
            Decoded("branch", Lookup(BranchTable, Fuc3(w)), 0, Rs1(w), Rs2(w),
                    BranchDistance(w))
       [] opcode = 111 -> Decoded("jal", "nop", Rd(w), 0, 0, JumpDistance(w))
       [] opcode = 103 -> Decoded("jalr", "nop", Rd(w), Rs1(w), 0, Imm12(w))
       [] opcode = 23  -> Decoded("auipc", "nop", Rd(w), 0, 0, Imm20(w))
       [] opcode = 55  -> Decoded("lui", "nop", Rd(w), 0, 0, Imm20(w))
       [] opcode = 115 ->
            Decoded(SystemKind(w), IF SystemKind(w) = Illegal THEN Illegal ELSE "nop",
                    0, 0, 0, 0)
       [] OTHER -> Decoded(Illegal, Illegal, 0, 0, 0, 0)

=============================================================================
