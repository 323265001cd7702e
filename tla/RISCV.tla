------------------------------- MODULE RISCV --------------------------------
(***************************************************************************)
(* RV64IM as the RISC-V manual defines it: the encoding of instructions,   *)
(* the integer operations and the byte-addressed memory.  ISimulator's     *)
(* README names this instruction set; nothing here is taken from its code, *)
(* and the units of the simulator are compared with it.                    *)
(*                                                                         *)
(* Registers have XLen bits, 64 in the manual and fewer in an instance, and*)
(* the word operations (addw ...) work on half of them.                    *)
(***************************************************************************)
EXTENDS Integers, Sequences

CONSTANT XLen

(* An instruction: what it is, its registers and its immediate.  Branch and*)
(* jal distances count instructions, lui and auipc immediates pages of 2^12*)
Inst(kind, op, rd, rs1, rs2, imm) ==
  [kind |-> kind, op |-> op, rd |-> rd, rs1 |-> rs1, rs2 |-> rs2, imm |-> imm]

-----------------------------------------------------------------------------
(* Encoding.                                                               *)

(* Name, opcode, funct3 and funct7 of the instructions on two registers.   *)
RegisterOps ==
  { <<"add", 51, 0, 0>>,    <<"sub", 51, 0, 32>>,   <<"sll", 51, 1, 0>>,
    <<"slt", 51, 2, 0>>,    <<"sltu", 51, 3, 0>>,   <<"xor", 51, 4, 0>>,
    <<"srl", 51, 5, 0>>,    <<"sra", 51, 5, 32>>,   <<"or", 51, 6, 0>>,
    <<"and", 51, 7, 0>>,    <<"mul", 51, 0, 1>>,    <<"mulh", 51, 1, 1>>,
    <<"mulhsu", 51, 2, 1>>, <<"mulhu", 51, 3, 1>>,  <<"div", 51, 4, 1>>,
    <<"divu", 51, 5, 1>>,   <<"rem", 51, 6, 1>>,    <<"remu", 51, 7, 1>>,
    <<"addw", 59, 0, 0>>,   <<"subw", 59, 0, 32>>,  <<"sllw", 59, 1, 0>>,
    <<"srlw", 59, 5, 0>>,   <<"sraw", 59, 5, 32>>,  <<"mulw", 59, 0, 1>>,
    <<"divw", 59, 4, 1>>,   <<"divuw", 59, 5, 1>>,  <<"remw", 59, 6, 1>>,
    <<"remuw", 59, 7, 1>> }

(* Name, opcode and funct3 of those with a 12-bit immediate...             *)
ImmediateOps ==
  { <<"alui", "add", 19, 0>>, <<"alui", "slt", 19, 2>>, <<"alui", "sltu", 19, 3>>,
    <<"alui", "xor", 19, 4>>, <<"alui", "or", 19, 6>>,  <<"alui", "and", 19, 7>>,
    <<"alui", "addw", 27, 0>>,
    <<"load", "b", 3, 0>>,  <<"load", "h", 3, 1>>,  <<"load", "w", 3, 2>>,
    <<"load", "d", 3, 3>>,  <<"load", "bu", 3, 4>>, <<"load", "hu", 3, 5>>,
    <<"load", "wu", 3, 6>>, <<"jalr", "nop", 103, 0>> }

(* ...with a shift amount, and the bits above it...                        *)
ShiftOps ==
  { <<"sll", 19, 1, 0>>,  <<"srl", 19, 5, 0>>,  <<"sra", 19, 5, 32>>,
    <<"sllw", 27, 1, 0>>, <<"srlw", 27, 5, 0>>, <<"sraw", 27, 5, 32>> }

(* ...and of stores and branches.                                          *)
StoreOps == {<<"b", 0>>, <<"h", 1>>, <<"w", 2>>, <<"d", 3>>}
BranchOps == {<<"beq", 0>>, <<"bne", 1>>, <<"blt", 4>>, <<"bge", 5>>,
              <<"bltu", 6>>, <<"bgeu", 7>>}

(* The n low bits of v, the most significant first.                        *)
Bits(v, n) == [i \in 1 .. n |-> (v \div 2^(n - i)) % 2]

RWord(f7, rs2, rs1, f3, rd, opcode) ==
  Bits(f7, 7) \o Bits(rs2, 5) \o Bits(rs1, 5) \o Bits(f3, 3) \o Bits(rd, 5)
  \o Bits(opcode, 7)

IWord(imm, rs1, f3, rd, opcode) ==
  Bits(imm, 12) \o Bits(rs1, 5) \o Bits(f3, 3) \o Bits(rd, 5) \o Bits(opcode, 7)

(* Bits hi down to lo of an immediate of n bits.                           *)
Slice(imm, n, hi, lo) == SubSeq(Bits(imm, n), n - hi, n - lo)

SWord(imm, rs2, rs1, f3) ==
  Slice(imm, 12, 11, 5) \o Bits(rs2, 5) \o Bits(rs1, 5) \o Bits(f3, 3)
  \o Slice(imm, 12, 4, 0) \o Bits(35, 7)

BWord(imm, rs2, rs1, f3) ==
  Slice(imm, 13, 12, 12) \o Slice(imm, 13, 10, 5) \o Bits(rs2, 5)
  \o Bits(rs1, 5) \o Bits(f3, 3) \o Slice(imm, 13, 4, 1)
  \o Slice(imm, 13, 11, 11) \o Bits(99, 7)

UWord(imm, rd, opcode) == Bits(imm, 20) \o Bits(rd, 5) \o Bits(opcode, 7)

JWord(imm, rd) ==
  Slice(imm, 21, 20, 20) \o Slice(imm, 21, 10, 1) \o Slice(imm, 21, 11, 11)
  \o Slice(imm, 21, 19, 12) \o Bits(rd, 5) \o Bits(111, 7)

(* The instructions over some registers and immediates, with their words.  *)
Coded(inst, word) == [inst |-> inst, word |-> word]

RCodes(regs) ==
  {Coded(Inst("alu", o[1], rd, a, b, 0), RWord(o[4], b, a, o[3], rd, o[2])) :
     o \in RegisterOps, rd \in regs, a \in regs, b \in regs}

ICodes(regs, imms) ==
  {Coded(Inst(o[1], o[2], rd, a, 0, imm), IWord(imm, a, o[4], rd, o[3])) :
     o \in ImmediateOps, rd \in regs, a \in regs, imm \in imms}

(* The shifts of words have amounts of five bits.                          *)
ShiftCodes(regs, amounts) ==
  {Coded(Inst("alui", p[1][1], rd, a, 0, p[2]),
         IWord(p[1][4] * 32 + p[2], a, p[1][3], rd, p[1][2])) :
     p \in {p \in ShiftOps \X amounts : p[1][2] = 27 => p[2] < 32},
     rd \in regs, a \in regs}

SCodes(regs, imms) ==
  {Coded(Inst("store", o[1], 0, a, b, imm), SWord(imm, b, a, o[2])) :
     o \in StoreOps, a \in regs, b \in regs, imm \in imms}

BCodes(regs, imms) ==
  {Coded(Inst("branch", o[1], 0, a, b, imm), BWord(4 * imm, b, a, o[2])) :
     o \in BranchOps, a \in regs, b \in regs,
     imm \in {i \in imms : i \in -2^10 .. (2^10 - 1)}}

UCodes(regs, imms) ==
  {Coded(Inst(o[1], "nop", rd, 0, 0, imm), UWord(imm, rd, o[2])) :
     o \in {<<"lui", 55>>, <<"auipc", 23>>}, rd \in regs, imm \in imms}

JCodes(regs, imms) ==
  {Coded(Inst("jal", "nop", rd, 0, 0, imm), JWord(4 * imm, rd)) :
     rd \in regs, imm \in {i \in imms : i \in -2^18 .. (2^18 - 1)}}

SystemCodes ==
  {Coded(Inst("ecall", "nop", 0, 0, 0, 0), IWord(0, 0, 0, 0, 115)),
   Coded(Inst("none", "nop", 0, 0, 0, 0), IWord(1, 0, 0, 0, 115)),
   Coded(Inst("fence", "nop", 0, 0, 0, 0), IWord(255, 0, 0, 0, 15))}

Encodings(regs, imms12, shamts, imms20) ==
  RCodes(regs) \cup ICodes(regs, imms12) \cup ShiftCodes(regs, shamts)
  \cup SCodes(regs, imms12) \cup BCodes(regs, imms12) \cup UCodes(regs, imms20)
  \cup JCodes(regs, imms20) \cup SystemCodes

(* The opcode, funct3 and funct7 of a word that is an instruction, whatever*)
(* its other fields are.  System instructions are left out.                *)
Defined(opcode, f3, f7) ==
  \/ \E o \in RegisterOps : <<o[2], o[3], o[4]>> = <<opcode, f3, f7>>
  \/ \E o \in ImmediateOps : <<o[3], o[4]>> = <<opcode, f3>>
  \/ \E o \in ShiftOps :
       /\ <<o[2], o[3]>> = <<opcode, f3>>
       /\ o[4] = IF opcode = 19 THEN f7 - (f7 % 2) ELSE f7
  \/ opcode = 35 /\ \E o \in StoreOps : o[2] = f3
  \/ opcode = 99 /\ \E o \in BranchOps : o[2] = f3
  \/ opcode = 15 /\ f3 = 0
  \/ opcode \in {23, 55, 111}

-----------------------------------------------------------------------------
(* Operations.                                                             *)

(* The two's complement value of an n-bit word, and back.                  *)
Signed(n, x) == IF x >= 2^(n - 1) THEN x - 2^n ELSE x
ToWord(n, x) == x % 2^n

(* Division that rounds towards zero, for a divisor other than zero.       *)
Quotient(x, y) ==
  LET q == (IF x < 0 THEN -x ELSE x) \div (IF y < 0 THEN -y ELSE y)
  IN IF (x < 0) = (y < 0) THEN q ELSE -q

(* An operation of n-bit words.                                            *)
Compute(op, n, x, y) ==
  LET sx == Signed(n, x)
      sy == Signed(n, y)
      by == y % n                       \* a shift amount
      Truth(condition) == IF condition THEN 1 ELSE 0
      BitOf(w, i) == (w \div 2^i) % 2
      FromBits(F(_, _)) ==              \* F on each pair of bits
        LET Sum[i \in 0 .. n] ==
              IF i = 0 THEN 0
              ELSE Sum[i - 1] + 2^(i - 1) * F(BitOf(x, i - 1), BitOf(y, i - 1))
        IN Sum[n]
  IN CASE op = "add"    -> ToWord(n, x + y)
       [] op = "sub"    -> ToWord(n, x - y)
       [] op = "sll"    -> ToWord(n, x * 2^by)
       [] op = "srl"    -> x \div 2^by
       [] op = "sra"    -> ToWord(n, sx \div 2^by)
       [] op = "slt"    -> Truth(sx < sy)
       [] op = "sltu"   -> Truth(x < y)
       [] op = "and"    -> FromBits(LAMBDA a, b : a * b)
       [] op = "or"     -> FromBits(LAMBDA a, b : a + b - a * b)
       [] op = "xor"    -> FromBits(LAMBDA a, b : (a + b) % 2)
       [] op = "mul"    -> ToWord(n, x * y)
       [] op = "mulh"   -> ToWord(n, (sx * sy) \div 2^n)
       [] op = "mulhsu" -> ToWord(n, (sx * y) \div 2^n)
       [] op = "mulhu"  -> (x * y) \div 2^n
       [] op = "div"    -> IF y = 0 THEN 2^n - 1 ELSE ToWord(n, Quotient(sx, sy))
       [] op = "divu"   -> IF y = 0 THEN 2^n - 1 ELSE x \div y
       [] op = "rem"    -> IF y = 0 THEN x
                           ELSE ToWord(n, sx - sy * Quotient(sx, sy))
       [] op = "remu"   -> IF y = 0 THEN x ELSE x % y

(* The word operations work on the low halves and extend the sign.         *)
WordOps ==
  [addw |-> "add", subw |-> "sub", sllw |-> "sll", srlw |-> "srl",
   sraw |-> "sra", mulw |-> "mul", divw |-> "div", divuw |-> "divu",
   remw |-> "rem", remuw |-> "remu"]

Result(op, x, y) ==
  LET h == XLen \div 2
  IN IF op \in DOMAIN WordOps
       THEN ToWord(XLen, Signed(h, Compute(WordOps[op], h, ToWord(h, x), ToWord(h, y))))
       ELSE Compute(op, XLen, x, y)

Branches(op, x, y) ==
  LET sx == Signed(XLen, x)
      sy == Signed(XLen, y)
  IN CASE op = "beq"  -> x = y
       [] op = "bne"  -> x # y
       [] op = "blt"  -> sx < sy
       [] op = "bge"  -> sx >= sy
       [] op = "bltu" -> x < y
       [] op = "bgeu" -> x >= y

-----------------------------------------------------------------------------
(* Memory: a function from byte addresses to bytes.  A doubleword is its   *)
(* eight bytes, 0 the least significant.                                   *)

AccessWidth(op) == CASE op \in {"b", "bu"} -> 1
                     [] op \in {"h", "hu"} -> 2
                     [] op \in {"w", "wu"} -> 4
                     [] OTHER               -> 8

(* The doubleword that bytes 0 to n - 1 of some bytes extend to.           *)
Extended(op, bytes) ==
  LET n == AccessWidth(op)
      fill == IF op \in {"b", "h", "w"} /\ bytes[n - 1] >= 128 THEN 255 ELSE 0
  IN [i \in 0 .. 7 |-> IF i < n THEN bytes[i] ELSE fill]

Load(op, addr, bytes) ==
  Extended(op, [i \in 0 .. (AccessWidth(op) - 1) |-> bytes[addr + i]])

(* The lowest bytes of data take the place of those at addr.               *)
Store(op, addr, data, bytes) ==
  [a \in DOMAIN bytes |->
     IF a \in addr .. (addr + AccessWidth(op) - 1) THEN data[a - addr] ELSE bytes[a]]

=============================================================================
