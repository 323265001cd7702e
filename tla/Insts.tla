------------------------------- MODULE Insts --------------------------------
(***************************************************************************)
(* What one instruction means to ISimulator: which registers it reads and  *)
(* writes, what execute_Decode, execute_ALU, execute_Branch and execute_LSU*)
(* compute from its operands.                                              *)
(*                                                                         *)
(* An instruction word is the record execute_Decode takes it apart into.   *)
(* The arithmetic itself is a parameter; the order in which the pipeline   *)
(* and the sequential machine apply it is what the modules above are about.*)
(***************************************************************************)
EXTENDS Integers, Sequences

CONSTANTS
  WordSize,          \* 2^64: a register holds 0 .. WordSize - 1
  Regs,              \* the register numbers in use
  Alu(_, _, _),      \* execute_ALU's result: operation and two operands
  Taken(_, _, _),    \* execute_Branch's condition: operation, two operands
  LoadData(_, _, _), \* what a load makes of the element: operation, addr, element
  Insts,             \* the instruction words considered
  Pad                \* the instruction word in memory after the program

Words == 0 .. (WordSize - 1)
Wrap(x) == x % WordSize

A0 == 10
A1 == 11
PrintCode == 1
ExitCode  == 10

(* alu: OP_R and OP_RW, alui: OP_I and OP_IW; none: ebreak and the CSR     *)
(* instructions, which only print; illegal: every word the decoder rejects,*)
(* whose other effects are left out, as the cycle that decodes it is the   *)
(* last one.                                                               *)
Kinds == {"alu", "alui", "lui", "auipc", "load", "store", "branch", "jal",
          "jalr", "ecall", "none", "illegal"}

(* imm is the sign-extended immediate, and for a branch or jal the distance*)
(* in instructions.                                                        *)
IsInst(i) ==
  /\ i.kind \in Kinds
  /\ i.rd \in Regs /\ i.rs1 \in Regs /\ i.rs2 \in Regs
  /\ i.imm \in Int

ASSUME InstsAssumption ==
  /\ WordSize \in Nat \ {0}
  /\ {0, A0, A1} \subseteq Regs
  /\ \A i \in Insts : IsInst(i)
  /\ Pad \in Insts

(* The parameters compute words.                                           *)
ASSUME OperationsAssumption ==
  \A i \in Insts, a, b \in Words :
    /\ i.kind \in {"alu", "alui"} => Alu(i.op, a, b) \in Words
    /\ i.kind = "branch" => Taken(i.op, a, b) \in BOOLEAN
    /\ i.kind = "load" => LoadData(i.op, a, b) \in Words

-----------------------------------------------------------------------------
(* r_rs1, rs1, r_rs2, rs2 and write_reg.  An ecall reads a0 and a1.        *)
Reads1(i) == i.kind \in {"alu", "alui", "load", "store", "branch", "jalr",
                         "ecall"}
Reads2(i) == i.kind \in {"alu", "store", "branch", "ecall"}
Src1(i) == IF i.kind = "ecall" THEN A0 ELSE i.rs1
Src2(i) == IF i.kind = "ecall" THEN A1 ELSE i.rs2
Writes(i) == i.kind \in {"alu", "alui", "lui", "auipc", "load", "jal", "jalr"}

(* br_op # BR_NOP.                                                         *)
Branches(i) == i.kind \in {"branch", "jal", "jalr"}

UsesImm(i) == i.kind \in {"alui", "load", "store"}

(* execute_Decode's outputs.  0 stands for one that it does not set and no *)
(* stage uses.                                                             *)
Operands(i, pc, regs) ==
  [data1  |-> IF Reads1(i) THEN regs[Src1(i)] ELSE 0,
   data2  |-> IF UsesImm(i) THEN Wrap(i.imm)
              ELSE IF Reads2(i) THEN regs[Src2(i)] ELSE 0,
   result |-> CASE i.kind \in {"jal", "jalr"} -> Wrap(4 * (pc + 1))
                [] i.kind = "lui"             -> Wrap(i.imm)
                [] i.kind = "auipc"           -> Wrap(4 * pc + i.imm)
                [] OTHER                      -> 0,
   sdata  |-> IF i.kind = "store" THEN regs[i.rs2] ELSE 0,
   nextPC |-> CASE i.kind \in {"branch", "jal"} -> Wrap(pc + i.imm)
                [] i.kind = "jalr" -> Wrap(regs[i.rs1] + i.imm) \div 4
                [] OTHER -> 0]

(* execute_ALU: loads and stores add; ALU_NOP passes result on.            *)
AluResult(i, d) ==
  CASE i.kind \in {"alu", "alui"}   -> Alu(i.op, d.data1, d.data2)
    [] i.kind \in {"load", "store"} -> Wrap(d.data1 + d.data2)
    [] OTHER                        -> d.result

(* execute_Branch.                                                         *)
BranchTaken(i, d) ==
  \/ i.kind \in {"jal", "jalr"}
  \/ i.kind = "branch" /\ Taken(i.op, d.data1, d.data2)

-----------------------------------------------------------------------------
(* execute_LSU.  Memory is the array of 8-byte elements that l1 serves; an *)
(* element outside the domain of mem was never stored to.                  *)

Width(op) == CASE op \in {"b", "bu"} -> 1
               [] op \in {"h", "hu"} -> 2
               [] op \in {"w", "wu"} -> 4
               [] OTHER              -> 8

Accesses(i) == i.kind \in {"load", "store"}
Misaligned(i, addr) == Accesses(i) /\ addr % Width(i.op) # 0

Element(mem, e) == IF e \in DOMAIN mem THEN mem[e] ELSE 0

(* A load asks for byte address (addr >> 1) << 3, that is element addr / 2.*)
Loaded(i, addr, mem) == LoadData(i.op, addr, Element(mem, addr \div 2))

(* A store asks for byte address addr, that is element addr / 8, and its   *)
(* bytes / 8 words are none unless it is an sd.  It happens even when addr *)
(* is misaligned.                                                          *)
Stored(i, addr, sdata, mem) ==
  IF i.kind = "store" /\ i.op = "d"
    THEN [e \in DOMAIN mem \cup {addr \div 8} |->
            IF e = addr \div 8 THEN sdata ELSE mem[e]]
    ELSE mem

(* What MEM hands to WB.                                                   *)
MemResult(i, value, mem) ==
  IF i.kind = "load" THEN Loaded(i, value, mem) ELSE value

(* The system call, by the value of a0.                                    *)
PrintsNumber(i, d) == i.kind = "ecall" /\ d.data1 = PrintCode
ExitsProgram(i, d) == i.kind = "ecall" /\ d.data1 = ExitCode

Printed(i, d, output) ==
  IF PrintsNumber(i, d) THEN Append(output, d.data2) ELSE output

(* The instruction word at pc: the program is at the start of memory.      *)
Fetch(prog, pc) == IF pc + 1 \in DOMAIN prog THEN prog[pc + 1] ELSE Pad

=============================================================================
