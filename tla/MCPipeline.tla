----------------------------- MODULE MCPipeline -----------------------------
(* Instances of Pipeline: every program of a given length over a small set *)
(* of instructions, on registers of 8 bits.                                *)
EXTENDS Pipeline, TLC

CONSTANT Length   \* the length of the programs

Inst(kind, op, rd, rs1, rs2, imm) ==
  [kind |-> kind, op |-> op, rd |-> rd, rs1 |-> rs1, rs2 |-> rs2, imm |-> imm]

MCWordSize == 256
MCRegs == {0, 1, A0, A1}
MCInitRegs == [r \in MCRegs |-> IF r = A1 THEN 8 ELSE 0]

MCAlu(op, a, b) ==
  CASE op = "add" -> (a + b) % MCWordSize
    [] op = "mul" -> (a * b) % MCWordSize
    [] op = "div" -> IF b = 0 THEN 0 ELSE a \div b
    [] op = "rem" -> IF b = 0 THEN a ELSE a % b
MCTaken(op, a, b) == IF op = "beq" THEN a = b ELSE a # b
MCLoadData(op, addr, element) ==
  IF op = "d" THEN element ELSE element % 16

Nop     == Inst("none", "nop", 0, 0, 0, 0)
Illegal == Inst("illegal", "nop", 0, 0, 0, 0)

SetExit  == Inst("alui", "add", A0, 0, 0, ExitCode)
SetPrint == Inst("alui", "add", A0, 0, 0, PrintCode)
Ecall    == Inst("ecall", "nop", 0, 0, 0, 0)
WriteX0  == Inst("alui", "add", 0, A1, 0, 1)
Add      == Inst("alu", "add", 1, 1, A1, 0)
Mul      == Inst("alu", "mul", A1, A1, A1, 0)
Load     == Inst("load", "d", A1, 1, 0, 16)
Store    == Inst("store", "d", 0, 0, A1, 64)
Beq      == Inst("branch", "beq", 0, 1, 0, 2)
Bne      == Inst("branch", "bne", 0, A0, A1, -1)
Jal      == Inst("jal", "nop", 1, 0, 0, 2)
Jalr     == Inst("jalr", "nop", 0, 1, 0, 0)
Div      == Inst("alu", "div", 1, A1, A1, 0)
Rem      == Inst("alu", "rem", A1, A1, 1, 0)

LegalInsts == {Div, Rem, SetExit, Ecall, Add, Mul, Load, Store, Beq, Bne, Jal,
               Jalr, WriteX0, SetPrint, Nop}
AnyInsts == {Illegal, SetExit, Ecall, Add, Jal}

(* A branch or jal does not lead out of the program's page.                *)
StaysInside(p) ==
  \A k \in DOMAIN p : p[k].kind \in {"branch", "jal"} => k + p[k].imm >= 1

ProgramsOver(insts) == {p \in [1 .. Length -> insts] : StaysInside(p)}
LegalPrograms == ProgramsOver(LegalInsts \ {Nop})
AnyPrograms == ProgramsOver(AnyInsts)

(* The legal programs meet the assumption of PipelineProofs.               *)
ASSUME LegalInstance == Programs = LegalPrograms => NoIllegal

=============================================================================
