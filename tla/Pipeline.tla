------------------------------ MODULE Pipeline ------------------------------
(***************************************************************************)
(* The five-stage pipeline of ISimulator/src/Simulation.cpp.  simulate_inst*)
(* is one cycle: the five stages compute the new pipeline registers from   *)
(* the old ones, and update_regs latches them, stalling on data hazards and*)
(* flushing after taken branches (every branch is predicted not taken).    *)
(* The shell's commands run cycles until exit_flag is set.                 *)
(*                                                                         *)
(* l1 and the memory behind it are the flat store that Cache.tla shows them*)
(* to be.                                                                  *)
(***************************************************************************)
EXTENDS Insts

CONSTANTS
  Programs,   \* the programs that load_memory may load
  InitRegs,   \* reg after main has set sp and gp
  MaxCycles   \* bound: the cycles a run simulates

VARIABLES
  prog,       \* the text that load_memory put in memory
  PC, reg, mem,
  IFID, IDEX, EXMEM, MEMWB,   \* reg_IFID .. reg_MEMWB
  exit_flag,
  output,     \* what ecall 1 printed
  last,       \* last_mul, last_div, last_div_u of ALU.cpp
  inst_num, inst_cycle, stall_num, branch_num, mispre_num,
  cycles,     \* history: calls of simulate_inst
  blocked,    \* history: cycles in which the PC was held
  surplus,    \* history: what multiplications and divisions added
  idle,       \* history: cycles since MEM last had an instruction
  done        \* history: branches that MEM has completed, and those taken

archVars == <<PC, reg, mem, output, exit_flag>>
latches  == <<IFID, IDEX, EXMEM, MEMWB>>
counters == <<inst_num, inst_cycle, stall_num, branch_num, mispre_num>>
history  == <<cycles, blocked, surplus, idle, done>>
vars == <<prog, archVars, latches, last, counters, history>>

ASSUME PipelineAssumption ==
  /\ \A p \in Programs : p \in Seq(Insts)
  /\ InitRegs \in [Regs -> Words] /\ InitRegs[0] = 0
  /\ MaxCycles \in Nat

-----------------------------------------------------------------------------
(* pipeline_Reg.  Its control fields are functions of the instruction.     *)

(* reg_zero: a bubble.                                                     *)
Bubble == [enable |-> FALSE, inst |-> Pad, PC |-> 0, data1 |-> 0, data2 |-> 0,
           result |-> 0, sdata |-> 0, nextPC |-> 0]

(* write_reg and rd of a pipeline register.                                *)
WritesTo(latch, r) == latch.enable /\ Writes(latch.inst) /\ latch.inst.rd = r

Count(condition) == IF condition THEN 1 ELSE 0

Init ==
  /\ prog \in Programs
  /\ PC = 0
  /\ reg = InitRegs
  /\ mem = << >>
  /\ IFID = Bubble /\ IDEX = Bubble /\ EXMEM = Bubble /\ MEMWB = Bubble
  /\ exit_flag = FALSE
  /\ output = << >>
  /\ last = "other"
  /\ inst_num = 0 /\ inst_cycle = 0 /\ stall_num = 0
  /\ branch_num = 0 /\ mispre_num = 0
  /\ cycles = 0 /\ blocked = 0 /\ surplus = 0 /\ idle = 0
  /\ done = [branches |-> 0, taken |-> 0]

-----------------------------------------------------------------------------
(* The stages, on the pipeline registers as the cycle finds them.          *)

(* pipeline_IF.                                                            *)
IFIDNew == [Bubble EXCEPT !.enable = TRUE, !.inst = Fetch(prog, PC), !.PC = PC]

(* pipeline_ID: the registers are read before WB writes them.              *)
IDEXNew ==
  IF ~ IFID.enable THEN Bubble
  ELSE LET d == Operands(IFID.inst, IFID.PC, reg)
       IN [enable |-> TRUE, inst |-> IFID.inst, PC |-> IFID.PC,
           data1 |-> d.data1, data2 |-> d.data2, result |-> d.result,
           sdata |-> d.sdata, nextPC |-> d.nextPC]

\* A mutation: the instruction in WB is taken to have written already.
DataHazardNoWB(i) ==
  \E latch \in {IDEX, EXMEM} :
    \/ Reads1(i) /\ WritesTo(latch, Src1(i))
    \/ Reads2(i) /\ WritesTo(latch, Src2(i))

(* data_hazard: an instruction in EX, MEM or WB will write a source.       *)
DataHazard(i) ==
  \E latch \in {IDEX, EXMEM, MEMWB} :
    \/ Reads1(i) /\ WritesTo(latch, Src1(i))
    \/ Reads2(i) /\ WritesTo(latch, Src2(i))

HazardOccur == IFID.enable /\ DataHazard(IFID.inst)
IllegalOccur == IFID.enable /\ IFID.inst.kind = "illegal"

(* pipeline_EX.                                                            *)
EXMEMNew == IF ~ IDEX.enable THEN Bubble
            ELSE [IDEX EXCEPT !.result = AluResult(IDEX.inst, IDEX)]

MispreOccur == IDEX.enable /\ BranchTaken(IDEX.inst, IDEX)

(* EX overrides what IF has put in NPC.                                    *)
NPC == IF MispreOccur THEN IDEX.nextPC ELSE Wrap(PC + 1)

MulCycle == 2
DivCycle == 40

\* A mutation: a remainder is fused whatever came before it.
AluExtraAlwaysFused(i) ==
  IF i.kind \notin {"alu", "alui"} THEN 0
  ELSE CASE i.op \in {"mul", "mulh", "mulhsu", "mulhu"} ->
              IF last = "mul" THEN 0 ELSE MulCycle - 1
         [] i.op \in {"div", "divu", "divw"} -> DivCycle - 1
         [] i.op \in {"rem", "remw", "remu", "remuw"} -> -1
         [] OTHER -> 0

(* alu_cycle - 1: a multiplication after another is pipelined, a remainder *)
(* after a division is fused with it (one of REM after either division,    *)
(* as ~last_div_u is never 0 on a promoted bool).                          *)
AluExtra(i) ==
  IF i.kind \notin {"alu", "alui"} THEN 0
  ELSE CASE i.op \in {"mul", "mulh", "mulhsu", "mulhu"} ->
              IF last = "mul" THEN 0 ELSE MulCycle - 1
         [] i.op \in {"div", "divu", "divw"} -> DivCycle - 1
         [] i.op \in {"rem", "remw"} ->
              IF last \in {"div", "divu"} THEN -1 ELSE DivCycle - 1
         [] i.op \in {"remu", "remuw"} ->
              IF last = "divu" THEN -1 ELSE DivCycle - 1
         [] OTHER -> 0

(* mulw is not timed, and leaves last_mul cleared.                         *)
AluLast(i) ==
  IF i.kind \notin {"alu", "alui"} THEN "other"
  ELSE CASE i.op \in {"mul", "mulh", "mulhsu", "mulhu"} -> "mul"
         [] i.op \in {"div", "divw"} -> "div"
         [] i.op = "divu" -> "divu"
         [] OTHER -> "other"

\* A mutation: a bubble leaves the register before it in place.
MEMWBNewKept ==
  IF ~ EXMEM.enable THEN MEMWB
  ELSE [EXMEM EXCEPT !.result = MemResult(EXMEM.inst, EXMEM.result, mem)]

(* pipeline_MEM.                                                           *)
MEMWBNew ==
  IF ~ EXMEM.enable THEN Bubble
  ELSE [EXMEM EXCEPT !.result = MemResult(EXMEM.inst, EXMEM.result, mem)]

MemNew == IF EXMEM.enable
            THEN Stored(EXMEM.inst, EXMEM.result, EXMEM.sdata, mem) ELSE mem

OutputNew == IF EXMEM.enable THEN Printed(EXMEM.inst, EXMEM, output)
                             ELSE output

MisalignedOccur == EXMEM.enable /\ Misaligned(EXMEM.inst, EXMEM.result)
ExitOccur == EXMEM.enable /\ ExitsProgram(EXMEM.inst, EXMEM)

(* pipeline_WB.                                                            *)
RegNew == IF MEMWB.enable /\ Writes(MEMWB.inst)
            THEN [reg EXCEPT ![MEMWB.inst.rd] = MEMWB.result] ELSE reg

-----------------------------------------------------------------------------
\* A mutation: the instruction in ID survives a misprediction.
UpdateIFIDKept ==
  IFID' = IF HazardOccur THEN IFID ELSE IFIDNew

(* update_regs, one pipeline register each.                                *)
UpdateIFID ==
  IFID' = IF MispreOccur THEN Bubble
          ELSE IF HazardOccur THEN IFID
          ELSE IFIDNew

UpdateIDEX ==
  IDEX' = IF HazardOccur \/ MispreOccur THEN Bubble ELSE IDEXNew

IFStall == HazardOccur /\ ~ MispreOccur

\* A mutation: a stall holds the PC although a branch redirects it.
UpdatePCHeld == PC' = IF HazardOccur THEN PC ELSE NPC

UpdatePC == PC' = IF IFStall THEN PC ELSE NPC

UpdateRegs ==
  /\ UpdatePC
  /\ UpdateIFID
  /\ UpdateIDEX
  /\ EXMEM' = EXMEMNew
  /\ MEMWB' = MEMWBNew

(* inst_num: WB counts what it completes, and MEM counts the exit.         *)
CountInst == inst_num' = inst_num + Count(MEMWB.enable) + Count(ExitOccur)

\* A mutation: branches are counted when they are decoded.
CountBranchID ==
  /\ branch_num' = branch_num + Count(IFID.enable /\ Branches(IFID.inst))
  /\ mispre_num' = mispre_num + Count(MispreOccur)

(* branch_num and mispre_num: counted in EX.                               *)
CountBranch ==
  /\ branch_num' = branch_num + Count(IDEX.enable /\ Branches(IDEX.inst))
  /\ mispre_num' = mispre_num + Count(MispreOccur)

ExtraCycles == IF IDEX.enable THEN AluExtra(IDEX.inst) ELSE 0

(* simulate_inst, but for reg, where WB's write meets the shell's reset.   *)
SimulateInst ==
  /\ UpdateRegs
  /\ mem' = MemNew
  /\ output' = OutputNew
  /\ exit_flag' = (IllegalOccur \/ MisalignedOccur \/ ExitOccur)
  /\ last' = IF IDEX.enable THEN AluLast(IDEX.inst) ELSE last
  /\ CountInst
  /\ CountBranch
  /\ stall_num' = stall_num + Count(HazardOccur)
  /\ inst_cycle' = inst_cycle + ExtraCycles + 1
  /\ UNCHANGED prog

Observe ==
  /\ cycles' = cycles + 1
  /\ blocked' = blocked + Count(IFStall)
  /\ surplus' = surplus + ExtraCycles
  /\ idle' = IF EXMEM.enable THEN 0 ELSE idle + 1
  /\ done' = [branches |-> done.branches
                + Count(EXMEM.enable /\ Branches(EXMEM.inst)),
              taken    |-> done.taken
                + Count(EXMEM.enable /\ BranchTaken(EXMEM.inst, EXMEM))]

Runs == ~ exit_flag /\ cycles < MaxCycles

(* Command i of cmd_shell.                                                 *)
StepOnce ==
  /\ Runs
  /\ SimulateInst
  /\ reg' = [RegNew EXCEPT ![0] = 0]
  /\ Observe

(* One turn of the loops of commands n and a: exit breaks out before reg[0]*)
(* is cleared.                                                             *)
RunOn ==
  /\ Runs
  /\ SimulateInst
  /\ reg' = IF exit_flag' THEN RegNew ELSE [RegNew EXCEPT ![0] = 0]
  /\ Observe

(* "No more instructions", or the end of the run.                          *)
Stopped == ~ Runs /\ UNCHANGED vars

Next == StepOnce \/ RunOn \/ Stopped

Spec == Init /\ [][Next]_vars

-----------------------------------------------------------------------------
Latch == [enable : BOOLEAN, inst : Insts, PC : Words, data1 : Words,
          data2 : Words, result : Words, sdata : Words, nextPC : Words]

TypeOK ==
  /\ prog \in Programs
  /\ PC \in Words
  /\ reg \in [Regs -> Words]
  /\ DOMAIN mem \subseteq Words /\ \A e \in DOMAIN mem : mem[e] \in Words
  /\ IFID \in Latch /\ IDEX \in Latch /\ EXMEM \in Latch /\ MEMWB \in Latch
  /\ exit_flag \in BOOLEAN
  /\ output \in Seq(Words)
  /\ last \in {"other", "mul", "div", "divu"}
  /\ inst_num \in Nat /\ inst_cycle \in Nat /\ stall_num \in Nat
  /\ branch_num \in Nat /\ mispre_num \in Nat
  /\ cycles \in Nat /\ blocked \in Nat /\ surplus \in Nat /\ idle \in Nat
  /\ done \in [branches : Nat, taken : Nat]

(* The operands in EX are what decoding the same instruction again would   *)
(* read, and nobody ahead of it will still write one of them: no stale     *)
(* register value passes ID, although WB writes after ID has read and there*)
(* is no forwarding.                                                       *)
OperandsCurrent ==
  IDEX.enable =>
    /\ \A latch \in {EXMEM, MEMWB} :
         /\ Reads1(IDEX.inst) => ~ WritesTo(latch, Src1(IDEX.inst))
         /\ Reads2(IDEX.inst) => ~ WritesTo(latch, Src2(IDEX.inst))
    /\ LET d == Operands(IDEX.inst, IDEX.PC, [reg EXCEPT ![0] = 0])
       IN /\ d.data1 = IDEX.data1 /\ d.data2 = IDEX.data2
          /\ d.result = IDEX.result
          /\ d.sdata = IDEX.sdata /\ d.nextPC = IDEX.nextPC

(* Each branch that completes was counted once, with its outcome, and no   *)
(* branch that a misprediction flushed was.                                *)
BranchesExact ==
  /\ branch_num = done.branches + Count(EXMEM.enable /\ Branches(EXMEM.inst))
  /\ mispre_num = done.taken
                  + Count(EXMEM.enable /\ BranchTaken(EXMEM.inst, EXMEM))

(* Instructions that MEM has processed: WB has counted all but the last.   *)
Completed ==
  inst_num + Count(MEMWB.enable /\ ~ ExitsProgram(MEMWB.inst, MEMWB))

Bubbles == Count(~ IFID.enable) + Count(~ IDEX.enable) + Count(~ EXMEM.enable)

(* The cycle count is explained by what the counters report: one cycle per *)
(* instruction, three to fill the pipeline, two per misprediction, one per *)
(* cycle that held the PC, less the bubbles that have not reached MEM yet, *)
(* and what multiplications and divisions add.                             *)
CyclesExact ==
  inst_cycle = Completed + 3 + 2 * mispre_num + blocked - Bubbles + surplus

(* Stalls and flushes never add up to a pipeline that stands still: MEM    *)
(* gets an instruction at least in every fourth cycle.                     *)
Progress == idle <= 3

-----------------------------------------------------------------------------
(* The pipeline as a sequential machine.  An instruction takes effect when *)
(* MEM has processed it: its register, which WB still has to write, counts *)
(* as written, and the next one is the oldest that has not reached MEM.    *)

ArchRegs ==
  [r \in Regs |->
     IF r = 0 THEN 0
     ELSE IF ~ exit_flag /\ WritesTo(MEMWB, r) THEN MEMWB.result
     ELSE reg[r]]

ArchPC == IF EXMEM.enable THEN EXMEM.PC
          ELSE IF IDEX.enable THEN IDEX.PC
          ELSE IF IFID.enable THEN IFID.PC
          ELSE PC

ArchInstret == inst_num + Count(~ exit_flag /\ MEMWB.enable)

Sequential == INSTANCE ISA WITH
                pc <- ArchPC, regs <- ArchRegs, halted <- exit_flag,
                instret <- ArchInstret

(* No word that the program can reach is illegal.  (One would stop it when *)
(* it is decoded, before the instructions ahead of it.)                    *)
NoIllegal ==
  /\ Pad.kind # "illegal"
  /\ \A p \in Programs : \A k \in DOMAIN p : p[k].kind # "illegal"

(* The overlapped, stalled and flushed execution is the sequential one: the*)
(* same registers, memory, output and instruction count after each         *)
(* instruction, and the same exit.                                         *)
ImplementsISA == Sequential!Spec

-----------------------------------------------------------------------------
(* What the documentation says of the flag and of a counter.               *)

(* The instruction that MEM has just processed ends the program.           *)
EndsInMEM ==
  MEMWB.enable /\ (ExitsProgram(MEMWB.inst, MEMWB)
                   \/ Misaligned(MEMWB.inst, AluResult(MEMWB.inst, MEMWB)))

(* exit_flag says that all instructions have been run: none ahead of the   *)
(* one that set it is still on its way through MEM and WB.                 *)
AllInstructionsDone ==
  exit_flag => EndsInMEM \/ (~ EXMEM.enable /\ ~ MEMWB.enable)

(* stall_num is the number of cycles the pipeline was blocked by a hazard. *)
StallsExact == stall_num = blocked

=============================================================================
