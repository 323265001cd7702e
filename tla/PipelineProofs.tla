--------------------------- MODULE PipelineProofs ---------------------------
(***************************************************************************)
(* Theorems about Pipeline, for every set of programs and every operation  *)
(* of the ALU, the branch unit and the LSU.                                *)
(***************************************************************************)
EXTENDS Pipeline, TLAPS

-----------------------------------------------------------------------------
(* Types of what an instruction computes.                                  *)

(* What the stages read of a record of operands.                           *)
OpsWords(d) ==
  /\ d.data1 \in Words /\ d.data2 \in Words /\ d.result \in Words
  /\ d.sdata \in Words /\ d.nextPC \in Words

LEMMA WrapType == \A x \in Int : Wrap(x) \in Words
BY InstsAssumption DEF Wrap, Words

LEMMA ZeroWord == 0 \in Words
BY InstsAssumption DEF Words

LEMMA InstType ==
  ASSUME NEW i \in Insts
  PROVE  /\ i.kind \in Kinds /\ i.imm \in Int
         /\ i.rd \in Regs /\ i.rs1 \in Regs /\ i.rs2 \in Regs
         /\ Src1(i) \in Regs /\ Src2(i) \in Regs
BY InstsAssumption DEF IsInst, Src1, Src2

LEMMA OperandsType ==
  ASSUME NEW i \in Insts, NEW pc \in Words, NEW regs \in [Regs -> Words]
  PROVE  OpsWords(Operands(i, pc, regs))
<1> USE InstType, WrapType, ZeroWord
<1> DEFINE d == Operands(i, pc, regs)
<1>1. pc \in Int /\ \A w \in Words : w \in Int
  BY InstsAssumption DEF Words
<1>2. regs[Src1(i)] \in Words /\ regs[Src2(i)] \in Words
      /\ regs[i.rs1] \in Words /\ regs[i.rs2] \in Words
  OBVIOUS
<1>3. Wrap(4 * (pc + 1)) \in Words /\ Wrap(4 * pc + i.imm) \in Words
      /\ Wrap(pc + i.imm) \in Words /\ Wrap(i.imm) \in Words
  BY <1>1
<1>4. Wrap(regs[i.rs1] + i.imm) \div 4 \in Words
  <2> DEFINE target == regs[i.rs1] + i.imm
  <2>5. regs[i.rs1] \in Int
    BY <1>1, <1>2
  <2>6. i.imm \in Int
    BY InstType
  <2>1. target \in Int
    BY ONLY <2>5, <2>6 DEF target
  <2> HIDE DEF target
  <2>4. Wrap(target) \in Words
    BY <2>1
  <2>2. \A w \in Words : w \div 4 \in Words
    BY InstsAssumption DEF Words
  <2>3. QED
    BY <2>4, <2>2 DEF target
<1>5. d.data1 \in Words /\ d.data2 \in Words /\ d.sdata \in Words
  BY <1>2, <1>3 DEF Operands
<1>6. d.result \in Words
  BY <1>3 DEF Operands
<1>7. d.nextPC \in Words
  BY <1>3, <1>4 DEF Operands
<1>8. QED
  BY <1>5, <1>6, <1>7 DEF OpsWords

LEMMA AluResultType ==
  ASSUME NEW i \in Insts, NEW d, OpsWords(d)
  PROVE  AluResult(i, d) \in Words
<1>1. d.data1 \in Words /\ d.data2 \in Words /\ d.result \in Words
  BY DEF OpsWords
<1>2. Wrap(d.data1 + d.data2) \in Words
  BY <1>1, WrapType, InstsAssumption DEF Words
<1>3. i.kind \in {"alu", "alui"} => Alu(i.op, d.data1, d.data2) \in Words
  BY <1>1, OperationsAssumption
<1>4. QED
  BY <1>1, <1>2, <1>3 DEF AluResult

(* Memory's type, as TypeOK states it.                                     *)
MemWords(m) == DOMAIN m \subseteq Words /\ \A e \in DOMAIN m : m[e] \in Words

LEMMA MemResultType ==
  ASSUME NEW i \in Insts, NEW value \in Words, NEW m, MemWords(m)
  PROVE  MemResult(i, value, m) \in Words
<1>1. value \div 2 \in Words
  BY InstsAssumption DEF Words
<1>2. Element(m, value \div 2) \in Words
  BY ZeroWord DEF Element, MemWords
<1>3. i.kind = "load" => Loaded(i, value, m) \in Words
  BY <1>2, OperationsAssumption DEF Loaded
<1>4. QED
  BY <1>3 DEF MemResult

LEMMA StoredType ==
  ASSUME NEW i \in Insts, NEW addr \in Words, NEW sdata \in Words,
         NEW m, MemWords(m)
  PROVE  MemWords(Stored(i, addr, sdata, m))
<1>1. addr \div 8 \in Words
  BY InstsAssumption DEF Words
<1>2. QED
  BY <1>1 DEF Stored, MemWords

LEMMA FetchType ==
  ASSUME NEW p \in Programs, NEW pc \in Words
  PROVE  Fetch(p, pc) \in Insts
<1>1. p \in Seq(Insts)
  BY PipelineAssumption
<1>2. QED
  BY <1>1, InstsAssumption DEF Fetch

-----------------------------------------------------------------------------
(* Type correctness.                                                       *)

(* The part of TypeOK that says nothing of counters.                       *)
StateTypeOK ==
  /\ prog \in Programs
  /\ PC \in Words
  /\ reg \in [Regs -> Words]
  /\ MemWords(mem)
  /\ IFID \in Latch /\ IDEX \in Latch /\ EXMEM \in Latch /\ MEMWB \in Latch
  /\ exit_flag \in BOOLEAN
  /\ output \in Seq(Words)
  /\ last \in {"other", "mul", "div", "divu"}

CounterTypeOK ==
  /\ inst_num \in Nat /\ stall_num \in Nat
  /\ branch_num \in Nat /\ mispre_num \in Nat
  /\ cycles \in Nat /\ blocked \in Nat /\ idle \in Nat
  /\ done \in [branches : Nat, taken : Nat]

(* What the ALU adds is never less than nothing: a remainder is fused only *)
(* after a division, which has added more than that takes back.            *)
SurplusInv ==
  /\ surplus \in Nat
  /\ last \in {"div", "divu"} => surplus >= 1
  /\ inst_cycle = cycles + surplus

TypeInv == StateTypeOK /\ CounterTypeOK /\ SurplusInv

LEMMA BubbleType == Bubble \in Latch
BY InstsAssumption, ZeroWord DEF Bubble, Latch

LEMMA LatchOps ==
  \A l \in Latch : /\ OpsWords(l) /\ l.inst \in Insts
                   /\ l.PC \in Words /\ l.enable \in BOOLEAN
BY DEF Latch, OpsWords

LEMMA NewLatchTypes ==
  ASSUME StateTypeOK
  PROVE  /\ IFIDNew \in Latch /\ IDEXNew \in Latch
         /\ EXMEMNew \in Latch /\ MEMWBNew \in Latch
<1> USE BubbleType, LatchOps DEF StateTypeOK
<1>1. IFIDNew \in Latch
  <2>1. Fetch(prog, PC) \in Insts
    BY FetchType
  <2>2. QED
    BY <2>1 DEF IFIDNew, Latch, Bubble
<1>2. IDEXNew \in Latch
  <2>1. OpsWords(Operands(IFID.inst, IFID.PC, reg))
    BY OperandsType
  <2>2. QED
    BY <2>1 DEF IDEXNew, Latch, OpsWords
<1>3. EXMEMNew \in Latch
  <2>1. AluResult(IDEX.inst, IDEX) \in Words
    BY AluResultType
  <2>2. QED
    BY <2>1 DEF EXMEMNew, Latch
<1>4. MEMWBNew \in Latch
  <2>1. MemResult(EXMEM.inst, EXMEM.result, mem) \in Words
    BY MemResultType DEF OpsWords
  <2>2. QED
    BY <2>1 DEF MEMWBNew, Latch
<1>5. QED
  BY <1>1, <1>2, <1>3, <1>4

LEMMA RegNewType ==
  StateTypeOK => RegNew \in [Regs -> Words]
BY LatchOps, InstType DEF StateTypeOK, RegNew, OpsWords

Cycle == StepOnce \/ RunOn

LEMMA RegNext ==
  ASSUME StateTypeOK, Cycle
  PROVE  /\ reg' \in [Regs -> Words]
         /\ ~ exit_flag' => reg'[0] = 0
         /\ \A r \in Regs : r # 0 => reg'[r] = RegNew[r]
<1>1. RegNew \in [Regs -> Words] /\ 0 \in Regs /\ 0 \in Words
  BY RegNewType, ZeroWord, InstsAssumption
<1>2. \/ reg' = [RegNew EXCEPT ![0] = 0]
      \/ exit_flag' /\ reg' = RegNew
  BY DEF Cycle, StepOnce, RunOn
<1> HIDE DEF RegNew
<1>3. QED
  BY <1>1, <1>2

LEMMA StateTypeStep ==
  ASSUME StateTypeOK, Cycle
  PROVE  StateTypeOK'
<1> USE NewLatchTypes, BubbleType, LatchOps
<1>1. SimulateInst /\ UpdateRegs
  BY DEF Cycle, StepOnce, RunOn, SimulateInst
<1>2. PC' \in Words
  <2>1. IDEX.nextPC \in Words
    BY DEF StateTypeOK, OpsWords
  <2>2. Wrap(PC + 1) \in Words
    <3>1. PC + 1 \in Int
      BY InstsAssumption DEF StateTypeOK, Words
    <3>2. QED
      BY <3>1, WrapType
  <2>3. QED
    BY <1>1, <2>1, <2>2 DEF UpdateRegs, UpdatePC, NPC, StateTypeOK
<1>3. reg' \in [Regs -> Words]
  BY RegNext
<1>4. MemWords(mem)'
  <2>1. MemWords(MemNew)
    BY StoredType DEF MemNew, StateTypeOK, OpsWords
  <2>2. mem' = MemNew
    BY <1>1 DEF SimulateInst
  <2> HIDE DEF MemNew
  <2>3. QED
    BY <2>1, <2>2 DEF MemWords
<1>5. IFID' \in Latch /\ IDEX' \in Latch /\ EXMEM' \in Latch /\ MEMWB' \in Latch
  BY <1>1 DEF UpdateRegs, UpdateIFID, UpdateIDEX, StateTypeOK
<1>6. exit_flag' \in BOOLEAN
  BY <1>1 DEF SimulateInst
<1>7. output' \in Seq(Words)
  BY <1>1 DEF SimulateInst, OutputNew, Printed, StateTypeOK, OpsWords
<1>8. last' \in {"other", "mul", "div", "divu"}
  BY <1>1 DEF SimulateInst, AluLast, StateTypeOK
<1>9. prog' \in Programs
  BY <1>1 DEF SimulateInst, StateTypeOK
<1>10. QED
  BY <1>2, <1>3, <1>4, <1>5, <1>6, <1>7, <1>8, <1>9 DEF StateTypeOK

LEMMA CountType == \A c \in BOOLEAN : Count(c) \in {0, 1}
BY DEF Count

LEMMA CounterTypeStep ==
  ASSUME CounterTypeOK, Cycle
  PROVE  CounterTypeOK'
<1>1. SimulateInst /\ Observe
  BY DEF Cycle, StepOnce, RunOn
<1>2. \A c : Count(c) \in Nat
  BY DEF Count
<1>3. inst_num' \in Nat /\ stall_num' \in Nat /\ branch_num' \in Nat
      /\ mispre_num' \in Nat
  BY <1>1, <1>2 DEF SimulateInst, CountInst, CountBranch, CounterTypeOK
<1>4. cycles' \in Nat /\ blocked' \in Nat /\ idle' \in Nat
  BY <1>1, <1>2 DEF Observe, CounterTypeOK
<1>5. done' \in [branches : Nat, taken : Nat]
  BY <1>1, <1>2 DEF Observe, CounterTypeOK
<1>6. QED
  BY <1>3, <1>4, <1>5 DEF CounterTypeOK

LEMMA ExtraBounds ==
  /\ ExtraCycles \in Int /\ ExtraCycles >= -1
  /\ ExtraCycles < 0 => last \in {"div", "divu"}
BY DEF ExtraCycles, AluExtra, MulCycle, DivCycle

LEMMA ExtraLast ==
  IDEX.enable /\ AluLast(IDEX.inst) \in {"div", "divu"} => ExtraCycles = 39
BY DEF ExtraCycles, AluExtra, AluLast, DivCycle

LEMMA IdleExtra == ~ IDEX.enable => ExtraCycles = 0
BY DEF ExtraCycles

LEMMA SurplusStep ==
  ASSUME SurplusInv, CounterTypeOK, Cycle
  PROVE  SurplusInv'
<1>1. /\ surplus' = surplus + ExtraCycles
      /\ cycles' = cycles + 1
      /\ inst_cycle' = inst_cycle + ExtraCycles + 1
      /\ last' = IF IDEX.enable THEN AluLast(IDEX.inst) ELSE last
  BY DEF Cycle, StepOnce, RunOn, SimulateInst, Observe
<1> HIDE DEF ExtraCycles
<1>2. surplus' \in Nat /\ inst_cycle' = cycles' + surplus'
  BY <1>1, ExtraBounds DEF SurplusInv, CounterTypeOK
<1>3. ASSUME last' \in {"div", "divu"} PROVE surplus' >= 1
  BY <1>1, <1>3, ExtraBounds, ExtraLast, IdleExtra DEF SurplusInv
<1>4. QED
  BY <1>2, <1>3 DEF SurplusInv

LEMMA TypeInvInit == Init => TypeInv
<1> SUFFICES ASSUME Init PROVE TypeInv
  OBVIOUS
<1>1. MemWords(mem)
  BY DEF Init, MemWords
<1>2. StateTypeOK
  <2>1. reg \in [Regs -> Words]
    BY PipelineAssumption DEF Init
  <2>2. IFID \in Latch /\ IDEX \in Latch /\ EXMEM \in Latch /\ MEMWB \in Latch
    BY BubbleType DEF Init
  <2>3. prog \in Programs /\ PC \in Words /\ exit_flag \in BOOLEAN
        /\ last \in {"other", "mul", "div", "divu"}
    BY ZeroWord DEF Init
  <2>4. output \in Seq(Words)
    BY DEF Init
  <2>5. QED
    BY <1>1, <2>1, <2>2, <2>3, <2>4 DEF StateTypeOK
<1>3. CounterTypeOK /\ SurplusInv
  BY DEF Init, CounterTypeOK, SurplusInv
<1>4. QED
  BY <1>2, <1>3 DEF TypeInv

LEMMA TypeInvStep == TypeInv /\ [Next]_vars => TypeInv'
<1> SUFFICES ASSUME TypeInv, [Next]_vars PROVE TypeInv'
  OBVIOUS
<1>1. CASE Cycle
  BY <1>1, StateTypeStep, CounterTypeStep, SurplusStep DEF TypeInv
<1>2. CASE UNCHANGED vars
  BY <1>2 DEF TypeInv, StateTypeOK, MemWords, CounterTypeOK, SurplusInv, vars,
              archVars, latches, counters, history
<1>3. QED
  BY <1>1, <1>2 DEF Next, Cycle, Stopped

LEMMA TypeInvAlways == Spec => []TypeInv
BY TypeInvInit, TypeInvStep, PTL DEF Spec

(* Every variable keeps its type; in particular the cycle count, which a   *)
(* fused remainder takes one from, never falls below the cycles simulated. *)
THEOREM TypeCorrect == Spec => []TypeOK
<1>1. TypeInv => TypeOK
  BY DEF TypeInv, StateTypeOK, MemWords, CounterTypeOK, SurplusInv, TypeOK
<1>2. QED
  BY <1>1, TypeInvAlways, PTL

-----------------------------------------------------------------------------
(* How the pipeline registers move in a cycle.                             *)

LEMMA LatchNext ==
  Cycle =>
    /\ IFID' = IF MispreOccur THEN Bubble
               ELSE IF HazardOccur THEN IFID ELSE IFIDNew
    /\ IDEX' = IF HazardOccur \/ MispreOccur THEN Bubble ELSE IDEXNew
    /\ EXMEM' = EXMEMNew
    /\ MEMWB' = MEMWBNew
BY DEF Cycle, StepOnce, RunOn, SimulateInst, UpdateRegs, UpdateIFID, UpdateIDEX

LEMMA EXMEMFields ==
  ASSUME StateTypeOK, Cycle
  PROVE  /\ EXMEM'.enable = IDEX.enable
         /\ IDEX.enable => /\ EXMEM'.inst = IDEX.inst
                           /\ EXMEM'.PC = IDEX.PC
                           /\ EXMEM'.data1 = IDEX.data1
                           /\ EXMEM'.data2 = IDEX.data2
<1>1. EXMEM' = EXMEMNew /\ IDEX \in Latch
  BY LatchNext DEF StateTypeOK
<1>2. CASE ~ IDEX.enable
  BY <1>1, <1>2, LatchOps DEF EXMEMNew, Bubble
<1>3. CASE IDEX.enable
  <2> DEFINE v == AluResult(IDEX.inst, IDEX)
  <2>1. EXMEM' = [IDEX EXCEPT !.result = v]
    BY <1>1, <1>3 DEF EXMEMNew
  <2> HIDE DEF v
  <2>2. QED
    BY <1>1, <2>1 DEF Latch
<1>4. QED
  BY <1>2, <1>3

LEMMA MEMWBFields ==
  ASSUME StateTypeOK, Cycle
  PROVE  /\ MEMWB'.enable = EXMEM.enable
         /\ EXMEM.enable => /\ MEMWB'.inst = EXMEM.inst
                            /\ MEMWB'.data1 = EXMEM.data1
                            /\ MEMWB'.data2 = EXMEM.data2
<1>1. MEMWB' = MEMWBNew /\ EXMEM \in Latch
  BY LatchNext DEF StateTypeOK
<1>2. CASE ~ EXMEM.enable
  BY <1>1, <1>2, LatchOps DEF MEMWBNew, Bubble
<1>3. CASE EXMEM.enable
  <2> DEFINE v == MemResult(EXMEM.inst, EXMEM.result, mem)
  <2>1. MEMWB' = [EXMEM EXCEPT !.result = v]
    BY <1>1, <1>3 DEF MEMWBNew
  <2> HIDE DEF v
  <2>2. QED
    BY <1>1, <2>1 DEF Latch
<1>4. QED
  BY <1>2, <1>3

LEMMA WritersMove ==
  ASSUME StateTypeOK, Cycle, NEW r
  PROVE  /\ WritesTo(EXMEM', r) <=> WritesTo(IDEX, r)
         /\ WritesTo(MEMWB', r) <=> WritesTo(EXMEM, r)
BY EXMEMFields, MEMWBFields DEF WritesTo

-----------------------------------------------------------------------------
(* Operands.                                                               *)

(* Decoding depends on the registers it reads.                             *)
LEMMA OperandsReads ==
  ASSUME NEW i \in Insts, NEW pc, NEW r, NEW s,
         Reads1(i) => r[Src1(i)] = s[Src1(i)],
         Reads2(i) => r[Src2(i)] = s[Src2(i)]
  PROVE  Operands(i, pc, r) = Operands(i, pc, s)
<1>1. i.kind = "jalr" => r[i.rs1] = s[i.rs1]
  BY DEF Reads1, Src1
<1>2. i.kind = "store" => r[i.rs2] = s[i.rs2]
  BY DEF Reads2, Src2
<1>3. QED
  BY <1>1, <1>2 DEF Operands

ZeroInv == ~ exit_flag => reg[0] = 0

(* No writer of a source of i among EX, MEM and WB.                        *)
LEMMA NoHazard ==
  ASSUME NEW i, ~ DataHazard(i)
  PROVE  \A latch \in {IDEX, EXMEM, MEMWB} :
           /\ Reads1(i) => ~ WritesTo(latch, Src1(i))
           /\ Reads2(i) => ~ WritesTo(latch, Src2(i))
BY DEF DataHazard

(* A register that WB does not write keeps its value through the cycle.    *)
LEMMA Unwritten ==
  ASSUME StateTypeOK, ZeroInv, Cycle, NEW r \in Regs, ~ WritesTo(MEMWB, r)
  PROVE  [reg' EXCEPT ![0] = 0][r] = reg[r]
<1>1. ~ exit_flag
  BY DEF Cycle, StepOnce, RunOn, Runs
<1>2. reg' \in [Regs -> Words] /\ reg \in [Regs -> Words] /\ 0 \in Regs
  BY RegNext, InstsAssumption DEF StateTypeOK
<1>3. CASE r = 0
  BY <1>1, <1>2, <1>3 DEF ZeroInv
<1>4. CASE r # 0
  <2>1. reg'[r] = RegNew[r]
    BY <1>4, RegNext
  <2>2. RegNew[r] = reg[r]
    BY <1>2 DEF RegNew, WritesTo
  <2>3. QED
    BY <2>1, <2>2, <1>2, <1>4
<1>5. QED
  BY <1>3, <1>4

LEMMA ZeroStep ==
  ASSUME StateTypeOK, Cycle
  PROVE  ZeroInv'
BY RegNext DEF ZeroInv

LEMMA OperandsStep ==
  ASSUME StateTypeOK, ZeroInv, Cycle
  PROVE  OperandsCurrent'
<1> DEFINE i == IFID.inst
           r == [reg' EXCEPT ![0] = 0]
<1> SUFFICES ASSUME IDEX'.enable PROVE OperandsCurrent'
  BY DEF OperandsCurrent
<1>1. IDEX' = IDEXNew /\ ~ HazardOccur /\ IFID.enable
  BY LatchNext DEF Bubble, IDEXNew
<1>2. ~ DataHazard(i)
  BY <1>1 DEF HazardOccur
<1>3. i \in Insts /\ IFID.PC \in Words
  BY LatchOps DEF StateTypeOK
<1>4. /\ IDEX'.inst = i /\ IDEX'.PC = IFID.PC
      /\ LET d == Operands(i, IFID.PC, reg)
         IN /\ IDEX'.data1 = d.data1 /\ IDEX'.data2 = d.data2
            /\ IDEX'.result = d.result
            /\ IDEX'.sdata = d.sdata /\ IDEX'.nextPC = d.nextPC
  BY <1>1 DEF IDEXNew
<1>5. Reads1(i) => ~ WritesTo(EXMEM', Src1(i)) /\ ~ WritesTo(MEMWB', Src1(i))
  BY <1>2, NoHazard, WritersMove
<1>6. Reads2(i) => ~ WritesTo(EXMEM', Src2(i)) /\ ~ WritesTo(MEMWB', Src2(i))
  BY <1>2, NoHazard, WritersMove
<1>7. Operands(i, IFID.PC, r) = Operands(i, IFID.PC, reg)
  <2>1. Src1(i) \in Regs /\ Src2(i) \in Regs
    BY <1>3, InstType
  <2>2. Reads1(i) => r[Src1(i)] = reg[Src1(i)]
    BY <2>1, <1>2, NoHazard, Unwritten
  <2>3. Reads2(i) => r[Src2(i)] = reg[Src2(i)]
    BY <2>1, <1>2, NoHazard, Unwritten
  <2> HIDE DEF r, i
  <2>4. QED
    BY <2>2, <2>3, <1>3, OperandsReads
<1> HIDE DEF r, i
<1>8. Operands(IDEX'.inst, IDEX'.PC, r) = Operands(i, IFID.PC, reg)
  BY <1>4, <1>7
<1>9. QED
  BY <1>4, <1>5, <1>6, <1>8 DEF OperandsCurrent, r

OperandsInv == ZeroInv /\ OperandsCurrent

LEMMA OperandsInvInit == Init => OperandsInv
BY PipelineAssumption DEF Init, OperandsInv, ZeroInv, OperandsCurrent, Bubble

LEMMA OperandsInvStep ==
  TypeInv /\ OperandsInv /\ [Next]_vars => OperandsInv'
<1> SUFFICES ASSUME TypeInv, OperandsInv, [Next]_vars PROVE OperandsInv'
  OBVIOUS
<1>1. CASE Cycle
  BY <1>1, ZeroStep, OperandsStep DEF OperandsInv, TypeInv
<1>2. CASE UNCHANGED vars
  BY <1>2 DEF OperandsInv, ZeroInv, OperandsCurrent, vars, archVars, latches
<1>3. QED
  BY <1>1, <1>2 DEF Next, Cycle, Stopped

(* No instruction enters EX with an operand that an instruction ahead of it*)
(* has yet to write: data_hazard looks far enough ahead, and WB's write in *)
(* the cycle of ID's read does no harm.                                    *)
THEOREM CurrentOperands == Spec => []OperandsCurrent
<1>1. OperandsInv => OperandsCurrent
  BY DEF OperandsInv
<1>2. Spec => []OperandsInv
  BY OperandsInvInit, OperandsInvStep, TypeInvAlways, PTL DEF Spec
<1>3. QED
  BY <1>1, <1>2, PTL

-----------------------------------------------------------------------------
(* Counters.                                                               *)

LEMMA CounterNext ==
  Cycle =>
    /\ inst_num' = inst_num + Count(MEMWB.enable) + Count(ExitOccur)
    /\ branch_num' = branch_num + Count(IDEX.enable /\ Branches(IDEX.inst))
    /\ mispre_num' = mispre_num + Count(MispreOccur)
    /\ inst_cycle' = inst_cycle + ExtraCycles + 1
    /\ blocked' = blocked + Count(IFStall)
    /\ surplus' = surplus + ExtraCycles
    /\ done' = [branches |-> done.branches
                  + Count(EXMEM.enable /\ Branches(EXMEM.inst)),
                taken    |-> done.taken
                  + Count(EXMEM.enable /\ BranchTaken(EXMEM.inst, EXMEM))]
    /\ idle' = IF EXMEM.enable THEN 0 ELSE idle + 1
    /\ exit_flag' = (IllegalOccur \/ MisalignedOccur \/ ExitOccur)
BY DEF Cycle, StepOnce, RunOn, SimulateInst, Observe, CountInst, CountBranch

LEMMA BranchesInit == Init => BranchesExact
BY DEF Init, BranchesExact, Bubble, Count

LEMMA BranchesStep ==
  ASSUME TypeInv, BranchesExact, Cycle
  PROVE  BranchesExact'
<1> DEFINE b == Count(EXMEM.enable /\ Branches(EXMEM.inst))
           t == Count(EXMEM.enable /\ BranchTaken(EXMEM.inst, EXMEM))
<1>1. Count(EXMEM.enable /\ Branches(EXMEM.inst))'
      = Count(IDEX.enable /\ Branches(IDEX.inst))
  BY EXMEMFields DEF TypeInv, Count
<1>2. Count(EXMEM.enable /\ BranchTaken(EXMEM.inst, EXMEM))'
      = Count(MispreOccur)
  BY EXMEMFields DEF TypeInv, Count, MispreOccur, BranchTaken
<1>3. done'.branches = done.branches + b /\ done'.taken = done.taken + t
  BY CounterNext
<1>4. branch_num = done.branches + b /\ mispre_num = done.taken + t
  BY DEF BranchesExact
<1>5. branch_num' = done'.branches + Count(IDEX.enable /\ Branches(IDEX.inst))
  BY <1>3, <1>4, CounterNext
<1>6. mispre_num' = done'.taken + Count(MispreOccur)
  BY <1>3, <1>4, CounterNext
<1>7. QED
  BY <1>1, <1>2, <1>5, <1>6 DEF BranchesExact

(* The branch counters report the branches that complete, and no others: a *)
(* branch is counted past the point where it could still be flushed, and   *)
(* its outcome does not change between EX and MEM.                         *)
THEOREM ExactBranches == Spec => []BranchesExact
<1>1. TypeInv /\ BranchesExact /\ [Next]_vars => BranchesExact'
  <2> SUFFICES ASSUME TypeInv, BranchesExact, [Next]_vars
               PROVE  BranchesExact'
    OBVIOUS
  <2>1. CASE Cycle
    BY <2>1, BranchesStep
  <2>2. CASE UNCHANGED vars
    BY <2>2 DEF BranchesExact, vars, latches, counters, history
  <2>3. QED
    BY <2>1, <2>2 DEF Next, Cycle, Stopped
<1>2. QED
  BY <1>1, BranchesInit, TypeInvAlways, PTL DEF Spec

-----------------------------------------------------------------------------
(* Cycles.                                                                 *)

(* IFID is empty only in the cycle after a flush, when IDEX is too; and an *)
(* instruction that exits is never in WB while the program runs.           *)
OccupancyInv ==
  /\ IDEX.enable => IFID.enable
  /\ ~ exit_flag => ~ (MEMWB.enable /\ ExitsProgram(MEMWB.inst, MEMWB))

(* Which latches hold an instruction after a cycle.                        *)
LEMMA EnableNext ==
  ASSUME StateTypeOK, Cycle
  PROVE  /\ IFID'.enable = ~ MispreOccur
         /\ IDEX'.enable = (IFID.enable /\ ~ HazardOccur /\ ~ MispreOccur)
         /\ EXMEM'.enable = IDEX.enable
         /\ MEMWB'.enable = EXMEM.enable
<1>1. IFIDNew.enable = TRUE
  BY DEF IFIDNew, Bubble
<1>2. IDEXNew.enable = IFID.enable
  BY LatchOps DEF StateTypeOK, IDEXNew, Bubble
<1>3. HazardOccur => IFID.enable = TRUE
  BY LatchOps DEF StateTypeOK, HazardOccur
<1>4. /\ MispreOccur \in BOOLEAN /\ HazardOccur \in BOOLEAN
      /\ IFID.enable \in BOOLEAN
  BY LatchOps DEF StateTypeOK, MispreOccur, HazardOccur
<1>5. Bubble.enable = FALSE
  BY DEF Bubble
<1> HIDE DEF IFIDNew, IDEXNew, HazardOccur, MispreOccur, Bubble
<1>6. IFID'.enable = ~ MispreOccur
  <2>1. CASE MispreOccur
    BY <2>1, <1>5, LatchNext
  <2>2. CASE ~ MispreOccur
    <3>1. IFID' = IF HazardOccur THEN IFID ELSE IFIDNew
      BY <2>2, LatchNext
    <3>2. QED
      BY <3>1, <2>2, <1>1, <1>3, <1>4
  <2>3. QED
    BY <2>1, <2>2
<1>7. IDEX'.enable = (IFID.enable /\ ~ HazardOccur /\ ~ MispreOccur)
  <2>1. CASE HazardOccur \/ MispreOccur
    BY <2>1, <1>4, <1>5, LatchNext
  <2>2. CASE ~ (HazardOccur \/ MispreOccur)
    <3>1. IDEX' = IDEXNew
      BY <2>2, LatchNext
    <3>2. QED
      BY <3>1, <2>2, <1>2, <1>4
  <2>3. QED
    BY <2>1, <2>2
<1>8. QED
  BY <1>6, <1>7, EXMEMFields, MEMWBFields

LEMMA ExitNext ==
  ASSUME StateTypeOK, Cycle
  PROVE  (MEMWB.enable /\ ExitsProgram(MEMWB.inst, MEMWB))' <=> ExitOccur
BY MEMWBFields DEF ExitsProgram, ExitOccur

LEMMA OccupancyInit == Init => OccupancyInv
BY DEF Init, OccupancyInv, Bubble

LEMMA OccupancyStep ==
  ASSUME StateTypeOK, Cycle
  PROVE  OccupancyInv'
<1>1. IDEX'.enable => IFID'.enable
  BY EnableNext
<1>2. ~ exit_flag' => ~ ExitOccur
  BY CounterNext
<1>3. QED
  BY <1>1, <1>2, ExitNext DEF OccupancyInv

LEMMA OccupancyAlways == Spec => []OccupancyInv
<1>1. TypeInv /\ OccupancyInv /\ [Next]_vars => OccupancyInv'
  <2> SUFFICES ASSUME TypeInv, OccupancyInv, [Next]_vars
               PROVE  OccupancyInv'
    OBVIOUS
  <2>1. CASE Cycle
    BY <2>1, OccupancyStep DEF TypeInv
  <2>2. CASE UNCHANGED vars
    BY <2>2 DEF OccupancyInv, vars, archVars, latches
  <2>3. QED
    BY <2>1, <2>2 DEF Next, Cycle, Stopped
<1>2. QED
  BY <1>1, OccupancyInit, TypeInvAlways, PTL DEF Spec

LEMMA CompletedNext ==
  ASSUME TypeInv, OccupancyInv, Cycle
  PROVE  Completed' = Completed + Count(EXMEM.enable)
<1>1. ~ exit_flag
  BY DEF Cycle, StepOnce, RunOn, Runs
<1>2. Completed = inst_num + Count(MEMWB.enable)
  BY <1>1 DEF OccupancyInv, Completed, Count
<1>3. Count(MEMWB.enable /\ ~ ExitsProgram(MEMWB.inst, MEMWB))'
      = Count(EXMEM.enable /\ ~ ExitOccur)
  BY ExitNext, MEMWBFields DEF TypeInv, Count
<1>4. Count(ExitOccur) + Count(EXMEM.enable /\ ~ ExitOccur)
      = Count(EXMEM.enable)
  BY DEF Count, ExitOccur
<1>5. Completed' = inst_num' + Count(EXMEM.enable /\ ~ ExitOccur)
  BY <1>3 DEF Completed
<1>6. inst_num \in Nat /\ \A c : Count(c) \in Nat
  BY DEF TypeInv, CounterTypeOK, Count
<1>7. inst_num' = inst_num + Count(MEMWB.enable) + Count(ExitOccur)
  BY CounterNext
<1> HIDE DEF ExitOccur
<1>8. QED
  BY <1>2, <1>4, <1>5, <1>6, <1>7

LEMMA BubblesNext ==
  ASSUME TypeInv, OccupancyInv, Cycle
  PROVE  Bubbles' + 1
         = Bubbles + Count(EXMEM.enable) + 2 * Count(MispreOccur)
           + Count(IFStall)
<1>1. HazardOccur => IFID.enable
  BY DEF HazardOccur
<1>2. MispreOccur => IFID.enable
  BY DEF MispreOccur, OccupancyInv
<1>3. /\ Count(~ IFID.enable)' = Count(MispreOccur)
      /\ Count(~ IDEX.enable)'
         = Count(~ (IFID.enable /\ ~ HazardOccur /\ ~ MispreOccur))
      /\ Count(~ EXMEM.enable)' = Count(~ IDEX.enable)
  BY EnableNext DEF TypeInv, Count
<1>4. Bubbles' = Count(MispreOccur)
        + Count(~ (IFID.enable /\ ~ HazardOccur /\ ~ MispreOccur))
        + Count(~ IDEX.enable)
  BY <1>3 DEF Bubbles
<1> HIDE DEF HazardOccur, MispreOccur
<1>5. QED
  BY <1>1, <1>2, <1>4 DEF Bubbles, Count, IFStall

LEMMA CyclesInit == Init => CyclesExact
BY DEF Init, CyclesExact, Completed, Bubbles, Bubble, Count

LEMMA CyclesStep ==
  ASSUME TypeInv, OccupancyInv, CyclesExact, Cycle
  PROVE  CyclesExact'
<1>1. /\ inst_cycle' = inst_cycle + ExtraCycles + 1
      /\ mispre_num' = mispre_num + Count(MispreOccur)
      /\ blocked' = blocked + Count(IFStall)
      /\ surplus' = surplus + ExtraCycles
  BY CounterNext
<1>2. inst_cycle = Completed + 3 + 2 * mispre_num + blocked - Bubbles + surplus
  BY DEF CyclesExact
<1>3. Completed' = Completed + Count(EXMEM.enable)
  BY CompletedNext
<1>4. Bubbles' + 1 = Bubbles + Count(EXMEM.enable) + 2 * Count(MispreOccur)
                     + Count(IFStall)
  BY BubblesNext
<1>5. /\ inst_cycle \in Int /\ mispre_num \in Int /\ blocked \in Int
      /\ surplus \in Int /\ ExtraCycles \in Int
      /\ Completed \in Int /\ Bubbles \in Int /\ Bubbles' \in Int
      /\ Count(EXMEM.enable) \in Int /\ Count(MispreOccur) \in Int
      /\ Count(IFStall) \in Int
  BY ExtraBounds DEF TypeInv, CounterTypeOK, SurplusInv, Completed, Bubbles,
                     Count
<1>6. inst_cycle' = Completed' + 3 + 2 * mispre_num' + blocked' - Bubbles'
                    + surplus'
  <2> HIDE DEF Completed, Bubbles, ExtraCycles, MispreOccur, IFStall, Count
  <2>1. QED
    BY <1>1, <1>2, <1>3, <1>4, <1>5
<1>7. QED
  BY <1>6 DEF CyclesExact

(* At every moment, for every program and every mix of stalls and flushes, *)
(* the cycle count follows from the instructions, the mispredictions, the  *)
(* cycles that held the PC, the bubbles and the surplus.                   *)
THEOREM ExactCycles == Spec => []CyclesExact
<1>1. TypeInv /\ OccupancyInv /\ CyclesExact /\ [Next]_vars => CyclesExact'
  <2> SUFFICES ASSUME TypeInv, OccupancyInv, CyclesExact, [Next]_vars
               PROVE  CyclesExact'
    OBVIOUS
  <2>1. CASE Cycle
    BY <2>1, CyclesStep
  <2>2. CASE UNCHANGED vars
    BY <2>2 DEF CyclesExact, Completed, Bubbles, vars, archVars, latches,
                counters, history
  <2>3. QED
    BY <2>1, <2>2 DEF Next, Cycle, Stopped
<1>2. QED
  BY <1>1, CyclesInit, OccupancyAlways, TypeInvAlways, PTL DEF Spec

-----------------------------------------------------------------------------
(* Progress.                                                               *)

(* Cycles until MEM has an instruction: no flush delays that, as the branch*)
(* that causes it goes to MEM itself.                                      *)
Distance ==
  IF EXMEM.enable THEN 0
  ELSE IF IDEX.enable THEN 1
  ELSE IF IFID.enable THEN 2 + Count(HazardOccur)
  ELSE 3

DistanceInv == idle + Distance <= 3

LEMMA DistanceInit == Init => DistanceInv
BY DEF Init, DistanceInv, Distance, Bubble

LEMMA DistanceStep ==
  ASSUME TypeInv, DistanceInv, Cycle
  PROVE  DistanceInv'
<1>1. /\ IFID'.enable = ~ MispreOccur
      /\ IDEX'.enable = (IFID.enable /\ ~ HazardOccur /\ ~ MispreOccur)
      /\ EXMEM'.enable = IDEX.enable
      /\ MEMWB'.enable = EXMEM.enable
  BY EnableNext DEF TypeInv
<1>2. idle' = (IF EXMEM.enable THEN 0 ELSE idle + 1) /\ idle \in Nat
  BY CounterNext DEF TypeInv, CounterTypeOK
<1>3. ~ IDEX'.enable /\ ~ EXMEM'.enable /\ ~ MEMWB'.enable => ~ HazardOccur'
  BY DEF HazardOccur, DataHazard, WritesTo
<1>4. Distance' = IF EXMEM'.enable THEN 0
                  ELSE IF IDEX'.enable THEN 1
                  ELSE IF IFID'.enable THEN 2 + Count(HazardOccur)'
                  ELSE 3
  BY DEF Distance
<1>5. ~ HazardOccur' => Count(HazardOccur)' = 0
  BY DEF Count
<1>6. MispreOccur => IDEX.enable
  BY DEF MispreOccur
<1>7. CASE EXMEM.enable
  <2>1. idle' = 0
    BY <1>2, <1>7
  <2>2. idle' + Distance' <= 3
    BY <2>1 DEF Distance, Count
  <2>3. QED
    BY <2>2 DEF DistanceInv
<1>8. CASE ~ EXMEM.enable /\ IDEX.enable
  <2>1. Distance = 1 /\ Distance' = 0
    BY <1>1, <1>8 DEF Distance
  <2>2. QED
    BY <2>1, <1>2, <1>8 DEF DistanceInv
<1>9. CASE ~ EXMEM.enable /\ ~ IDEX.enable /\ IFID.enable /\ ~ HazardOccur
  <2>1. Distance = 2
    BY <1>9 DEF Distance, Count
  <2>2. ~ EXMEM'.enable /\ IDEX'.enable
    BY <1>1, <1>6, <1>9
  <2>3. Distance' = 1
    BY <2>2, <1>4
  <2>4. QED
    BY <2>1, <2>3, <1>2, <1>9 DEF DistanceInv
<1>10. CASE ~ EXMEM.enable /\ ~ IDEX.enable /\ (~ IFID.enable \/ HazardOccur)
  <2>1. Distance = 3
    BY <1>10 DEF Distance, Count
  <2>2. Distance' = 2
    <3>1. IFID'.enable /\ ~ IDEX'.enable /\ ~ EXMEM'.enable /\ ~ MEMWB'.enable
      BY <1>1, <1>6, <1>10
    <3>2. QED
      BY <3>1, <1>3, <1>4, <1>5
  <2>3. QED
    BY <2>1, <2>2, <1>2, <1>10 DEF DistanceInv
<1>11. QED
  BY <1>7, <1>8, <1>9, <1>10

(* No program makes stalls and flushes follow one another so closely that  *)
(* the pipeline stands still: MEM is never without an instruction for more *)
(* than three cycles.                                                      *)
THEOREM NeverStandsStill == Spec => []Progress
<1>1. TypeInv /\ DistanceInv /\ [Next]_vars => DistanceInv'
  <2> SUFFICES ASSUME TypeInv, DistanceInv, [Next]_vars
               PROVE  DistanceInv'
    OBVIOUS
  <2>1. CASE Cycle
    BY <2>1, DistanceStep
  <2>2. CASE UNCHANGED vars
    BY <2>2 DEF DistanceInv, Distance, HazardOccur, DataHazard, vars, latches,
                history
  <2>3. QED
    BY <2>1, <2>2 DEF Next, Cycle, Stopped
<1>2. TypeInv /\ DistanceInv => Progress
  <2>1. Distance \in 0 .. 3
    BY DEF Distance, Count
  <2>2. QED
    BY <2>1 DEF DistanceInv, Progress, TypeInv, CounterTypeOK
<1>3. QED
  BY <1>1, <1>2, DistanceInit, TypeInvAlways, PTL DEF Spec

-----------------------------------------------------------------------------
(* The pipeline implements the sequential machine, for every program       *)
(* without an illegal word, every set of registers, every word size and    *)
(* every operation of the ALU, the branch unit and the LSU.  (An illegal   *)
(* word ends a program when it is decoded, ahead of the instructions before*)
(* it: run v_exit.)                                                        *)

(* The instructions in flight are those at their program counters.         *)
FetchedInv ==
  \A latch \in {IFID, IDEX, EXMEM} :
    latch.enable => latch.inst = Fetch(prog, latch.PC)

(* The instruction behind EX, and the one behind MEM.                      *)
BehindEX  == IF IFID.enable THEN IFID.PC ELSE PC
BehindMEM == IF IDEX.enable THEN IDEX.PC ELSE BehindEX

(* The path of the program: ID and EX hold what was predicted, and behind  *)
(* MEM comes what the instruction in MEM leads to.                         *)
PathInv ==
  /\ IFID.enable => PC = Wrap(IFID.PC + 1)
  /\ IDEX.enable => BehindEX = Wrap(IDEX.PC + 1)
  /\ EXMEM.enable =>
       BehindMEM = IF BranchTaken(EXMEM.inst, EXMEM) THEN EXMEM.nextPC
                                                     ELSE Wrap(EXMEM.PC + 1)

(* Record l has the operands d.                                            *)
HasOps(l, d) ==
  /\ l.data1 = d.data1 /\ l.data2 = d.data2
  /\ l.sdata = d.sdata /\ l.nextPC = d.nextPC

(* The instruction in MEM has the operands that the sequential machine     *)
(* would give it, and the result.                                          *)
MemInv ==
  EXMEM.enable /\ ~ exit_flag =>
    LET d == Operands(EXMEM.inst, EXMEM.PC, ArchRegs)
    IN HasOps(EXMEM, d) /\ EXMEM.result = AluResult(EXMEM.inst, d)

(* The inductive invariant, next to TypeInv and OperandsInv.               *)
FlightInv == FetchedInv /\ PathInv /\ MemInv

-----------------------------------------------------------------------------
(* How an instruction moves through the pipeline.                          *)

(* A bubble holds no instruction.                                          *)
LEMMA BubbleIdle == ~ Bubble.enable
BY DEF Bubble

(* What IF fetches.                                                        *)
LEMMA Fetched ==
  /\ IFIDNew.enable /\ IFIDNew.PC = PC /\ IFIDNew.inst = Fetch(prog, PC)
BY DEF IFIDNew, Bubble

(* What ID passes on.                                                      *)
LEMMA Decoded ==
  /\ ~ IFID.enable => ~ IDEXNew.enable
  /\ IFID.enable => /\ IDEXNew.enable
                    /\ IDEXNew.inst = IFID.inst /\ IDEXNew.PC = IFID.PC
BY DEF IDEXNew, Bubble

(* What EX passes on.                                                      *)
LEMMA Computed ==
  ASSUME StateTypeOK, Cycle
  PROVE  /\ EXMEM'.enable = IDEX.enable
         /\ IDEX.enable => /\ EXMEM'.inst = IDEX.inst
                           /\ EXMEM'.PC = IDEX.PC
                           /\ HasOps(EXMEM', IDEX)
                           /\ EXMEM'.result = AluResult(IDEX.inst, IDEX)
<1>1. EXMEM' = EXMEMNew /\ IDEX \in Latch
  BY LatchNext DEF StateTypeOK
<1>2. CASE ~ IDEX.enable
  BY <1>1, <1>2, LatchOps DEF EXMEMNew, Bubble
<1>3. CASE IDEX.enable
  <2> DEFINE v == AluResult(IDEX.inst, IDEX)
  <2>1. EXMEM' = [IDEX EXCEPT !.result = v]
    BY <1>1, <1>3 DEF EXMEMNew
  <2> HIDE DEF v
  <2>2. EXMEM'.result = v
    BY <1>1, <2>1 DEF Latch
  <2>3. /\ EXMEM'.enable = IDEX.enable /\ EXMEM'.inst = IDEX.inst /\ EXMEM'.PC = IDEX.PC
        /\ HasOps(EXMEM', IDEX)
    BY <1>1, <2>1 DEF Latch, HasOps
  <2>4. QED
    BY <2>2, <2>3 DEF v
<1>4. QED
  BY <1>2, <1>3

(* The program stays, and its counter is held or moves on.                 *)
LEMMA PathNext ==
  Cycle => /\ prog' = prog
           /\ PC' = IF MispreOccur THEN IDEX.nextPC
                    ELSE IF HazardOccur THEN PC ELSE Wrap(PC + 1)
BY DEF Cycle, StepOnce, RunOn, SimulateInst, UpdateRegs, UpdatePC, IFStall, NPC

(* A cycle keeps FetchedInv.                                               *)
LEMMA FetchedStep ==
  ASSUME StateTypeOK, FetchedInv, Cycle
  PROVE  FetchedInv'
<1>1. IFID'.enable => IFID'.inst = Fetch(prog', IFID'.PC)
  BY LatchNext, PathNext, BubbleIdle, Fetched DEF FetchedInv
<1>2. IDEX'.enable => IDEX'.inst = Fetch(prog', IDEX'.PC)
  BY LatchNext, PathNext, BubbleIdle, Decoded DEF FetchedInv
<1>3. EXMEM'.enable => EXMEM'.inst = Fetch(prog', EXMEM'.PC)
  BY PathNext, Computed DEF FetchedInv
<1>4. QED
  BY <1>1, <1>2, <1>3 DEF FetchedInv

(* The instruction behind MEM in the next cycle, unless it is flushed, is  *)
(* the one behind it now, or in EX if there is none in it.                 *)
LEMMA BehindNext ==
  ASSUME StateTypeOK, PathInv, Cycle
  PROVE  /\ ~ MispreOccur =>
              /\ ~ IDEX'.enable => BehindEX' = BehindEX
              /\ BehindMEM' = BehindEX
         /\ MispreOccur => BehindEX' = IDEX.nextPC /\ BehindMEM' = IDEX.nextPC
<1>1. CASE MispreOccur
  BY <1>1, LatchNext, PathNext, BubbleIdle DEF BehindEX, BehindMEM
<1>2. CASE ~ MispreOccur /\ HazardOccur
  BY <1>2, LatchNext, PathNext, BubbleIdle DEF BehindEX, BehindMEM
<1>3. CASE ~ MispreOccur /\ ~ HazardOccur
  <2>1. IFID' = IFIDNew /\ IDEX' = IDEXNew
    BY <1>3, LatchNext
  <2>2. BehindEX' = PC
    BY <2>1, Fetched DEF BehindEX
  <2>3. CASE IFID.enable
    <3>1. IDEX'.enable /\ IDEX'.PC = IFID.PC
      BY <2>1, <2>3, Decoded
    <3>2. QED
      BY <1>3, <2>3, <3>1 DEF BehindEX, BehindMEM
  <2>4. CASE ~ IFID.enable
    <3>1. ~ IDEX'.enable
      BY <2>1, <2>4, Decoded
    <3>2. QED
      BY <1>3, <2>2, <2>4, <3>1 DEF BehindEX, BehindMEM
  <2>5. QED
    BY <2>3, <2>4
<1>4. QED
  BY <1>1, <1>2, <1>3

(* A cycle keeps PathInv.                                                  *)
LEMMA PathStep ==
  ASSUME StateTypeOK, PathInv, Cycle
  PROVE  PathInv'
<1>1. IFID'.enable => PC' = Wrap(IFID'.PC + 1)
  BY LatchNext, PathNext, BubbleIdle, Fetched DEF PathInv
<1>2. IDEX'.enable => BehindEX' = Wrap(IDEX'.PC + 1)
  <2> SUFFICES ASSUME IDEX'.enable PROVE BehindEX' = Wrap(IDEX'.PC + 1)
    OBVIOUS
  <2>1. ~ MispreOccur /\ ~ HazardOccur /\ IDEX' = IDEXNew /\ IFID' = IFIDNew
    BY LatchNext, BubbleIdle
  <2>2. IFID.enable /\ IDEX'.PC = IFID.PC
    BY <2>1, Decoded
  <2>3. BehindEX' = PC
    BY <2>1, Fetched DEF BehindEX
  <2>4. QED
    BY <2>2, <2>3 DEF PathInv
<1>3. EXMEM'.enable =>
        BehindMEM' = IF BranchTaken(EXMEM'.inst, EXMEM') THEN EXMEM'.nextPC
                                                         ELSE Wrap(EXMEM'.PC + 1)
  <2> SUFFICES ASSUME EXMEM'.enable
               PROVE  BehindMEM' = IF BranchTaken(EXMEM'.inst, EXMEM') THEN EXMEM'.nextPC
                                   ELSE Wrap(EXMEM'.PC + 1)
    OBVIOUS
  <2>1. /\ IDEX.enable /\ EXMEM'.inst = IDEX.inst /\ EXMEM'.PC = IDEX.PC
        /\ HasOps(EXMEM', IDEX)
    BY Computed
  <2>2. BranchTaken(EXMEM'.inst, EXMEM') <=> MispreOccur
    BY <2>1 DEF BranchTaken, MispreOccur, HasOps
  <2>3. EXMEM'.nextPC = IDEX.nextPC
    BY <2>1 DEF HasOps
  <2>4. BehindEX = Wrap(IDEX.PC + 1)
    BY <2>1 DEF PathInv
  <2>5. QED
    BY <2>1, <2>2, <2>3, <2>4, BehindNext
<1>4. QED
  BY <1>1, <1>2, <1>3 DEF PathInv

-----------------------------------------------------------------------------
(* Registers.                                                              *)

(* What the sequential machine's registers are after a cycle: those before,*)
(* and what the instruction in MEM writes, unless the cycle ends the run.  *)
LEMMA ArchRegsNext ==
  ASSUME StateTypeOK, ZeroInv, Cycle
  PROVE  /\ ArchRegs \in [Regs -> Words]
         /\ ArchRegs' = [r \in Regs |->
              IF r = 0 THEN 0
              ELSE IF ~ exit_flag' /\ WritesTo(EXMEM, r) THEN MEMWB'.result
              ELSE ArchRegs[r]]
<1>1. ~ exit_flag
  BY DEF Cycle, StepOnce, RunOn, Runs
<1>2. reg \in [Regs -> Words] /\ MEMWB \in Latch /\ 0 \in Words
  BY ZeroWord DEF StateTypeOK
<1>3. ArchRegs \in [Regs -> Words]
  BY <1>2, LatchOps DEF ArchRegs, OpsWords
<1>4. ASSUME NEW r \in Regs, r # 0
      PROVE  reg'[r] = ArchRegs[r]
  <2>1. reg'[r] = RegNew[r]
    BY <1>4, RegNext
  <2>2. CASE WritesTo(MEMWB, r)
    <3>1. RegNew[r] = MEMWB.result
      BY <1>2, <2>2 DEF RegNew, WritesTo
    <3>2. QED
      BY <1>1, <1>4, <2>1, <2>2, <3>1 DEF ArchRegs
  <2>3. CASE ~ WritesTo(MEMWB, r)
    <3>1. RegNew[r] = reg[r]
      BY <1>2, <2>3 DEF RegNew, WritesTo
    <3>2. QED
      BY <1>4, <2>1, <2>3, <3>1 DEF ArchRegs
  <2>4. QED
    BY <2>2, <2>3
<1>5. \A r \in Regs : WritesTo(MEMWB', r) <=> WritesTo(EXMEM, r)
  BY WritersMove
<1>6. ArchRegs' = [r \in Regs |->
         IF r = 0 THEN 0
         ELSE IF ~ exit_flag' /\ WritesTo(MEMWB', r) THEN MEMWB'.result
         ELSE reg'[r]]
  BY DEF ArchRegs, WritesTo
<1>7. QED
  BY <1>3, <1>4, <1>5, <1>6

(* The operands in EX are those of the sequential machine, once what is    *)
(* ahead has reached WB.                                                   *)
LEMMA MemStep ==
  ASSUME StateTypeOK, OperandsInv, Cycle
  PROVE  MemInv'
<1> SUFFICES ASSUME EXMEM'.enable
             PROVE  LET d == Operands(EXMEM'.inst, EXMEM'.PC, ArchRegs')
                    IN HasOps(EXMEM', d) /\ EXMEM'.result = AluResult(EXMEM'.inst, d)
  BY DEF MemInv
<1> DEFINE i == IDEX.inst
           zeroed == [reg EXCEPT ![0] = 0]
           d == Operands(i, IDEX.PC, zeroed)
<1>1. /\ IDEX.enable /\ EXMEM'.inst = i /\ EXMEM'.PC = IDEX.PC
      /\ HasOps(EXMEM', IDEX) /\ EXMEM'.result = AluResult(i, IDEX)
  BY Computed
<1>2. i \in Insts /\ IDEX.PC \in Words /\ Src1(i) \in Regs /\ Src2(i) \in Regs
  BY LatchOps, InstType DEF StateTypeOK
<1>3. HasOps(IDEX, d) /\ IDEX.result = d.result
  BY <1>1 DEF OperandsInv, OperandsCurrent, HasOps
<1>4. ASSUME NEW r \in Regs, ~ WritesTo(EXMEM, r), ~ WritesTo(MEMWB, r)
      PROVE  ArchRegs'[r] = zeroed[r]
  <2>1. reg \in [Regs -> Words] /\ 0 \in Regs
    BY InstsAssumption DEF StateTypeOK
  <2>2. ArchRegs'[r] = IF r = 0 THEN 0 ELSE ArchRegs[r]
    BY <1>4, ArchRegsNext DEF OperandsInv
  <2>3. ArchRegs[r] = IF r = 0 THEN 0 ELSE reg[r]
    BY <1>4 DEF ArchRegs
  <2>4. QED
    BY <2>1, <2>2, <2>3
<1>5. /\ Reads1(i) => ArchRegs'[Src1(i)] = zeroed[Src1(i)]
      /\ Reads2(i) => ArchRegs'[Src2(i)] = zeroed[Src2(i)]
  BY <1>1, <1>2, <1>4 DEF OperandsInv, OperandsCurrent
<1> HIDE DEF zeroed
<1>6. Operands(i, IDEX.PC, ArchRegs') = d
  BY <1>2, <1>5, OperandsReads
<1>7. AluResult(i, IDEX) = AluResult(i, d)
  BY <1>3 DEF AluResult, HasOps
<1>8. HasOps(EXMEM', d)
  BY <1>1, <1>3 DEF HasOps
<1>9. QED
  BY <1>1, <1>6, <1>7, <1>8

(* The empty pipeline.                                                     *)
LEMMA FlightInvInit == Init => FlightInv
BY DEF Init, FlightInv, FetchedInv, PathInv, MemInv, Bubble

(* Every step keeps the invariant.                                         *)
LEMMA FlightInvStep ==
  TypeInv /\ OperandsInv /\ FlightInv /\ [Next]_vars => FlightInv'
<1> SUFFICES ASSUME TypeInv, OperandsInv, FlightInv, [Next]_vars PROVE FlightInv'
  OBVIOUS
<1>1. CASE Cycle
  BY <1>1, FetchedStep, PathStep, MemStep DEF FlightInv, TypeInv
<1>2. CASE UNCHANGED vars
  BY <1>2 DEF FlightInv, FetchedInv, PathInv, MemInv, BehindEX, BehindMEM, ArchRegs,
              WritesTo, vars, archVars, latches
<1>3. QED
  BY <1>1, <1>2 DEF Next, Cycle, Stopped

-----------------------------------------------------------------------------
(* The refinement.                                                         *)

(* The sequential machine computes with the same operators.                *)
LEMMA SameOperators ==
  /\ \A p, c : Sequential!Fetch(p, c) = Fetch(p, c)
  /\ \A x : Sequential!Wrap(x) = Wrap(x)
  /\ \A i, c, r : Sequential!Operands(i, c, r) = Operands(i, c, r)
  /\ \A i, d : Sequential!AluResult(i, d) = AluResult(i, d)
  /\ \A i, d : Sequential!BranchTaken(i, d) <=> BranchTaken(i, d)
  /\ \A i : Sequential!Writes(i) <=> Writes(i)
  /\ \A i, a : Sequential!Misaligned(i, a) <=> Misaligned(i, a)
  /\ \A i, v, m : Sequential!MemResult(i, v, m) = MemResult(i, v, m)
  /\ \A i, a, w, m : Sequential!Stored(i, a, w, m) = Stored(i, a, w, m)
  /\ \A i, d, o : Sequential!Printed(i, d, o) = Printed(i, d, o)
  /\ \A i, d : Sequential!ExitsProgram(i, d) <=> ExitsProgram(i, d)
<1>1. \A p, c : Sequential!Fetch(p, c) = Fetch(p, c)
  BY DEF Fetch, Sequential!Fetch
<1>2. \A x : Sequential!Wrap(x) = Wrap(x)
  BY DEF Wrap, Sequential!Wrap
<1>3. \A i, c, r : Sequential!Operands(i, c, r) = Operands(i, c, r)
  BY DEF Operands, Reads1, Reads2, Src1, Src2, UsesImm, A0, A1, Wrap,
         Sequential!Operands, Sequential!Reads1, Sequential!Reads2,
         Sequential!Src1, Sequential!Src2, Sequential!UsesImm,
         Sequential!A0, Sequential!A1, Sequential!Wrap
<1>4. \A i, d : Sequential!AluResult(i, d) = AluResult(i, d)
  BY DEF AluResult, Wrap, Sequential!AluResult, Sequential!Wrap
<1>5. \A i, d : Sequential!BranchTaken(i, d) <=> BranchTaken(i, d)
  BY DEF BranchTaken, Sequential!BranchTaken
<1>6. \A i : Sequential!Writes(i) <=> Writes(i)
  BY DEF Writes, Sequential!Writes
<1>7. \A i, a : Sequential!Misaligned(i, a) <=> Misaligned(i, a)
  BY DEF Misaligned, Accesses, Width,
         Sequential!Misaligned, Sequential!Accesses, Sequential!Width
<1>8. \A i, v, m : Sequential!MemResult(i, v, m) = MemResult(i, v, m)
  BY DEF MemResult, Loaded, Element,
         Sequential!MemResult, Sequential!Loaded, Sequential!Element
<1>9. \A i, a, w, m : Sequential!Stored(i, a, w, m) = Stored(i, a, w, m)
  BY DEF Stored, Sequential!Stored
<1>10. \A i, d, o : Sequential!Printed(i, d, o) = Printed(i, d, o)
  BY DEF Printed, PrintsNumber, PrintCode,
         Sequential!Printed, Sequential!PrintsNumber, Sequential!PrintCode
<1>11. \A i, d : Sequential!ExitsProgram(i, d) <=> ExitsProgram(i, d)
  BY DEF ExitsProgram, ExitCode, Sequential!ExitsProgram, Sequential!ExitCode
<1>12. QED
  BY <1>1, <1>2, <1>3, <1>4, <1>5, <1>6, <1>7, <1>8, <1>9, <1>10, <1>11

(* The instruction that the sequential machine executes next is in MEM, if *)
(* there is one, with the operands and the value that it has there.        *)
LEMMA InMEM ==
  ASSUME FlightInv, EXMEM.enable, ~ exit_flag
  PROVE  /\ ArchPC = EXMEM.PC
         /\ Sequential!Inst = EXMEM.inst
         /\ HasOps(EXMEM, Sequential!Ops)
         /\ Sequential!Value = EXMEM.result
<1>1. ArchPC = EXMEM.PC
  BY DEF ArchPC
<1>2. Sequential!Inst = EXMEM.inst
  BY <1>1, SameOperators DEF Sequential!Inst, FlightInv, FetchedInv
<1>3. Sequential!Ops = Operands(EXMEM.inst, EXMEM.PC, ArchRegs)
  BY <1>1, <1>2, SameOperators DEF Sequential!Ops
<1>4. Sequential!Value = AluResult(EXMEM.inst, Sequential!Ops)
  BY <1>2, SameOperators DEF Sequential!Value
<1>5. QED
  BY <1>1, <1>2, <1>3, <1>4 DEF FlightInv, MemInv

(* Where the sequential machine goes on after a cycle.                     *)
LEMMA ArchPCNext ==
  ASSUME StateTypeOK, FlightInv, Cycle
  PROVE  /\ ~ EXMEM.enable => ArchPC' = ArchPC
         /\ EXMEM.enable =>
              ArchPC' = IF BranchTaken(EXMEM.inst, EXMEM) THEN EXMEM.nextPC
                                                          ELSE Wrap(EXMEM.PC + 1)
<1>1. ArchPC' = BehindMEM
  <2>1. CASE IDEX.enable
    BY <2>1, Computed DEF ArchPC, BehindMEM
  <2>2. CASE ~ IDEX.enable
    <3>1. ~ EXMEM'.enable
      BY <2>2, Computed
    <3>2. ~ MispreOccur
      BY <2>2 DEF MispreOccur
    <3>3. ArchPC' = BehindMEM'
      BY <3>1 DEF ArchPC, BehindMEM, BehindEX
    <3>4. QED
      BY <2>2, <3>2, <3>3, BehindNext DEF FlightInv, BehindMEM
  <2>3. QED
    BY <2>1, <2>2
<1>2. ~ EXMEM.enable => ArchPC = BehindMEM
  BY DEF ArchPC, BehindMEM, BehindEX
<1>3. QED
  BY <1>1, <1>2 DEF FlightInv, PathInv

(* What is fetched is legal.                                               *)
LEMMA LegalFetches ==
  ASSUME NoIllegal, NEW p \in Programs, NEW c
  PROVE  Fetch(p, c).kind # "illegal"
BY DEF NoIllegal, Fetch

(* What MEM does to memory, output and the count of instructions.          *)
LEMMA ArchOutNext ==
  ASSUME TypeInv, FlightInv, NoIllegal, Cycle
  PROVE  /\ mem' = MemNew /\ output' = OutputNew /\ prog' = prog
         /\ exit_flag' = (MisalignedOccur \/ ExitOccur)
         /\ ArchInstret' = ArchInstret
              + Count(ExitOccur) + Count(~ exit_flag' /\ EXMEM.enable)
<1>1. ~ exit_flag /\ SimulateInst
  BY DEF Cycle, StepOnce, RunOn, Runs
<1>2. ~ IllegalOccur
  BY LegalFetches DEF IllegalOccur, FetchedInv, FlightInv, TypeInv, StateTypeOK
<1>3. exit_flag' = (MisalignedOccur \/ ExitOccur)
  BY <1>1, <1>2 DEF SimulateInst
<1>4. inst_num' = inst_num + Count(MEMWB.enable) + Count(ExitOccur)
  BY CounterNext
<1>5. MEMWB'.enable = EXMEM.enable
  BY MEMWBFields DEF TypeInv
<1>6. ArchInstret = inst_num + Count(MEMWB.enable)
  BY <1>1 DEF ArchInstret, Count
<1>7. ArchInstret' = inst_num' + Count(~ exit_flag' /\ EXMEM.enable)
  BY <1>5 DEF ArchInstret, Count
<1>8. \A c : Count(c) \in Int
  BY DEF Count
<1>9. inst_num \in Int
  BY DEF TypeInv, CounterTypeOK
<1>10. ArchInstret' = ArchInstret + Count(ExitOccur) + Count(~ exit_flag' /\ EXMEM.enable)
  BY <1>4, <1>6, <1>7, <1>8, <1>9
<1>11. QED
  BY <1>1, <1>3, <1>10 DEF SimulateInst

(* A cycle without an instruction in MEM is a stutter.                     *)
LEMMA IdleCycle ==
  ASSUME TypeInv, OperandsInv, FlightInv, NoIllegal, Cycle, ~ EXMEM.enable
  PROVE  UNCHANGED Sequential!vars
<1>1. ~ exit_flag
  BY DEF Cycle, StepOnce, RunOn, Runs
<1>2. ~ MisalignedOccur /\ ~ ExitOccur
  BY DEF MisalignedOccur, ExitOccur
<1>3. mem' = mem /\ output' = output /\ prog' = prog /\ exit_flag' = exit_flag
  BY <1>1, <1>2, ArchOutNext DEF MemNew, OutputNew, TypeInv, StateTypeOK
<1>4. ArchInstret' = ArchInstret
  <2>1. Count(ExitOccur) = 0 /\ Count(~ exit_flag' /\ EXMEM.enable) = 0
    BY <1>2 DEF Count
  <2>2. ArchInstret \in Int
    BY DEF ArchInstret, Count, TypeInv, CounterTypeOK
  <2>3. QED
    BY <2>1, <2>2, ArchOutNext
<1>5. ArchPC' = ArchPC
  BY ArchPCNext DEF TypeInv
<1>6. ArchRegs' = ArchRegs
  <2>1. \A r : ~ WritesTo(EXMEM, r)
    BY DEF WritesTo
  <2>2. ArchRegs \in [Regs -> Words] /\ (0 \in Regs => ArchRegs[0] = 0)
    BY ArchRegsNext DEF TypeInv, OperandsInv, ArchRegs
  <2>3. ArchRegs' = [r \in Regs |-> IF r = 0 THEN 0 ELSE ArchRegs[r]]
    BY <2>1, ArchRegsNext DEF TypeInv, OperandsInv
  <2>4. QED
    BY <2>2, <2>3
<1>7. QED
  BY <1>3, <1>4, <1>5, <1>6 DEF Sequential!vars

(* A cycle with one is a step of the sequential machine.                   *)
LEMMA BusyCycle ==
  ASSUME TypeInv, OperandsInv, FlightInv, NoIllegal, Cycle, EXMEM.enable
  PROVE  Sequential!Execute \/ Sequential!TrapMisaligned
<1> DEFINE i == EXMEM.inst
<1>1. ~ exit_flag
  BY DEF Cycle, StepOnce, RunOn, Runs
<1>2. /\ Sequential!Inst = i /\ Sequential!Value = EXMEM.result
      /\ HasOps(EXMEM, Sequential!Ops) /\ ArchPC = EXMEM.PC
  BY <1>1, InMEM
<1>3. i \in Insts /\ i.kind # "illegal" /\ EXMEM \in Latch
  BY LatchOps, LegalFetches DEF FlightInv, FetchedInv, TypeInv, StateTypeOK
<1>4. /\ mem' = Stored(i, EXMEM.result, EXMEM.sdata, mem)
      /\ output' = Printed(i, EXMEM, output)
      /\ prog' = prog
      /\ exit_flag' = (Misaligned(i, EXMEM.result) \/ ExitsProgram(i, EXMEM))
  BY ArchOutNext DEF MemNew, OutputNew, MisalignedOccur, ExitOccur
<1>5. /\ Printed(i, EXMEM, output) = Printed(i, Sequential!Ops, output)
      /\ ExitsProgram(i, EXMEM) <=> ExitsProgram(i, Sequential!Ops)
      /\ BranchTaken(i, EXMEM) <=> BranchTaken(i, Sequential!Ops)
      /\ EXMEM.sdata = Sequential!Ops.sdata /\ EXMEM.nextPC = Sequential!Ops.nextPC
  BY <1>2 DEF HasOps, Printed, PrintsNumber, ExitsProgram, BranchTaken
<1>6. ArchInstret \in Int
  BY DEF ArchInstret, Count, TypeInv, CounterTypeOK
<1>7. ArchPC' = IF BranchTaken(i, EXMEM) THEN EXMEM.nextPC ELSE Wrap(EXMEM.PC + 1)
  BY ArchPCNext DEF TypeInv
<1>8. ArchRegs \in [Regs -> Words] /\ 0 \in Regs /\ ArchRegs[0] = 0
  BY ArchRegsNext, InstsAssumption DEF TypeInv, OperandsInv, ArchRegs
<1>9. ArchRegs' = [r \in Regs |->
         IF r = 0 THEN 0
         ELSE IF ~ exit_flag' /\ WritesTo(EXMEM, r) THEN MEMWB'.result
         ELSE ArchRegs[r]]
  BY ArchRegsNext DEF TypeInv, OperandsInv
<1>10. MEMWB'.result = MemResult(i, EXMEM.result, mem)
  <2> DEFINE v == MemResult(EXMEM.inst, EXMEM.result, mem)
  <2>1. MEMWB' = [EXMEM EXCEPT !.result = v]
    BY LatchNext DEF MEMWBNew
  <2> HIDE DEF v
  <2>2. MEMWB'.result = v
    BY <1>3, <2>1 DEF Latch
  <2>3. QED
    BY <2>2 DEF v
<1>11. \A r : WritesTo(EXMEM, r) <=> Writes(i) /\ i.rd = r
  BY DEF WritesTo
<1>12. CASE Misaligned(i, EXMEM.result)
  <2>1. ~ ExitsProgram(i, EXMEM) /\ ~ BranchTaken(i, EXMEM) /\ exit_flag'
    BY <1>4, <1>12 DEF Misaligned, Accesses, ExitsProgram, BranchTaken
  <2>2. ArchRegs' = ArchRegs
    BY <1>8, <1>9, <2>1
  <2>3. output' = output
    BY <1>4, <1>12 DEF Misaligned, Accesses, Printed, PrintsNumber
  <2>4. ArchInstret' = ArchInstret
    <3>1. Count(ExitOccur) = 0 /\ Count(~ exit_flag' /\ EXMEM.enable) = 0
      BY <2>1 DEF Count, ExitOccur
    <3>2. QED
      BY <3>1, <1>6, ArchOutNext
  <2>5. exit_flag' = TRUE
    BY <1>4, <1>12 DEF TypeInv, StateTypeOK
  <2>6. Sequential!TrapMisaligned
    BY <1>1, <1>2, <1>3, <1>4, <1>5, <1>7, <1>12, <2>1, <2>2, <2>3, <2>4, <2>5, SameOperators
       DEF Sequential!TrapMisaligned
  <2>7. QED
    BY <2>6
<1>13. CASE ~ Misaligned(i, EXMEM.result)
  <2>1. exit_flag' = ExitsProgram(i, Sequential!Ops)
    BY <1>4, <1>5, <1>13 DEF ExitsProgram
  <2>2. ArchInstret' = ArchInstret + 1
    <3>1. Count(ExitOccur) + Count(~ exit_flag' /\ EXMEM.enable) = 1
      BY <1>5, <2>1 DEF Count, ExitOccur
    <3>2. Count(ExitOccur) \in Int /\ Count(~ exit_flag' /\ EXMEM.enable) \in Int
      BY DEF Count
    <3>3. QED
      BY <3>1, <3>2, <1>6, ArchOutNext
  <2>3. Writes(i) => ~ exit_flag'
    BY <2>1 DEF Writes, ExitsProgram
  <2>4. ArchRegs' = IF Writes(i)
                      THEN Sequential!Assigned(i.rd, MemResult(i, EXMEM.result, mem))
                      ELSE ArchRegs
    BY <1>8, <1>9, <1>10, <1>11, <2>3 DEF Sequential!Assigned
  <2>5. Sequential!Execute
    <3>1. /\ Sequential!Inst.kind # "illegal"
          /\ ~ Sequential!Misaligned(Sequential!Inst, Sequential!Value)
      BY <1>2, <1>3, <1>13, SameOperators
    <3>2. ArchPC' = IF Sequential!BranchTaken(Sequential!Inst, Sequential!Ops)
                      THEN Sequential!Ops.nextPC ELSE Sequential!Wrap(ArchPC + 1)
      BY <1>2, <1>5, <1>7, SameOperators
    <3>3. ArchRegs' = IF Sequential!Writes(Sequential!Inst)
                        THEN Sequential!Assigned(Sequential!Inst.rd,
                               Sequential!MemResult(Sequential!Inst, Sequential!Value, mem))
                        ELSE ArchRegs
      BY <1>2, <2>4, SameOperators
    <3>4. /\ mem' = Sequential!Stored(Sequential!Inst, Sequential!Value,
                                      Sequential!Ops.sdata, mem)
          /\ output' = Sequential!Printed(Sequential!Inst, Sequential!Ops, output)
      BY <1>2, <1>4, <1>5, SameOperators
    <3>5. exit_flag' = Sequential!ExitsProgram(Sequential!Inst, Sequential!Ops)
      BY <1>2, <2>1 DEF ExitsProgram, ExitCode,
                        Sequential!ExitsProgram, Sequential!ExitCode
    <3>6. QED
      BY <1>1, <1>4, <2>2, <3>1, <3>2, <3>3, <3>4, <3>5 DEF Sequential!Execute
  <2>6. QED
    BY <2>5
<1>14. QED
  BY <1>12, <1>13

(* The initial states are those of the sequential machine.                 *)
LEMMA SequentialInit == Init => Sequential!Init
<1> SUFFICES ASSUME Init PROVE Sequential!Init
  OBVIOUS
<1>1. ArchPC = 0 /\ ArchInstret = 0
  BY DEF Init, ArchPC, ArchInstret, Bubble, Count
<1>2. ArchRegs = InitRegs
  <2>1. \A r : ~ WritesTo(MEMWB, r)
    BY DEF Init, WritesTo, Bubble
  <2>2. InitRegs \in [Regs -> Words] /\ InitRegs[0] = 0 /\ reg = InitRegs
    BY PipelineAssumption DEF Init
  <2>3. QED
    BY <2>1, <2>2 DEF ArchRegs
<1>3. QED
  BY <1>1, <1>2 DEF Init, Sequential!Init

(* Every step is one of the sequential machine, or a stutter.              *)
LEMMA SequentialStep ==
  ASSUME NoIllegal, TypeInv, OperandsInv, FlightInv, [Next]_vars
  PROVE  [Sequential!Next]_(Sequential!vars)
<1>1. CASE Cycle
  BY <1>1, IdleCycle, BusyCycle DEF Sequential!Next
<1>2. CASE UNCHANGED vars
  BY <1>2 DEF Sequential!vars, ArchPC, ArchRegs, ArchInstret, WritesTo, vars, archVars,
              latches, counters
<1>3. QED
  BY <1>1, <1>2 DEF Next, Cycle, Stopped

(* The overlapped, stalled and flushed execution of a program is that of   *)
(* one instruction at a time: after each, the registers, the memory, the   *)
(* output and the instruction count are the same, and it exits the same.   *)
THEOREM PipelineIsSequential ==
  ASSUME NoIllegal
  PROVE  Spec => ImplementsISA
<1>1. TypeInv /\ OperandsInv /\ FlightInv /\ [Next]_vars => [Sequential!Next]_(Sequential!vars)
  BY SequentialStep
<1>2. QED
  BY TypeInvAlways, OperandsInvInit, OperandsInvStep, FlightInvInit, FlightInvStep,
     SequentialInit, <1>1, PTL
     DEF Spec, ImplementsISA, Sequential!Spec

=============================================================================
