-------------------------------- MODULE ISA ---------------------------------
(***************************************************************************)
(* What the pipeline of ISimulator promises: the program is executed one   *)
(* instruction at a time, each with the registers and the memory that all  *)
(* the instructions before it have left, until it exits or traps.          *)
(***************************************************************************)
EXTENDS Insts

CONSTANTS
  Programs,   \* the sequences of instructions considered
  InitRegs    \* the registers that main sets up (sp and gp), others 0

VARIABLES
  prog,       \* the program in memory
  pc,         \* the instruction to execute next, counted in instructions
  regs,       \* the registers
  mem,        \* the stored-to elements of memory
  halted,     \* the program has exited or trapped
  output,     \* the numbers it printed
  instret     \* how many instructions it has completed

vars == <<prog, pc, regs, mem, halted, output, instret>>

Inst == Fetch(prog, pc)
Ops == Operands(Inst, pc, regs)
Value == AluResult(Inst, Ops)

Init ==
  /\ prog \in Programs
  /\ pc = 0
  /\ regs = InitRegs
  /\ mem = << >>
  /\ halted = FALSE
  /\ output = << >>
  /\ instret = 0

(* Register 0 stays 0.                                                     *)
Assigned(rd, value) ==
  IF rd = 0 THEN regs ELSE [regs EXCEPT ![rd] = value]

(* An instruction that completes; exit is the last to.                     *)
Execute ==
  /\ ~ halted
  /\ Inst.kind # "illegal"
  /\ ~ Misaligned(Inst, Value)
  /\ pc' = IF BranchTaken(Inst, Ops) THEN Ops.nextPC ELSE Wrap(pc + 1)
  /\ regs' = IF Writes(Inst)
               THEN Assigned(Inst.rd, MemResult(Inst, Value, mem)) ELSE regs
  /\ mem' = Stored(Inst, Value, Ops.sdata, mem)
  /\ output' = Printed(Inst, Ops, output)
  /\ halted' = ExitsProgram(Inst, Ops)
  /\ instret' = instret + 1
  /\ UNCHANGED prog

(* A misaligned access stops the program; what the access stores is left   *)
(* open, and no register changes.                                          *)
TrapMisaligned ==
  /\ ~ halted
  /\ Inst.kind # "illegal"
  /\ Misaligned(Inst, Value)
  /\ halted' = TRUE
  /\ pc' = Wrap(pc + 1)
  /\ mem' \in {mem, Stored(Inst, Value, Ops.sdata, mem)}
  /\ UNCHANGED <<prog, regs, output, instret>>

(* An illegal instruction stops the program when its turn comes.           *)
TrapIllegal ==
  /\ ~ halted
  /\ Inst.kind = "illegal"
  /\ halted' = TRUE
  /\ UNCHANGED <<prog, pc, regs, mem, output, instret>>

Next == Execute \/ TrapMisaligned \/ TrapIllegal

Spec == Init /\ [][Next]_vars

=============================================================================
