CONSTANTS
  WordSize <- MCWordSize
  Regs <- MCRegs
  Alu <- MCAlu
  Taken <- MCTaken
  LoadData <- MCLoadData
  InitRegs <- MCInitRegs
  Length = 4
  Insts <- LegalInsts
  Programs <- LegalPrograms
  Pad <- Nop
  MaxCycles = 13
SPECIFICATION Spec
INVARIANTS
  TypeOK
  OperandsCurrent
  BranchesExact
  CyclesExact
  Progress
PROPERTIES
  ImplementsISA
