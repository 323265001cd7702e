CONSTANTS
  WordSize <- MCWordSize
  Regs <- MCRegs
  Alu <- MCAlu
  Taken <- MCTaken
  LoadData <- MCLoadData
  InitRegs <- MCInitRegs
  Length = 3
  Insts <- AnyInsts
  Programs <- AnyPrograms
  Pad <- Illegal
  MaxCycles = 12
SPECIFICATION Spec
INVARIANTS
  AllInstructionsDone
