CONSTANTS
  WordSize <- MCWordSize
  Regs <- MCRegs
  Alu <- MCAlu
  Taken <- MCTaken
  LoadData <- MCLoadData
  InitRegs <- MCInitRegs
  Length = 2
  Insts <- LegalInsts
  Programs <- LegalPrograms
  Pad <- Nop
  MaxCycles = 12
SPECIFICATION Spec
INVARIANTS
  StallsExact
