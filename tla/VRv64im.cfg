\* What the README names, RV64IM, of a doubleword in memory.
CONSTANTS
  XLen = 8
  Byte = 4
  FieldBytes <- SomeFieldBytes
  File <- SomeFile
  Memory0 <- SomeMemory
  Sections <- SomeSections
  NameTables <- SomeNames
  Registers <- SomeRegs
  Imms12 <- SomeImms12
  Imms20 <- SomeImms20
  Shamts <- SomeShamts
  Opcodes <- SomeOpcodes
  RegisterTriples <- SomeTriples
  Operands <- SomeWords
  Elements <- SomeElements
  Addresses <- SomeAddresses
  Doublewords <- SomeData

SPECIFICATION Spec

INVARIANT LoadsSeeStores
