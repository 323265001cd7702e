\* Registers of 8 bits; header fields of bytes with 4 values.
CONSTANTS
  XLen = 8
  Byte = 4
  FieldBytes <- SomeFieldBytes
  File <- SomeFile
  Memory0 <- SomeMemory
  Sections <- SomeSections
  NameTables <- SomeNames
  Registers <- SomeRegs
  Imms12 <- SomeImms12
  Imms20 <- SomeImms20
  Shamts <- SomeShamts
  Opcodes <- SomeOpcodes
  RegisterTriples <- SomeTriples
  Operands <- SomeWords
  Elements <- SomeElements
  Addresses <- SomeAddresses
  Doublewords <- SomeData

SPECIFICATION Spec

INVARIANTS
  FieldsExact
  
  DecodesRV64IM
  RejectsTheRest
  AluConforms
  BranchConforms
  LoadsSelect
  StoresConform
