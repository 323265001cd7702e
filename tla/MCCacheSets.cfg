\* Two sets of two ways, blocks of two words, every write policy.
CONSTANTS
  Size = 64
  Associativity = 2
  BlockSize = 16
  AddrBit = 16
  MemSize = 3072
  Addrs = {0, 16, 56, 80, 112}
  Values = {0}
  Configs <- MixedConfigs
  Zero = 0
  Garbage = {7}
  NoRequest = NoRequest
  StackLimit = 4
  HitTime = 13
  MemTime = 106
  MaxRequests = 5
SPECIFICATION Spec
INVARIANTS
  TypeOK
  TagsUnique
  CntIsAge
  RecursionBounded
  AccessesExact
  TimeExact
PROPERTIES
  RequestReturns
