\* One set of three ways (fully associative), write back, write allocate,
\* over an array that ends where the last line does.
CONSTANTS
  Size = 48
  Associativity = 3
  BlockSize = 16
  AddrBit = 16
  MemSize = 784
  Addrs = {0, 16, 32, 56}
  Values = {0, 1}
  Configs <- DeployedConfig
  Zero = 0
  Garbage = {200}
  NoRequest = NoRequest
  StackLimit = 4
  HitTime = 13
  MemTime = 106
  MaxRequests = 5
SPECIFICATION Spec
INVARIANTS
  CntIsAge
  CleanMatchesLower
  Coherent
  StaysInArray
PROPERTIES
  VictimIsOld
  ImplementsFlatStore
