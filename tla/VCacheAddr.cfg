\* Two sets of two ways: do the blocks keep their own data below the cache?
CONSTANTS
  Size = 64
  Associativity = 2
  BlockSize = 16
  AddrBit = 16
  MemSize = 65536
  Addrs = {0, 16, 32, 64}
  Values = {0, 1}
  Configs <- DeployedConfig
  Zero = 0
  Garbage = {200}
  NoRequest = NoRequest
  StackLimit = 4
  HitTime = 13
  MemTime = 106
  MaxRequests = 5
SPECIFICATION Spec
PROPERTIES
  ImplementsFlatStore
