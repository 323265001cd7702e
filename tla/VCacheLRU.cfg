\* One set of three ways: is the victim the least recently used block?
CONSTANTS
  Size = 48
  Associativity = 3
  BlockSize = 16
  AddrBit = 16
  MemSize = 65536
  Addrs = {0, 16, 32, 48}
  Values = {0}
  Configs <- DeployedConfig
  Zero = 0
  Garbage = {200}
  NoRequest = NoRequest
  StackLimit = 4
  HitTime = 13
  MemTime = 106
  MaxRequests = 5
SPECIFICATION Spec
PROPERTIES
  VictimIsLeastRecent
