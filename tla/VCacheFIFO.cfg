\* Two sets of two ways under FIFO: does every request get served?
CONSTANTS
  Size = 64
  Associativity = 2
  BlockSize = 16
  AddrBit = 16
  MemSize = 65536
  Addrs = {16, 48, 80}
  Values = {0}
  Configs <- FifoConfig
  Zero = 0
  Garbage = {200}
  NoRequest = NoRequest
  StackLimit = 4
  HitTime = 13
  MemTime = 106
  MaxRequests = 5
SPECIFICATION Spec
INVARIANTS
  PolicyServes
