\* Two levels, as deployed: does the lower one hold what the upper one holds?
CONSTANTS
  Depth = 2
  Geometry <- TwoLevels
  AddrBit = 16
  MemSize = 65536
  Addrs = {0, 16, 32}
  Values = {0}
  Zero = 0
  Configs <- DeployedPolicies
  NoRequest = NoRequest
  HitTime <- TwoTimes
  MaxRequests = 5
SPECIFICATION Spec
INVARIANTS
  Inclusive
