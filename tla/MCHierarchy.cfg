\* Two levels under a mix of write policies.
CONSTANTS
  Depth = 2
  Geometry <- TwoLevels
  AddrBit = 16
  MemSize = 32768
  Addrs = {0, 8, 16, 32, 64}
  Values = {0, 1}
  Zero = 0
  Configs <- MixedPolicies
  NoRequest = NoRequest
  HitTime <- TwoTimes
  MaxRequests = 4
SPECIFICATION Spec
INVARIANTS
  TypeOK
  StackBounded
  TrafficExact
  TimeExact
  Coherent
  CleanMatchesBelow
PROPERTIES
  ImplementsFlatStore
