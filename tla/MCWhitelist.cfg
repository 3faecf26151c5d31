SPECIFICATION Spec
CONSTANTS
  a = a
  b = b
  ha = ha
  n = n
  p1 = p1
  c1 = c1
  Packet = {p1}
  Caller = {c1}
  Prefix = {ha, n}
  Addr = {a, b}
  Net <- TwoNet
  Covers <- TwoCovers
  Device = {"", "manual"}
  NBucket = 2
  BucketOf <- TwoBucketOf
  MaxBan = 2
  MaxWl = 1
  MaxPasses = 2
  Topology <- TwoTopology
  MaxChange = 1
  NoPrefix = NoPrefix
INVARIANTS EventIsLearned RemoveLiftsBans
PROPERTIES ProtectedPasses
CHECK_DEADLOCK FALSE
