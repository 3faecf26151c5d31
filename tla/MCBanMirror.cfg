SPECIFICATION MirrorFairSpec
CONSTANTS
  a = a
  b = b
  c = c
  ha = ha
  na = na
  hb = hb
  hc = hc
  Invalid = {c}
  Ip = {a, b, c}
  KeyOrder <- FourKeys
  AddrOf <- FourAddrs
  HostOf <- ThreeHosts
  MaxBan = 3
  Start = {{hb, hc}}
  PageCap = 1
  QueueCap = 1
  MaxActs = 2
  Nothing = Nothing
PROPERTIES SteadyBansKept MirrorConverges
CHECK_DEADLOCK FALSE
