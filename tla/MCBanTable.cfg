SPECIFICATION Spec
CONSTANTS
  a = a
  b = b
  n = n
  p1 = p1
  p2 = p2
  h1 = h1
  m1 = m1
  m2 = m2
  full = full
  short = short
  NoNode = NoNode
  NoKey = NoKey
  Thread = {p1, p2, h1}
  HookThread = {h1}
  Node = {m1, m2}
  Key = {a, b, n}
  MaxBan = 2
  Layer = {full, short}
  NBucket <- PairBuckets
  LayerOf <- PairLayerOf
  BucketOf <- PairBucketOf
  Cover <- PairCover
SYMMETRY Symmetry
INVARIANTS BanCountExact UniqueKey TemporaryWillEnd HiddenOnlyWhileMarking
PROPERTIES ImplementsBanSet LiveBanOnlyDeleted
CHECK_DEADLOCK FALSE
