SPECIFICATION Spec
CONSTANTS
  Parsers = {p1}
  Handlers = {h1, h2}
  ChanCap = 1
  ShuffleSize = 2
  MaxLines = 3
  MaxBadEdges = 1
  MaxWrites = 4
  markUids = TRUE
  MaxEvictions = 1
  NumKeys = 3
  Lists = {1, 2}
  KvsCap = 1
  BatchMax = 2
  KeyBytes = {"own", "later"}
  Converters = {c1, c2}
  FlushAt = 2
  BufCap = 3
  ChkvCap = 1
  ChbCap = 2
  BkMaxKeys = 3
  RlNodes = {n1, n2, n3}
  RlMaxLeads = 2
  PrGroups = {g1, g2}
  GroupEdges = {e1, e2}
  BmPeers = {b1, b2}
  MsgSizes = {2, 3}
  BmMsgs = 3
  MessagesCap = 2
  MaxCalls = 2
  PoolUsers = {u1, u2, u3}
  PoolCap = 1
  MaxConns = 4
INVARIANTS
  TransfersAreComplete AckedIsApplied EachInOnePlace
PROPERTIES
  CallsReturn PoolIsNeverReplaced
CHECK_DEADLOCK FALSE
