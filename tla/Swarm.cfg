CONSTANTS
  m1 = m1
  m2 = m2
  Machine = {m1, m2}
  c1 = c1
  c2 = c2
  Chunk = {c1, c2}
  Byte <- MCByte
  Addrs <- MCAddrs
  Limit = 1
  BatchSize = 2
  MaxNode = 3
  MaxTask = 2
  Faults = {"rpc", "net", "disk", "crash"}
  MaxFaults = 2
SPECIFICATION FairSpec
INVARIANTS
  TypeOK
  LedgerTruthful
  DoneComplete
  EgressBounded
PROPERTIES
  TasksSucceed
CHECK_DEADLOCK FALSE
