CONSTANTS
  j1 = j1
  j2 = j2
  j3 = j3
  k1 = k1
  k2 = k2
  c1 = c1
  c2 = c2
  g = g
  Job = {j1, j2, j3}
  Conn = {k1, k2}
  Game = {g}
  NameWidth = 65536
  GameOf <- MCGameOf
  VersionOf <- MCVersionOf
  Files <- MCFiles
  Previous <- MCPrevious
  DirOf <- MCDirOf
  Wanted <- MCWanted
  Faults = {"append", "net", "crash", "stall", "disk", "rpc"}
  MaxFaults = 2
SPECIFICATION FairSpec
INVARIANTS
  TypeOK
  PublishedComplete
  OneHandle
PROPERTIES
  JobsEnd
  ConnsEnd
CHECK_DEADLOCK FALSE
