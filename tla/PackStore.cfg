CONSTANTS
  Hash = {1, 2, 3}
  LenOf <- MCLenOf
  OffsetSpace = 8
  Capacity = 6
  Threshold = 30
  Faults = {"io", "crash"}
  MaxBatch = 3
  MaxFaults = 2
SPECIFICATION Spec
INVARIANTS
  TypeOK
  IndexedReadable
  SpaceAccounted
PROPERTY ImplementsChunkMap
