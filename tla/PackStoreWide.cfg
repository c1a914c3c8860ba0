CONSTANTS
  Hash = {1, 2, 3}
  LenOf <- MCLenOf
  OffsetSpace = 2
  Capacity = 6
  Threshold = 30
  Faults = {}
  MaxBatch = 2
  MaxFaults = 0
SPECIFICATION Spec
INVARIANT IndexedReadable
