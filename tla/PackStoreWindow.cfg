CONSTANTS
  Hash = {1, 2, 3}
  LenOf <- MCLenOf
  OffsetSpace = 8
  Capacity = 6
  Threshold = 30
  Faults = {"window"}
  MaxBatch = 2
  MaxFaults = 1
SPECIFICATION Spec
INVARIANT IndexedReadable
