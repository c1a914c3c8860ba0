CONSTANTS
  Request = {r1, r2}
  Kind = {"user"}
  MaxId = 2
  Version = {1, 2}
  MaxOps = 3
  MaxFaults = 1
SYMMETRY Handlers
SPECIFICATION Spec
INVARIANTS
  TypeOK
  IdsFresh
  AuditTrue
  SnapshotConsistent
  LatestIsMax
CHECK_DEADLOCK FALSE
