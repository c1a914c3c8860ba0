CONSTANTS
  Name = {1, 2, 3}
  Hash = {"a", "b", "c", "d"}
  Version = {1, 2, 3}
  Manifest <- MCManifest
  Targets = {1, 3}
  Task = {t1}
  Permits = 1
  Faults = {"crash"}
  MaxFaults = 1
SPECIFICATION RetrySpec
PROPERTY UpdateCompletes
