CONSTANTS
  Name = {1, 2, 3}
  Hash = {"a", "b", "c", "d"}
  Version = {1, 2, 3}
  Manifest <- MCManifest
  Targets = {1, 2, 3}
  Task = {t1, t2}
  Permits = 2
  Faults = {"download", "io", "clean", "crash", "tear", "overlap"}
  MaxFaults = 1
SPECIFICATION RetrySpec
INVARIANTS
  TypeOK
  FilesMatchCurrent
  ReadsTruthful
  FilesWhole
  CurrentLoadable
PROPERTY
  UpdateCompletesUndisturbed
