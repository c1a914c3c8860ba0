CONSTANTS
  Task = {1, 2}
  MaxNode = 2
  MaxStream = 2
  ChannelSize = 1
  Permits = 1
  Cancels = TRUE
  Faults = {"break", "report", "agent", "scheduler"}
  MaxFaults = 1
SPECIFICATION FairSpec
INVARIANTS
  TypeOK
  OnePlace
  RightNode
PROPERTIES
  StatusForward
  TasksSettle
CHECK_DEADLOCK FALSE
