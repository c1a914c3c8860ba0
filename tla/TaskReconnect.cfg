CONSTANTS
  Task = {1}
  MaxNode = 1
  MaxStream = 3
  ChannelSize = 1
  Permits = 1
  Cancels = FALSE
  Faults = {"break"}
  MaxFaults = 1
SPECIFICATION FairSpec
PROPERTY
  QueuedDelivered
CHECK_DEADLOCK FALSE
