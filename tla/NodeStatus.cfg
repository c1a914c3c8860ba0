CONSTANTS
  a = a
  MaxNode = 3
  Addr = {a}
  AddrOf <- MCAddrOf
  NoAddr = NoAddr
  Slot <- MCSlot
  Hb = 2
  Timeout = 2
  Interval = 2
  Threshold = 2
  MaxLoss = 1
SPECIFICATION FairSpec
INVARIANTS
  TypeOK
  NoFalseOffline
  DeadOffline
PROPERTIES
  AliveComesBack
