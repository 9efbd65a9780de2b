SPECIFICATION Spec
CONSTANTS
  BufSize = 56
  EventSizes = {24, 25}
  ErrSizes = {26}
  WrongSizes = {0, 20}
  CopyOrders = {"forward"}
  MaxPackets = 2
INVARIANT
  ReadsOnlyWhenNeeded
