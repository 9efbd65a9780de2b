SPECIFICATION FairSpec
CONSTANTS
  BufSize = 40
  EventSizes = {41}
  ErrSizes = {26}
  WrongSizes = {0, 20}
  CopyOrders = {"forward"}
  MaxPackets = 1
PROPERTY
  EventuallyHandled
