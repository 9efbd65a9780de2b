SPECIFICATION FairSpec
CONSTANTS
  BufSize = 50
  EventSizes = {24, 25, 50}
  ErrSizes = {26, 51}
  WrongSizes = {0, 20}
  CopyOrders = {"forward"}
  MaxPackets = 3
INVARIANTS
  TypeOK
  InOrderOnce
  RestWaitsIntact
  NoByteDropped
  ReadsOnlyWhenNeededPastHeaders
PROPERTIES
  ImplementsDelivery
  ImplementsFairDelivery
