SPECIFICATION FairSlaveSpec
CONSTANTS
  Greeting <- MCGreeting
  SaltEnd <- MCSaltEnd
  OkPacket <- MCOk
  ErrPacket <- MCErr
  SwitchPacket <- MCSwitch
  BufSize = 40
  EventSizes = {25}
  ErrSizes = {26}
  WrongSizes <- MCWrongSizes
  CopyOrders = {"forward"}
  MaxPackets = 2
INVARIANTS
  TypeOK
  SlaveTypeOK
  LoginNeedsOkAfterWholeGreeting
  RegisterNeedsOkAfterWholeLogin
  StreamStartsAtTheDumpIfWhole
  StatusTellsTheStage
  DumpHandedOverInOrder
PROPERTIES
  WaitsOnlyForTheMaster
  StreamsOrExits
  DumpHandedOver
