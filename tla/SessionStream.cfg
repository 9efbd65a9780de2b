SPECIFICATION Spec
CONSTANTS
  Greeting <- MCGreeting
  SaltEnd <- MCSaltEnd
  OkPacket <- MCOk
  ErrPacket <- MCErr
  SwitchPacket <- MCSwitch
INVARIANT
  StreamStartsAtTheDumpAfterWholeLogin
