SPECIFICATION Spec
CONSTANTS
  Address <- OneBms
  Register <- MCRegister
  Data <- MCData
  NoItem = NoItem
  NoBytes = NoBytes
  Junk = Junk
  MODBUS_TX_BUFFER_SIZE = 2
  InputRegisters <- NoSwitches
  CellSensors <- NoCells
  Polled <- TwoBlocks
  HasFast <- Nobody
  Reactions <- AllAnswer
  Timely = FALSE
  OtherTraffic = FALSE
  MaxOnWire = 1
PROPERTIES
  DataOnlyAfterSend
