SPECIFICATION Spec
CONSTANTS
  Address <- OneBms
  Register <- MCRegister
  Data <- MCData
  NoItem = NoItem
  NoBytes = NoBytes
  Junk = Junk
  MODBUS_TX_BUFFER_SIZE = 2
  InputRegisters <- ChargeSwitch
  CellSensors <- NoCells
  Polled <- NoBlocks
  HasFast <- Nobody
  Reactions <- AnswerOrNot
  Timely = TRUE
  OtherTraffic = FALSE
  MaxOnWire = 1
PROPERTIES
  OrdersKept
