SPECIFICATION Spec
CONSTANTS
  Address <- OneBms
  Register <- MCRegister
  Data <- MCData
  NoItem = NoItem
  NoBytes = NoBytes
  Junk = Junk
  MODBUS_TX_BUFFER_SIZE = 2
  InputRegisters <- NoSwitches
  CellSensors <- NoCells
  Polled <- StatusBlock
  HasFast <- OneBms
  Reactions <- AnswerOrNot
  Timely = TRUE
  OtherTraffic = FALSE
  MaxOnWire = 1
INVARIANTS
  FastHasPriority
