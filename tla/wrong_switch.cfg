SPECIFICATION Spec
CONSTANTS
  Address <- OneBms
  Register <- MCRegister
  Data <- MCData
  NoItem = NoItem
  NoBytes = NoBytes
  Junk = Junk
  MODBUS_TX_BUFFER_SIZE = 2
  InputRegisters <- BothSwitches
  CellSensors <- NoCells
  Polled <- NoBlocks
  HasFast <- Nobody
  Reactions <- AllAnswer
  Timely = TRUE
  OtherTraffic = FALSE
  MaxOnWire = 1
INVARIANTS
  SwitchesTrue
