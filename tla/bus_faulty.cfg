SPECIFICATION HubFairSpec
CONSTANTS
  Address <- TwoBmss
  Register <- MCRegister
  Data <- MCData
  NoItem = NoItem
  NoBytes = NoBytes
  Junk = Junk
  MODBUS_TX_BUFFER_SIZE = 2
  InputRegisters <- NoSwitches
  CellSensors <- NoCells
  Polled <- ControlBlock
  HasFast <- OneBms
  Reactions <- FaultyAndSilent
  Timely = FALSE
  OtherTraffic = TRUE
  MaxOnWire = 2
INVARIANTS
  TypeOK
  OneOwnFrame
PROPERTIES
  RequestsKept
  HubRecovers
