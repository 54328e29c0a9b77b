SPECIFICATION FairSpec
CONSTANTS
  Address <- TwoBmss
  Register <- MCRegister
  Data <- MCData
  NoItem = NoItem
  NoBytes = NoBytes
  Junk = Junk
  MODBUS_TX_BUFFER_SIZE = 2
  InputRegisters <- ChargeSwitch
  CellSensors <- NoCells
  Polled <- StatusBlock
  HasFast <- OneBms
  Reactions <- OneSilent
  Timely = TRUE
  OtherTraffic = FALSE
  MaxOnWire = 1
PROPERTIES
  PollsServed
  OrdersServed
  HealthyOrdersKept
