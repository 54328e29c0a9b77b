SPECIFICATION Spec
CONSTANTS
  Address <- TwoBmss
  Register <- MCRegister
  Data <- MCData
  NoItem = NoItem
  NoBytes = NoBytes
  Junk = Junk
  MODBUS_TX_BUFFER_SIZE = 2
  InputRegisters <- ChargeSwitch
  CellSensors <- NoCells
  Polled <- ControlBlock
  HasFast <- Nobody
  Reactions <- AllFaults
  Timely = TRUE
  OtherTraffic = FALSE
  MaxOnWire = 2
INVARIANTS
  AnswersArePending
  SwitchesTrue
