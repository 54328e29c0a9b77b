SPECIFICATION Spec
CONSTANTS
  Address  <- MCAddress
  Register <- MCRegister
  Data     <- MCData
  NoItem   = NoItem
INVARIANTS
  TypeOK
  UniqueKeys
PROPERTIES
  NoOvertaking
  ImplementsTable
