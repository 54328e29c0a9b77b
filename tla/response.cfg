SPECIFICATION Spec
CONSTANTS
  Cells = 1
  Balancers = 18
  InputRegisters <- MCInputRegisters
  Requests <- MCRequests
  Responses <- MCResponses
  Unavailable = Unavailable
INVARIANTS
  InBounds
  PowerConsistent
  ErrorsExplained
