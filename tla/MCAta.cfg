SPECIFICATION Spec
CONSTANTS
  PollLimit = 2
  Radix = 2
  High = 2
  Sectors = {1, 9, 16}
  Capacities = {0, 9, 20}
INVARIANTS
  TypeOK
  SectorDelivered
  CommandsInBounds
  ErrorIsFinal
PROPERTIES
  CallReturns
