SPECIFICATION Spec
CONSTANTS
  MaxProcesses = 3
  Pages <- MCPages
  Machines <- MCMachines
  PageDirectory = 1
  BootStack = 2
  Points = {p0, p1}
  Entry = p0
  PidLimit = 5
INVARIANTS
  TypeOK
  DispatchCoherent
  LastFrameResumed
  OwnershipExclusive
  BoundedWait
PROPERTIES
  ZombieStaysOff
  FailedCreateReturnsPages
  NoStarvation
  ExitedLeavesCpu
