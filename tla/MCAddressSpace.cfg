SPECIFICATION Spec
CONSTANTS
  Entries = 16
  PageBytes = 2
  PageDirectory = 1
  IdentityTable <- MCIdentityTable
  PmmPages <- SmallMachine
  MaxUsers = 2
INVARIANTS
  UserIsolation
  KernelStaysMapped
  RangeCheckExact
CHECK_DEADLOCK FALSE
