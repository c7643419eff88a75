SPECIFICATION Spec
CONSTANTS
  Entries = 16
  PageBytes = 2
  PageDirectory = 1
  IdentityTable <- MCIdentityTable
  PmmPages <- BigMachine
  MaxUsers = 2
INVARIANT
  PmmPagesAddressable
CHECK_DEADLOCK FALSE
