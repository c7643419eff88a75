SPECIFICATION Spec
CONSTANTS
  Versions = {1, 2}
  BootWords = 18
  BootDepths = {2, 4}
  KernelWords = 30
  KernelDepths = {0, 1, 2, 3, 7, 12, 14, 15, 17}
  ReturnSlot = 12
INVARIANTS
  ResumedWhereInterrupted
  SurvivingRegisters
  BootStackIntact
