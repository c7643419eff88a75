SPECIFICATION Spec
CONSTANTS
  PageSize = 4
  MaxPages = 6
  FallbackStart = 4
  FallbackEnd = 20
  Boots <- MCBoots
INVARIANTS
  TypeOK
  CountExact
  OnlyUsableMemory
  NoStrandedPage
PROPERTIES
  Implements
