SPECIFICATION Spec
CONSTANTS
  BufferSize = 3
  CommandBufferSize = 3
  Letters = {"a"}
  Digits = {}
  Brackets = {"["}
  Upper <- MCUpper
  Shifted <- MCShifted
INVARIANTS
  TypeOK
  LineFits
PROPERTIES
  IsQueue
  TypedIsRead
