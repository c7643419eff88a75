SPECIFICATION Spec
CONSTANTS
  VGA_WIDTH = 2
  VGA_HEIGHT = 3
  Glyphs = {"a", "b"}
  Newline = "newline"
  Backspace = "backspace"
  Blank = "blank"
INVARIANTS
  CursorBounded
  ShowsOutput
