--------------------------- MODULE TerminalProofs ---------------------------
(***************************************************************************)
(* CursorBounded and ShowsOutput for a screen of any size.  Neither is     *)
(* inductive.  That the cursor is on the screen between the shell's calls  *)
(* depends on what the shell has loaded and will store, and on which test  *)
(* it has passed: Held collects, for each place in the shell's code, what  *)
(* a write that falls there cannot spoil, unless it costs the shell a      *)
(* register.  That the screen is what was written depends on what is half  *)
(* done within a call: Faithful says, for each place, what the stores that *)
(* are due will make of the screen.                                        *)
(***************************************************************************)
EXTENDS Terminal, TLAPS

\* The places from which the shell still reaches the end of scroll.
Scrolling == {"scroll", "copy_load", "copy_store", "blank", "last_row"}

\* The cursor is right of the screen only until the end of the row is dealt
\* with, and below it only until it is scrolled.
CursorPlaced ==
  /\ cursor_x \in -1 .. VGA_WIDTH /\ cursor_y \in 0 .. VGA_HEIGHT
  /\ cursor_x = VGA_WIDTH => at \in {"wrap", "zero_x"}
  /\ cursor_y = VGA_HEIGHT => at \in Scrolling

\* What the shell has loaded is still good for what it will store, although
\* the cursor may have moved since.
RegisterHeld ==
  /\ at \in {"store_y", "load_column"} => reg \in 0 .. VGA_HEIGHT - 1
  /\ at = "glyph" => reg \in -1 .. VGA_WIDTH * VGA_HEIGHT - 1
  /\ at = "store_x" => reg \in -1 .. VGA_WIDTH - 1
  /\ at = "store_x" /\ c = Backspace => reg >= 0
  /\ at = "load_x" /\ c = Backspace => cursor_x >= 0

Held == at # "lost" => CursorPlaced /\ RegisterHeld

\* A cell's index is bounded by the row and the column it is computed from
\* (terminal.c:85, 113, 143).
LEMMA PositionBound ==
  ASSUME NEW w \in Nat \ {0}, NEW h \in Nat \ {0}, NEW y \in 0 .. h,
         NEW x \in -1 .. w
  PROVE  /\ y * w + x \in Int /\ y * w + x >= -1
         /\ y < h /\ x < w => y * w + x =< w * h - 1
         /\ y < h \/ x < w => y * w + x =< (h + 1) * w - 1
<1>1. y * w \in Nat /\ h * w \in Nat /\ (h + 1) * w = h * w + w /\ w * h = h * w
  OBVIOUS
<1>2. y < h => y * w + w =< h * w
  <2>1. SUFFICES ASSUME y < h PROVE y * w + w =< h * w
    OBVIOUS
  <2>2. PICK d \in Nat : h = y + 1 + d
    <3>1. h - y - 1 \in Nat /\ h = y + 1 + (h - y - 1)
      BY <2>1
    <3>2. QED
      BY <3>1
  <2>3. h * w = y * w + w + d * w /\ d * w \in Nat
    BY <2>2
  <2>4. QED
    BY <1>1, <2>3
<1>3. y = h => y * w = h * w
  OBVIOUS
<1>4. QED
  BY <1>1, <1>2, <1>3

\* SYS_WRITE leaves the cursor on the screen, or where it was or one column to
\* the left of that; it never takes it left of the first column
\* (terminal.c:103-128, 139-146).
LEMMA PutcharBound ==
  ASSUME Held, at # "lost", NEW char \in Characters, putchar(char)
  PROVE  /\ cursor_x' \in -1 .. VGA_WIDTH - 1 /\ cursor_y' \in 0 .. VGA_HEIGHT
         /\ cursor_y' = VGA_HEIGHT => cursor_y = VGA_HEIGHT
         /\ cursor_x >= 0 => cursor_x' >= 0
BY ScreenAssumption DEF Held, CursorPlaced, putchar, scrolled, screen

\* The strengthening holds when the kernel starts (terminal.c:70-75).
LEMMA HeldInit == Init => Held
BY ScreenAssumption DEF Init, Held, CursorPlaced, RegisterHeld, Scrolling

\* Every step preserves it, SYS_WRITE between two steps of the shell included (terminal.c:50-146, syscall.c:20-21).
LEMMA HeldStep == Held /\ [Next]_vars => Held'
<1> SUFFICES ASSUME Held, [Next]_vars PROVE Held'
  OBVIOUS
<1> USE ScreenAssumption
<1>1. CASE syscall_write
  <2>1. PICK char \in Characters : putchar(char)
    BY <1>1 DEF syscall_write
  <2>2. UNCHANGED <<at, c, reg, i>> /\ at # "lost"
    BY <1>1 DEF syscall_write, shell
  <2>3. QED
    BY <2>1, <2>2, PutcharBound DEF Held, CursorPlaced, RegisterHeld
<1>2. CASE Begin \/ Clear
  BY <1>2 DEF Begin, Clear, Goto, screen, Held, CursorPlaced, RegisterHeld, Scrolling, Characters
<1>3. CASE ZeroX \/ LoadY \/ StoreY
  BY <1>3 DEF ZeroX, LoadY, StoreY, Goto, screen, Held, CursorPlaced, RegisterHeld, Scrolling
<1>4. CASE LoadRow
  BY <1>4 DEF LoadRow, Goto, screen, Held, CursorPlaced, RegisterHeld, Scrolling
<1>5. CASE LoadColumn
  <2>1. reg * VGA_WIDTH + cursor_x \in -1 .. VGA_WIDTH * VGA_HEIGHT - 1
    <3>1. reg \in 0 .. VGA_HEIGHT /\ reg < VGA_HEIGHT /\ cursor_x \in -1 .. VGA_WIDTH
          /\ cursor_x < VGA_WIDTH
      BY <1>5 DEF LoadColumn, Held, CursorPlaced, RegisterHeld
    <3>2. QED
      BY <3>1, PositionBound
  <2>2. QED
    BY <1>5, <2>1 DEF LoadColumn, Goto, screen, Held, CursorPlaced, RegisterHeld, Scrolling
<1>6. CASE Glyph
  BY <1>6 DEF Glyph, Goto, Return, Held, CursorPlaced, RegisterHeld, Scrolling
<1>7. CASE LoadX \/ StoreX
  BY <1>7 DEF LoadX, StoreX, Goto, screen, Held, CursorPlaced, RegisterHeld, Scrolling
<1>8. CASE Wrap \/ BackspaceTest
  BY <1>8 DEF Wrap, BackspaceTest, AtRowStart, Goto, Return, screen, Held, CursorPlaced,
              RegisterHeld, Scrolling
<1>9. CASE Scroll \/ CopyLoad \/ CopyStore \/ BlankRow \/ ScrollEnd
  BY <1>9 DEF Scroll, CopyLoad, CopyStore, BlankRow, ScrollEnd, Goto, Return, screen, Held,
              CursorPlaced, RegisterHeld, Scrolling
<1>10. CASE ClearCell \/ ClearX \/ ClearY
  BY <1>10 DEF ClearCell, ClearX, ClearY, Goto, Return, Held, CursorPlaced, RegisterHeld,
               Scrolling
<1>11. CASE RegisterLost \/ Lost \/ UNCHANGED vars
  BY <1>11 DEF RegisterLost, Lost, vars, screen, shell, Held, CursorPlaced, RegisterHeld, Scrolling
<1>12. QED
  BY <1>1, <1>2, <1>3, <1>4, <1>5, <1>6, <1>7, <1>8, <1>9, <1>10, <1>11 DEF Next

\* It gives the property.
LEMMA HeldBounds == Held => CursorBounded
<1> SUFFICES ASSUME Held, at # "lost" PROVE CursorBounded
  BY DEF CursorBounded
<1>1. cursor_y < VGA_HEIGHT \/ cursor_x < VGA_WIDTH
  BY ScreenAssumption DEF Held, CursorPlaced, Scrolling
<1>2. cursor_y * VGA_WIDTH + cursor_x \in -1 .. (VGA_HEIGHT + 1) * VGA_WIDTH - 1
  BY <1>1, PositionBound, ScreenAssumption DEF Held, CursorPlaced
<1>3. QED
  BY <1>2, ScreenAssumption DEF Held, CursorPlaced, RegisterHeld, CursorBounded, Scrolling

\* On a screen of any size, however SYS_WRITE falls into the shell's output as
\* long as it does not cost the shell a register, the cursor and every store to
\* video stay near the screen (terminal.c:50-146).
THEOREM CursorIsBounded == Spec => []CursorBounded
<1>1. Spec => []Held
  BY HeldInit, HeldStep, PTL DEF Spec
<1>2. QED
  BY <1>1, HeldBounds, PTL

-----------------------------------------------------------------------------
(* ShowsOutput.  Between two calls of the shell the screen is the paper,   *)
(* but within one it is not: the paper has the character from the start of *)
(* the call.  The invariant says at each place what the screen will be     *)
(* once the stores that are due have been made, and in the loops of scroll *)
(* and clear how far they have got.                                        *)

Rows == 0 .. VGA_HEIGHT - 1
Columns == 0 .. VGA_WIDTH - 1
Cell(y, x) == y * VGA_WIDTH + x
Last(p) == p[Len(p)]

\* What a cell of the screen should hold.
Pic(p, y, x) == IF y < Len(p) /\ x < Len(p[y + 1]) THEN p[y + 1][x + 1] ELSE Blank

\* A paper fits the screen and there is room at its end.
Paper(p) ==
  p \in Seq(Seq(Glyphs)) /\ Len(p) \in 1 .. VGA_HEIGHT /\ Len(Last(p)) < VGA_WIDTH

\* Cells v are the paper p; they are p but for the scroll that is due.
Shows(v, p) == \A y \in Rows, x \in Columns : v[Cell(y, x)] = Pic(p, y, x)
Moved(v, p) == \A y \in Rows \ {0}, x \in Columns : v[Cell(y, x)] = Pic(p, y - 1, x)

\* Cells v are p, and the cursor x, y is at its end.
ShownAs(p, v, x, y) == y = Len(p) - 1 /\ x = Len(Last(p)) /\ Shows(v, p)

\* A row has just been begun: it is empty, the cursor is still in the row before,
\* and if that is the last one the screen is yet to be scrolled.
RowDue(p, v, y) ==
  /\ Last(p) = <<>>
  /\ \/ y = Len(p) - 2 /\ Shows(v, p)
     \/ y = VGA_HEIGHT - 1 /\ Len(p) = VGA_HEIGHT /\ Moved(v, p)

\* A glyph has been written at x, y, and the cursor is yet to be moved.
GlyphDue(p, v, x, y) ==
  /\ x \in Columns /\ y \in Rows
  /\ x + 1 < VGA_WIDTH => ShownAs(p, v, x + 1, y)
  /\ x + 1 = VGA_WIDTH => RowDue(p, v, y)

\* Rows and columns number the cells (terminal.c:85, 113, 143).
LEMMA CellIn ==
  ASSUME NEW y \in Rows, NEW x \in Columns
  PROVE  /\ Cell(y, x) \in Cells /\ Cell(y, x) \in Nat
         /\ Cell(y, x) < LastRow <=> y < VGA_HEIGHT - 1
<1> USE ScreenAssumption
<1>1. /\ y * VGA_WIDTH \in Nat /\ VGA_HEIGHT * VGA_WIDTH \in Nat
      /\ VGA_WIDTH * VGA_HEIGHT = VGA_HEIGHT * VGA_WIDTH
      /\ (VGA_HEIGHT - 1) * VGA_WIDTH = VGA_HEIGHT * VGA_WIDTH - VGA_WIDTH
  BY DEF Rows
<1>2. PICK d \in Nat : VGA_HEIGHT = y + 1 + d
  <2>1. VGA_HEIGHT - y - 1 \in Nat /\ VGA_HEIGHT = y + 1 + (VGA_HEIGHT - y - 1)
    BY DEF Rows
  <2>2. QED
    BY <2>1
<1>3. /\ VGA_HEIGHT * VGA_WIDTH = y * VGA_WIDTH + VGA_WIDTH + d * VGA_WIDTH
      /\ d * VGA_WIDTH \in Nat /\ (d >= 1 => d * VGA_WIDTH >= VGA_WIDTH)
      /\ (d = 0 => d * VGA_WIDTH = 0)
  <2>1. d >= 1 => d * VGA_WIDTH >= VGA_WIDTH
    <3>1. SUFFICES ASSUME d >= 1 PROVE d * VGA_WIDTH >= VGA_WIDTH
      OBVIOUS
    <3>2. d - 1 \in Nat /\ d * VGA_WIDTH = (d - 1) * VGA_WIDTH + VGA_WIDTH
          /\ (d - 1) * VGA_WIDTH \in Nat
      BY <3>1
    <3>3. QED
      BY <3>2
  <2>2. QED
    BY <1>2, <2>1 DEF Rows
<1>4. Cell(y, x) \in Cells /\ Cell(y, x) \in Nat
  BY <1>1, <1>3 DEF Cell, Cells, Columns
<1>5. Cell(y, x) < LastRow <=> d >= 1
  BY <1>1, <1>3 DEF Cell, LastRow, Columns
<1>6. QED
  BY <1>2, <1>4, <1>5 DEF Rows

\* Different cells have different numbers.
LEMMA CellUnique ==
  ASSUME NEW y \in Nat, NEW x \in Columns, NEW a \in Nat, NEW b \in Columns,
         Cell(y, x) = Cell(a, b)
  PROVE  y = a /\ x = b
<1> USE ScreenAssumption
<1>1. ASSUME NEW m \in Nat, NEW n \in Nat, NEW k \in Columns, NEW l \in Columns,
             Cell(m, k) = Cell(n, l)
      PROVE  ~(m < n)
  <2>1. SUFFICES ASSUME m < n PROVE FALSE
    OBVIOUS
  <2>2. PICK d \in Nat : n = m + 1 + d
    <3>1. n - m - 1 \in Nat /\ n = m + 1 + (n - m - 1)
      BY <2>1
    <3>2. QED
      BY <3>1
  <2>3. n * VGA_WIDTH = m * VGA_WIDTH + VGA_WIDTH + d * VGA_WIDTH /\ d * VGA_WIDTH \in Nat
        /\ m * VGA_WIDTH \in Nat
    BY <2>2
  <2>4. QED
    BY <1>1, <2>3 DEF Cell, Columns
<1>2. y = a
  BY <1>1
<1>3. QED
  BY <1>2 DEF Cell, Columns

\* The cell in the row below.
LEMMA CellBelow ==
  ASSUME NEW y \in Nat, NEW x \in Nat
  PROVE  Cell(y + 1, x) = Cell(y, x) + VGA_WIDTH /\ Cell(y, x) \in Nat
BY ScreenAssumption DEF Cell

\* A store changes the cell at its row and column and no other (terminal.c:115, 145).
LEMMA StoredCell ==
  ASSUME NEW v, DOMAIN v = Cells, NEW y \in Rows, NEW x \in Columns, NEW char
  PROVE  /\ DOMAIN Stored(v, Cell(y, x), char) = Cells
         /\ \A a \in Rows, b \in Columns :
              Stored(v, Cell(y, x), char)[Cell(a, b)]
                = IF a = y /\ b = x THEN char ELSE v[Cell(a, b)]
<1>1. PICK k : k = Cell(y, x)
  OBVIOUS
<1>2. k \in Cells
  BY <1>1, CellIn
<1>3. Stored(v, k, char) = [v EXCEPT ![k] = char]
  BY <1>2 DEF Stored
<1>4. ASSUME NEW a \in Rows, NEW b \in Columns
      PROVE  [v EXCEPT ![k] = char][Cell(a, b)] = IF a = y /\ b = x THEN char ELSE v[Cell(a, b)]
  <2>1. PICK l : l = Cell(a, b)
    OBVIOUS
  <2>2. l \in Cells
    BY <2>1, CellIn
  <2>3. l = k <=> a = y /\ b = x
    <3>1. a \in Nat /\ y \in Nat
      BY ScreenAssumption DEF Rows
    <3>2. QED
      BY <1>1, <2>1, <3>1, CellUnique
  <2>4. [v EXCEPT ![k] = char][l] = IF l = k THEN char ELSE v[l]
    BY <2>2
  <2>5. QED
    BY <2>1, <2>3, <2>4
<1>5. QED
  BY <1>1, <1>3, <1>4

\* A new row: the others stay, or move up by one when the paper is full.
LEMMA NewRowIs ==
  ASSUME NEW p \in Seq(Seq(Glyphs)), Len(p) \in 1 .. VGA_HEIGHT
  PROVE  /\ Paper(NewRow(p)) /\ Last(NewRow(p)) = <<>>
         /\ Len(p) = VGA_HEIGHT =>
              /\ Len(NewRow(p)) = VGA_HEIGHT
              /\ \A r \in 1 .. VGA_HEIGHT - 1 : NewRow(p)[r] = p[r + 1]
         /\ Len(p) # VGA_HEIGHT =>
              /\ Len(NewRow(p)) = Len(p) + 1
              /\ \A r \in 1 .. Len(p) : NewRow(p)[r] = p[r]
<1> USE ScreenAssumption
<1>1. <<>> \in Seq(Glyphs) /\ Len(<<>>) = 0
  OBVIOUS
<1>2. ASSUME NEW s \in Seq(Seq(Glyphs))
      PROVE  /\ Append(s, <<>>) \in Seq(Seq(Glyphs)) /\ Len(Append(s, <<>>)) = Len(s) + 1
             /\ Append(s, <<>>)[Len(s) + 1] = <<>>
             /\ \A r \in 1 .. Len(s) : Append(s, <<>>)[r] = s[r]
  BY <1>1
<1>3. CASE Len(p) = VGA_HEIGHT
  <2>1. PICK s : s = Tail(p)
    OBVIOUS
  <2>2. /\ s \in Seq(Seq(Glyphs)) /\ Len(s) = VGA_HEIGHT - 1
        /\ \A r \in 1 .. VGA_HEIGHT - 1 : s[r] = p[r + 1]
    BY <1>3, <2>1
  <2>3. NewRow(p) = Append(s, <<>>)
    BY <1>3, <2>1 DEF NewRow
  <2>4. PICK n : n = Append(s, <<>>)
    OBVIOUS
  <2>5. /\ n \in Seq(Seq(Glyphs)) /\ Len(n) = VGA_HEIGHT /\ n[VGA_HEIGHT] = <<>>
        /\ \A r \in 1 .. VGA_HEIGHT - 1 : n[r] = p[r + 1]
    BY <1>2, <2>2, <2>4
  <2>6. QED
    BY <1>1, <1>3, <2>3, <2>4, <2>5 DEF Paper, Last
<1>4. CASE Len(p) # VGA_HEIGHT
  <2>1. NewRow(p) = Append(p, <<>>)
    BY <1>4 DEF NewRow
  <2>2. PICK n : n = Append(p, <<>>)
    OBVIOUS
  <2>3. /\ n \in Seq(Seq(Glyphs)) /\ Len(n) = Len(p) + 1 /\ n[Len(p) + 1] = <<>>
        /\ \A r \in 1 .. Len(p) : n[r] = p[r]
    BY <1>2, <2>2
  <2>4. QED
    BY <1>1, <1>4, <2>1, <2>2, <2>3 DEF Paper, Last
<1>5. QED
  BY <1>3, <1>4

\* When cells show p and the cursor is at the row of p's end, a new row is due.
LEMMA NewRowDue ==
  ASSUME NEW p \in Seq(Seq(Glyphs)), Len(p) \in 1 .. VGA_HEIGHT, NEW v, Shows(v, p)
  PROVE  RowDue(NewRow(p), v, Len(p) - 1)
<1> USE ScreenAssumption
<1>1. PICK n : n = NewRow(p)
  OBVIOUS
<1>2. n \in Seq(Seq(Glyphs)) /\ Len(n) \in 1 .. VGA_HEIGHT /\ Last(n) = <<>>
  BY <1>1, NewRowIs DEF Paper
<1>3. CASE Len(p) = VGA_HEIGHT
  <2>1. Len(n) = VGA_HEIGHT /\ \A r \in 1 .. VGA_HEIGHT - 1 : n[r] = p[r + 1]
    BY <1>1, <1>3, NewRowIs
  <2>2. ASSUME NEW y \in Rows \ {0}, NEW x \in Columns PROVE Pic(n, y - 1, x) = Pic(p, y, x)
    <3>1. n[y] = p[y + 1] /\ y < Len(p) /\ y - 1 < Len(n) /\ (y - 1) + 1 = y
      BY <1>3, <2>1 DEF Rows
    <3>2. QED
      BY <3>1 DEF Pic
  <2>3. Moved(v, n)
    BY <2>2 DEF Moved, Shows
  <2>4. QED
    BY <1>1, <1>2, <1>3, <2>1, <2>3 DEF RowDue
<1>4. CASE Len(p) # VGA_HEIGHT
  <2>1. Len(n) = Len(p) + 1 /\ \A r \in 1 .. Len(p) : n[r] = p[r]
    BY <1>1, <1>4, NewRowIs
  <2>2. ASSUME NEW y \in Rows, NEW x \in Columns PROVE Pic(n, y, x) = Pic(p, y, x)
    <3>1. CASE y < Len(p)
      <4>1. y + 1 \in 1 .. Len(p) /\ y < Len(n)
        BY <2>1, <3>1 DEF Rows
      <4>2. n[y + 1] = p[y + 1]
        BY <2>1, <4>1, Zenon
      <4>3. QED
        BY <3>1, <4>1, <4>2 DEF Pic
    <3>2. CASE y = Len(p)
      <4>1. n[y + 1] = <<>>
        BY <1>2, <2>1, <3>2 DEF Last
      <4>2. Pic(n, y, x) = Blank /\ Pic(p, y, x) = Blank
        BY <3>2, <4>1 DEF Pic, Columns
      <4>3. QED
        BY <4>2
    <3>3. CASE y > Len(p)
      BY <2>1, <3>3 DEF Pic, Rows
    <3>4. QED
      BY <3>1, <3>2, <3>3 DEF Rows
  <2>3. Shows(v, n)
    BY <2>2 DEF Shows
  <2>4. QED
    BY <1>1, <1>2, <2>1, <2>3 DEF RowDue
<1>5. QED
  BY <1>3, <1>4

\* The paper with its last row replaced.
LEMMA LastRowIs ==
  ASSUME NEW p \in Seq(Seq(Glyphs)), Len(p) \in 1 .. VGA_HEIGHT, NEW row \in Seq(Glyphs)
  PROVE  /\ [p EXCEPT ![Len(p)] = row] \in Seq(Seq(Glyphs))
         /\ Len([p EXCEPT ![Len(p)] = row]) = Len(p)
         /\ Last([p EXCEPT ![Len(p)] = row]) = row
         /\ \A r \in 1 .. Len(p) - 1 : [p EXCEPT ![Len(p)] = row][r] = p[r]
<1>1. PICK n : n = [p EXCEPT ![Len(p)] = row]
  OBVIOUS
<1>2. n \in Seq(Seq(Glyphs)) /\ Len(n) = Len(p)
  BY <1>1
<1>3. n[Len(p)] = row /\ \A r \in 1 .. Len(p) - 1 : n[r] = p[r]
  BY <1>1
<1>4. QED
  BY <1>1, <1>2, <1>3, Zenon DEF Last

\* A cell outside the last row does not depend on it; one in it does.
LEMMA LastRowPic ==
  ASSUME NEW p \in Seq(Seq(Glyphs)), Len(p) \in 1 .. VGA_HEIGHT,
         NEW n \in Seq(Seq(Glyphs)), Len(n) = Len(p),
         \A r \in 1 .. Len(p) - 1 : n[r] = p[r],
         NEW y \in Rows, NEW x \in Columns
  PROVE  /\ y # Len(p) - 1 => Pic(n, y, x) = Pic(p, y, x)
         /\ y = Len(p) - 1 =>
              /\ Pic(n, y, x) = IF x < Len(Last(n)) THEN Last(n)[x + 1] ELSE Blank
              /\ Pic(p, y, x) = IF x < Len(Last(p)) THEN Last(p)[x + 1] ELSE Blank
<1>1. CASE y = Len(p) - 1
  <2>1. y + 1 = Len(p) /\ y < Len(p)
    BY <1>1
  <2>2. QED
    BY <1>1, <2>1 DEF Pic, Last
<1>2. CASE y < Len(p) - 1
  <2>1. n[y + 1] = p[y + 1] /\ y < Len(p)
    BY <1>2 DEF Rows
  <2>2. QED
    BY <1>2, <2>1 DEF Pic
<1>3. CASE y > Len(p) - 1
  BY <1>3 DEF Pic, Rows
<1>4. QED
  BY <1>1, <1>2, <1>3 DEF Rows

\* Where a paper ends is on the screen.
LEMMA EndOnScreen ==
  ASSUME NEW p, Paper(p), NEW v, NEW x, NEW y, ShownAs(p, v, x, y)
  PROVE  /\ x \in Columns /\ y \in Rows /\ x \in Nat /\ y \in Nat
         /\ p \in Seq(Seq(Glyphs)) /\ Len(p) \in 1 .. VGA_HEIGHT /\ y = Len(p) - 1
         /\ Last(p) \in Seq(Glyphs) /\ Len(Last(p)) = x /\ Shows(v, p)
<1>1. p \in Seq(Seq(Glyphs)) /\ Len(p) \in 1 .. VGA_HEIGHT /\ Len(Last(p)) < VGA_WIDTH
      /\ y = Len(p) - 1 /\ x = Len(Last(p)) /\ Shows(v, p)
  BY DEF Paper, ShownAs
<1>2. Last(p) \in Seq(Glyphs)
  BY <1>1 DEF Last
<1>3. Len(Last(p)) \in Nat
  BY <1>2
<1>4. QED
  BY <1>1, <1>2, <1>3, ScreenAssumption DEF Rows, Columns

\* '\n' (terminal.c:103-109).
LEMMA WriteNewline ==
  ASSUME NEW p, Paper(p), NEW v, NEW x, NEW y, ShownAs(p, v, x, y)
  PROVE  Paper(Written(p, Newline)) /\ RowDue(Written(p, Newline), v, y)
<1>1. Written(p, Newline) = NewRow(p)
  BY ScreenAssumption DEF Written
<1>2. QED
  BY <1>1, EndOnScreen, NewRowIs, NewRowDue

\* A glyph, which may fill its row (terminal.c:111-128).
LEMMA WriteGlyph ==
  ASSUME NEW p, Paper(p), NEW v, DOMAIN v = Cells, NEW x, NEW y, ShownAs(p, v, x, y),
         NEW char \in Glyphs
  PROVE  /\ Paper(Written(p, char))
         /\ GlyphDue(Written(p, char), Stored(v, Cell(y, x), char), x, y)
<1> USE ScreenAssumption
<1>1. PICK row, n, w : /\ row = Append(Last(p), char) /\ n = [p EXCEPT ![Len(p)] = row]
                       /\ w = Stored(v, Cell(y, x), char)
  OBVIOUS
<1>2. /\ x \in Columns /\ y \in Rows /\ x \in Nat /\ y \in Nat
      /\ p \in Seq(Seq(Glyphs)) /\ Len(p) \in 1 .. VGA_HEIGHT /\ y = Len(p) - 1
      /\ Last(p) \in Seq(Glyphs) /\ Len(Last(p)) = x /\ Shows(v, p)
  BY EndOnScreen
<1>3. /\ row \in Seq(Glyphs) /\ Len(row) = x + 1 /\ row[x + 1] = char
      /\ \A k \in 1 .. x : row[k] = Last(p)[k]
  BY <1>1, <1>2
<1>4. /\ n \in Seq(Seq(Glyphs)) /\ Len(n) = Len(p) /\ Last(n) = row
      /\ \A r \in 1 .. Len(p) - 1 : n[r] = p[r]
  <2>1. /\ [p EXCEPT ![Len(p)] = row] \in Seq(Seq(Glyphs))
        /\ Len([p EXCEPT ![Len(p)] = row]) = Len(p)
        /\ Last([p EXCEPT ![Len(p)] = row]) = row
        /\ \A r \in 1 .. Len(p) - 1 : [p EXCEPT ![Len(p)] = row][r] = p[r]
    BY <1>2, <1>3, LastRowIs, Zenon
  <2>2. QED
    BY <1>1, <2>1, Zenon
<1>5. \A a \in Rows, b \in Columns : w[Cell(a, b)] = IF a = y /\ b = x THEN char ELSE v[Cell(a, b)]
  BY <1>1, <1>2, StoredCell
<1>6. Shows(w, n)
  <2>1. SUFFICES ASSUME NEW a \in Rows, NEW b \in Columns PROVE w[Cell(a, b)] = Pic(n, a, b)
    BY DEF Shows
  <2>2. v[Cell(a, b)] = Pic(p, a, b)
    BY <1>2 DEF Shows
  <2>3. CASE a # y
    BY <1>2, <1>4, <1>5, <2>2, <2>3, LastRowPic
  <2>4. CASE a = y
    <3>1. /\ Pic(n, a, b) = IF b < x + 1 THEN row[b + 1] ELSE Blank
          /\ Pic(p, a, b) = IF b < x THEN Last(p)[b + 1] ELSE Blank
      BY <1>2, <1>3, <1>4, <2>4, LastRowPic
    <3>2. b < x => row[b + 1] = Last(p)[b + 1]
      <4>1. b < x => b + 1 \in 1 .. x
        BY <1>2 DEF Columns
      <4>2. QED
        BY <1>3, <4>1, Zenon
    <3>3. QED
      BY <1>2, <1>3, <1>5, <2>2, <2>4, <3>1, <3>2 DEF Columns
  <2>5. QED
    BY <2>3, <2>4
<1>7. Written(p, char) = IF x + 1 = VGA_WIDTH THEN NewRow(n) ELSE n
  BY <1>1, <1>2 DEF Written, Last
<1>8. CASE x + 1 = VGA_WIDTH
  <2>1. Paper(NewRow(n)) /\ RowDue(NewRow(n), w, Len(n) - 1)
    BY <1>2, <1>4, <1>6, NewRowIs, NewRowDue
  <2>2. QED
    BY <1>1, <1>2, <1>4, <1>7, <1>8, <2>1 DEF GlyphDue
<1>9. CASE x + 1 # VGA_WIDTH
  <2>1. Paper(n)
    BY <1>2, <1>3, <1>4, <1>9 DEF Paper, Columns
  <2>2. ShownAs(n, w, x + 1, y)
    BY <1>2, <1>3, <1>4, <1>6 DEF ShownAs
  <2>3. QED
    BY <1>1, <1>2, <1>7, <1>9, <2>1, <2>2 DEF GlyphDue
<1>10. QED
  BY <1>8, <1>9

\* '\b' (terminal.c:139-146).
LEMMA WriteBackspace ==
  ASSUME NEW p, Paper(p), NEW v, DOMAIN v = Cells, NEW x, NEW y, ShownAs(p, v, x, y)
  PROVE  /\ Paper(Written(p, Backspace))
         /\ x > 0 => ShownAs(Written(p, Backspace), Stored(v, Cell(y, x - 1), Blank), x - 1, y)
         /\ ~(x > 0) => ShownAs(Written(p, Backspace), v, x, y)
<1> USE ScreenAssumption
<1>2. /\ x \in Columns /\ y \in Rows /\ x \in Nat /\ y \in Nat
      /\ p \in Seq(Seq(Glyphs)) /\ Len(p) \in 1 .. VGA_HEIGHT /\ y = Len(p) - 1
      /\ Last(p) \in Seq(Glyphs) /\ Len(Last(p)) = x /\ Shows(v, p)
  BY EndOnScreen
<1>3. Written(p, Backspace) = IF Last(p) = <<>> THEN p
                              ELSE [p EXCEPT ![Len(p)] = SubSeq(Last(p), 1, Len(Last(p)) - 1)]
  BY DEF Written, Last
<1>4. CASE ~(x > 0)
  <2>1. Last(p) = <<>>
    BY <1>2, <1>4
  <2>2. QED
    BY <1>3, <1>4, <2>1
<1>5. CASE x > 0
  <2>1. PICK row, n, w : /\ row = SubSeq(Last(p), 1, x - 1) /\ n = [p EXCEPT ![Len(p)] = row]
                         /\ w = Stored(v, Cell(y, x - 1), Blank)
    OBVIOUS
  <2>2. /\ row \in Seq(Glyphs) /\ Len(row) = x - 1
        /\ \A k \in 1 .. x - 1 : row[k] = Last(p)[k]
    <3>1. PICK s, m : s = Last(p) /\ m = x - 1
      OBVIOUS
    <3>2. s \in Seq(Glyphs) /\ m \in 0 .. Len(s)
      BY <1>2, <1>5, <3>1
    <3>3. /\ SubSeq(s, 1, m) \in Seq(Glyphs) /\ Len(SubSeq(s, 1, m)) = m
          /\ \A k \in 1 .. m : SubSeq(s, 1, m)[k] = s[k]
      BY <3>2
    <3>4. QED
      BY <2>1, <3>1, <3>3, Zenon
  <2>3. /\ n \in Seq(Seq(Glyphs)) /\ Len(n) = Len(p) /\ Last(n) = row
        /\ \A r \in 1 .. Len(p) - 1 : n[r] = p[r]
    <3>1. /\ [p EXCEPT ![Len(p)] = row] \in Seq(Seq(Glyphs))
          /\ Len([p EXCEPT ![Len(p)] = row]) = Len(p)
          /\ Last([p EXCEPT ![Len(p)] = row]) = row
          /\ \A r \in 1 .. Len(p) - 1 : [p EXCEPT ![Len(p)] = row][r] = p[r]
      BY <1>2, <2>2, LastRowIs, Zenon
    <3>2. QED
      BY <2>1, <3>1, Zenon
  <2>4. x - 1 \in Columns
    BY <1>2, <1>5 DEF Columns
  <2>5. \A a \in Rows, b \in Columns :
          w[Cell(a, b)] = IF a = y /\ b = x - 1 THEN Blank ELSE v[Cell(a, b)]
    BY <1>2, <2>1, <2>4, StoredCell
  <2>6. Shows(w, n)
    <3>1. SUFFICES ASSUME NEW a \in Rows, NEW b \in Columns PROVE w[Cell(a, b)] = Pic(n, a, b)
      BY DEF Shows
    <3>2. v[Cell(a, b)] = Pic(p, a, b)
      BY <1>2 DEF Shows
    <3>3. CASE a # y
      BY <1>2, <2>3, <2>5, <3>2, <3>3, LastRowPic
    <3>4. CASE a = y
      <4>1. /\ Pic(n, a, b) = IF b < x - 1 THEN row[b + 1] ELSE Blank
            /\ Pic(p, a, b) = IF b < x THEN Last(p)[b + 1] ELSE Blank
        BY <1>2, <2>2, <2>3, <3>4, LastRowPic
      <4>2. b < x - 1 => row[b + 1] = Last(p)[b + 1]
        <5>1. b < x - 1 => b + 1 \in 1 .. x - 1
          BY <1>2 DEF Columns
        <5>2. QED
          BY <2>2, <5>1, Zenon
      <4>3. QED
        BY <1>2, <2>5, <3>2, <3>4, <4>1, <4>2 DEF Columns
    <3>5. QED
      BY <3>3, <3>4
  <2>7. Written(p, Backspace) = n
    <3>1. Last(p) # <<>>
      BY <1>2, <1>5
    <3>2. QED
      BY <1>2, <1>3, <2>1, <3>1
  <2>8. Paper(n) /\ ShownAs(n, w, x - 1, y)
    <3>1. Len(Last(n)) = x - 1 /\ Len(n) \in 1 .. VGA_HEIGHT /\ y = Len(n) - 1
      BY <1>2, <2>2, <2>3
    <3>2. x - 1 < VGA_WIDTH
      BY <1>2 DEF Columns
    <3>3. QED
      BY <2>3, <2>6, <3>1, <3>2 DEF Paper, ShownAs
  <2>9. QED
    BY <1>5, <2>1, <2>7, <2>8
<1>6. QED
  BY <1>4, <1>5

\* The paper is full and its last row is new: what scroll finds when the cursor
\* is below the screen.
Over == cursor_y = VGA_HEIGHT /\ cursor_x = 0 /\ Len(paper) = VGA_HEIGHT /\ Last(paper) = <<>>

\* The cells before k are the paper p.
Drawn(v, p, k) ==
  \A y \in Rows, x \in Columns : Cell(y, x) < k => v[Cell(y, x)] = Pic(p, y, x)

\* What is read before k has been copied to the row above, the rest is to be.
CopiedTo(v, p, k) ==
  \A y \in Rows \ {0}, x \in Columns :
    IF Cell(y, x) < k THEN v[Cell(y - 1, x)] = Pic(p, y - 1, x)
    ELSE v[Cell(y, x)] = Pic(p, y - 1, x)

\* What holds with any interleaving.
Sound ==
  /\ DOMAIN video = Cells /\ Paper(paper)
  /\ at = "idle" => i = 0
  /\ at \in {"copy_load", "copy_store"} => i \in Cells /\ i >= VGA_WIDTH
  /\ at = "blank" => i \in Cells /\ i >= LastRow
  /\ at = "clear" => i \in Cells

\* Between calls, and in backspace, which has not yet moved the cursor.
RestStage ==
  /\ at = "idle" => ShownAs(paper, video, cursor_x, cursor_y)
  /\ at = "backspace" =>
       /\ c = Backspace
       /\ cursor_x > 0 => ShownAs(paper, Stored(video, Cell(cursor_y, cursor_x - 1), Blank),
                                  cursor_x - 1, cursor_y)
       /\ ~(cursor_x > 0) => ShownAs(paper, video, cursor_x, cursor_y)

\* Going to the next row.
RowStage ==
  /\ at \in {"zero_x", "load_y", "store_y"} => RowDue(paper, video, cursor_y)
  /\ at \in {"load_y", "store_y"} => cursor_x = 0
  /\ at = "store_y" => reg = cursor_y

\* Storing a character or a blank.
StoreStage ==
  /\ at = "load_column" => reg = cursor_y
  /\ at = "glyph" => reg = Cell(cursor_y, cursor_x)
  /\ at \in {"load_row", "load_column", "glyph"} =>
       LET v == Stored(video, Cell(cursor_y, cursor_x), IF c = Backspace THEN Blank ELSE c)
       IN IF c = Backspace THEN ShownAs(paper, v, cursor_x, cursor_y)
          ELSE GlyphDue(paper, v, cursor_x, cursor_y)

\* Moving the cursor within its row.
MoveStage ==
  /\ at = "store_x" => reg = cursor_x
  /\ at \in {"load_x", "store_x"} =>
       IF c = Backspace
       THEN ShownAs(paper, Stored(video, Cell(cursor_y, cursor_x - 1), Blank),
                    cursor_x - 1, cursor_y)
       ELSE GlyphDue(paper, video, cursor_x, cursor_y)
  /\ at = "wrap" => GlyphDue(paper, video, cursor_x - 1, cursor_y)

\* In scroll.
ScrollStage ==
  /\ at = "scroll" => \/ ShownAs(paper, video, cursor_x, cursor_y)
                      \/ Over /\ Moved(video, paper)
  /\ at \in {"copy_load", "copy_store"} => Over /\ CopiedTo(video, paper, i)
  /\ at = "copy_store" => reg = video[i]
  /\ at = "blank" => Over /\ Drawn(video, paper, i)
  /\ at = "last_row" => Over /\ Shows(video, paper)

\* In clear.
ClearStage ==
  /\ at \in {"clear", "clear_x", "clear_y"} => paper = Fresh
  /\ at = "clear" => Drawn(video, paper, i)
  /\ at \in {"clear_x", "clear_y"} => Shows(video, paper)
  /\ at = "clear_y" => cursor_x = 0

Stage == RestStage /\ RowStage /\ StoreStage /\ MoveStage /\ ScrollStage /\ ClearStage

\* The inductive invariant: no promise about the screen once a write has fallen
\* inside a call of the shell.
Faithful == Sound /\ (~overlapped => Stage)

\* Below the end of a paper whose last row is new there is nothing.
LEMMA NewRowBlank ==
  ASSUME NEW p, Last(p) = <<>>, Len(p) = VGA_HEIGHT, NEW x \in Columns
  PROVE  Pic(p, VGA_HEIGHT - 1, x) = Blank
<1>1. (VGA_HEIGHT - 1) + 1 = VGA_HEIGHT /\ x \in Nat
  BY ScreenAssumption DEF Columns
<1>2. p[(VGA_HEIGHT - 1) + 1] = <<>>
  BY <1>1 DEF Last
<1>3. ~(x < Len(p[(VGA_HEIGHT - 1) + 1]))
  BY <1>1, <1>2
<1>4. QED
  BY <1>3 DEF Pic

\* The uninterrupted scroll brings the new row on the screen (terminal.c:50-68).
LEMMA ScrolledShows ==
  ASSUME NEW p, Paper(p), NEW v, DOMAIN v = Cells, NEW y, RowDue(p, v, y),
         scrolled(0, y + 1, v)
  PROVE  ShownAs(p, video', cursor_x', cursor_y')
<1> USE ScreenAssumption
<1>1. /\ Len(p) \in 1 .. VGA_HEIGHT /\ Last(p) = <<>> /\ Len(Last(p)) = 0 /\ cursor_x' = 0
  BY DEF Paper, RowDue, scrolled
<1>2. CASE y = Len(p) - 2 /\ Shows(v, p)
  <2>1. y + 1 = Len(p) - 1 /\ y + 1 < VGA_HEIGHT
    BY <1>1, <1>2
  <2>2. cursor_y' = Len(p) - 1 /\ video' = v
    BY <2>1 DEF scrolled
  <2>3. QED
    BY <1>1, <1>2, <2>2 DEF ShownAs
<1>3. CASE y = VGA_HEIGHT - 1 /\ Len(p) = VGA_HEIGHT /\ Moved(v, p)
  <2>1. ~(y + 1 < VGA_HEIGHT)
    BY <1>3
  <2>2. /\ cursor_y' = VGA_HEIGHT - 1
        /\ video' = [k \in Cells |-> IF k < LastRow THEN v[k + VGA_WIDTH] ELSE Blank]
    BY <2>1 DEF scrolled
  <2>3. ASSUME NEW a \in Rows, NEW b \in Columns PROVE video'[Cell(a, b)] = Pic(p, a, b)
    <3>1. PICK k : k = Cell(a, b)
      OBVIOUS
    <3>2. k \in Cells /\ (k < LastRow <=> a < VGA_HEIGHT - 1)
      BY <3>1, CellIn
    <3>3. video'[k] = IF a < VGA_HEIGHT - 1 THEN v[k + VGA_WIDTH] ELSE Blank
      BY <2>2, <3>2
    <3>4. CASE a < VGA_HEIGHT - 1
      <4>1. a + 1 \in Rows \ {0} /\ (a + 1) - 1 = a /\ a \in Nat /\ b \in Nat
        BY <3>4 DEF Rows, Columns
      <4>2. Cell(a + 1, b) = k + VGA_WIDTH
        BY <3>1, <4>1, CellBelow
      <4>3. v[Cell(a + 1, b)] = Pic(p, (a + 1) - 1, b)
        BY <1>3, <4>1 DEF Moved
      <4>4. QED
        BY <3>1, <3>3, <3>4, <4>1, <4>2, <4>3
    <3>5. CASE a = VGA_HEIGHT - 1
      BY <1>1, <1>3, <3>1, <3>3, <3>5, NewRowBlank
    <3>6. QED
      BY <3>4, <3>5 DEF Rows
  <2>4. Shows(video', p)
    BY <2>3 DEF Shows
  <2>5. QED
    BY <1>1, <1>3, <2>2, <2>4 DEF ShownAs
<1>4. QED
  BY <1>2, <1>3 DEF RowDue

\* Nothing is scrolled when the cursor is on the screen.
LEMMA ScrolledNot ==
  ASSUME NEW p, Paper(p), NEW v, NEW x, NEW y, ShownAs(p, v, x, y), scrolled(x, y, v)
  PROVE  ShownAs(p, video', cursor_x', cursor_y')
<1>1. y < VGA_HEIGHT
  BY EndOnScreen, ScreenAssumption DEF Rows
<1>2. cursor_x' = x /\ cursor_y' = y /\ video' = v
  BY <1>1 DEF scrolled
<1>3. QED
  BY <1>2

\* putchar without interruption does what the paper says (terminal.c:103-146).
LEMMA PutcharShows ==
  ASSUME DOMAIN video = Cells, Paper(paper), ShownAs(paper, video, cursor_x, cursor_y),
         NEW char \in Characters, putchar(char)
  PROVE  /\ Paper(Written(paper, char))
         /\ ShownAs(Written(paper, char), video', cursor_x', cursor_y')
<1> USE ScreenAssumption
<1>1. cursor_x \in Columns /\ cursor_y \in Rows /\ cursor_x \in Nat /\ cursor_y \in Nat
  BY EndOnScreen
<1>2. CASE char = Newline
  <2>1. scrolled(0, cursor_y + 1, video)
    BY <1>2 DEF putchar
  <2>2. Paper(Written(paper, Newline)) /\ RowDue(Written(paper, Newline), video, cursor_y)
    BY WriteNewline
  <2>3. QED
    BY <1>2, <2>1, <2>2, ScrolledShows
<1>3. CASE char = Backspace
  <2>1. /\ Paper(Written(paper, Backspace))
        /\ cursor_x > 0 =>
             ShownAs(Written(paper, Backspace),
                     Stored(video, Cell(cursor_y, cursor_x - 1), Blank), cursor_x - 1, cursor_y)
        /\ ~(cursor_x > 0) => ShownAs(Written(paper, Backspace), video, cursor_x, cursor_y)
    BY WriteBackspace
  <2>2. CASE cursor_x > 0
    <3>1. /\ cursor_x' = cursor_x - 1 /\ cursor_y' = cursor_y
          /\ video' = Stored(video, (cursor_y * VGA_WIDTH + cursor_x) - 1, Blank)
      BY <1>3, <2>2 DEF putchar
    <3>2. (cursor_y * VGA_WIDTH + cursor_x) - 1 = Cell(cursor_y, cursor_x - 1)
      BY <1>1 DEF Cell
    <3>3. QED
      BY <1>3, <2>1, <2>2, <3>1, <3>2
  <2>3. CASE ~(cursor_x > 0)
    <3>1. UNCHANGED <<cursor_x, cursor_y, video>>
      BY <1>3, <2>3 DEF putchar, screen
    <3>2. QED
      BY <1>3, <2>1, <2>3, <3>1
  <2>4. QED
    BY <2>2, <2>3
<1>4. CASE char \in Glyphs
  <2>1. PICK n, w : n = Written(paper, char) /\ w = Stored(video, Cell(cursor_y, cursor_x), char)
    OBVIOUS
  <2>2. Paper(n) /\ GlyphDue(n, w, cursor_x, cursor_y)
    BY <1>4, <2>1, WriteGlyph
  <2>3. DOMAIN w = Cells
    BY <1>1, <2>1, StoredCell
  <2>4. IF cursor_x + 1 >= VGA_WIDTH THEN scrolled(0, cursor_y + 1, w)
        ELSE scrolled(cursor_x + 1, cursor_y, w)
    BY <1>4, <2>1 DEF putchar, Cell
  <2>5. CASE cursor_x + 1 >= VGA_WIDTH
    <3>1. cursor_x + 1 = VGA_WIDTH
      BY <1>1, <2>5 DEF Columns
    <3>2. RowDue(n, w, cursor_y)
      BY <2>2, <3>1 DEF GlyphDue
    <3>3. QED
      BY <2>1, <2>2, <2>3, <2>4, <2>5, <3>2, ScrolledShows
  <2>6. CASE ~(cursor_x + 1 >= VGA_WIDTH)
    <3>1. cursor_x + 1 < VGA_WIDTH
      BY <1>1, <2>6
    <3>2. ShownAs(n, w, cursor_x + 1, cursor_y)
      BY <2>2, <3>1 DEF GlyphDue
    <3>3. QED
      BY <2>1, <2>2, <2>4, <2>6, <3>2, ScrolledNot
  <2>7. QED
    BY <2>5, <2>6
<1>5. QED
  BY <1>2, <1>3, <1>4 DEF Characters

\* Nor does it, or any store, change which cells there are.
LEMMA PutcharCells ==
  ASSUME DOMAIN video = Cells, NEW char, putchar(char)
  PROVE  DOMAIN video' = Cells
<1>1. ASSUME NEW k, NEW l PROVE DOMAIN Stored(video, k, l) = Cells
  BY DEF Stored
<1>2. ASSUME NEW x, NEW y, NEW v, DOMAIN v = Cells, scrolled(x, y, v) PROVE DOMAIN video' = Cells
  BY <1>2 DEF scrolled
<1>3. QED
  BY <1>1, <1>2 DEF putchar, screen

\* A fresh paper is an empty screen.
LEMMA FreshPaper ==
  /\ Paper(Fresh) /\ Len(Fresh) = 1 /\ Last(Fresh) = <<>> /\ Len(Last(Fresh)) = 0
  /\ \A y \in Rows, x \in Columns : Pic(Fresh, y, x) = Blank
<1> USE ScreenAssumption
<1>1. Len(Fresh) = 1 /\ Fresh[1] = <<>> /\ Fresh \in Seq(Seq(Glyphs))
  BY DEF Fresh
<1>2. Last(Fresh) = <<>> /\ Len(Last(Fresh)) = 0
  BY <1>1 DEF Last
<1>3. Paper(Fresh)
  BY <1>1, <1>2 DEF Paper
<1>4. ASSUME NEW y \in Rows, NEW x \in Columns PROVE Pic(Fresh, y, x) = Blank
  <2>1. CASE y = 0
    <3>1. Fresh[y + 1] = <<>>
      BY <1>1, <2>1
    <3>2. ~(x < Len(Fresh[y + 1]))
      BY <3>1 DEF Columns
    <3>3. QED
      BY <3>2 DEF Pic
  <2>2. CASE y # 0
    BY <1>1, <2>2 DEF Pic, Rows
  <2>3. QED
    BY <2>1, <2>2
<1>5. QED
  BY <1>1, <1>2, <1>3, <1>4

\* Cells drawn to the last one are the paper.
LEMMA DrawnAll ==
  ASSUME NEW v, NEW p, NEW k \in Cells, k + 1 \notin Cells, Drawn(v, p, k + 1)
  PROVE  Shows(v, p)
<1>1. SUFFICES ASSUME NEW y \in Rows, NEW x \in Columns PROVE v[Cell(y, x)] = Pic(p, y, x)
  BY DEF Shows
<1>2. PICK l : l = Cell(y, x)
  OBVIOUS
<1>3. l \in Cells
  BY <1>2, CellIn
<1>4. l < k + 1
  BY <1>3, ScreenAssumption DEF Cells
<1>5. QED
  BY <1>2, <1>4 DEF Drawn

\* One more cell is drawn (terminal.c:61-65, 92-96).
LEMMA DrawnMore ==
  ASSUME NEW v, DOMAIN v = Cells, NEW p, NEW k \in Cells, Drawn(v, p, k),
         \A y \in Rows, x \in Columns : Cell(y, x) = k => Pic(p, y, x) = Blank
  PROVE  Drawn([v EXCEPT ![k] = Blank], p, k + 1)
<1>1. SUFFICES ASSUME NEW y \in Rows, NEW x \in Columns, Cell(y, x) < k + 1
               PROVE  [v EXCEPT ![k] = Blank][Cell(y, x)] = Pic(p, y, x)
  BY DEF Drawn
<1>2. PICK l : l = Cell(y, x)
  OBVIOUS
<1>3. l \in Cells
  BY <1>2, CellIn
<1>4. [v EXCEPT ![k] = Blank][l] = IF l = k THEN Blank ELSE v[l]
  BY <1>3
<1>5. l = k \/ l < k
  BY <1>1, <1>2, <1>3, ScreenAssumption DEF Cells
<1>6. l < k => v[l] = Pic(p, y, x)
  BY <1>2 DEF Drawn
<1>7. QED
  BY <1>2, <1>4, <1>5, <1>6

\* One more cell is copied; nothing that is yet to be read is overwritten
\* (terminal.c:55-60).
LEMMA CopiedMore ==
  ASSUME NEW v, DOMAIN v = Cells, NEW p, NEW k \in Cells, k >= VGA_WIDTH, CopiedTo(v, p, k)
  PROVE  CopiedTo([v EXCEPT ![k - VGA_WIDTH] = v[k]], p, k + 1)
<1> USE ScreenAssumption
<1>1. PICK n : n = [v EXCEPT ![k - VGA_WIDTH] = v[k]]
  OBVIOUS
<1>2. k \in Int /\ k - VGA_WIDTH \in Int /\ k - VGA_WIDTH < k /\ Cells \subseteq Int
  BY DEF Cells
<1>3. \A l \in Cells : n[l] = IF l = k - VGA_WIDTH THEN v[k] ELSE v[l]
  BY <1>1
<1>4. ASSUME NEW y \in Rows \ {0}, NEW x \in Columns
      PROVE  IF Cell(y, x) < k + 1 THEN n[Cell(y - 1, x)] = Pic(p, y - 1, x)
             ELSE n[Cell(y, x)] = Pic(p, y - 1, x)
  <2>1. PICK a, b : a = Cell(y, x) /\ b = Cell(y - 1, x)
    OBVIOUS
  <2>2. y \in Rows /\ y - 1 \in Rows /\ y - 1 \in Nat /\ x \in Nat /\ (y - 1) + 1 = y
    BY DEF Rows, Columns
  <2>3. a \in Cells /\ b \in Cells /\ a = b + VGA_WIDTH
    <3>1. a \in Cells /\ b \in Cells
      BY <2>1, <2>2, CellIn
    <3>2. Cell((y - 1) + 1, x) = Cell(y - 1, x) + VGA_WIDTH
      BY <2>2, CellBelow
    <3>3. QED
      BY <2>1, <2>2, <3>1, <3>2
  <2>4. IF a < k THEN v[b] = Pic(p, y - 1, x) ELSE v[a] = Pic(p, y - 1, x)
    BY <2>1 DEF CopiedTo
  <2>5. /\ n[a] = IF a = k - VGA_WIDTH THEN v[k] ELSE v[a]
        /\ n[b] = IF b = k - VGA_WIDTH THEN v[k] ELSE v[b]
    BY <1>3, <2>3
  <2>6. a \in Int /\ b \in Int
    BY <1>2, <2>3
  <2>7. CASE a < k
    <3>1. b # k - VGA_WIDTH /\ a < k + 1
      BY <1>2, <2>3, <2>6, <2>7
    <3>2. QED
      BY <2>1, <2>4, <2>5, <2>7, <3>1
  <2>8. CASE a = k
    <3>1. b = k - VGA_WIDTH /\ a < k + 1 /\ ~(a < k)
      BY <1>2, <2>3, <2>6, <2>8
    <3>2. QED
      BY <2>1, <2>4, <2>5, <2>8, <3>1
  <2>9. CASE a > k
    <3>1. a # k - VGA_WIDTH /\ ~(a < k + 1) /\ ~(a < k)
      BY <1>2, <2>6, <2>9
    <3>2. QED
      BY <2>1, <2>4, <2>5, <3>1
  <2>10. QED
    BY <1>2, <2>6, <2>7, <2>8, <2>9
<1>5. QED
  BY <1>1, <1>4 DEF CopiedTo

\* Copied to the last cell, the rows above the last one are the paper.
LEMMA CopiedAll ==
  ASSUME NEW v, NEW p, NEW k \in Cells, k + 1 \notin Cells, CopiedTo(v, p, k + 1)
  PROVE  Drawn(v, p, LastRow)
<1> USE ScreenAssumption
<1>1. SUFFICES ASSUME NEW y \in Rows, NEW x \in Columns, Cell(y, x) < LastRow
               PROVE  v[Cell(y, x)] = Pic(p, y, x)
  BY DEF Drawn
<1>2. y < VGA_HEIGHT - 1
  BY <1>1, CellIn
<1>3. PICK a : a = y + 1
  OBVIOUS
<1>4. a \in Rows \ {0} /\ a \in Rows /\ a - 1 = y
  BY <1>2, <1>3 DEF Rows
<1>5. Cell(a, x) \in Cells
  BY <1>4, CellIn
<1>6. Cell(a, x) < k + 1
  BY <1>5 DEF Cells
<1>7. v[Cell(a - 1, x)] = Pic(p, a - 1, x)
  BY <1>4, <1>6 DEF CopiedTo
<1>8. QED
  BY <1>4, <1>7

\* The first cell that is read is that of row 1, column 0.
LEMMA CopyBegins ==
  ASSUME NEW v, NEW p, Moved(v, p)
  PROVE  CopiedTo(v, p, VGA_WIDTH)
<1>1. SUFFICES ASSUME NEW y \in Rows \ {0}, NEW x \in Columns
               PROVE  ~(Cell(y, x) < VGA_WIDTH)
  BY DEF Moved, CopiedTo
<1>2. y - 1 \in Nat /\ x \in Nat /\ (y - 1) + 1 = y
  BY ScreenAssumption DEF Rows, Columns
<1>3. Cell((y - 1) + 1, x) = Cell(y - 1, x) + VGA_WIDTH /\ Cell(y - 1, x) \in Nat
  BY <1>2, CellBelow
<1>4. QED
  BY <1>2, <1>3, ScreenAssumption

\* The cells scroll and clear go over are those of the screen.
LEMMA LoopBounds ==
  /\ 0 \in Cells /\ LastRow \in Cells /\ LastRow \in Nat /\ Cells \subseteq Nat
  /\ VGA_HEIGHT > 1 => VGA_WIDTH \in Cells
  /\ VGA_HEIGHT = 1 => LastRow = 0
  /\ \A k \in Cells : k >= VGA_WIDTH => k - VGA_WIDTH \in Cells
<1> USE ScreenAssumption
<1>1. 0 \in Columns /\ VGA_HEIGHT - 1 \in Rows /\ 0 \in Rows
  BY DEF Rows, Columns
<1>2. Cell(VGA_HEIGHT - 1, 0) = LastRow /\ Cell(0, 0) = 0 /\ Cell(1, 0) = VGA_WIDTH
  BY DEF Cell, LastRow
<1>3. LastRow \in Cells /\ LastRow \in Nat /\ 0 \in Cells
  BY <1>1, <1>2, CellIn
<1>4. VGA_HEIGHT > 1 => VGA_WIDTH \in Cells
  <2>1. VGA_HEIGHT > 1 => 1 \in Rows
    BY DEF Rows
  <2>2. QED
    BY <1>1, <1>2, <2>1, CellIn
<1>5. VGA_HEIGHT = 1 => LastRow = 0
  BY DEF LastRow
<1>6. \A k \in Cells : k >= VGA_WIDTH => k - VGA_WIDTH \in Cells
  <2>1. VGA_WIDTH * VGA_HEIGHT \in Nat
    OBVIOUS
  <2>2. QED
    BY <2>1 DEF Cells
<1>7. QED
  BY <1>3, <1>4, <1>5, <1>6 DEF Cells

\* The strengthening holds when the kernel starts (terminal.c:70-75).
LEMMA FaithfulInit == Init => Faithful
<1> SUFFICES ASSUME Init PROVE Faithful
  OBVIOUS
<1>1. /\ cursor_x = 0 /\ cursor_y = 0 /\ video = [k \in Cells |-> Blank] /\ paper = Fresh
      /\ at = "idle" /\ i = 0
  BY DEF Init
<1>2. Shows(video, Fresh)
  BY <1>1, CellIn, FreshPaper DEF Shows
<1>3. ShownAs(paper, video, cursor_x, cursor_y)
  BY <1>1, <1>2, FreshPaper DEF ShownAs
<1>4. Sound
  BY <1>1, FreshPaper DEF Sound
<1>5. Stage
  BY <1>1, <1>3 DEF Stage, RestStage, RowStage, StoreStage, MoveStage, ScrollStage, ClearStage
<1>6. QED
  BY <1>4, <1>5 DEF Faithful

\* A write of SYS_WRITE: between calls it is as on the paper, and within one the
\* promise is given up (syscall.c:20-21).
LEMMA WriteKeeps == Faithful /\ syscall_write => Faithful'
<1> SUFFICES ASSUME Faithful, syscall_write PROVE Faithful'
  OBVIOUS
<1>1. PICK char \in Characters :
        /\ putchar(char)
        /\ IF at = "idle" /\ ~overlapped
           THEN paper' = Written(paper, char) /\ overlapped' = overlapped
           ELSE paper' = Fresh /\ overlapped' = TRUE
        /\ at' = at /\ c' = c /\ reg' = reg /\ i' = i
  BY DEF syscall_write, shell
<1>2. DOMAIN video' = Cells
  BY <1>1, PutcharCells DEF Faithful, Sound
<1>3. CASE at = "idle" /\ ~overlapped
  <2>1. ShownAs(paper, video, cursor_x, cursor_y) /\ DOMAIN video = Cells /\ Paper(paper)
    BY <1>3 DEF Faithful, Sound, Stage, RestStage
  <2>2. Paper(paper') /\ ShownAs(paper', video', cursor_x', cursor_y')
    BY <1>1, <1>3, <2>1, PutcharShows
  <2>3. Sound'
    BY <1>1, <1>2, <1>3, <2>2 DEF Faithful, Sound
  <2>4. Stage'
    BY <1>1, <1>3, <2>2 DEF Stage, RestStage, RowStage, StoreStage, MoveStage, ScrollStage, ClearStage
  <2>5. QED
    BY <2>3, <2>4 DEF Faithful
<1>4. CASE ~(at = "idle" /\ ~overlapped)
  BY <1>1, <1>2, <1>4, FreshPaper DEF Faithful, Sound
<1>5. QED
  BY <1>3, <1>4

\* With a register lost the promise is given up, too.
LEMMA LostKeeps == Faithful /\ RegisterLost => Faithful'
BY FreshPaper DEF RegisterLost, screen, Faithful, Sound

\* The shell's call begins (terminal.c:103-111, 139-141).
LEMMA BeginKeeps == Faithful /\ Begin => Faithful'
<1> SUFFICES ASSUME Faithful, Begin PROVE Faithful'
  OBVIOUS
<1> USE ScreenAssumption
<1>1. PICK char \in Characters :
        /\ at = "idle" /\ c' = char
        /\ at' = CASE char = Newline -> "zero_x" [] char = Backspace -> "backspace"
                   [] OTHER -> "load_row"
        /\ paper' = IF overlapped THEN Fresh ELSE Written(paper, char)
        /\ cursor_x' = cursor_x /\ cursor_y' = cursor_y /\ video' = video
        /\ overlapped' = overlapped
  BY DEF Begin, Goto, screen
<1>2. /\ at' = "zero_x" => char = Newline
      /\ at' = "backspace" => char = Backspace
      /\ at' = "load_row" => char \in Glyphs /\ char # Backspace
      /\ at' \in {"zero_x", "backspace", "load_row"}
  BY <1>1 DEF Characters
<1>3. CASE overlapped
  BY <1>1, <1>2, <1>3, FreshPaper DEF Faithful, Sound
<1>4. CASE ~overlapped
  <2>1. ShownAs(paper, video, cursor_x, cursor_y) /\ DOMAIN video = Cells /\ Paper(paper)
    BY <1>1, <1>4 DEF Faithful, Sound, Stage, RestStage
  <2>2. CASE at' = "zero_x"
    <3>1. Paper(paper') /\ RowDue(paper', video', cursor_y')
      BY <1>1, <1>2, <1>4, <2>1, <2>2, WriteNewline
    <3>2. QED
      BY <1>1, <2>1, <2>2, <3>1 DEF Faithful, Sound, Stage, RestStage, RowStage, StoreStage,
        MoveStage, ScrollStage, ClearStage
  <2>3. CASE at' = "backspace"
    <3>1. /\ Paper(paper')
          /\ cursor_x' > 0 => ShownAs(paper', Stored(video', Cell(cursor_y', cursor_x' - 1), Blank),
                                      cursor_x' - 1, cursor_y')
          /\ ~(cursor_x' > 0) => ShownAs(paper', video', cursor_x', cursor_y')
      BY <1>1, <1>2, <1>4, <2>1, <2>3, WriteBackspace
    <3>2. QED
      BY <1>1, <1>2, <2>1, <2>3, <3>1 DEF Faithful, Sound, Stage, RestStage, RowStage, StoreStage,
        MoveStage, ScrollStage, ClearStage
  <2>4. CASE at' = "load_row"
    <3>1. /\ Paper(paper') /\ c' # Backspace
          /\ GlyphDue(paper', Stored(video', Cell(cursor_y', cursor_x'), c'), cursor_x', cursor_y')
      BY <1>1, <1>2, <1>4, <2>1, <2>4, WriteGlyph
    <3>2. QED
      BY <1>1, <2>1, <2>4, <3>1 DEF Faithful, Sound, Stage, RestStage, RowStage, StoreStage,
        MoveStage, ScrollStage, ClearStage
  <2>5. QED
    BY <1>2, <2>2, <2>3, <2>4
<1>5. QED
  BY <1>3, <1>4

\* The cursor goes to the next row (terminal.c:104-107, 119-122).
LEMMA RowKeeps == Faithful /\ Held /\ (ZeroX \/ LoadY \/ StoreY) => Faithful'
<1> SUFFICES ASSUME Faithful, Held, ZeroX \/ LoadY \/ StoreY PROVE Faithful'
  OBVIOUS
<1> USE DEF Faithful, Sound, Stage, RestStage, RowStage, StoreStage, MoveStage, ScrollStage,
            ClearStage
<1>1. CASE ZeroX
  BY <1>1 DEF ZeroX, Goto, ghosts
<1>2. CASE LoadY
  BY <1>2 DEF LoadY, Goto, ghosts, screen
<1>3. CASE StoreY
  <2>1. /\ at = "store_y" /\ at' = "scroll" /\ cursor_y' = reg + 1 /\ cursor_x' = cursor_x
        /\ video' = video /\ paper' = paper /\ overlapped' = overlapped
    BY <1>3 DEF StoreY, Goto, ghosts
  <2>2. CASE ~overlapped
    <3>1. RowDue(paper, video, cursor_y) /\ cursor_x = 0 /\ reg = cursor_y
      BY <2>1, <2>2
    <3>2. Len(paper) \in 1 .. VGA_HEIGHT /\ Last(paper) = <<>> /\ Len(Last(paper)) = 0
      BY <3>1 DEF Paper, RowDue
    <3>3. CASE cursor_y = Len(paper) - 2 /\ Shows(video, paper)
      <4>1. cursor_y' = Len(paper) - 1
        BY <2>1, <3>1, <3>2, <3>3
      <4>2. ShownAs(paper', video', cursor_x', cursor_y')
        BY <2>1, <3>1, <3>2, <3>3, <4>1 DEF ShownAs
      <4>3. QED
        BY <2>1, <4>2
    <3>4. CASE cursor_y = VGA_HEIGHT - 1 /\ Len(paper) = VGA_HEIGHT /\ Moved(video, paper)
      <4>1. cursor_y' = VGA_HEIGHT
        BY <2>1, <3>1, <3>4, ScreenAssumption
      <4>2. Over' /\ Moved(video', paper')
        BY <2>1, <3>1, <3>2, <3>4, <4>1 DEF Over
      <4>3. QED
        BY <2>1, <4>2
    <3>5. QED
      BY <3>1, <3>3, <3>4 DEF RowDue
  <2>3. QED
    BY <2>1, <2>2
<1>4. QED
  BY <1>1, <1>2, <1>3

\* The character or the blank is stored (terminal.c:113-115, 143-145).
LEMMA StoreKeeps == Faithful /\ Held /\ (LoadRow \/ LoadColumn \/ Glyph) => Faithful'
<1> SUFFICES ASSUME Faithful, Held, LoadRow \/ LoadColumn \/ Glyph PROVE Faithful'
  OBVIOUS
<1> USE DEF Faithful, Sound, Stage, RestStage, RowStage, StoreStage, MoveStage, ScrollStage,
            ClearStage
<1>1. CASE LoadRow
  BY <1>1 DEF LoadRow, Goto, ghosts, screen
<1>2. CASE LoadColumn
  <2>1. ~overlapped => reg * VGA_WIDTH + cursor_x = Cell(cursor_y, cursor_x)
    BY <1>2 DEF LoadColumn, Cell
  <2>2. QED
    BY <1>2, <2>1 DEF LoadColumn, Goto, ghosts, screen
<1>3. CASE Glyph
  <2>1. DOMAIN video' = Cells
    BY <1>3 DEF Glyph, Stored
  <2>2. QED
    BY <1>3, <2>1 DEF Glyph, Goto, Return, ghosts
<1>4. QED
  BY <1>1, <1>2, <1>3

\* The cursor moves within its row (terminal.c:117-119, 141-142).
LEMMA MoveKeeps == Faithful /\ Held /\ (LoadX \/ StoreX \/ Wrap \/ BackspaceTest) => Faithful'
<1> SUFFICES ASSUME Faithful, Held, LoadX \/ StoreX \/ Wrap \/ BackspaceTest PROVE Faithful'
  OBVIOUS
<1> USE DEF Faithful, Sound, Stage, RestStage, RowStage, StoreStage, MoveStage, ScrollStage,
            ClearStage
<1>1. CASE LoadX
  BY <1>1 DEF LoadX, Goto, ghosts, screen
<1>2. CASE StoreX
  <2>1. cursor_x \in Int
    BY <1>2 DEF StoreX, Held, CursorPlaced
  <2>2. ~overlapped /\ c # Backspace => cursor_x' - 1 = cursor_x
    BY <1>2, <2>1 DEF StoreX
  <2>3. QED
    BY <1>2, <2>2 DEF StoreX, Goto, ghosts
<1>3. CASE Wrap
  <2>1. cursor_x \in -1 .. VGA_WIDTH /\ (cursor_x - 1) + 1 = cursor_x
    BY <1>3, ScreenAssumption DEF Wrap, Held, CursorPlaced
  <2>2. /\ cursor_x >= VGA_WIDTH => cursor_x = VGA_WIDTH
        /\ ~(cursor_x >= VGA_WIDTH) => cursor_x < VGA_WIDTH
    BY <2>1, ScreenAssumption
  <2>3. ~overlapped => /\ cursor_x < VGA_WIDTH => ShownAs(paper, video, cursor_x, cursor_y)
                       /\ cursor_x = VGA_WIDTH => RowDue(paper, video, cursor_y)
    BY <1>3, <2>1 DEF Wrap, GlyphDue
  <2>4. QED
    BY <1>3, <2>2, <2>3 DEF Wrap, Goto, ghosts, screen
<1>4. CASE BackspaceTest
  BY <1>4 DEF BackspaceTest, AtRowStart, Goto, Return, ghosts, screen
<1>5. QED
  BY <1>1, <1>2, <1>3, <1>4

\* scroll, one cell at a time (terminal.c:50-68).
LEMMA ScrollKeeps ==
  Faithful /\ Held /\ (Scroll \/ CopyLoad \/ CopyStore \/ BlankRow \/ ScrollEnd) => Faithful'
<1> SUFFICES ASSUME Faithful, Held, Scroll \/ CopyLoad \/ CopyStore \/ BlankRow \/ ScrollEnd
             PROVE  Faithful'
  OBVIOUS
<1> USE DEF Faithful, Sound, Stage, RestStage, RowStage, StoreStage, MoveStage, ScrollStage,
            ClearStage
<1>1. CASE Scroll
  <2>1. /\ at = "scroll" /\ overlapped' = overlapped /\ paper' = paper /\ video' = video
        /\ cursor_x' = cursor_x /\ cursor_y' = cursor_y
    BY <1>1 DEF Scroll, ghosts, screen
  <2>2. CASE cursor_y < VGA_HEIGHT
    <3>1. at' = "idle" /\ i' = 0
      BY <1>1, <2>2 DEF Scroll, Return
    <3>2. ~overlapped => ShownAs(paper, video, cursor_x, cursor_y)
      BY <2>1, <2>2, ScreenAssumption DEF Over
    <3>3. QED
      BY <2>1, <3>1, <3>2
  <2>3. CASE ~(cursor_y < VGA_HEIGHT)
    <3>1. ~overlapped => Over /\ Moved(video, paper)
      <4>1. ~ShownAs(paper, video, cursor_x, cursor_y)
        BY <2>3, EndOnScreen, ScreenAssumption DEF Rows
      <4>2. QED
        BY <2>1, <4>1
    <3>2. CASE VGA_HEIGHT > 1
      <4>1. at' = "copy_load" /\ i' = VGA_WIDTH
        BY <1>1, <2>3, <3>2 DEF Scroll, Goto
      <4>2. i' \in Cells /\ i' >= VGA_WIDTH
        BY <3>2, <4>1, LoopBounds, ScreenAssumption
      <4>3. ~overlapped => Over' /\ CopiedTo(video', paper', i')
        BY <2>1, <3>1, <4>1, CopyBegins DEF Over
      <4>4. QED
        BY <2>1, <4>1, <4>2, <4>3
    <3>3. CASE ~(VGA_HEIGHT > 1)
      <4>1. at' = "blank" /\ i' = 0
        BY <1>1, <2>3, <3>3 DEF Scroll, Goto
      <4>2. i' \in Cells /\ i' >= LastRow
        BY <3>3, <4>1, LoopBounds, ScreenAssumption
      <4>3. Drawn(video', paper', i')
        <5>1. \A y \in Rows, x \in Columns : ~(Cell(y, x) < 0)
          BY CellIn
        <5>2. QED
          BY <4>1, <5>1 DEF Drawn
      <4>4. ~overlapped => Over'
        BY <2>1, <3>1 DEF Over
      <4>5. QED
        BY <2>1, <4>1, <4>2, <4>3, <4>4
    <3>4. QED
      BY <3>2, <3>3
  <2>4. QED
    BY <2>2, <2>3
<1>2. CASE CopyLoad
  <2>1. ~overlapped => Over'
    BY <1>2 DEF CopyLoad, Over, ghosts, screen
  <2>2. QED
    BY <1>2, <2>1 DEF CopyLoad, Goto, ghosts, screen
<1>3. CASE CopyStore
  <2>1. /\ at = "copy_store" /\ overlapped' = overlapped /\ paper' = paper
        /\ video' = [video EXCEPT ![i - VGA_WIDTH] = reg]
        /\ cursor_x' = cursor_x /\ cursor_y' = cursor_y
        /\ i \in Cells /\ i >= VGA_WIDTH /\ i \in Nat
    BY <1>3, LoopBounds DEF CopyStore, ghosts
  <2>2. DOMAIN video' = Cells
    BY <2>1
  <2>3. ~overlapped => Over' /\ CopiedTo(video', paper', i + 1)
    <3>1. SUFFICES ASSUME ~overlapped PROVE Over' /\ CopiedTo(video', paper', i + 1)
      OBVIOUS
    <3>2. Over /\ CopiedTo(video, paper, i) /\ reg = video[i] /\ DOMAIN video = Cells
      BY <2>1, <3>1
    <3>3. CopiedTo([video EXCEPT ![i - VGA_WIDTH] = video[i]], paper, i + 1)
      BY <2>1, <3>2, CopiedMore
    <3>4. QED
      BY <2>1, <3>2, <3>3 DEF Over
  <2>4. CASE i + 1 \in Cells
    <3>1. at' = "copy_load" /\ i' = i + 1
      BY <1>3, <2>4 DEF CopyStore, Goto
    <3>2. i' \in Cells /\ i' >= VGA_WIDTH
      BY <2>1, <2>4, <3>1, ScreenAssumption
    <3>3. QED
      BY <2>1, <2>2, <2>3, <3>1, <3>2
  <2>5. CASE i + 1 \notin Cells
    <3>1. at' = "blank" /\ i' = LastRow
      BY <1>3, <2>5 DEF CopyStore, Goto
    <3>2. i' \in Cells /\ i' >= LastRow
      BY <3>1, LoopBounds
    <3>3. ~overlapped => Drawn(video', paper', i')
      BY <2>1, <2>3, <2>5, <3>1, CopiedAll
    <3>4. QED
      BY <2>1, <2>2, <2>3, <3>1, <3>2, <3>3
  <2>6. QED
    BY <2>4, <2>5
<1>4. CASE BlankRow
  <2>1. /\ at = "blank" /\ overlapped' = overlapped /\ paper' = paper
        /\ video' = [video EXCEPT ![i] = Blank]
        /\ cursor_x' = cursor_x /\ cursor_y' = cursor_y
        /\ i \in Cells /\ i >= LastRow /\ i \in Nat
    BY <1>4, LoopBounds DEF BlankRow, ghosts
  <2>2. DOMAIN video' = Cells
    BY <2>1
  <2>3. ~overlapped => Over' /\ Drawn(video', paper', i + 1)
    <3>1. SUFFICES ASSUME ~overlapped PROVE Over' /\ Drawn(video', paper', i + 1)
      OBVIOUS
    <3>2. Over /\ Drawn(video, paper, i) /\ DOMAIN video = Cells
      BY <2>1, <3>1
    <3>3. ASSUME NEW y \in Rows, NEW x \in Columns, Cell(y, x) = i
          PROVE  Pic(paper, y, x) = Blank
      <4>1. ~(Cell(y, x) < LastRow)
        BY <2>1, <3>3, LoopBounds
      <4>2. y = VGA_HEIGHT - 1
        <5>1. ~(y < VGA_HEIGHT - 1)
          BY <4>1, CellIn
        <5>2. QED
          BY <5>1, ScreenAssumption DEF Rows
      <4>3. QED
        BY <3>2, <4>2, NewRowBlank DEF Over
    <3>4. Drawn([video EXCEPT ![i] = Blank], paper, i + 1)
      BY <2>1, <3>2, <3>3, DrawnMore
    <3>5. QED
      BY <2>1, <3>2, <3>4 DEF Over
  <2>4. CASE i + 1 \in Cells
    <3>1. at' = "blank" /\ i' = i + 1
      BY <1>4, <2>1, <2>4 DEF BlankRow
    <3>2. i' \in Cells /\ i' >= LastRow
      BY <2>1, <2>4, <3>1, LoopBounds
    <3>3. QED
      BY <2>1, <2>2, <2>3, <3>1, <3>2
  <2>5. CASE i + 1 \notin Cells
    <3>1. at' = "last_row"
      BY <1>4, <2>5 DEF BlankRow, Goto
    <3>2. ~overlapped => Shows(video', paper')
      BY <2>1, <2>3, <2>5, DrawnAll
    <3>3. QED
      BY <2>1, <2>2, <2>3, <3>1, <3>2
  <2>6. QED
    BY <2>4, <2>5
<1>5. CASE ScrollEnd
  <2>1. /\ at = "last_row" /\ at' = "idle" /\ i' = 0 /\ cursor_y' = VGA_HEIGHT - 1
        /\ cursor_x' = cursor_x /\ video' = video /\ paper' = paper /\ overlapped' = overlapped
    BY <1>5 DEF ScrollEnd, Return, ghosts
  <2>2. ~overlapped => ShownAs(paper', video', cursor_x', cursor_y')
    <3>1. SUFFICES ASSUME ~overlapped PROVE ShownAs(paper', video', cursor_x', cursor_y')
      OBVIOUS
    <3>2. Over /\ Shows(video, paper)
      BY <2>1, <3>1
    <3>3. Len(Last(paper)) = 0
      BY <3>2 DEF Over
    <3>4. QED
      BY <2>1, <3>2, <3>3 DEF ShownAs, Over
  <2>3. QED
    BY <2>1, <2>2
<1>6. QED
  BY <1>1, <1>2, <1>3, <1>4, <1>5

\* clear, which also ends what a write inside a call has spoilt (terminal.c:89-99).
LEMMA ClearKeeps == Faithful /\ (Clear \/ ClearCell \/ ClearX \/ ClearY) => Faithful'
<1> SUFFICES ASSUME Faithful, Clear \/ ClearCell \/ ClearX \/ ClearY PROVE Faithful'
  OBVIOUS
<1> USE DEF Faithful, Sound, Stage, RestStage, RowStage, StoreStage, MoveStage, ScrollStage,
            ClearStage
<1>1. CASE Clear
  <2>1. at = "idle" /\ at' = "clear" /\ paper' = Fresh /\ i' = 0 /\ video' = video
    BY <1>1 DEF Clear, Goto, screen
  <2>2. \A y \in Rows, x \in Columns : ~(Cell(y, x) < 0)
    BY CellIn
  <2>3. Drawn(video', paper', i')
    BY <2>1, <2>2 DEF Drawn
  <2>4. QED
    BY <2>1, <2>3, FreshPaper, LoopBounds
<1>2. CASE ClearCell
  <2>1. /\ at = "clear" /\ overlapped' = overlapped /\ paper' = paper
        /\ video' = [video EXCEPT ![i] = Blank]
        /\ i \in Cells /\ DOMAIN video = Cells
    BY <1>2 DEF ClearCell, ghosts
  <2>2. DOMAIN video' = Cells
    BY <2>1
  <2>3. ~overlapped => paper = Fresh /\ Drawn(video', paper', i + 1)
    <3>1. SUFFICES ASSUME ~overlapped PROVE paper = Fresh /\ Drawn(video', paper', i + 1)
      OBVIOUS
    <3>2. paper = Fresh /\ Drawn(video, paper, i)
      BY <2>1, <3>1
    <3>3. Drawn([video EXCEPT ![i] = Blank], paper, i + 1)
      BY <2>1, <3>2, FreshPaper, DrawnMore
    <3>4. QED
      BY <2>1, <3>2, <3>3
  <2>4. CASE i + 1 \in Cells
    <3>1. at' = "clear" /\ i' = i + 1
      BY <1>2, <2>1, <2>4 DEF ClearCell
    <3>2. QED
      BY <2>1, <2>2, <2>3, <2>4, <3>1
  <2>5. CASE i + 1 \notin Cells
    <3>1. at' = "clear_x"
      BY <1>2, <2>5 DEF ClearCell, Goto
    <3>2. ~overlapped => Shows(video', paper')
      BY <2>1, <2>3, <2>5, DrawnAll
    <3>3. QED
      BY <2>1, <2>2, <2>3, <3>1, <3>2
  <2>6. QED
    BY <2>4, <2>5
<1>3. CASE ClearX
  BY <1>3 DEF ClearX, Goto, ghosts
<1>4. CASE ClearY
  <2>1. /\ at = "clear_y" /\ at' = "idle" /\ i' = 0 /\ cursor_y' = 0 /\ cursor_x' = cursor_x
        /\ video' = video /\ paper' = paper /\ overlapped' = overlapped
    BY <1>4 DEF ClearY, Return, ghosts
  <2>2. ~overlapped => ShownAs(paper', video', cursor_x', cursor_y')
    <3>1. 0 = Len(Fresh) - 1 /\ 0 = Len(Last(Fresh))
      BY FreshPaper
    <3>2. QED
      BY <2>1, <3>1 DEF ShownAs
  <2>3. QED
    BY <2>1, <2>2
<1>5. QED
  BY <1>1, <1>2, <1>3, <1>4

\* Every step preserves the strengthening.
LEMMA FaithfulStep == Faithful /\ Held /\ [Next]_vars => Faithful'
<1>1. Faithful /\ UNCHANGED vars => Faithful'
  BY DEF vars, screen, shell, ghosts, Faithful, Sound, Stage, RestStage, RowStage, StoreStage,
    MoveStage, ScrollStage, ClearStage, Over
<1>2. Faithful /\ Lost => Faithful'
  BY <1>1 DEF Lost
<1>3. QED
  BY <1>1, <1>2, WriteKeeps, LostKeeps, BeginKeeps, RowKeeps, StoreKeeps, MoveKeeps,
     ScrollKeeps, ClearKeeps
  DEF Next

\* It gives the property.
LEMMA FaithfulShows == Faithful => ShowsOutput
<1> SUFFICES ASSUME Faithful, at = "idle", ~overlapped PROVE ShowsOutput
  BY DEF ShowsOutput
<1>1. ShownAs(paper, video, cursor_x, cursor_y)
  BY DEF Faithful, Stage, RestStage
<1>2. QED
  BY <1>1 DEF ShowsOutput, ShownAs, Shows, Pic, Cell, Last, Rows, Columns

\* On a screen of any size, whatever the shell and SYS_WRITE print, as long as no
\* write falls inside a call of the shell and no register is lost there the screen shows the last rows of what
\* was written, and so it does again after a clear (terminal.c:50-146).
THEOREM ShowsWhatWasWritten == Spec => []ShowsOutput
<1>1. Spec => []Held
  BY HeldInit, HeldStep, PTL DEF Spec
<1>2. Spec => []Faithful
  BY <1>1, FaithfulInit, FaithfulStep, PTL DEF Spec
<1>3. QED
  BY <1>2, FaithfulShows, PTL
=============================================================================
