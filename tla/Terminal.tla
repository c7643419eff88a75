------------------------------ MODULE Terminal ------------------------------
(***************************************************************************)
(* The text screen (drivers/terminal.c) and its two writers: the shell,    *)
(* which can be preempted anywhere, and user processes, whose SYS_WRITE    *)
(* (syscall.c) runs with interrupts disabled.  They share cursor_x,        *)
(* cursor_y and video and no lock.                                         *)
(*                                                                         *)
(* A step of the shell is what the build's unoptimised code does between   *)
(* two accesses of that state: x++ is a load and a store.  A call of print *)
(* is a call of putchar for each of its characters, none of which is '\b'. *)
(* Colours are left out.                                                   *)
(*                                                                         *)
(* A return from an interrupt to the shell loses eax, ebx, ecx and edi     *)
(* (idt.asm:26-35, module Isr).  At the end of a statement nothing is in   *)
(* them; within one, a preemption may cost the shell what it computes with *)
(* and what it does then is not followed (RegisterLost).                   *)
(***************************************************************************)
EXTENDS Integers, Sequences

CONSTANTS
  VGA_WIDTH, VGA_HEIGHT,
  Glyphs,              \* the characters that show
  Newline, Backspace,  \* '\n' and '\b'
  Blank                \* what an empty cell holds

ASSUME ScreenAssumption ==
  /\ VGA_WIDTH \in Nat \ {0} /\ VGA_HEIGHT \in Nat \ {0}
  /\ Newline \notin Glyphs /\ Backspace \notin Glyphs /\ Newline # Backspace

VARIABLES
  cursor_x, cursor_y,
  video,       \* [0 .. VGA_WIDTH * VGA_HEIGHT - 1 -> character]
  at,          \* where the shell is in terminal.c
  c,           \* the character of its putchar
  reg,         \* what it has loaded or computed
  i,           \* its loop index
  paper,       \* ghost: what should be on the screen, row by row
  overlapped   \* ghost: a write fell inside a call of the shell

shell == <<at, c, reg, i>>
screen == <<cursor_x, cursor_y, video>>
ghosts == <<paper, overlapped>>
vars == <<screen, shell, ghosts>>

Characters == Glyphs \cup {Newline, Backspace}
Cells == 0 .. VGA_WIDTH * VGA_HEIGHT - 1
LastRow == (VGA_HEIGHT - 1) * VGA_WIDTH

\* What is stored outside the screen is not seen and never loaded.
Stored(v, position, char) ==
  IF position \in Cells THEN [v EXCEPT ![position] = char] ELSE v

-----------------------------------------------------------------------------
(* The paper, a reference: a screen is the last rows of all that was       *)
(* written, and the end of the last one is where writing goes on.          *)

Fresh == << <<>> >>

NewRow(p) ==
  IF Len(p) = VGA_HEIGHT THEN Append(Tail(p), <<>>) ELSE Append(p, <<>>)

Written(p, char) ==
  LET last == p[Len(p)]
      longer == [p EXCEPT ![Len(p)] = Append(last, char)]
  IN CASE char = Newline -> NewRow(p)
       [] char = Backspace -> IF last = <<>> THEN p
                              ELSE [p EXCEPT ![Len(p)] = SubSeq(last, 1, Len(last) - 1)]
       [] OTHER -> IF Len(last) + 1 = VGA_WIDTH THEN NewRow(longer) ELSE longer

-----------------------------------------------------------------------------
(* SYS_WRITE of one character, which is putchar without interruption.  A   *)
(* longer text is as many steps with none of the shell between them.       *)

\* terminal_init.
Init ==
  /\ cursor_x = 0 /\ cursor_y = 0 /\ video = [k \in Cells |-> Blank]
  /\ at = "idle" /\ c = Newline /\ reg = 0 /\ i = 0
  /\ paper = Fresh /\ overlapped = FALSE

\* Mutant: a screen that is full is not scrolled.
scrolled_not(x, y, v) == cursor_x' = x /\ cursor_y' = y /\ video' = v

\* scroll with cursor x, y and cells v.
scrolled(x, y, v) ==
  /\ cursor_x' = x
  /\ cursor_y' = IF y < VGA_HEIGHT THEN y ELSE VGA_HEIGHT - 1
  /\ video' = IF y < VGA_HEIGHT THEN v
              ELSE [k \in Cells |-> IF k < LastRow THEN v[k + VGA_WIDTH] ELSE Blank]

putchar(char) ==
  LET position == cursor_y * VGA_WIDTH + cursor_x IN
  CASE char = Newline -> scrolled(0, cursor_y + 1, video)
    [] char = Backspace ->
         IF cursor_x > 0
         THEN /\ cursor_x' = cursor_x - 1
              /\ video' = Stored(video, position - 1, Blank)
              /\ UNCHANGED cursor_y
         ELSE UNCHANGED screen
    [] OTHER ->
         IF cursor_x + 1 >= VGA_WIDTH
         THEN scrolled(0, cursor_y + 1, Stored(video, position, char))
         ELSE scrolled(cursor_x + 1, cursor_y, Stored(video, position, char))

\* cursor_x++ and cursor_y++ have their value in eax when they are preempted.
syscall_write ==
  /\ at \notin {"store_x", "store_y", "lost"}
  /\ \E char \in Characters :
       /\ putchar(char)
       /\ IF at = "idle" /\ ~overlapped
          THEN paper' = Written(paper, char) /\ UNCHANGED overlapped
          ELSE paper' = Fresh /\ overlapped' = TRUE
  /\ UNCHANGED shell

\* Any interrupt, with or without a switch, while the shell has a value in a
\* register that the return path loses.
RegisterLost ==
  /\ at \notin {"idle", "lost"} /\ at' = "lost"
  /\ paper' = Fresh /\ overlapped' = TRUE
  /\ UNCHANGED <<screen, c, reg, i>>

Lost == at = "lost" /\ UNCHANGED vars

-----------------------------------------------------------------------------
(* The shell's calls.                                                      *)

Goto(label) == at' = label
Return == at' = "idle" /\ c' = Newline /\ reg' = 0 /\ i' = 0

\* The shell calls putchar or print: the tests of the character.
Begin ==
  /\ at = "idle"
  /\ \E char \in Characters :
       /\ c' = char
       /\ Goto(CASE char = Newline -> "zero_x" [] char = Backspace -> "backspace"
                 [] OTHER -> "load_row")
       /\ paper' = IF overlapped THEN Fresh ELSE Written(paper, char)
  /\ UNCHANGED <<screen, reg, i, overlapped>>

\* cursor_x = 0, after '\n' or at the end of a row.
ZeroX ==
  /\ at = "zero_x" /\ Goto("load_y")
  /\ cursor_x' = 0
  /\ UNCHANGED <<cursor_y, video, c, reg, i, ghosts>>

\* cursor_y++.
LoadY ==
  /\ at = "load_y" /\ Goto("store_y")
  /\ reg' = cursor_y
  /\ UNCHANGED <<screen, c, i, ghosts>>

StoreY ==
  /\ at = "store_y" /\ Goto("scroll")
  /\ cursor_y' = reg + 1 /\ reg' = 0
  /\ UNCHANGED <<cursor_x, video, c, i, ghosts>>

\* position = cursor_y * VGA_WIDTH + cursor_x.
LoadRow ==
  /\ at = "load_row" /\ Goto("load_column")
  /\ reg' = cursor_y
  /\ UNCHANGED <<screen, c, i, ghosts>>

LoadColumn ==
  /\ at = "load_column" /\ Goto("glyph")
  /\ reg' = reg * VGA_WIDTH + cursor_x
  /\ UNCHANGED <<screen, c, i, ghosts>>

\* video[position] = the character, or a blank at the end of backspace.
Glyph ==
  /\ at = "glyph"
  /\ video' = Stored(video, reg, IF c = Backspace THEN Blank ELSE c)
  /\ IF c = Backspace THEN Return ELSE Goto("load_x") /\ reg' = 0 /\ UNCHANGED <<c, i>>
  /\ UNCHANGED <<cursor_x, cursor_y, ghosts>>

\* cursor_x++, and cursor_x-- in backspace.
LoadX ==
  /\ at = "load_x" /\ Goto("store_x")
  /\ reg' = cursor_x
  /\ UNCHANGED <<screen, c, i, ghosts>>

StoreX ==
  /\ at = "store_x"
  /\ cursor_x' = IF c = Backspace THEN reg - 1 ELSE reg + 1
  /\ reg' = 0
  /\ Goto(IF c = Backspace THEN "load_row" ELSE "wrap")
  /\ UNCHANGED <<cursor_y, video, c, i, ghosts>>

\* The test for the end of the row.
Wrap ==
  /\ at = "wrap"
  /\ Goto(IF cursor_x >= VGA_WIDTH THEN "zero_x" ELSE "scroll")
  /\ UNCHANGED <<screen, c, reg, i, ghosts>>

\* Mutant: at the start of a row backspace goes on to the one before.
AtRowStartNever == FALSE

AtRowStart == ~(cursor_x > 0)

\* backspace: the test for the start of the row.
BackspaceTest ==
  /\ at = "backspace"
  /\ IF AtRowStart THEN Return ELSE Goto("load_x") /\ UNCHANGED <<c, reg, i>>
  /\ UNCHANGED <<screen, ghosts>>

\* scroll: its test, the loop over the rows, the loop over the last one.
Scroll ==
  /\ at = "scroll"
  /\ IF cursor_y < VGA_HEIGHT THEN Return
     ELSE IF VGA_HEIGHT > 1
     THEN Goto("copy_load") /\ i' = VGA_WIDTH /\ UNCHANGED <<c, reg>>
     ELSE Goto("blank") /\ i' = 0 /\ UNCHANGED <<c, reg>>
  /\ UNCHANGED <<screen, ghosts>>

CopyLoad ==
  /\ at = "copy_load" /\ Goto("copy_store")
  /\ reg' = video[i]
  /\ UNCHANGED <<screen, c, i, ghosts>>

CopyStore ==
  /\ at = "copy_store"
  /\ video' = [video EXCEPT ![i - VGA_WIDTH] = reg]
  /\ reg' = 0
  /\ IF i + 1 \in Cells THEN Goto("copy_load") /\ i' = i + 1
     ELSE Goto("blank") /\ i' = LastRow
  /\ UNCHANGED <<cursor_x, cursor_y, c, ghosts>>

BlankRow ==
  /\ at = "blank"
  /\ video' = [video EXCEPT ![i] = Blank]
  /\ IF i + 1 \in Cells THEN i' = i + 1 /\ UNCHANGED at
     ELSE Goto("last_row") /\ i' = 0
  /\ UNCHANGED <<cursor_x, cursor_y, c, reg, ghosts>>

\* cursor_y = VGA_HEIGHT - 1.
ScrollEnd ==
  /\ at = "last_row" /\ Return
  /\ cursor_y' = VGA_HEIGHT - 1
  /\ UNCHANGED <<cursor_x, video, ghosts>>

\* clear: the cells, the column, the row.
Clear ==
  /\ at = "idle" /\ Goto("clear")
  /\ paper' = Fresh /\ overlapped' = FALSE
  /\ UNCHANGED <<screen, c, reg, i>>

ClearCell ==
  /\ at = "clear"
  /\ video' = [video EXCEPT ![i] = Blank]
  /\ IF i + 1 \in Cells THEN i' = i + 1 /\ UNCHANGED at
     ELSE Goto("clear_x") /\ i' = 0
  /\ UNCHANGED <<cursor_x, cursor_y, c, reg, ghosts>>

ClearX ==
  /\ at = "clear_x" /\ Goto("clear_y")
  /\ cursor_x' = 0
  /\ UNCHANGED <<cursor_y, video, c, reg, i, ghosts>>

ClearY ==
  /\ at = "clear_y" /\ Return
  /\ cursor_y' = 0
  /\ UNCHANGED <<cursor_x, video, ghosts>>

Next ==
  \/ syscall_write \/ RegisterLost \/ Lost
  \/ Begin \/ ZeroX \/ LoadY \/ StoreY \/ LoadRow \/ LoadColumn \/ Glyph
  \/ LoadX \/ StoreX \/ Wrap \/ BackspaceTest
  \/ Scroll \/ CopyLoad \/ CopyStore \/ BlankRow \/ ScrollEnd
  \/ Clear \/ ClearCell \/ ClearX \/ ClearY

Spec == Init /\ [][Next]_vars

-----------------------------------------------------------------------------
(* Properties.                                                             *)

\* Wherever SYS_WRITE falls inside a call of the shell without costing it a
\* register, the cursor stays near the screen: SYS_WRITE and the shell store to
\* video one cell before the screen or one row below it at worst, in display
\* memory but for that one cell, and between the shell's calls the cursor is on
\* a row of the screen and at most one column before it.  A series of tests that
\* have gone stale does not move it farther (terminal.c:50-68, 84-99, 112-146,
\* syscall.c:20-21).  With a register lost it may be anywhere.
CursorBounded == at # "lost" =>
  /\ cursor_x \in -1 .. VGA_WIDTH /\ cursor_y \in 0 .. VGA_HEIGHT
  /\ cursor_y * VGA_WIDTH + cursor_x \in -1 .. (VGA_HEIGHT + 1) * VGA_WIDTH - 1
  /\ at = "glyph" => reg \in -1 .. VGA_WIDTH * VGA_HEIGHT - 1
  /\ at = "idle" => cursor_x < VGA_WIDTH /\ cursor_y < VGA_HEIGHT

\* As long as no SYS_WRITE has fallen inside a call of the shell and no register
\* was lost there, and again after the next clear, the screen shows exactly the
\* last rows of what both have written: wrapping, scrolling and backspace of the
\* interruptible and of the uninterrupted putchar fit together (terminal.c:50-146).
ShowsOutput ==
  at = "idle" /\ ~overlapped =>
    /\ cursor_y = Len(paper) - 1 /\ cursor_x = Len(paper[Len(paper)])
    /\ \A y \in 0 .. VGA_HEIGHT - 1, x \in 0 .. VGA_WIDTH - 1 :
         video[y * VGA_WIDTH + x] =
           IF y < Len(paper) /\ x < Len(paper[y + 1]) THEN paper[y + 1][x + 1] ELSE Blank
=============================================================================
