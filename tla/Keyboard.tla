------------------------------ MODULE Keyboard ------------------------------
(***************************************************************************)
(* The path of a key press: the keyboard interrupt (drivers/keyboard.c)    *)
(* puts characters in a ring buffer, the shell's loop (shell/shell.c)      *)
(* takes them out with keyboard_getchar and halts the CPU when there are   *)
(* none.  The interrupt handler is one step; the shell can be interrupted  *)
(* between any two of its own.                                             *)
(***************************************************************************)
EXTENDS Integers, Sequences

CONSTANTS
  BufferSize,         \* KEYBOARD_BUFFER_SIZE
  CommandBufferSize,  \* COMMAND_BUFFER_SIZE
  Letters, Digits,    \* keys, each a one-character string
  Brackets,           \* keys with a character in shifted_table only
  Upper, Shifted      \* the characters of letters in upper case and of
                      \* shifted_table, [key -> character]

ASSUME SizesAssumption ==
  /\ BufferSize \in Nat /\ BufferSize >= 2
  /\ CommandBufferSize \in Nat \ {0}

VARIABLES
  keyboard_buffer, buffer_head, buffer_tail,
  left_shift, right_shift, caps_lock,
  pc,               \* where the shell's loop is
  c,                \* what keyboard_getchar has read
  command_buffer,   \* the first command_length characters of the line
  got               \* ghost: the last character keyboard_getchar returned

driver == <<keyboard_buffer, buffer_head, buffer_tail, left_shift,
            right_shift, caps_lock>>
modifiers == <<left_shift, right_shift, caps_lock>>
vars == <<driver, pc, c, command_buffer, got>>

None == ""
Newline == "newline"
Backspace == "backspace"
PlainKeys == Letters \cup Digits \cup {Newline, Backspace}
Characters == PlainKeys \cup {Upper[k] : k \in Letters} \cup {Shifted[k] : k \in Digits \cup Brackets}

\* A scancode: the key and whether bit 7, the release, is set.  "f1" stands
\* for the keys without a character.
Scancodes ==
  [key : PlainKeys \cup Brackets \cup {"lshift", "rshift", "caps", "f1"}, release : BOOLEAN]

\* Reads of static storage that was never written give 0.
Init ==
  /\ keyboard_buffer = [i \in 0 .. BufferSize - 1 |-> None]
  /\ buffer_head = 0 /\ buffer_tail = 0
  /\ left_shift = FALSE /\ right_shift = FALSE /\ caps_lock = FALSE
  /\ pc = "poll" /\ c = None /\ command_buffer = <<>> /\ got = None

\* Mutant: an index does not wrap around.
FollowingUnwrapped(i) == i + 1

Following(i) == (i + 1) % BufferSize

-----------------------------------------------------------------------------
(* The interrupt.                                                          *)

\* scancode_to_ascii of a pressed key: caps lock inverts shift on letters
\* only; a shifted key without an entry in shifted_table is itself.
scancode_to_ascii(key) ==
  LET shift == left_shift \/ right_shift IN
  CASE key \in Letters -> IF shift # caps_lock THEN Upper[key] ELSE key
    [] key \in Digits -> IF shift THEN Shifted[key] ELSE key
    [] key \in Brackets -> IF shift THEN Shifted[key] ELSE None
    [] key \in {Newline, Backspace} -> key
    [] OTHER -> None

\* Mutant: the newest character is written although the buffer is full.
put_unchecked(char) ==
  /\ keyboard_buffer' = [keyboard_buffer EXCEPT ![buffer_head] = char]
  /\ buffer_head' = Following(buffer_head)

\* keyboard_buffer_put: a full buffer drops the character.
keyboard_buffer_put(char) ==
  IF Following(buffer_head) = buffer_tail
  THEN UNCHANGED <<keyboard_buffer, buffer_head>>
  ELSE /\ keyboard_buffer' = [keyboard_buffer EXCEPT ![buffer_head] = char]
       /\ buffer_head' = Following(buffer_head)

\* keyboard_irq for one scancode.
Handle(s) ==
  CASE s.key = "lshift" ->
         left_shift' = ~s.release
         /\ UNCHANGED <<keyboard_buffer, buffer_head, right_shift, caps_lock>>
    [] s.key = "rshift" ->
         right_shift' = ~s.release
         /\ UNCHANGED <<keyboard_buffer, buffer_head, left_shift, caps_lock>>
    [] s.key = "caps" ->
         caps_lock' = (caps_lock # ~s.release)
         /\ UNCHANGED <<keyboard_buffer, buffer_head, left_shift, right_shift>>
    [] OTHER ->
         /\ IF ~s.release /\ scancode_to_ascii(s.key) # None
            THEN keyboard_buffer_put(scancode_to_ascii(s.key))
            ELSE UNCHANGED <<keyboard_buffer, buffer_head>>
         /\ UNCHANGED modifiers

\* Any interrupt ends a hlt.
Woken == IF pc = "asleep" THEN "poll" ELSE pc

keyboard_irq ==
  /\ \E s \in Scancodes : Handle(s)
  /\ pc' = Woken
  /\ UNCHANGED <<buffer_tail, c, command_buffer, got>>

\* Mutant: the timer interrupt never comes.
TimerMasked == FALSE /\ UNCHANGED vars

TimerIrq ==
  /\ pc' = Woken
  /\ UNCHANGED <<driver, c, command_buffer, got>>

-----------------------------------------------------------------------------
(* keyboard_getchar and the loop of shell().                               *)

\* The test for an empty buffer.
Poll ==
  /\ pc = "poll"
  /\ pc' = IF buffer_head = buffer_tail THEN "hlt" ELSE "read"
  /\ UNCHANGED <<driver, c, command_buffer, got>>

Read ==
  /\ pc = "read" /\ pc' = "advance"
  /\ c' = keyboard_buffer[buffer_tail]
  /\ UNCHANGED <<driver, command_buffer, got>>

Advance ==
  /\ pc = "advance" /\ pc' = "act"
  /\ buffer_tail' = Following(buffer_tail)
  /\ got' = c
  /\ UNCHANGED <<keyboard_buffer, buffer_head, modifiers, c, command_buffer>>

\* The empty case: hlt, and sleep until an interrupt comes.
Hlt ==
  /\ pc = "hlt" /\ pc' = "asleep"
  /\ UNCHANGED <<driver, c, command_buffer, got>>

\* Mutant: the last byte, kept for the terminator, is used too.
FitsExactly == Len(command_buffer) < CommandBufferSize

Fits == Len(command_buffer) < CommandBufferSize - 1

\* What the loop does with the character; process_command runs the line.
Act ==
  /\ pc = "act" /\ pc' = "poll"
  /\ c' = None   \* the local variable is dead
  /\ command_buffer' =
       CASE c = Newline -> <<>>
         [] c = Backspace -> IF command_buffer = <<>> THEN <<>>
                             ELSE SubSeq(command_buffer, 1, Len(command_buffer) - 1)
         [] OTHER -> IF Fits THEN Append(command_buffer, c) ELSE command_buffer
  /\ UNCHANGED <<driver, got>>

ShellStep == Poll \/ Read \/ Advance \/ Hlt \/ Act

Next == keyboard_irq \/ TimerIrq \/ ShellStep

\* The shell's process is scheduled again and again (Scheduler!NoStarvation)
\* and the timer keeps firing; nobody need type.
Fairness == WF_vars(ShellStep) /\ WF_vars(TimerIrq)

Spec == Init /\ [][Next]_vars /\ Fairness

-----------------------------------------------------------------------------
(* Properties.                                                             *)

\* Types; both indices stay inside the ring (keyboard.c:5-8).
TypeOK ==
  /\ keyboard_buffer \in [0 .. BufferSize - 1 -> Characters \cup {None}]
  /\ buffer_head \in 0 .. BufferSize - 1 /\ buffer_tail \in 0 .. BufferSize - 1
  /\ {left_shift, right_shift, caps_lock} \subseteq BOOLEAN
  /\ pc \in {"poll", "read", "advance", "act", "hlt", "asleep"}
  /\ c \in Characters \cup {None} /\ got \in Characters \cup {None}

\* The line and its terminator stay inside command_buffer (shell.c:78-94).
LineFits == Len(command_buffer) + 1 =< CommandBufferSize

\* The characters between tail and head, oldest first.
Waiting ==
  [k \in 1 .. (buffer_head - buffer_tail + BufferSize) % BufferSize |->
     keyboard_buffer[(buffer_tail + k - 1) % BufferSize]]

\* However interrupts fall between the steps of keyboard_getchar, the ring is
\* a queue: nothing accepted is lost, repeated, reordered or overwritten while
\* it is being read (keyboard.c:118-138).
IQ == INSTANCE InputQueue WITH
        Capacity <- BufferSize - 1, queue <- Waiting, got <- got

IsQueue == IQ!Spec

\* A character that waits is taken, also when its interrupt came between the
\* shell's test for an empty buffer and its hlt (shell.c:73-79).
TypedIsRead == (buffer_head # buffer_tail) ~> (pc = "advance")
=============================================================================
