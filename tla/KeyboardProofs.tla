--------------------------- MODULE KeyboardProofs ---------------------------
(***************************************************************************)
(* The ring buffer of the keyboard driver implements InputQueue, and the   *)
(* shell's line fits its buffer, for every size of either.  The refinement *)
(* needs to know what an interrupt may not spoil between the steps of      *)
(* keyboard_getchar: once the ring has been found not empty it stays so,   *)
(* and the character that was read is the one that will be taken out.      *)
(***************************************************************************)
EXTENDS Keyboard, SequenceTheorems, TLAPS

-----------------------------------------------------------------------------
(* Arithmetic of the ring.                                                 *)

\* The remainder, as an operator of its own so that facts about it can be cited.
Rem(x, b) == x % b

\* The remainder of a number less than twice the size.
LEMMA RemOnce ==
  ASSUME NEW b \in Nat \ {0}, NEW x \in Nat, x < 2 * b
  PROVE  Rem(x, b) = IF x < b THEN x ELSE x - b
<1> DEFINE d == x \div b
           r == x % b
<1>1. d \in Int /\ r \in 0 .. b - 1 /\ x = b * d + r /\ d >= 0
  <2>1. d \in Int /\ r \in 0 .. b - 1 /\ x = b * d + r
    OBVIOUS
  <2>2. d >= 0
    OBVIOUS
  <2>3. QED
    BY <2>1, <2>2
<1> HIDE DEF d, r
<1>2. d \in {0, 1}
  <2> SUFFICES ASSUME d >= 2 PROVE FALSE
    BY <1>1
  <2>1. PICK k \in Nat : d = 2 + k
    <3>1. d - 2 \in Nat /\ d = 2 + (d - 2)
      BY <1>1
    <3>2. QED
      BY <3>1
  <2>2. b * d = 2 * b + b * k /\ b * k \in Nat
    BY <2>1
  <2>3. QED
    BY <1>1, <2>2
<1>3. CASE d = 0
  BY <1>1, <1>3 DEF r, Rem
<1>4. CASE d = 1
  BY <1>1, <1>4 DEF r, Rem
<1>5. QED
  BY <1>2, <1>3, <1>4

\* The same for the size of the ring.
Wrapped(x) == IF x < BufferSize THEN x ELSE x - BufferSize

LEMMA ModOnce == \A x \in 0 .. 2 * BufferSize - 1 : Rem(x, BufferSize) = Wrapped(x)
<1> DEFINE b == BufferSize
<1>1. b \in Nat \ {0}
  BY SizesAssumption
<1> HIDE DEF b
<1>2. ASSUME NEW x \in 0 .. 2 * b - 1 PROVE Rem(x, b) = IF x < b THEN x ELSE x - b
  <2>1. x \in Nat /\ x < 2 * b
    BY <1>1
  <2>2. QED
    BY <1>1, <2>1, RemOnce
<1>3. QED
  BY <1>2, Zenon DEF b, Wrapped

\* The number of characters between tail and head, and where the k-th one is.
Filled(h, t) == (h - t + BufferSize) % BufferSize
Slot(t, k) == (t + k - 1) % BufferSize

Cells == 0 .. BufferSize - 1

\* The indices without remainders.
LEMMA RingIndices ==
  /\ BufferSize \in Nat /\ BufferSize >= 2
  /\ \A i \in Cells : Following(i) = IF i = BufferSize - 1 THEN 0 ELSE i + 1
  /\ \A i \in Cells : Following(i) \in Cells
  /\ \A h, t \in Cells : Filled(h, t) = IF h >= t THEN h - t ELSE h - t + BufferSize
  /\ \A t \in Cells, k \in 1 .. BufferSize :
       Slot(t, k) = IF t + k =< BufferSize THEN t + k - 1 ELSE t + k - 1 - BufferSize
<1>1. BufferSize \in Nat \ {0} /\ BufferSize >= 2
  BY SizesAssumption
<1>2. ASSUME NEW i \in Cells
      PROVE  Following(i) = (IF i = BufferSize - 1 THEN 0 ELSE i + 1) /\ Following(i) \in Cells
  <2>1. i + 1 \in 0 .. 2 * BufferSize - 1
    BY <1>1 DEF Cells
  <2>2. Rem(i + 1, BufferSize) = Wrapped(i + 1)
    BY <2>1, ModOnce, Zenon
  <2>3. Following(i) = Rem(i + 1, BufferSize)
    BY Zenon DEF Following, Rem
  <2>4. QED
    BY <1>1, <2>2, <2>3 DEF Cells, Wrapped
<1>3. ASSUME NEW h \in Cells, NEW t \in Cells
      PROVE  Filled(h, t) = IF h >= t THEN h - t ELSE h - t + BufferSize
  <2>1. h - t + BufferSize \in 0 .. 2 * BufferSize - 1
    BY <1>1 DEF Cells
  <2>2. Rem(h - t + BufferSize, BufferSize) = Wrapped(h - t + BufferSize)
    BY <2>1, ModOnce, Zenon
  <2>3. Filled(h, t) = Rem(h - t + BufferSize, BufferSize)
    BY Zenon DEF Filled, Rem
  <2>4. QED
    BY <1>1, <2>2, <2>3 DEF Cells, Wrapped
<1>4. ASSUME NEW t \in Cells, NEW k \in 1 .. BufferSize
      PROVE  Slot(t, k) = IF t + k =< BufferSize THEN t + k - 1 ELSE t + k - 1 - BufferSize
  <2>1. t + k - 1 \in 0 .. 2 * BufferSize - 1
    BY <1>1 DEF Cells
  <2>2. Rem(t + k - 1, BufferSize) = Wrapped(t + k - 1)
    BY <2>1, ModOnce, Zenon
  <2>3. Slot(t, k) = Rem(t + k - 1, BufferSize)
    BY Zenon DEF Slot, Rem
  <2>4. QED
    BY <1>1, <2>2, <2>3 DEF Cells, Wrapped
<1>5. QED
  BY <1>1, <1>2, <1>3, <1>4

\* The ring before and after a character is put (keyboard.c:129-138).
LEMMA RingPut ==
  ASSUME NEW h \in Cells, NEW t \in Cells, Following(h) # t
  PROVE  /\ Filled(h, t) \in 0 .. BufferSize - 2 /\ Following(h) \in Cells
         /\ Filled(Following(h), t) = Filled(h, t) + 1
         /\ Slot(t, Filled(h, t) + 1) = h
         /\ \A k \in 1 .. Filled(h, t) : Slot(t, k) \in Cells /\ Slot(t, k) # h
<1>1. Following(h) \in Cells /\ Following(h) = (IF h = BufferSize - 1 THEN 0 ELSE h + 1)
  BY RingIndices
<1>2. Filled(h, t) = IF h >= t THEN h - t ELSE h - t + BufferSize
  BY RingIndices
<1>3. Filled(Following(h), t)
        = IF Following(h) >= t THEN Following(h) - t ELSE Following(h) - t + BufferSize
  BY <1>1, RingIndices
<1>4. Filled(h, t) \in 0 .. BufferSize - 2 /\ Filled(Following(h), t) = Filled(h, t) + 1
  BY <1>1, <1>2, <1>3, SizesAssumption DEF Cells
<1>5. Slot(t, Filled(h, t) + 1) = h
  <2>1. Filled(h, t) + 1 \in 1 .. BufferSize
    BY <1>4, SizesAssumption
  <2>2. Slot(t, Filled(h, t) + 1)
          = IF t + (Filled(h, t) + 1) =< BufferSize THEN t + (Filled(h, t) + 1) - 1
            ELSE t + (Filled(h, t) + 1) - 1 - BufferSize
    BY <2>1, RingIndices
  <2>3. QED
    BY <1>2, <2>2, SizesAssumption DEF Cells
<1>6. ASSUME NEW k \in 1 .. Filled(h, t) PROVE Slot(t, k) \in Cells /\ Slot(t, k) # h
  <2>1. k \in 1 .. BufferSize
    BY <1>4, SizesAssumption
  <2>2. Slot(t, k) = IF t + k =< BufferSize THEN t + k - 1 ELSE t + k - 1 - BufferSize
    BY <2>1, RingIndices
  <2>3. QED
    BY <1>2, <1>4, <2>1, <2>2, SizesAssumption DEF Cells
<1>7. QED
  BY <1>1, <1>4, <1>5, <1>6

\* The ring before and after a character is taken (keyboard.c:118-127).
LEMMA RingTake ==
  ASSUME NEW h \in Cells, NEW t \in Cells, h # t
  PROVE  /\ Filled(h, t) \in 1 .. BufferSize - 1 /\ Following(t) \in Cells
         /\ Filled(h, Following(t)) = Filled(h, t) - 1
         /\ Slot(t, 1) = t
         /\ \A k \in 1 .. Filled(h, t) - 1 : Slot(Following(t), k) = Slot(t, k + 1)
<1>1. Following(t) \in Cells /\ Following(t) = (IF t = BufferSize - 1 THEN 0 ELSE t + 1)
  BY RingIndices
<1>2. Filled(h, t) = IF h >= t THEN h - t ELSE h - t + BufferSize
  BY RingIndices
<1>3. Filled(h, Following(t))
        = IF h >= Following(t) THEN h - Following(t) ELSE h - Following(t) + BufferSize
  BY <1>1, RingIndices
<1>4. Filled(h, t) \in 1 .. BufferSize - 1 /\ Filled(h, Following(t)) = Filled(h, t) - 1
  BY <1>1, <1>2, <1>3, SizesAssumption DEF Cells
<1>5. Slot(t, 1) = t
  <2>1. Slot(t, 1) = IF t + 1 =< BufferSize THEN t + 1 - 1 ELSE t + 1 - 1 - BufferSize
    BY RingIndices
  <2>2. QED
    BY <2>1, SizesAssumption DEF Cells
<1>6. ASSUME NEW k \in 1 .. Filled(h, t) - 1 PROVE Slot(Following(t), k) = Slot(t, k + 1)
  <2>1. k \in 1 .. BufferSize /\ k + 1 \in 1 .. BufferSize
    BY <1>4, SizesAssumption
  <2>2. Slot(t, k + 1) = IF t + (k + 1) =< BufferSize THEN t + (k + 1) - 1
                         ELSE t + (k + 1) - 1 - BufferSize
    BY <2>1, RingIndices
  <2>3. Slot(Following(t), k) = IF Following(t) + k =< BufferSize THEN Following(t) + k - 1
                                ELSE Following(t) + k - 1 - BufferSize
    BY <1>1, <2>1, RingIndices
  <2>4. QED
    BY <1>1, <2>1, <2>2, <2>3, SizesAssumption DEF Cells
<1>7. QED
  BY <1>1, <1>4, <1>5, <1>6

-----------------------------------------------------------------------------
(* The ring as a sequence.                                                 *)

\* What a slot of the ring or of the line may hold.
Text == Characters \cup {None}
Rings == [Cells -> Text]

\* The characters of a ring kb between t and h, oldest first.
Queue(kb, h, t) == [k \in 1 .. Filled(h, t) |-> kb[Slot(t, k)]]

\* The characters of a ring form a sequence.
LEMMA QueueType ==
  ASSUME NEW kb \in Rings, NEW h \in Cells, NEW t \in Cells
  PROVE  /\ Filled(h, t) \in 0 .. BufferSize - 1
         /\ \A k \in 1 .. Filled(h, t) : Slot(t, k) \in Cells
         /\ Queue(kb, h, t) \in Seq(Text) /\ Len(Queue(kb, h, t)) = Filled(h, t)
<1>1. Filled(h, t) = IF h >= t THEN h - t ELSE h - t + BufferSize
  BY RingIndices
<1>2. Filled(h, t) \in 0 .. BufferSize - 1
  BY <1>1, SizesAssumption DEF Cells
<1>3. ASSUME NEW k \in 1 .. Filled(h, t) PROVE Slot(t, k) \in Cells
  <2>1. k \in 1 .. BufferSize
    BY <1>2, SizesAssumption
  <2>2. Slot(t, k) = IF t + k =< BufferSize THEN t + k - 1 ELSE t + k - 1 - BufferSize
    BY <2>1, RingIndices
  <2>3. QED
    BY <2>1, <2>2, SizesAssumption DEF Cells
<1> DEFINE n == Filled(h, t)
<1>4. n \in Nat
  BY <1>2, SizesAssumption
<1>5. \A k \in 1 .. n : kb[Slot(t, k)] \in Text
  BY <1>3 DEF Rings
<1> HIDE DEF n
<1>6. Queue(kb, h, t) \in Seq(Text) /\ Len(Queue(kb, h, t)) = n
  BY <1>4, <1>5 DEF Queue, n
<1>7. QED
  BY <1>2, <1>3, <1>6 DEF n

\* keyboard_buffer_put of a ring that is not full appends (keyboard.c:129-138).
LEMMA QueuePut ==
  ASSUME NEW kb \in Rings, NEW char \in Text,
         NEW h \in Cells, NEW t \in Cells, Following(h) # t
  PROVE  /\ Len(Queue(kb, h, t)) < BufferSize - 1
         /\ Queue([kb EXCEPT ![h] = char], Following(h), t) = Append(Queue(kb, h, t), char)
<1> DEFINE new == [kb EXCEPT ![h] = char]
           q == Queue(kb, h, t)
           p == Queue(new, Following(h), t)
           n == Filled(h, t)
<1>1. new \in Rings /\ new[h] = char /\ \A i \in Cells : i # h => new[i] = kb[i]
  BY DEF Rings
<1>2. /\ n \in 0 .. BufferSize - 2 /\ Following(h) \in Cells
      /\ Filled(Following(h), t) = n + 1 /\ Slot(t, n + 1) = h
      /\ \A k \in 1 .. n : Slot(t, k) \in Cells /\ Slot(t, k) # h
  BY RingPut
<1>3. q \in Seq(Text) /\ Len(q) = n /\ q = [k \in 1 .. n |-> kb[Slot(t, k)]]
  BY QueueType DEF Queue
<1>4. p \in Seq(Text) /\ Len(p) = n + 1 /\ p = [k \in 1 .. n + 1 |-> new[Slot(t, k)]]
  <2>1. p \in Seq(Text) /\ Len(p) = Filled(Following(h), t)
    <3> HIDE DEF new
    <3>1. new \in Rings /\ Following(h) \in Cells
      BY <1>1, <1>2
    <3>2. QED
      BY <3>1, QueueType, Zenon
  <2>2. QED
    BY <1>2, <2>1 DEF Queue
<1> HIDE DEF new, p, q, n
<1>5. n \in Nat /\ n < BufferSize - 1
  BY <1>2, SizesAssumption
<1>6. ASSUME NEW k \in 1 .. n PROVE p[k] = q[k]
  BY <1>1, <1>2, <1>3, <1>4, <1>5
<1>7. p[n + 1] = char
  BY <1>1, <1>2, <1>4, <1>5
<1>8. p = Append(q, char)
  <2>1. Append(q, char) \in Seq(Text) /\ Len(Append(q, char)) = n + 1
    BY <1>3, <1>5
  <2>2. ASSUME NEW k \in 1 .. n + 1 PROVE p[k] = Append(q, char)[k]
    BY <1>3, <1>5, <1>6, <1>7
  <2>3. QED
    BY <1>4, <2>1, <2>2, SeqEqual
<1>9. QED
  BY <1>3, <1>5, <1>8 DEF p, q, n, new

\* Moving the tail of a ring that is not empty takes its oldest character out
\* (keyboard.c:118-127).
LEMMA QueueTake ==
  ASSUME NEW kb \in Rings, NEW h \in Cells, NEW t \in Cells, h # t
  PROVE  /\ Queue(kb, h, t) # <<>>
         /\ Head(Queue(kb, h, t)) = kb[t]
         /\ Tail(Queue(kb, h, t)) = Queue(kb, h, Following(t))
<1> DEFINE q == Queue(kb, h, t)
           p == Queue(kb, h, Following(t))
           n == Filled(h, t)
<1>1. /\ n \in 1 .. BufferSize - 1 /\ Following(t) \in Cells
      /\ Filled(h, Following(t)) = n - 1 /\ Slot(t, 1) = t
      /\ \A k \in 1 .. n - 1 : Slot(Following(t), k) = Slot(t, k + 1)
  BY RingTake
<1>2. q \in Seq(Text) /\ Len(q) = n /\ q = [k \in 1 .. n |-> kb[Slot(t, k)]]
  BY QueueType DEF Queue
<1>3. p \in Seq(Text) /\ Len(p) = n - 1 /\ p = [k \in 1 .. n - 1 |-> kb[Slot(Following(t), k)]]
  <2>1. p \in Seq(Text) /\ Len(p) = Filled(h, Following(t))
    BY <1>1, QueueType
  <2>2. QED
    BY <1>1, <2>1 DEF Queue
<1> HIDE DEF p, q, n
<1>4. n \in Nat /\ n >= 1
  BY <1>1, SizesAssumption
<1>5. q # <<>> /\ Head(q) = kb[t]
  BY <1>1, <1>2, <1>4
<1>6. Tail(q) = p
  <2>1. Tail(q) \in Seq(Text) /\ Len(Tail(q)) = n - 1
    BY <1>2, <1>4, <1>5
  <2>2. ASSUME NEW k \in 1 .. n - 1 PROVE Tail(q)[k] = p[k]
    <3>1. Tail(q)[k] = q[k + 1]
      BY <1>2, <1>4, <1>5
    <3>2. q[k + 1] = kb[Slot(t, k + 1)] /\ p[k] = kb[Slot(Following(t), k)]
      BY <1>2, <1>3, <1>4
    <3>3. QED
      BY <1>1, <3>1, <3>2
  <2>3. QED
    BY <1>3, <2>1, <2>2, SeqEqual
<1>7. QED
  BY <1>5, <1>6 DEF p, q

-----------------------------------------------------------------------------
(* The inductive invariant.                                                *)

\* What holds between the steps of keyboard_getchar: the ring that was found
\* not empty stays so, and the slot that was read is not overwritten, however
\* many interrupts come before the tail is moved (keyboard.c:118-127).
Reading ==
  /\ pc \in {"read", "advance"} => buffer_head # buffer_tail
  /\ pc = "advance" => c = keyboard_buffer[buffer_tail]

Inv == TypeOK /\ command_buffer \in Seq(Text) /\ LineFits /\ Reading

\* What one interrupt does to the ring: nothing, or one character of the
\* keyboard put in a ring with room for it (keyboard.c:129-180).
Puts(char) ==
  /\ Following(buffer_head) # buffer_tail
  /\ keyboard_buffer' = [keyboard_buffer EXCEPT ![buffer_head] = char]
  /\ buffer_head' = Following(buffer_head)

\* A scancode changes the modifiers or the ring, the latter only by a
\* character that fits (keyboard.c:140-180).
LEMMA HandleEffect ==
  ASSUME TypeOK, NEW s \in Scancodes, Handle(s)
  PROVE  /\ {left_shift, right_shift, caps_lock}' \subseteq BOOLEAN
         /\ UNCHANGED <<keyboard_buffer, buffer_head>> \/ \E char \in Characters : Puts(char)
<1>1. s.release \in BOOLEAN /\ {left_shift, right_shift, caps_lock} \subseteq BOOLEAN
  BY DEF TypeOK, Scancodes
<1>2. CASE s.key = "lshift"
  BY <1>1, <1>2 DEF Handle
<1>3. CASE s.key = "rshift"
  BY <1>1, <1>3 DEF Handle
<1>4. CASE s.key = "caps"
  BY <1>1, <1>4 DEF Handle
<1>5. CASE s.key \notin {"lshift", "rshift", "caps"}
  <2> DEFINE char == scancode_to_ascii(s.key)
  <2>1. char \in Characters \cup {None}
    BY DEF scancode_to_ascii, Characters, PlainKeys
  <2> HIDE DEF char
  <2>2. /\ IF ~s.release /\ char # None THEN keyboard_buffer_put(char)
           ELSE UNCHANGED <<keyboard_buffer, buffer_head>>
        /\ UNCHANGED modifiers
    BY <1>5 DEF Handle, char
  <2>3. keyboard_buffer_put(char) => UNCHANGED <<keyboard_buffer, buffer_head>> \/ Puts(char)
    BY DEF keyboard_buffer_put, Puts
  <2>4. QED
    BY <1>1, <2>1, <2>2, <2>3 DEF modifiers
<1>6. QED
  BY <1>2, <1>3, <1>4, <1>5

\* The driver and the shell start with nothing typed.
LEMMA InitInv == Init => Inv
BY SizesAssumption DEF Init, Inv, TypeOK, LineFits, Reading, Text

\* The keyboard interrupt, wherever it comes (keyboard.c:129-180).
LEMMA IrqInv == ASSUME Inv, keyboard_irq PROVE Inv'
<1>1. PICK s \in Scancodes : Handle(s)
  BY DEF keyboard_irq
<1>2. pc' = Woken /\ UNCHANGED <<buffer_tail, c, command_buffer, got>>
  BY DEF keyboard_irq
<1>3. /\ {left_shift, right_shift, caps_lock}' \subseteq BOOLEAN
      /\ UNCHANGED <<keyboard_buffer, buffer_head>> \/ \E char \in Characters : Puts(char)
  BY <1>1, HandleEffect DEF Inv
<1>4. CASE UNCHANGED <<keyboard_buffer, buffer_head>>
  BY <1>2, <1>3, <1>4 DEF Inv, TypeOK, LineFits, Reading, Woken
<1>5. CASE \E char \in Characters : Puts(char)
  <2>1. PICK char \in Characters : Puts(char)
    BY <1>5
  <2>2. Following(buffer_head) \in Cells
    BY RingIndices DEF Inv, TypeOK, Cells
  <2>3. TypeOK'
    BY <1>2, <1>3, <2>1, <2>2 DEF Inv, TypeOK, Cells, Puts, Woken
  <2>4. Reading'
    BY <1>2, <2>1 DEF Inv, TypeOK, Reading, Puts, Woken
  <2>5. QED
    BY <1>2, <2>3, <2>4 DEF Inv, LineFits
<1>6. QED
  BY <1>3, <1>4, <1>5

\* The line the shell collects (shell.c:72-98).
LEMMA ActInv == ASSUME Inv, Act PROVE Inv'
<1>1. /\ pc = "act" /\ pc' = "poll" /\ c' = None
      /\ UNCHANGED <<driver, got>>
  BY DEF Act
<1>2. TypeOK' /\ Reading'
  BY <1>1 DEF Inv, TypeOK, Reading, driver
<1>3. command_buffer \in Seq(Text) /\ Len(command_buffer) + 1 =< CommandBufferSize /\ c \in Text
  BY DEF Inv, TypeOK, LineFits, Text
<1>4. \/ command_buffer' = <<>>
      \/ command_buffer # <<>> /\ command_buffer' = SubSeq(command_buffer, 1, Len(command_buffer) - 1)
      \/ Fits /\ command_buffer' = Append(command_buffer, c)
      \/ command_buffer' = command_buffer
  BY DEF Act
<1>5. command_buffer' \in Seq(Text) /\ Len(command_buffer') + 1 =< CommandBufferSize
  <2>1. CASE command_buffer' = <<>>
    BY <2>1, SizesAssumption
  <2>2. CASE /\ command_buffer # <<>>
             /\ command_buffer' = SubSeq(command_buffer, 1, Len(command_buffer) - 1)
    BY <1>3, <2>2, SizesAssumption
  <2>3. CASE Fits /\ command_buffer' = Append(command_buffer, c)
    BY <1>3, <2>3, SizesAssumption DEF Fits
  <2>4. CASE command_buffer' = command_buffer
    BY <1>3, <2>4
  <2>5. QED
    BY <1>4, <2>1, <2>2, <2>3, <2>4
<1>6. QED
  BY <1>2, <1>5 DEF Inv, LineFits

\* Every step keeps the invariant.
LEMMA NextInv == Inv /\ [Next]_vars => Inv'
<1> SUFFICES ASSUME Inv, [Next]_vars PROVE Inv'
  OBVIOUS
<1>1. CASE keyboard_irq
  BY <1>1, IrqInv
<1>2. CASE TimerIrq
  BY <1>2 DEF Inv, TypeOK, LineFits, Reading, TimerIrq, Woken, driver
<1>3. CASE Poll
  BY <1>3 DEF Inv, TypeOK, LineFits, Reading, Poll, driver
<1>4. CASE Read
  BY <1>4 DEF Inv, TypeOK, LineFits, Reading, Read, driver
<1>5. CASE Advance
  <2>1. Following(buffer_tail) \in Cells
    BY RingIndices DEF Inv, TypeOK, Cells
  <2>2. QED
    BY <1>5, <2>1 DEF Inv, TypeOK, LineFits, Reading, Advance, modifiers, Cells
<1>6. CASE Hlt
  BY <1>6 DEF Inv, TypeOK, LineFits, Reading, Hlt, driver
<1>7. CASE Act
  BY <1>7, ActInv
<1>8. CASE UNCHANGED vars
  BY <1>8 DEF Inv, TypeOK, LineFits, Reading, vars, driver
<1>9. QED
  BY <1>1, <1>2, <1>3, <1>4, <1>5, <1>6, <1>7, <1>8 DEF Next, ShellStep

\* The invariant holds throughout.
LEMMA Invariance == Spec => []Inv
<1>1. QED
  BY InitInv, NextInv, PTL DEF Spec

\* Both indices of the ring stay inside it, whatever is typed and however the
\* interrupts fall (keyboard.c:5-8).
THEOREM TypeCorrect == Spec => []TypeOK
<1>1. Inv => TypeOK
  BY DEF Inv
<1>2. QED
  BY <1>1, Invariance, PTL

\* The shell's line and its terminator never leave command_buffer, for every
\* size of it (shell.c:72-98).
THEOREM LineNeverOverflows == Spec => []LineFits
<1>1. Inv => LineFits
  BY DEF Inv
<1>2. QED
  BY <1>1, Invariance, PTL

-----------------------------------------------------------------------------
(* The refinement.                                                         *)

\* The queue of the mapping is the ring read as a sequence.
LEMMA WaitingIsQueue ==
  /\ Waiting = Queue(keyboard_buffer, buffer_head, buffer_tail)
  /\ Waiting' = Queue(keyboard_buffer', buffer_head', buffer_tail')
BY Zenon DEF Waiting, Queue, Filled, Slot

\* The empty ring is the empty queue.
LEMMA InitQueue == Init => IQ!Init
<1> SUFFICES ASSUME Init PROVE IQ!Init
  OBVIOUS
<1>1. Filled(0, 0) = 0
  BY RingIndices DEF Cells
<1>2. Waiting = <<>>
  BY <1>1, WaitingIsQueue DEF Init, Queue
<1>3. QED
  BY <1>2, Zenon DEF Init, IQ!Init, None

\* A step of the driver or the shell puts, takes, or leaves the queue alone.
LEMMA NextQueue == Inv /\ [Next]_vars => [IQ!Next]_IQ!vars
<1> SUFFICES ASSUME Inv, [Next]_vars PROVE [IQ!Next]_IQ!vars
  OBVIOUS
<1>1. /\ keyboard_buffer \in Rings
      /\ buffer_head \in Cells /\ buffer_tail \in Cells
  BY DEF Inv, TypeOK, Cells, Rings, Text
<1>2. ASSUME UNCHANGED <<keyboard_buffer, buffer_head, buffer_tail, got>>
      PROVE  UNCHANGED IQ!vars
  BY <1>2, WaitingIsQueue DEF IQ!vars
<1>3. CASE keyboard_irq
  <2>1. PICK s \in Scancodes : Handle(s)
    BY <1>3 DEF keyboard_irq
  <2>2. UNCHANGED <<buffer_tail, got>>
    BY <1>3 DEF keyboard_irq
  <2>3. UNCHANGED <<keyboard_buffer, buffer_head>> \/ \E char \in Characters : Puts(char)
    BY <2>1, HandleEffect DEF Inv
  <2>4. CASE UNCHANGED <<keyboard_buffer, buffer_head>>
    BY <1>2, <2>2, <2>4
  <2>5. CASE \E char \in Characters : Puts(char)
    <3>1. PICK char \in Characters : Puts(char)
      BY <2>5
    <3>2. char \in Text
      BY DEF Text
    <3>3. /\ Len(Queue(keyboard_buffer, buffer_head, buffer_tail)) < BufferSize - 1
          /\ Queue([keyboard_buffer EXCEPT ![buffer_head] = char], Following(buffer_head), buffer_tail)
               = Append(Queue(keyboard_buffer, buffer_head, buffer_tail), char)
      BY <1>1, <3>1, <3>2, QueuePut DEF Puts
    <3>4. Len(Waiting) < BufferSize - 1 /\ Waiting' = Append(Waiting, char)
      BY <2>2, <3>1, <3>3, WaitingIsQueue DEF Puts
    <3>5. QED
      BY <2>2, <3>4 DEF IQ!Next, IQ!Put
  <2>6. QED
    BY <2>3, <2>4, <2>5
<1>4. CASE Advance
  <2>1. /\ buffer_head # buffer_tail /\ c = keyboard_buffer[buffer_tail]
        /\ buffer_tail' = Following(buffer_tail) /\ got' = c
        /\ UNCHANGED <<keyboard_buffer, buffer_head>>
    BY <1>4 DEF Inv, Reading, Advance
  <2>2. /\ Waiting # <<>> /\ Head(Waiting) = keyboard_buffer[buffer_tail]
        /\ Tail(Waiting) = Queue(keyboard_buffer, buffer_head, Following(buffer_tail))
    BY <1>1, <2>1, QueueTake, WaitingIsQueue
  <2>3. Waiting' = Tail(Waiting)
    BY <2>1, <2>2, WaitingIsQueue
  <2>4. QED
    BY <2>1, <2>2, <2>3 DEF IQ!Next, IQ!Take
<1>5. CASE TimerIrq \/ Poll \/ Read \/ Hlt \/ Act \/ UNCHANGED vars
  <2>1. UNCHANGED <<keyboard_buffer, buffer_head, buffer_tail, got>>
    BY <1>5 DEF TimerIrq, Poll, Read, Hlt, Act, vars, driver
  <2>2. QED
    BY <1>2, <2>1
<1>6. QED
  BY <1>3, <1>4, <1>5 DEF Next, ShellStep

\* For every size of the ring, and however interrupts fall between the steps
\* of keyboard_getchar, what is typed comes out once, in order and unchanged,
\* or is dropped whole when BufferSize - 1 characters wait (keyboard.c:118-138).
THEOREM RingIsQueue == Spec => IsQueue
<1>1. QED
  BY Invariance, InitQueue, NextQueue, PTL DEF Spec, IsQueue, IQ!Spec
=============================================================================
