----------------------------- MODULE InputQueue -----------------------------
(***************************************************************************)
(* What the keyboard driver promises its reader: the characters it accepts *)
(* come out once each, in the order they were typed; a character that does *)
(* not fit in Capacity is dropped whole and disturbs nothing.              *)
(***************************************************************************)
EXTENDS Naturals, Sequences

CONSTANTS Characters, Capacity

VARIABLES queue, got   \* the characters waiting, and the last one taken
vars == <<queue, got>>

Init == queue = <<>> /\ got = ""

Put ==
  /\ Len(queue) < Capacity
  /\ \E c \in Characters : queue' = Append(queue, c)
  /\ UNCHANGED got

Take ==
  /\ queue # <<>>
  /\ got' = Head(queue) /\ queue' = Tail(queue)

Next == Put \/ Take

Spec == Init /\ [][Next]_vars
=============================================================================
