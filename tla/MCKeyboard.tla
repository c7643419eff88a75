----------------------------- MODULE MCKeyboard -----------------------------
(* Keyboard with a ring of 3 (2 characters fit), one letter, one bracket   *)
(* and a command line of 3 bytes.                                          *)
EXTENDS Keyboard

MCUpper == [k \in {"a"} |-> "A"]
MCShifted == [k \in {"["} |-> "{"]
=============================================================================
