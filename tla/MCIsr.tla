------------------------------- MODULE MCIsr -------------------------------
(* Isr with the stack layout of the default build (gcc -m32, no -O): the   *)
(* return address of entry() is word 12.  The depths of a kernel process   *)
(* are the edges of the copy: 0, where it hits the handler's return        *)
(* address; 1 and 2, above and at its destination; 3, 7, 12 and 14, where  *)
(* it is torn; 15 and 17, where it overlaps harmlessly and not at all.     *)
EXTENDS Isr
============================================================================
