---------------------------- MODULE PageAllocator ----------------------------
(***************************************************************************)
(* What the rest of the kernel may rely on from the page allocator: after  *)
(* it has come up, a page is either available or held by the caller it was *)
(* handed to, allocate_page answers null only when nothing is available,   *)
(* and a page comes back only when its holder frees it.  Which page is     *)
(* handed out, and how the pages are kept, is left open.                   *)
(***************************************************************************)
EXTENDS Naturals

CONSTANT AllPages   \* page numbers; 0 stands for null and is never a page

VARIABLES up, avail, held
vars == <<up, avail, held>>

Init == up = FALSE /\ avail = {} /\ held = {}

Boot ==
  /\ ~up /\ up' = TRUE
  /\ avail' \in SUBSET (AllPages \ {0})
  /\ UNCHANGED held

Allocate ==
  /\ up
  /\ \E p \in avail : avail' = avail \ {p} /\ held' = held \cup {p}
  /\ UNCHANGED up

Free ==
  /\ \E p \in held : avail' = avail \cup {p} /\ held' = held \ {p}
  /\ UNCHANGED up

Next == Boot \/ Allocate \/ Free

Spec == Init /\ [][Next]_vars
==============================================================================
