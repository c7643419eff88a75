------------------------------- MODULE Process -------------------------------
(***************************************************************************)
(* The process table of LevOS (process/process.c): its slots, the pages a  *)
(* process owns, the frame each process is resumed from, and the process   *)
(* that has the CPU.  The operations here are the ones process.c defines;  *)
(* Scheduler composes them with interrupt entry and return.                *)
(*                                                                         *)
(* Pages are page numbers; 0 is the null address.  A pointer to a          *)
(* struct cpu_context at the top of a stack (base + 4096 - 60) is written  *)
(* as that stack's base page; Deep is any place further down the stack in  *)
(* use.  A frame is known by the point of its program it was pushed at:    *)
(* which frame a process goes on from is the subject here, what idt.asm    *)
(* makes of the words in it is the subject of Isr.                         *)
(***************************************************************************)
EXTENDS Integers, FiniteSets

CONSTANTS
  MaxProcesses,   \* MAX_PROCESSES, process.c:7
  Pages,          \* the physical pages the page allocator hands out
  Machines,       \* which of them a machine may have, a set of subsets
  PageDirectory,  \* the page of the kernel's own page_directory
  BootStack,      \* bootstrap_stack, with bootstrap_context at its top
  Points,         \* the points of a program at which it can be interrupted
  Entry,          \* the one a fresh frame starts it at
  PidLimit        \* bound on next_pid; with 2^32 the guard is "has not wrapped"

ASSUME MaxProcessesAssumption == MaxProcesses \in Nat /\ MaxProcesses >= 2
ASSUME PagesAssumption ==
  /\ Pages \subseteq Nat \ {0}
  /\ {PageDirectory, BootStack} \subseteq (Nat \ {0}) \ Pages
  /\ PageDirectory # BootStack
  /\ Machines \subseteq SUBSET Pages
ASSUME PointsAssumption == Entry \in Points
ASSUME PidLimitAssumption == PidLimit \in Nat /\ PidLimit >= 1

VARIABLES
  proc,       \* processes[]
  running,    \* the slot running points to
  next_pid,
  free,       \* the pages the allocator has not handed out
  frame,      \* what lies in the top frame of each kernel stack
  cpu,        \* the program on the CPU, where it is and in which ring
  cr3,        \* the page directory in use
  esp0,       \* the stack the TSS names for entries from ring 3
  scheduler_next_directory,
  halted,     \* the exception path of isr_common_handler was taken
  progress,   \* ghost: the point each process has come to
  waited      \* ghost: dispatches of others since a process last had the CPU

table == <<proc, next_pid, free>>
machine == <<cpu, cr3, esp0, scheduler_next_directory>>
ghosts == <<progress, waited>>
vars == <<proc, running, next_pid, free, frame, cpu, cr3, esp0,
          scheduler_next_directory, halted, progress, waited>>

Slots == 0 .. MaxProcesses - 1
Null == 0
Deep == -1
Nobody == -1
Stacks == Pages \cup {BootStack}
PagesOrNull == Pages \cup {Null}

\* struct cpu_context: whose frame, pushed at which point, and the ring cs names.
Context == [pid : Nat \cup {Nobody}, point : Points, ring : {0, 3}]
Blank == [pid |-> Nobody, point |-> Entry, ring |-> 0]

\* struct process.  entry and argument are left out: both are opaque.
Process ==
  [pid : Nat, state : {"UNUSED", "READY", "RUNNING", "ZOMBIE"},
   directory : PagesOrNull \cup {PageDirectory}, stack_base : PagesOrNull,
   context : Stacks \cup {Null}, bootstrap : BOOLEAN, user : BOOLEAN,
   user_code_base : PagesOrNull, user_stack_base : PagesOrNull]

Unused ==
  [pid |-> 0, state |-> "UNUSED", directory |-> Null, stack_base |-> Null,
   context |-> Null, bootstrap |-> FALSE, user |-> FALSE,
   user_code_base |-> Null, user_stack_base |-> Null]

-----------------------------------------------------------------------------
(* process_system_init, as scheduler_init leaves the system.               *)

Bootstrap ==
  [pid |-> 0, state |-> "RUNNING", directory |-> PageDirectory,
   stack_base |-> Null, context |-> BootStack, bootstrap |-> TRUE,
   user |-> FALSE, user_code_base |-> Null, user_stack_base |-> Null]

\* Mutant: the bootstrap process is given a stack page it does not have.
StackTopOfAny(p) == p.stack_base

process_kernel_stack_top(p) == IF p.bootstrap THEN BootStack ELSE p.stack_base

process_system_init ==
  /\ proc = [i \in Slots |-> IF i = 0 THEN Bootstrap ELSE Unused]
  /\ running = 0
  /\ next_pid = 1
  /\ frame = [s \in Stacks |-> Blank]
  /\ esp0 = process_kernel_stack_top(Bootstrap)

-----------------------------------------------------------------------------
(* The accessors the scheduler uses.                                       *)

\* Mutant: an exited process still counts.
RunnableOrZombie(procs) == {i \in Slots : procs[i].state # "UNUSED"}

Runnable(procs) == {i \in Slots : procs[i].state \in {"READY", "RUNNING"}}

process_count(procs) == Cardinality(Runnable(procs))

\* How many steps of the scan (current_index + step) % MAX_PROCESSES lead
\* from slot i to slot j; a slot is MaxProcesses steps away from itself.
Distance(i, j) == IF j > i THEN j - i ELSE j - i + MaxProcesses

\* Mutant: the scan has no order.
ScanAnyOther(procs, next) ==
  next \in Runnable(procs) \ (IF process_count(procs) > 1 THEN {running} ELSE {})

\* process_next_round_robin picks next: the first runnable slot after the
\* current one, in cyclic order; the current one when nothing is runnable.
process_next_round_robin(procs, next) ==
  IF Runnable(procs) = {} THEN next = running
  ELSE /\ next \in Runnable(procs)
       /\ \A j \in Runnable(procs) :
            Distance(running, next) =< Distance(running, j)

\* ... and marks it, without touching the state of the one it replaces.
Dispatched(procs, next) ==
  IF next \in Runnable(procs)
  THEN [procs EXCEPT ![next].state = "RUNNING"]
  ELSE procs

\* Mutant: only the bootstrap process's context is copied.
SaveBootstrapOnly(p, frames, at, context) ==
  IF p.bootstrap THEN [frames EXCEPT ![BootStack] = context] ELSE frames

\* process_save_context of process p: the context found at pointer at is
\* copied to the frame p is resumed from, unless it already lies there.
process_save_context(p, frames, at, context) ==
  IF p.bootstrap THEN [frames EXCEPT ![BootStack] = context]
  ELSE IF p.context = at THEN frames
  ELSE [frames EXCEPT ![p.context] = context]

-----------------------------------------------------------------------------
(* process_create and process_create_user.  Ring 0 code calls them with    *)
(* interrupts off (kernel_main runs user_test_create before                *)
(* enable_interrupts), so each is one step.                                *)

InKernel == ~halted /\ cpu.ring = 0 /\ proc[running].state = "RUNNING"

Reusable(i) == proc[i].state \in {"UNUSED", "ZOMBIE"}

\* The slot the loop over processes[1..] stops at.
FirstReusable ==
  {i \in Slots \ {0} :
     Reusable(i) /\ \A j \in Slots \ {0} : Reusable(j) => i =< j}

\* Mutant: the bitmap is not consulted.
LowestPage(f) == {p \in Pages : \A q \in Pages : p =< q}

\* What allocate_page can answer when the pages f are free: the lowest one,
\* or null (see Pmm).
allocate_page(f) ==
  IF f = {} THEN {Null} ELSE {p \in f : \A q \in f : p =< q}

\* Every field of the slot, and the frame at the top of the new stack.
FillSlot(i, directory, stack, code, ustack, is_user) ==
  /\ proc' = [proc EXCEPT ![i] =
       [pid |-> next_pid, state |-> "READY", directory |-> directory,
        stack_base |-> stack, context |-> stack, bootstrap |-> FALSE,
        user |-> is_user, user_code_base |-> code,
        user_stack_base |-> ustack]]
  /\ next_pid' = next_pid + 1
  /\ frame' = [frame EXCEPT ![stack] =
       [pid |-> next_pid, point |-> Entry, ring |-> IF is_user THEN 3 ELSE 0]]
  /\ progress' = [progress EXCEPT ![i] = Entry]
  /\ waited' = [waited EXCEPT ![i] = 0]

CreateFails == UNCHANGED <<proc, next_pid, frame, progress, waited>>

NoSlot == \A i \in Slots \ {0} : ~Reusable(i)

\* The bound on pids.
PidAvailable == next_pid < PidLimit

process_create ==
  /\ InKernel /\ PidAvailable
  /\ \/ NoSlot /\ CreateFails /\ UNCHANGED free
     \/ \E i \in FirstReusable :
        \E stack \in allocate_page(free) :
        \E directory \in allocate_page(free \ {stack}) :
          IF Null \in {stack, directory}
          THEN /\ CreateFails
               /\ free' = (free \ {stack, directory}) \cup ({stack} \ {Null})
          ELSE /\ FillSlot(i, directory, stack, Null, Null, FALSE)
               /\ free' = free \ {stack, directory}
  /\ UNCHANGED <<running, machine, halted>>

\* Mutant: the error path gives back the first page only.
ReleasedFirstOnly(pages, stack, code, ustack) ==
  pages \cup ({stack} \ {Null})

\* The error path of process_create_user: the three free_page calls.  The
\* directory is the last page allocated, so it is null there.
Released(pages, stack, code, ustack) ==
  pages \cup ({stack, code, ustack} \ {Null})

\* Both map_page_in calls find the identity table of 4..8 MB present, so
\* they allocate nothing; AddressSpace models what they write.
process_create_user ==
  /\ InKernel /\ PidAvailable
  /\ \/ NoSlot /\ CreateFails /\ UNCHANGED free
     \/ \E i \in FirstReusable :
        \E stack \in allocate_page(free) :
        \E code \in allocate_page(free \ {stack}) :
        \E ustack \in allocate_page(free \ {stack, code}) :
        \E directory \in allocate_page(free \ {stack, code, ustack}) :
          LET rest == free \ {stack, code, ustack, directory} IN
          IF Null \in {stack, code, ustack, directory}
          THEN CreateFails /\ free' = Released(rest, stack, code, ustack)
          ELSE /\ FillSlot(i, directory, stack, code, ustack, TRUE)
               /\ free' = rest
  /\ UNCHANGED <<running, machine, halted>>

-----------------------------------------------------------------------------
\* process_exit and process_terminate_current up to the interrupt: the
\* bootstrap process is never marked.
ExitMarked(procs, i) ==
  IF procs[i].bootstrap THEN procs ELSE [procs EXCEPT ![i].state = "ZOMBIE"]

\* process_by_pid: the slots its scan can return for this pid.
process_by_pid(pid) ==
  {i \in Slots : proc[i].state # "UNUSED" /\ proc[i].pid = pid}
==============================================================================
