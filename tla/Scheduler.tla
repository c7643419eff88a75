------------------------------ MODULE Scheduler ------------------------------
(***************************************************************************)
(* Preemption in LevOS: the interrupt entry and return of cpu/idt.asm, the *)
(* handler of cpu/interrupts.c, system calls (syscall.c) and schedule()    *)
(* of process/scheduler.c over the process table of Process.               *)
(*                                                                         *)
(* Every gate of the IDT is an interrupt gate, so a handler runs from      *)
(* entry to iretd with interrupts off: one action each.  Between actions   *)
(* the CPU runs a program.                                                 *)
(***************************************************************************)
EXTENDS Process

\* The tick counters (ticks, quantum_ticks) are left out: nothing that is
\* modelled reads them.

Init ==
  /\ process_system_init
  /\ free \in Machines
  /\ cpu = [pid |-> 0, point |-> Entry, ring |-> 0]
  /\ cr3 = PageDirectory
  /\ scheduler_next_directory = Null
  /\ halted = FALSE
  /\ progress = [i \in Slots |-> Entry]
  /\ waited = [i \in Slots |-> 0]

-----------------------------------------------------------------------------
(* Entry and return.  From ring 3 the CPU switches to the stack in the TSS *)
(* and the frame built there is its top frame; in ring 0 the frame goes on *)
(* the stack in use, and is gone again when the handler returns to it.     *)

ContextAddress == IF cpu.ring = 3 THEN esp0 ELSE Deep

Pushed(context) ==
  IF cpu.ring = 3 THEN [frame EXCEPT ![esp0] = context] ELSE frame

\* Mutant: the return path does not look at scheduler_next_directory.
iretdKeepDirectory(directory, context) ==
  /\ scheduler_next_directory' = directory
  /\ cr3' = cr3
  /\ cpu' = context

\* The tail of isr_common: load the published directory, go on from a frame.
iretd(directory, context) ==
  /\ scheduler_next_directory' = directory
  /\ cr3' = IF directory = Null THEN cr3 ELSE directory
  /\ cpu' = context

\* The counts of the processes that are passed over when next is dispatched.
Passed(procs, next) ==
  [i \in Slots |-> IF i \in Runnable(procs) \ {next} THEN waited[i] + 1 ELSE 0]

\* Mutant: only the number of runnable processes is tested.
KeepByCount(procs) == process_count(procs) < 2

\* Mutant: the number of runnable processes is not tested.
KeepUnlessZombie(procs) == procs[running].state # "ZOMBIE"

\* The early return of schedule().
KeepRunning(procs) ==
  /\ process_count(procs) < 2
  /\ procs[running].state # "ZOMBIE"

\* schedule(context) with the process table, the frames and the context as
\* the handler finds them.
schedule(procs, frames, at, context) ==
  \/ /\ KeepRunning(procs)
     /\ iretd(Null, context)
     /\ proc' = procs /\ frame' = frames
     /\ UNCHANGED <<running, esp0, waited>>
  \/ /\ ~KeepRunning(procs)
     /\ \E next \in Slots :
          /\ process_next_round_robin(procs, next)
          /\ running' = next
          /\ proc' = Dispatched(procs, next)
          /\ esp0' = process_kernel_stack_top(procs[next])
          /\ frame' = process_save_context(procs[running], frames, at, context)
          /\ IF procs[next].context \in {Null, at}
             THEN iretd(Null, context)
             ELSE iretd(procs[next].directory, frame'[procs[next].context])
          /\ waited' = Passed(procs, next)

-----------------------------------------------------------------------------
(* The programs.                                                           *)

\* The running program computes.
Execute ==
  /\ ~halted
  /\ \E p \in Points :
       /\ cpu' = [cpu EXCEPT !.point = p]
       /\ progress' = [progress EXCEPT ![running] = p]
  /\ UNCHANGED <<table, running, frame, cr3, esp0, scheduler_next_directory,
                 halted, waited>>

\* A kernel process calls process_exit (or process_terminate_current): it is
\* marked, and goes on until the next interrupt 0x20, its own or the timer's.
KernelExit ==
  /\ InKernel
  /\ proc' = ExitMarked(proc, running)
  /\ UNCHANGED <<running, next_pid, free, frame, machine, halted, ghosts>>

-----------------------------------------------------------------------------
(* isr_common_handler, one action per branch.                              *)

\* Vector 0x20, the timer or the int $0x20 of process_exit.
TimerTick ==
  /\ ~halted
  /\ schedule(proc, Pushed(cpu), ContextAddress, cpu)
  /\ UNCHANGED <<next_pid, free, halted, progress>>

\* Vector 0x21 (keyboard_irq touches nothing that is modelled here), the
\* other PIC vectors and the vectors without a handler.
OtherInterrupt ==
  /\ ~halted
  /\ iretd(Null, cpu)
  /\ frame' = Pushed(cpu)
  /\ UNCHANGED <<table, running, esp0, halted, ghosts>>

\* Vectors below 32: the whole system stops.
Exception ==
  /\ ~halted
  /\ halted' = TRUE
  /\ scheduler_next_directory' = Null
  /\ frame' = Pushed(cpu)
  /\ UNCHANGED <<table, running, cpu, cr3, esp0, ghosts>>

HaltLoop == halted /\ UNCHANGED vars

\* int $0x80, from ring 3: SYS_WRITE, SYS_GETPID and unknown numbers put a
\* result in the eax of the frame and return to the caller.
SyscallReturns ==
  /\ ~halted /\ cpu.ring = 3
  /\ \E p \in Points :
       LET context == [cpu EXCEPT !.point = p] IN
       /\ iretd(Null, context)
       /\ frame' = Pushed(context)
       /\ progress' = [progress EXCEPT ![running] = p]
  /\ UNCHANGED <<table, running, esp0, halted, waited>>

\* SYS_YIELD: eax is 0 and the caller gives up the CPU.
SyscallYield ==
  /\ ~halted /\ cpu.ring = 3
  /\ \E p \in Points :
       LET context == [cpu EXCEPT !.point = p] IN
       /\ schedule(proc, Pushed(context), esp0, context)
       /\ progress' = [progress EXCEPT ![running] = p]
  /\ UNCHANGED <<next_pid, free, halted>>

\* SYS_EXIT: process_exit marks the caller and raises int $0x20 inside the
\* handler, so the nested context is the kernel's, deeper on the same stack.
SyscallExit ==
  /\ ~halted /\ cpu.ring = 3
  /\ \E p \in Points :
       schedule(ExitMarked(proc, running), Pushed(cpu), Deep,
                [cpu EXCEPT !.point = p, !.ring = 0])
  /\ UNCHANGED <<next_pid, free, halted, progress>>

Next ==
  \/ process_create
  \/ process_create_user
  \/ Execute
  \/ KernelExit
  \/ TimerTick
  \/ OtherInterrupt
  \/ Exception
  \/ HaltLoop
  \/ SyscallReturns
  \/ SyscallYield
  \/ SyscallExit

\* The PIT fires again and again once enable_interrupts has run, and neither
\* ring 3 code nor a process started by process_create runs with interrupts
\* off for good.
Fairness == WF_vars(TimerTick)

Spec == Init /\ [][Next]_vars /\ Fairness

-----------------------------------------------------------------------------
(* Properties.                                                             *)

\* Types; next_pid never passes its bound.
TypeOK ==
  /\ proc \in [Slots -> Process]
  /\ running \in Slots
  /\ next_pid \in 1 .. PidLimit
  /\ free \subseteq Pages
  /\ frame \in [Stacks -> Context]
  /\ cpu \in Context
  /\ cr3 \in Pages \cup {PageDirectory}
  /\ esp0 \in Stacks
  /\ scheduler_next_directory \in PagesOrNull \cup {PageDirectory}
  /\ halted \in BOOLEAN
  /\ progress \in [Slots -> Points]
  /\ waited \in [Slots -> Nat]

\* The frame process i must go on from.
Expected(i) ==
  [pid |-> proc[i].pid, point |-> progress[i],
   ring |-> IF proc[i].user THEN 3 ELSE 0]

\* Whenever a program runs, the page directory, the kernel stack in the TSS
\* and the process the kernel believes current are that program's own, and
\* process_by_pid on its pid finds that slot only (process.c:192, 211-230,
\* idt.asm:18-22).
DispatchCoherent ==
  /\ cr3 = proc[running].directory
  /\ esp0 = process_kernel_stack_top(proc[running])
  /\ process_by_pid(cpu.pid) = {running}

\* No interleaving of interrupts, yields, exits and slot reuse gives a process
\* another's frame, or a frame of its own that it has gone past: the program on
\* the CPU is the running process where it had come to, and the context of every
\* other runnable process is the frame of its last interruption, or its first
\* one (process.c:232-248, scheduler.c:18-35).  What of its registers a program
\* gets back out of that frame is another matter (Isr).
LastFrameResumed ==
  /\ cpu = Expected(running)
  /\ \A i \in Runnable(proc) \ {running} :
       proc[i].context # Null /\ frame[proc[i].context] = Expected(i)

\* The pages slot i holds.
Owned(i) ==
  {proc[i].directory, proc[i].stack_base, proc[i].user_code_base,
   proc[i].user_stack_base} \ {Null}

\* No page of a process is free or belongs to another slot, and its kernel
\* stack is neither its directory nor a page it can write from ring 3: an exit
\* or an error path never gives away a page still in use (process.c:60-163).
OwnershipExclusive ==
  \A i \in Slots :
    /\ Owned(i) \cap free = {}
    /\ \A j \in Slots \ {i} : Owned(i) \cap Owned(j) = {}
    /\ proc[i].stack_base # Null =>
         /\ proc[i].stack_base # proc[i].directory
         /\ proc[i].stack_base \notin {proc[i].user_code_base,
                                       proc[i].user_stack_base}
    /\ proc[i].user => proc[i].directory \notin {proc[i].user_code_base,
                                                 proc[i].user_stack_base}

\* Between two turns of a runnable process there are fewer turns of others than
\* there are slots (process.c:211-230).
BoundedWait == \A i \in Runnable(proc) : waited[i] < MaxProcesses

\* A process that has exited and lost the CPU never gets it back; only a new
\* process in its slot does (process.c:165-179).
ZombieStaysOff ==
  [][\A i \in Slots :
       proc[i].state = "ZOMBIE" /\ running # i => running' # i]_vars

\* Pages leave the allocator only with a process that owns them: a creation
\* that fails half way gives back what it took (process.c:72-76, 123-132).
FailedCreateReturnsPages == [][next_pid' = next_pid => free' = free]_vars

\* Every runnable process gets the CPU again, unless it exits or an exception
\* stops the system.
NoStarvation ==
  \A i \in Slots :
    (i \in Runnable(proc)) ~> (running = i \/ i \notin Runnable(proc) \/ halted)

\* A process that has marked itself a zombie is switched away from, also when
\* the bootstrap process is the only one left (scheduler.c:21-23).
ExitedLeavesCpu ==
  (proc[running].state = "ZOMBIE") ~> (proc[running].state # "ZOMBIE" \/ halted)
==============================================================================
