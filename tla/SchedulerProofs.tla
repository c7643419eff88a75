--------------------------- MODULE SchedulerProofs ---------------------------
(***************************************************************************)
(* Scheduler's safety properties for every number of slots, set of pages   *)
(* and set of points of interruption.                                      *)
(*                                                                         *)
(* The inductive invariant adds to the properties what the process table   *)
(* looks like (a used slot owns a stack, a directory and, for a user       *)
(* process, two more pages, and is resumed from the top of its own stack), *)
(* that pids are handed out once, and how far round the table the          *)
(* scheduler is from each waiting process.                                 *)
(***************************************************************************)
EXTENDS Scheduler, TLAPS

\* A slot that process_create or process_create_user filled, with a pid below
\* limit.
Filled(p, limit) ==
  /\ ~p.bootstrap
  /\ p.pid \in 1 .. limit - 1
  /\ p.directory \in Pages
  /\ p.stack_base \in Pages
  /\ p.context = p.stack_base
  /\ IF p.user THEN p.user_code_base \in Pages /\ p.user_stack_base \in Pages
     ELSE p.user_code_base = Null /\ p.user_stack_base = Null

TableShape ==
  /\ proc[0] = Bootstrap
  /\ \A i \in Slots \ {0} :
       IF proc[i].state = "UNUSED" THEN proc[i] = Unused ELSE Filled(proc[i], next_pid)
  /\ proc[running].state \in {"RUNNING", "ZOMBIE"}

PidsDistinct ==
  \A i, j \in Slots :
    proc[i].state # "UNUSED" /\ proc[j].state # "UNUSED" /\ i # j
      => proc[i].pid # proc[j].pid

MachineOfRunning ==
  /\ cr3 = proc[running].directory
  /\ esp0 = process_kernel_stack_top(proc[running])

WaitBounded ==
  \A i \in Runnable(proc) : waited[i] + Distance(running, i) =< MaxProcesses

Inv ==
  /\ TypeOK
  /\ TableShape
  /\ PidsDistinct
  /\ MachineOfRunning
  /\ LastFrameResumed
  /\ OwnershipExclusive
  /\ WaitBounded

-----------------------------------------------------------------------------
\* What allocate_page answers is null or one of the free pages.
LEMMA AllocatedIsFree ==
  ASSUME NEW f, NEW p \in allocate_page(f)
  PROVE  p = Null \/ p \in f
BY DEF allocate_page

\* It answers null only when nothing is free, and then goes on doing so.
LEMMA AllocatedIsNull ==
  ASSUME NEW f, NEW p \in allocate_page(f), p = Null, Null \notin f, NEW g \in SUBSET f,
         NEW q \in allocate_page(g)
  PROVE  q = Null
BY DEF allocate_page

\* The scan distance is at least 1 and at most a whole round, and going on
\* from a slot that is not further away than j shortens the way to j.
LEMMA DistanceFacts ==
  ASSUME NEW r \in Slots, NEW n \in Slots, NEW j \in Slots
  PROVE  /\ Distance(r, n) \in 1 .. MaxProcesses
         /\ Distance(r, r) = MaxProcesses
         /\ Distance(r, n) =< Distance(r, j) /\ n # j =>
              Distance(n, j) + Distance(r, n) = Distance(r, j)
         /\ Distance(r, n) = Distance(r, j) => n = j
BY MaxProcessesAssumption DEF Slots, Distance

LEMMA InitInv == Init => Inv
<1> SUFFICES ASSUME Init PROVE Inv
  OBVIOUS
<1> USE MaxProcessesAssumption, PagesAssumption, PointsAssumption, PidLimitAssumption
    DEF Init, process_system_init, Slots, Stacks, Null
<1>0. 0 \in Slots
  OBVIOUS
<1>1. TypeOK
  <2>1. Unused \in Process /\ Bootstrap \in Process
    BY DEF Process, Unused, Bootstrap, PagesOrNull
  <2>2. proc \in [Slots -> Process]
    BY <2>1
  <2>3. Blank \in Context /\ cpu \in Context
    BY DEF Context, Blank
  <2>4. esp0 \in Stacks
    BY DEF process_kernel_stack_top, Bootstrap, Unused
  <2>5. halted \in BOOLEAN
    OBVIOUS
  <2>6. frame \in [Stacks -> Context]
    BY <2>3
  <2>7. /\ progress \in [Slots -> Points] /\ waited \in [Slots -> Nat]
        /\ next_pid \in 1 .. PidLimit /\ running \in Slots
        /\ cr3 \in Pages \cup {PageDirectory} /\ free \subseteq Pages
        /\ scheduler_next_directory \in PagesOrNull \cup {PageDirectory}
    BY <1>0 DEF PagesOrNull
  <2> QED
    BY <2>2, <2>3, <2>4, <2>5, <2>6, <2>7 DEF TypeOK
<1>2. TableShape
  BY <1>0 DEF TableShape, Unused, Bootstrap
<1>3. PidsDistinct
  BY <1>0 DEF PidsDistinct, Unused, Bootstrap
<1>4. MachineOfRunning
  BY <1>0 DEF MachineOfRunning, Bootstrap, Unused, process_kernel_stack_top
<1>5. LastFrameResumed
  BY <1>0 DEF LastFrameResumed, Expected, Runnable, Bootstrap, Unused
<1>6. OwnershipExclusive
  BY <1>0 DEF OwnershipExclusive, Owned, Bootstrap, Unused
<1>7. WaitBounded
  BY <1>0 DEF WaitBounded, Runnable, Distance, Bootstrap, Unused
<1> QED
  BY <1>1, <1>2, <1>3, <1>4, <1>5, <1>6, <1>7 DEF Inv

-----------------------------------------------------------------------------
\* A creation that gets its pages keeps the invariant: the slot is not the
\* running one, its pages were free and are distinct, its pid is new.
LEMMA FillSlotInv ==
  ASSUME Inv, InKernel, PidAvailable,
         NEW i \in FirstReusable, NEW d \in free, NEW s \in free \ {d},
         NEW code, NEW ustack, NEW is_user \in BOOLEAN,
         IF is_user
         THEN /\ code \in free \ {d, s} /\ ustack \in free \ {d, s}
         ELSE code = Null /\ ustack = Null,
         FillSlot(i, d, s, code, ustack, is_user),
         free' = free \ {d, s, code, ustack},
         UNCHANGED <<running, machine, halted>>
  PROVE  Inv'
<1> DEFINE new == [pid |-> next_pid, state |-> "READY", directory |-> d,
                   stack_base |-> s, context |-> s, bootstrap |-> FALSE,
                   user |-> is_user, user_code_base |-> code,
                   user_stack_base |-> ustack]
           start == [pid |-> next_pid, point |-> Entry,
                     ring |-> IF is_user THEN 3 ELSE 0]
<1> USE MaxProcessesAssumption, PagesAssumption DEF Null
<1>1. /\ i \in Slots \ {0} /\ proc[i].state \in {"UNUSED", "ZOMBIE"} /\ i # running
      /\ 0 \in Slots /\ running \in Slots
  BY DEF FirstReusable, Reusable, InKernel, Inv, TypeOK, Slots
<1>2. /\ d \in Pages /\ s \in Pages /\ code \in PagesOrNull /\ ustack \in PagesOrNull
      /\ is_user => code \in Pages /\ ustack \in Pages
  BY DEF Inv, TypeOK, PagesOrNull
<1>3. /\ next_pid \in 1 .. PidLimit - 1 /\ next_pid' = next_pid + 1
      /\ next_pid' \in 1 .. PidLimit
  BY PidLimitAssumption DEF Inv, TypeOK, PidAvailable, FillSlot
<1>4. /\ proc' = [proc EXCEPT ![i] = new]
      /\ frame' = [frame EXCEPT ![s] = start]
      /\ progress' = [progress EXCEPT ![i] = Entry]
      /\ waited' = [waited EXCEPT ![i] = 0]
  BY DEF FillSlot
<1>5. /\ proc \in [Slots -> Process] /\ frame \in [Stacks -> Context]
      /\ progress \in [Slots -> Points] /\ waited \in [Slots -> Nat]
      /\ s \in Stacks
  BY <1>2 DEF Inv, TypeOK, Stacks
<1>6. /\ proc'[i] = new /\ \A j \in Slots \ {i} : proc'[j] = proc[j]
      /\ frame'[s] = start /\ \A t \in Stacks \ {s} : frame'[t] = frame[t]
      /\ progress'[i] = Entry /\ \A j \in Slots \ {i} : progress'[j] = progress[j]
      /\ waited'[i] = 0 /\ \A j \in Slots \ {i} : waited'[j] = waited[j]
  BY <1>1, <1>4, <1>5
<1>7. UNCHANGED <<running, cpu, cr3, esp0, scheduler_next_directory, halted>>
  BY DEF machine
<1> HIDE DEF new, start
<1>8. TypeOK'
  <2>1. new \in Process
    <3>1. next_pid \in Nat
      BY <1>3, PidLimitAssumption
    <3> QED
      BY <1>2, <3>1 DEF new, Process, Stacks, PagesOrNull
  <2>2. start \in Context
    BY <1>3, PointsAssumption DEF start, Context
  <2>3. /\ proc' \in [Slots -> Process] /\ frame' \in [Stacks -> Context]
        /\ progress' \in [Slots -> Points] /\ waited' \in [Slots -> Nat]
    BY <1>1, <1>4, <1>5, <2>1, <2>2, PointsAssumption
  <2>4. free' \subseteq Pages
    BY DEF Inv, TypeOK
  <2> QED
    BY <1>3, <1>7, <2>3, <2>4 DEF Inv, TypeOK
<1>9. TableShape'
  <2>1. Filled(new, next_pid')
    <3>1. next_pid \in 1 .. next_pid' - 1
      BY <1>3, PidLimitAssumption
    <3> QED
      BY <1>2, <3>1 DEF Filled, new
  <2>2. \A j \in Slots \ {0, i} : IF proc'[j].state = "UNUSED"
                                  THEN proc'[j] = Unused ELSE Filled(proc'[j], next_pid')
    <3> SUFFICES ASSUME NEW j \in Slots \ {0, i}
                 PROVE  IF proc'[j].state = "UNUSED"
                        THEN proc'[j] = Unused ELSE Filled(proc'[j], next_pid')
      OBVIOUS
    <3>1. proc'[j] = proc[j]
      BY <1>6
    <3> QED
      BY <1>3, <3>1, PidLimitAssumption DEF Inv, TableShape, Filled
  <2>3. proc'[i].state = "READY"
    BY <1>6 DEF new
  <2>4. proc'[0] = Bootstrap /\ proc'[running'].state \in {"RUNNING", "ZOMBIE"}
    BY <1>1, <1>6, <1>7 DEF Inv, TableShape
  <2> QED
    BY <1>1, <1>6, <2>1, <2>2, <2>3, <2>4 DEF TableShape
<1>10. PidsDistinct'
  <2>1. \A j \in Slots : proc[j].state # "UNUSED" => proc[j].pid < next_pid
    <3> SUFFICES ASSUME NEW j \in Slots, proc[j].state # "UNUSED"
                 PROVE  proc[j].pid < next_pid
      OBVIOUS
    <3>1. CASE j = 0
      BY <1>3, <3>1, PidLimitAssumption DEF Inv, TableShape, Bootstrap, Unused
    <3>2. CASE j # 0
      BY <1>3, <3>2, PidLimitAssumption DEF Inv, TableShape, Filled
    <3> QED
      BY <3>1, <3>2
  <2>2. proc'[i].pid = next_pid
    BY <1>6 DEF new
  <2>3. \A j \in Slots \ {i} : proc'[j].state # "UNUSED" => proc'[j].pid < next_pid
    BY <1>6, <2>1
  <2> QED
    BY <1>1, <1>3, <1>6, <2>2, <2>3 DEF Inv, PidsDistinct
<1>11. MachineOfRunning'
  BY <1>1, <1>6, <1>7 DEF Inv, MachineOfRunning, process_kernel_stack_top
<1>12. LastFrameResumed'
  <2>1. cpu' = Expected(running)'
    BY <1>1, <1>6, <1>7 DEF Inv, LastFrameResumed, Expected
  <2>2. ASSUME NEW j \in Runnable(proc') \ {running}, j # i
        PROVE  proc'[j].context # Null /\ frame'[proc'[j].context] = Expected(j)'
    <3>1. /\ j \in Slots /\ proc'[j] = proc[j] /\ progress'[j] = progress[j]
          /\ j \in Runnable(proc) \ {running}
      BY <1>6, <2>2 DEF Runnable
    <3>2. proc[j].context # Null /\ frame[proc[j].context] = Expected(j)
      BY <3>1 DEF Inv, LastFrameResumed
    <3>3. proc[j].context \in Stacks \ {s}
      <4>1. CASE j = 0
        BY <1>2, <4>1 DEF Inv, TableShape, Bootstrap, Unused, Stacks
      <4>2. CASE j # 0
        <5>1. proc[j].context = proc[j].stack_base /\ proc[j].stack_base \in Pages
          BY <3>1, <4>2 DEF Inv, TableShape, Filled, Runnable
        <5>2. proc[j].stack_base \in Owned(j)
          BY <5>1 DEF Owned
        <5> QED
          BY <3>1, <5>1, <5>2 DEF Inv, OwnershipExclusive, Stacks
      <4> QED
        BY <4>1, <4>2
    <3> QED
      BY <1>6, <3>1, <3>2, <3>3 DEF Expected
  <2>3. proc'[i].context # Null /\ frame'[proc'[i].context] = Expected(i)'
    BY <1>2, <1>6 DEF new, start, Expected
  <2> QED
    BY <1>7, <2>1, <2>2, <2>3 DEF LastFrameResumed
<1>13. OwnershipExclusive'
  <2>1. \A j \in Slots \ {i} : Owned(j)' = Owned(j)
    BY <1>6 DEF Owned
  <2>2. Owned(i)' = {d, s, code, ustack} \ {Null}
    BY <1>6 DEF Owned, new
  <2>3. \A j \in Slots \ {i} : Owned(j)' \cap Owned(i)' = {}
    BY <2>1, <2>2 DEF Inv, OwnershipExclusive
  <2>4. \A j \in Slots : Owned(j)' \cap free' = {}
    BY <2>1, <2>2 DEF Inv, OwnershipExclusive
  <2>5. \A j, k \in Slots : j # k => Owned(j)' \cap Owned(k)' = {}
    BY <2>1, <2>3 DEF Inv, OwnershipExclusive
  <2>6. /\ proc'[i].stack_base # proc'[i].directory
        /\ proc'[i].stack_base \notin {proc'[i].user_code_base, proc'[i].user_stack_base}
        /\ proc'[i].user => proc'[i].directory \notin {proc'[i].user_code_base,
                                                       proc'[i].user_stack_base}
    BY <1>2, <1>6 DEF new
  <2> QED
    BY <1>6, <2>4, <2>5, <2>6 DEF Inv, OwnershipExclusive
<1>14. WaitBounded'
  <2> SUFFICES ASSUME NEW j \in Runnable(proc')
               PROVE  waited'[j] + Distance(running, j) =< MaxProcesses
    BY <1>7 DEF WaitBounded, Distance
  <2>1. CASE j = i
    BY <1>1, <1>6, <2>1, DistanceFacts
  <2>2. CASE j # i
    BY <1>6, <2>2 DEF Inv, WaitBounded, Runnable
  <2> QED
    BY <2>1, <2>2
<1> QED
  BY <1>8, <1>9, <1>10, <1>11, <1>12, <1>13, <1>14 DEF Inv

-----------------------------------------------------------------------------
(* schedule(), as the three handlers that call it find things.             *)

\* Two process records that differ at most in the state.
SameButState(p, q) ==
  /\ p.pid = q.pid /\ p.directory = q.directory
  /\ p.stack_base = q.stack_base /\ p.context = q.context
  /\ p.bootstrap = q.bootstrap /\ p.user = q.user
  /\ p.user_code_base = q.user_code_base
  /\ p.user_stack_base = q.user_stack_base

\* The table is the current one or has the running process marked; the frames
\* of the others are untouched; context is what the running process, unless
\* it has exited, must be resumed with, and lies on its own stack.
ScheduleReady(procs, frames, at, context) ==
  /\ \/ procs = proc
     \/ running # 0 /\ procs = [proc EXCEPT ![running].state = "ZOMBIE"]
  /\ frames \in [Stacks -> Context]
  /\ context \in Context
  /\ progress' \in [Slots -> Points]
  /\ \A j \in Slots \ {running} : progress'[j] = progress[j]
  /\ procs[running].state # "ZOMBIE" =>
       context = [pid |-> proc[running].pid, point |-> progress'[running],
                  ring |-> IF proc[running].user THEN 3 ELSE 0]
  /\ \A j \in Runnable(proc) \ {running} :
       frames[proc[j].context] = frame[proc[j].context]
  /\ \/ at = Deep
     \/ running # 0 /\ at = proc[running].context /\ frames[at] = context

\* A table that keeps the bootstrap slot, the running process's mark aside
\* changes states only, and frees no slot, keeps its shape.
LEMMA TableStep ==
  ASSUME Inv,
         proc' \in [Slots -> Process],
         next_pid' = next_pid, free' = free,
         \A j \in Slots : SameButState(proc'[j], proc[j]),
         \A j \in Slots : (proc'[j].state = "UNUSED") <=> (proc[j].state = "UNUSED"),
         \A j \in Slots : proc[j].state = "UNUSED" => proc'[j] = proc[j],
         proc'[0] = Bootstrap,
         running' \in Slots,
         proc'[running'].state \in {"RUNNING", "ZOMBIE"}
  PROVE  TableShape' /\ PidsDistinct' /\ OwnershipExclusive'
<1>1. TableShape'
  <2> SUFFICES ASSUME NEW i \in Slots \ {0}
               PROVE  IF proc'[i].state = "UNUSED" THEN proc'[i] = Unused
                      ELSE Filled(proc'[i], next_pid')
    BY DEF TableShape
  <2> QED
    BY DEF Inv, TableShape, Filled, SameButState
<1>2. PidsDistinct'
  BY DEF Inv, PidsDistinct, SameButState
<1>3. OwnershipExclusive'
  <2>1. \A j \in Slots : Owned(j)' = Owned(j)
    BY DEF Owned, SameButState
  <2> QED
    BY <2>1 DEF Inv, OwnershipExclusive, SameButState
<1> QED
  BY <1>1, <1>2, <1>3

\* Two runnable processes are resumed from different frames.
LEMMA ContextsDistinct ==
  ASSUME Inv, NEW i \in Slots, NEW j \in Slots, i # j,
         proc[i].state # "UNUSED", proc[j].state # "UNUSED"
  PROVE  /\ proc[i].context \in Stacks /\ proc[i].context # Null
         /\ proc[i].context # proc[j].context
<1> USE PagesAssumption DEF Null, Stacks
<1>1. ASSUME NEW k \in Slots, proc[k].state # "UNUSED"
      PROVE  IF k = 0 THEN proc[k].context = BootStack
             ELSE /\ proc[k].context = proc[k].stack_base
                  /\ proc[k].context \in Pages /\ proc[k].context \in Owned(k)
  <2>1. CASE k = 0
    BY <2>1 DEF Inv, TableShape, Bootstrap
  <2>2. CASE k # 0
    BY <1>1, <2>2 DEF Inv, TableShape, Filled, Owned
  <2> QED
    BY <2>1, <2>2
<1>2. Owned(i) \cap Owned(j) = {}
  BY DEF Inv, OwnershipExclusive
<1> QED
  BY <1>1, <1>2

\* schedule() returns to the interrupted process.
LEMMA ScheduleKeeps ==
  ASSUME Inv, NEW procs, NEW frames, NEW at, NEW context,
         ScheduleReady(procs, frames, at, context),
         KeepRunning(procs),
         iretd(Null, context), proc' = procs, frame' = frames,
         UNCHANGED <<running, esp0, waited, next_pid, free, halted>>
  PROVE  Inv'
<1>1. procs = proc /\ proc' = proc
  <2> SUFFICES ASSUME running # 0, procs = [proc EXCEPT ![running].state = "ZOMBIE"]
               PROVE  FALSE
    BY DEF ScheduleReady
  <2> QED
    BY DEF KeepRunning, Inv, TypeOK, Process
<1>2. cpu' = context /\ cr3' = cr3 /\ scheduler_next_directory' = Null
  BY DEF iretd
<1>3. TypeOK'
  BY <1>1, <1>2 DEF Inv, TypeOK, ScheduleReady, PagesOrNull
<1>4. TableShape' /\ PidsDistinct' /\ MachineOfRunning' /\ OwnershipExclusive'
      /\ WaitBounded'
  BY <1>1, <1>2 DEF Inv, TableShape, Filled, PidsDistinct, MachineOfRunning,
     process_kernel_stack_top, OwnershipExclusive, Owned, WaitBounded, Runnable, Distance
<1>5. LastFrameResumed'
  <2>1. cpu' = Expected(running)'
    BY <1>1, <1>2 DEF ScheduleReady, KeepRunning, Expected
  <2>2. ASSUME NEW j \in Runnable(proc) \ {running}
        PROVE  proc[j].context # Null /\ frame'[proc[j].context] = Expected(j)'
    BY <1>1, <2>2 DEF ScheduleReady, Inv, LastFrameResumed, Expected, Runnable
  <2> QED
    BY <1>1, <2>1, <2>2 DEF LastFrameResumed
<1> QED
  BY <1>3, <1>4, <1>5 DEF Inv

\* schedule() goes on to the next process in the round.
LEMMA ScheduleSwitches ==
  ASSUME Inv, NEW procs, NEW frames, NEW at, NEW context, NEW next \in Slots,
         ScheduleReady(procs, frames, at, context),
         process_next_round_robin(procs, next),
         running' = next,
         proc' = Dispatched(procs, next),
         esp0' = process_kernel_stack_top(procs[next]),
         frame' = process_save_context(procs[running], frames, at, context),
         IF procs[next].context \in {Null, at}
         THEN iretd(Null, context)
         ELSE iretd(procs[next].directory, frame'[procs[next].context]),
         waited' = Passed(procs, next),
         UNCHANGED <<next_pid, free, halted>>
  PROVE  Inv'
<1> USE MaxProcessesAssumption, PagesAssumption
<1>1. /\ 0 \in Slots /\ running \in Slots
      /\ proc \in [Slots -> Process] /\ proc[0] = Bootstrap
      /\ proc[running].state \in {"RUNNING", "ZOMBIE"}
  BY DEF Inv, TypeOK, TableShape, Slots
<1>2. /\ procs \in [Slots -> Process]
      /\ \A j \in Slots : SameButState(procs[j], proc[j])
      /\ \A j \in Slots \ {running} : procs[j] = proc[j]
      /\ procs[running].state \in {proc[running].state, "ZOMBIE"}
      /\ procs[0] = Bootstrap
  <2>1. CASE procs = proc
    BY <1>1, <2>1 DEF SameButState
  <2>2. CASE running # 0 /\ procs = [proc EXCEPT ![running].state = "ZOMBIE"]
    <3>1. /\ procs[running] = [proc[running] EXCEPT !.state = "ZOMBIE"]
          /\ \A j \in Slots \ {running} : procs[j] = proc[j]
      BY <1>1, <2>2
    <3>2. proc[running] \in Process
      BY <1>1
    <3>3. /\ procs[running] \in Process /\ procs[running].state = "ZOMBIE"
          /\ SameButState(procs[running], proc[running])
      BY <3>1, <3>2 DEF Process, SameButState
    <3> QED
      BY <1>1, <2>2, <3>1, <3>3 DEF SameButState
  <2> QED
    BY <2>1, <2>2 DEF ScheduleReady
<1>3. /\ next \in Runnable(procs)
      /\ \A j \in Runnable(procs) : Distance(running, next) =< Distance(running, j)
  <2>1. 0 \in Runnable(procs)
    BY <1>1, <1>2 DEF Runnable, Bootstrap
  <2> QED
    BY <2>1 DEF process_next_round_robin
<1>4. /\ proc' \in [Slots -> Process]
      /\ \A j \in Slots : SameButState(proc'[j], proc[j])
      /\ \A j \in Slots \ {next} : proc'[j] = procs[j]
      /\ proc'[next].state = "RUNNING"
      /\ proc'[0] = Bootstrap
  <2>1. proc' = [procs EXCEPT ![next].state = "RUNNING"]
    BY <1>3 DEF Dispatched
  <2>2. /\ proc'[next] = [procs[next] EXCEPT !.state = "RUNNING"]
        /\ \A j \in Slots \ {next} : proc'[j] = procs[j]
    BY <1>2, <2>1
  <2>3. procs[next] \in Process
    BY <1>2
  <2>4. /\ proc'[next] \in Process /\ proc'[next].state = "RUNNING"
        /\ SameButState(proc'[next], procs[next])
    BY <2>2, <2>3 DEF Process, SameButState
  <2>5. proc'[0] = Bootstrap
    <3>1. CASE next = 0
      <4>1. procs[0].state = "RUNNING"
        BY <1>2 DEF Bootstrap
      <4>2. [procs[next] EXCEPT !.state = procs[next].state] = procs[next]
        BY <2>3 DEF Process
      <4> QED
        BY <1>2, <2>2, <3>1, <4>1, <4>2
    <3>2. CASE next # 0
      BY <1>1, <1>2, <2>2, <3>2
    <3> QED
      BY <3>1, <3>2
  <2> QED
    BY <1>2, <2>1, <2>2, <2>4, <2>5 DEF SameButState
<1>5. Runnable(procs) \subseteq Runnable(proc) /\ Runnable(proc') = Runnable(procs)
  BY <1>1, <1>2, <1>3, <1>4 DEF Runnable
<1>6. TableShape' /\ PidsDistinct' /\ OwnershipExclusive'
  <2>1. \A j \in Slots : (proc'[j].state = "UNUSED") <=> (proc[j].state = "UNUSED")
    BY <1>1, <1>2, <1>3, <1>4 DEF Runnable
  <2>2. \A j \in Slots : proc[j].state = "UNUSED" => proc'[j] = proc[j]
    BY <1>1, <1>2, <1>3, <1>4 DEF Runnable
  <2> QED
    BY <1>4, <2>1, <2>2, TableStep
<1>7. /\ frame' \in [Stacks -> Context]
      /\ procs[running].state # "ZOMBIE" => frame'[proc[running].context] = context
      /\ \A j \in Runnable(proc) \ {running} :
           frame'[proc[j].context] = frame[proc[j].context]
  <2>1. /\ frames \in [Stacks -> Context] /\ context \in Context
        /\ \A j \in Runnable(proc) \ {running} :
             frames[proc[j].context] = frame[proc[j].context]
    BY DEF ScheduleReady
  <2>2. /\ proc[running].context \in Stacks
        /\ \A j \in Runnable(proc) \ {running} :
             proc[j].context \in Stacks /\ proc[j].context # proc[running].context
    <3>1. proc[running].context \in Stacks
      BY <1>1 DEF Inv, TableShape, Filled, Bootstrap, Stacks
    <3>2. \A j \in Runnable(proc) \ {running} : j \in Slots /\ proc[j].state # "UNUSED"
      BY DEF Runnable
    <3> QED
      BY <1>1, <3>1, <3>2, ContextsDistinct
  <2>3. /\ procs[running].bootstrap = proc[running].bootstrap
        /\ procs[running].context = proc[running].context
        /\ proc[running].bootstrap => proc[running].context = BootStack
    BY <1>1, <1>2 DEF SameButState, Inv, TableShape, Filled, Bootstrap
  <2>4. CASE procs[running].context = at /\ ~procs[running].bootstrap
    <3>1. frame' = frames
      BY <2>4 DEF process_save_context
    <3>2. at # Deep
      BY <2>2, <2>3, <2>4 DEF Stacks, Deep
    <3>3. frames[at] = context
      BY <3>2 DEF ScheduleReady
    <3> QED
      BY <2>1, <2>3, <2>4, <3>1, <3>3
  <2>5. CASE ~(procs[running].context = at /\ ~procs[running].bootstrap)
    <3>1. frame' = [frames EXCEPT ![proc[running].context] = context]
      BY <2>3, <2>5 DEF process_save_context
    <3> QED
      BY <2>1, <2>2, <3>1
  <2> QED
    BY <2>4, <2>5
<1>8. /\ procs[next].context = proc[next].context
      /\ procs[next].directory = proc[next].directory
      /\ process_kernel_stack_top(procs[next]) = process_kernel_stack_top(proc'[next])
      /\ proc'[next].directory = proc[next].directory
      /\ proc[next].context \in Stacks \ {Null}
      /\ proc[next].directory \in (Pages \cup {PageDirectory}) \ {Null}
  <2>1. next \in Runnable(proc)
    BY <1>3, <1>5
  <2>2. /\ proc[next].context \in Stacks \ {Null}
        /\ proc[next].directory \in (Pages \cup {PageDirectory}) \ {Null}
    <3>1. CASE next = 0
      BY <3>1 DEF Inv, TableShape, Bootstrap, Stacks, Null
    <3>2. CASE next # 0
      BY <2>1, <3>2 DEF Inv, TableShape, Filled, Runnable, Stacks, Null
    <3> QED
      BY <3>1, <3>2
  <2> QED
    BY <1>2, <1>4, <2>2 DEF SameButState, process_kernel_stack_top
<1>9. next = running \/ proc[next].context # at
  <2> SUFFICES ASSUME next # running, proc[next].context = at PROVE FALSE
    OBVIOUS
  <2>1. at # Deep
    BY <1>8 DEF Stacks, Deep
  <2>2. at = proc[running].context
    BY <2>1 DEF ScheduleReady
  <2>3. proc[next].state # "UNUSED" /\ proc[running].state # "UNUSED"
    BY <1>1, <1>3, <1>5 DEF Runnable
  <2> QED
    BY <1>1, <2>2, <2>3, ContextsDistinct
<1>10. /\ cpu' = [pid |-> proc[next].pid, point |-> progress'[next],
                  ring |-> IF proc[next].user THEN 3 ELSE 0]
       /\ cr3' = proc[next].directory
       /\ scheduler_next_directory' \in PagesOrNull \cup {PageDirectory}
       /\ cpu' \in Context
  <2>1. CASE next = running
    <3>1. procs[running].state # "ZOMBIE"
      BY <1>3, <2>1 DEF Runnable
    <3>2. /\ context = [pid |-> proc[next].pid, point |-> progress'[next],
                        ring |-> IF proc[next].user THEN 3 ELSE 0]
          /\ context \in Context
      BY <2>1, <3>1 DEF ScheduleReady
    <3>3. frame'[procs[next].context] = context
      BY <1>7, <1>8, <2>1, <3>1
    <3>4. cr3 = proc[next].directory
      BY <2>1 DEF Inv, MachineOfRunning
    <3> QED
      BY <1>8, <3>2, <3>3, <3>4 DEF iretd, PagesOrNull
  <2>2. CASE next # running
    <3>1. iretd(proc[next].directory, frame'[proc[next].context])
      BY <1>8, <1>9, <2>2
    <3>2. next \in Runnable(proc) \ {running}
      BY <1>3, <1>5, <2>2
    <3>3. /\ frame'[proc[next].context] = Expected(next)
          /\ frame'[proc[next].context] \in Context
      BY <1>7, <1>8, <3>2 DEF Inv, LastFrameResumed
    <3>4. progress'[next] = progress[next]
      BY <2>2 DEF ScheduleReady
    <3> QED
      BY <1>8, <3>1, <3>3, <3>4 DEF iretd, Expected, PagesOrNull
  <2> QED
    BY <2>1, <2>2
<1>11. TypeOK'
  <2>1. esp0' \in Stacks
    <3>1. CASE next = 0
      BY <1>2, <3>1 DEF process_kernel_stack_top, Bootstrap, Stacks
    <3>2. CASE next # 0
      BY <1>2, <1>3, <1>5, <3>2 DEF SameButState, process_kernel_stack_top, Inv,
         TableShape, Filled, Runnable, Stacks
    <3> QED
      BY <3>1, <3>2
  <2>2. waited' \in [Slots -> Nat]
    BY DEF Passed, Inv, TypeOK
  <2>3. progress' \in [Slots -> Points]
    BY DEF ScheduleReady
  <2>4. cr3' \in Pages \cup {PageDirectory}
    BY <1>8, <1>10
  <2> QED
    BY <1>4, <1>7, <1>10, <2>1, <2>2, <2>3, <2>4 DEF Inv, TypeOK
<1>12. MachineOfRunning'
  BY <1>8, <1>10 DEF MachineOfRunning
<1>13. LastFrameResumed'
  <2>1. cpu' = Expected(running)'
    BY <1>4, <1>10 DEF Expected, SameButState
  <2>2. ASSUME NEW j \in Runnable(proc') \ {next}
        PROVE  proc'[j].context # Null /\ frame'[proc'[j].context] = Expected(j)'
    <3>1. /\ j \in Slots /\ j \in Runnable(proc) /\ j \in Runnable(procs)
          /\ SameButState(proc'[j], proc[j])
      BY <1>4, <1>5 DEF Runnable
    <3>2. CASE j = running
      <4>1. procs[running].state # "ZOMBIE"
        BY <3>1, <3>2 DEF Runnable
      <4>2. proc[j].context # Null
        BY <3>1, <3>2 DEF Inv, TableShape, Filled, Bootstrap, Runnable, Null
      <4> QED
        BY <1>7, <3>1, <3>2, <4>1, <4>2 DEF ScheduleReady, SameButState, Expected
    <3>3. CASE j # running
      <4>1. proc[j].context # Null /\ frame[proc[j].context] = Expected(j)
        BY <3>1, <3>3 DEF Inv, LastFrameResumed
      <4>2. progress'[j] = progress[j]
        BY <3>1, <3>3 DEF ScheduleReady
      <4> QED
        BY <1>7, <3>1, <3>3, <4>1, <4>2 DEF SameButState, Expected
    <3> QED
      BY <3>2, <3>3
  <2> QED
    BY <2>1, <2>2 DEF LastFrameResumed
<1>14. WaitBounded'
  <2> SUFFICES ASSUME NEW j \in Runnable(procs)
               PROVE  waited'[j] + Distance(next, j) =< MaxProcesses
    BY <1>5 DEF WaitBounded, Distance
  <2>1. j \in Slots /\ waited[j] \in Nat /\ waited[j] + Distance(running, j) =< MaxProcesses
    BY <1>5 DEF Inv, WaitBounded, TypeOK, Runnable
  <2>2. CASE j = next
    <3>1. waited'[j] = 0
      BY <2>1, <2>2 DEF Passed
    <3> QED
      BY <2>1, <2>2, <3>1, DistanceFacts
  <2>3. CASE j # next
    <3>1. waited'[j] = waited[j] + 1
      BY <2>1, <2>3 DEF Passed
    <3>2. /\ Distance(running, next) \in 1 .. MaxProcesses
          /\ Distance(running, j) \in 1 .. MaxProcesses
          /\ Distance(next, j) \in 1 .. MaxProcesses
          /\ Distance(next, j) + Distance(running, next) = Distance(running, j)
      BY <1>1, <1>3, <2>1, <2>3, DistanceFacts
    <3> QED
      BY <2>1, <3>1, <3>2
  <2> QED
    BY <2>2, <2>3
<1> QED
  BY <1>6, <1>11, <1>12, <1>13, <1>14 DEF Inv

\* schedule() keeps the invariant.
LEMMA ScheduleInv ==
  ASSUME Inv, NEW procs, NEW frames, NEW at, NEW context,
         ScheduleReady(procs, frames, at, context),
         schedule(procs, frames, at, context),
         UNCHANGED <<next_pid, free, halted>>
  PROVE  Inv'
<1>1. CASE /\ KeepRunning(procs)
           /\ iretd(Null, context)
           /\ proc' = procs /\ frame' = frames
           /\ UNCHANGED <<running, esp0, waited>>
  BY <1>1, ScheduleKeeps
<1>2. CASE \E next \in Slots :
             /\ process_next_round_robin(procs, next)
             /\ running' = next
             /\ proc' = Dispatched(procs, next)
             /\ esp0' = process_kernel_stack_top(procs[next])
             /\ frame' = process_save_context(procs[running], frames, at, context)
             /\ IF procs[next].context \in {Null, at}
                THEN iretd(Null, context)
                ELSE iretd(procs[next].directory, frame'[procs[next].context])
             /\ waited' = Passed(procs, next)
  BY <1>2, ScheduleSwitches
<1> QED
  BY <1>1, <1>2 DEF schedule

-----------------------------------------------------------------------------
(* The handlers and the programs.                                          *)

\* Interrupt entry writes to the running process's own stack only; from ring
\* 3 the frame it builds is the one the process is resumed from.
LEMMA PushedFacts ==
  ASSUME Inv, NEW context \in Context
  PROVE  /\ Pushed(context) \in [Stacks -> Context]
         /\ \A j \in Runnable(proc) \ {running} :
              Pushed(context)[proc[j].context] = frame[proc[j].context]
         /\ cpu.ring = 3 =>
              /\ running # 0
              /\ ~proc[running].bootstrap
              /\ esp0 = proc[running].context
              /\ Pushed(context)[esp0] = context
<1>1. /\ running \in Slots /\ esp0 \in Stacks /\ frame \in [Stacks -> Context]
      /\ proc[running].state \in {"RUNNING", "ZOMBIE"}
  BY DEF Inv, TypeOK, TableShape
<1>2. CASE cpu.ring # 3
  BY <1>1, <1>2 DEF Pushed
<1>3. CASE cpu.ring = 3
  <2>1. proc[running].user
    BY <1>3 DEF Inv, LastFrameResumed, Expected
  <2>2. running # 0
    BY <2>1 DEF Inv, TableShape, Bootstrap
  <2>3. ~proc[running].bootstrap /\ esp0 = proc[running].context
    BY <1>1, <2>2 DEF Inv, TableShape, Filled, MachineOfRunning, process_kernel_stack_top
  <2>4. \A j \in Runnable(proc) \ {running} :
          proc[j].context \in Stacks /\ proc[j].context # esp0
    <3>1. \A j \in Runnable(proc) \ {running} : j \in Slots /\ proc[j].state # "UNUSED"
      BY DEF Runnable
    <3> QED
      BY <1>1, <2>3, <3>1, ContextsDistinct
  <2> QED
    BY <1>1, <1>3, <2>2, <2>3, <2>4 DEF Pushed
<1> QED
  BY <1>2, <1>3

\* A handler that returns to the program it interrupted, at point p, keeps
\* the invariant.
LEMMA ReturnInv ==
  ASSUME Inv, NEW p \in Points,
         frame' \in [Stacks -> Context],
         \A j \in Runnable(proc) \ {running} :
           frame'[proc[j].context] = frame[proc[j].context],
         cpu' = [cpu EXCEPT !.point = p],
         progress' = [progress EXCEPT ![running] = p],
         cr3' = cr3,
         scheduler_next_directory' \in PagesOrNull \cup {PageDirectory},
         halted' \in BOOLEAN,
         UNCHANGED <<table, running, esp0, waited>>
  PROVE  Inv'
<1>1. UNCHANGED <<proc, next_pid, free, running, esp0, waited>>
  BY DEF table
<1>2. /\ progress' \in [Slots -> Points]
      /\ progress'[running] = p
      /\ \A j \in Slots \ {running} : progress'[j] = progress[j]
  BY DEF Inv, TypeOK
<1>3. cpu' \in Context
  BY DEF Inv, TypeOK, Context
<1>4. TypeOK'
  BY <1>1, <1>2, <1>3 DEF Inv, TypeOK
<1>5. /\ TableShape' /\ PidsDistinct' /\ MachineOfRunning' /\ OwnershipExclusive'
      /\ WaitBounded'
  BY <1>1 DEF Inv, TableShape, Filled, PidsDistinct, MachineOfRunning,
     process_kernel_stack_top, OwnershipExclusive, Owned, WaitBounded, Runnable, Distance
<1>6. LastFrameResumed'
  <2>1. cpu' = Expected(running)'
    <3>1. cpu = Expected(running)
      BY DEF Inv, LastFrameResumed
    <3> QED
      BY <1>1, <1>2, <3>1 DEF Expected
  <2>2. ASSUME NEW j \in Runnable(proc) \ {running}
        PROVE  proc[j].context # Null /\ frame'[proc[j].context] = Expected(j)'
    BY <1>1, <1>2, <2>2 DEF Inv, LastFrameResumed, Expected, Runnable
  <2> QED
    BY <1>1, <2>1, <2>2 DEF LastFrameResumed
<1> QED
  BY <1>4, <1>5, <1>6 DEF Inv

\* The same when the program has not moved on.
LEMMA ResumeInv ==
  ASSUME Inv,
         frame' \in [Stacks -> Context],
         \A j \in Runnable(proc) \ {running} :
           frame'[proc[j].context] = frame[proc[j].context],
         scheduler_next_directory' \in PagesOrNull \cup {PageDirectory},
         halted' \in BOOLEAN,
         UNCHANGED <<table, running, cpu, cr3, esp0, ghosts>>
  PROVE  Inv'
<1>1. UNCHANGED <<proc, next_pid, free, running, cpu, cr3, esp0, progress, waited>>
  BY DEF table, ghosts
<1>2. TypeOK'
  BY <1>1 DEF Inv, TypeOK
<1>3. /\ TableShape' /\ PidsDistinct' /\ MachineOfRunning'
  BY <1>1 DEF Inv, TableShape, Filled, PidsDistinct, MachineOfRunning,
     process_kernel_stack_top
<1>4. OwnershipExclusive' /\ WaitBounded'
  BY <1>1 DEF Inv, OwnershipExclusive, Owned, WaitBounded, Runnable, Distance
<1>5. LastFrameResumed'
  BY <1>1 DEF Inv, LastFrameResumed, Expected, Runnable
<1> QED
  BY <1>2, <1>3, <1>4, <1>5 DEF Inv

\* A creation that fails changes nothing.
LEMMA CreateFailsInv ==
  ASSUME Inv, CreateFails, free' = free, UNCHANGED <<running, machine, halted>>
  PROVE  Inv'
<1>1. UNCHANGED <<table, running, frame, cpu, cr3, esp0, scheduler_next_directory,
                  halted, ghosts>>
  BY DEF CreateFails, machine, table, ghosts
<1> QED
  BY <1>1, ResumeInv DEF Inv, TypeOK

-----------------------------------------------------------------------------
\* FailedCreateReturnsPages, of one step.
PagesKept == next_pid' = next_pid => free' = free

\* A slot that is filled takes a pid.
LEMMA FillSlotPid ==
  ASSUME Inv, NEW i, NEW d, NEW s, NEW code, NEW ustack, NEW is_user,
         FillSlot(i, d, s, code, ustack, is_user)
  PROVE  next_pid' # next_pid
<1>1. next_pid \in Nat
  BY PidLimitAssumption DEF Inv, TypeOK
<1> QED
  BY <1>1 DEF FillSlot

\* A creation keeps the invariant, also when a page is missing half way, and
\* then no page is lost.
LEMMA CreateInv == Inv /\ process_create => Inv' /\ PagesKept
<1> SUFFICES ASSUME Inv, process_create PROVE Inv' /\ PagesKept
  OBVIOUS
<1>1. /\ InKernel /\ PidAvailable /\ UNCHANGED <<running, machine, halted>>
      /\ free \subseteq Pages /\ Null \notin free
  BY PagesAssumption DEF process_create, Inv, TypeOK, Null
<1>2. CASE CreateFails /\ free' = free
  BY <1>1, <1>2, CreateFailsInv DEF PagesKept
<1>3. ASSUME NEW i \in FirstReusable, NEW stack \in allocate_page(free),
             NEW directory \in allocate_page(free \ {stack}),
             IF Null \in {stack, directory}
             THEN /\ CreateFails
                  /\ free' = (free \ {stack, directory}) \cup ({stack} \ {Null})
             ELSE /\ FillSlot(i, directory, stack, Null, Null, FALSE)
                  /\ free' = free \ {stack, directory}
      PROVE  Inv' /\ PagesKept
  <2>1. /\ stack = Null \/ stack \in free
        /\ directory = Null \/ directory \in free \ {stack}
    BY <1>3, AllocatedIsFree
  <2>2. CASE Null \in {stack, directory}
    <3>1. directory = Null
      BY <1>1, <1>3, <2>1, <2>2, AllocatedIsNull
    <3>2. free' = free
      BY <1>1, <1>3, <2>1, <2>2, <3>1
    <3> QED
      BY <1>2, <1>3, <2>2, <3>2
  <2>3. CASE Null \notin {stack, directory}
    <3>1. directory \in free /\ stack \in free \ {directory}
      BY <2>1, <2>3
    <3>2. free' = free \ {directory, stack, Null, Null}
      BY <1>1, <1>3, <2>3
    <3>3. FillSlot(i, directory, stack, Null, Null, FALSE)
      BY <1>3, <2>3
    <3> QED
      BY <1>1, <3>1, <3>2, <3>3, FillSlotInv, FillSlotPid DEF PagesKept
  <2> QED
    BY <2>2, <2>3
<1> QED
  BY <1>2, <1>3 DEF process_create

\* The same for process_create_user, which takes four pages.
LEMMA CreateUserInv == Inv /\ process_create_user => Inv' /\ PagesKept
<1> SUFFICES ASSUME Inv, process_create_user PROVE Inv' /\ PagesKept
  OBVIOUS
<1>1. /\ InKernel /\ PidAvailable /\ UNCHANGED <<running, machine, halted>>
      /\ free \subseteq Pages /\ Null \notin free
  BY PagesAssumption DEF process_create_user, Inv, TypeOK, Null
<1>2. CASE CreateFails /\ free' = free
  BY <1>1, <1>2, CreateFailsInv DEF PagesKept
<1>3. ASSUME NEW i \in FirstReusable, NEW stack \in allocate_page(free),
             NEW code \in allocate_page(free \ {stack}),
             NEW ustack \in allocate_page(free \ {stack, code}),
             NEW directory \in allocate_page(free \ {stack, code, ustack}),
             IF Null \in {stack, code, ustack, directory}
             THEN /\ CreateFails
                  /\ free' = Released(free \ {stack, code, ustack, directory},
                                      stack, code, ustack)
             ELSE /\ FillSlot(i, directory, stack, code, ustack, TRUE)
                  /\ free' = free \ {stack, code, ustack, directory}
      PROVE  Inv' /\ PagesKept
  <2>1. /\ stack = Null \/ stack \in free
        /\ code = Null \/ code \in free \ {stack}
        /\ ustack = Null \/ ustack \in free \ {stack, code}
        /\ directory = Null \/ directory \in free \ {stack, code, ustack}
    BY <1>3, AllocatedIsFree
  <2>2. CASE Null \in {stack, code, ustack, directory}
    <3>1. directory = Null
      <4>1. /\ stack = Null => code = Null
            /\ code = Null => ustack = Null
            /\ ustack = Null => directory = Null
        BY <1>1, <1>3, <2>1, AllocatedIsNull
      <4> QED
        BY <2>2, <4>1
    <3>2. free' = free
      BY <1>1, <1>3, <2>1, <2>2, <3>1 DEF Released
    <3> QED
      BY <1>2, <1>3, <2>2, <3>2
  <2>3. CASE Null \notin {stack, code, ustack, directory}
    <3>1. /\ directory \in free /\ stack \in free \ {directory}
          /\ code \in free \ {directory, stack} /\ ustack \in free \ {directory, stack}
      BY <2>1, <2>3
    <3>2. free' = free \ {directory, stack, code, ustack}
      BY <1>1, <1>3, <2>3
    <3>3. FillSlot(i, directory, stack, code, ustack, TRUE)
      BY <1>3, <2>3
    <3> QED
      BY <1>1, <3>1, <3>2, <3>3, FillSlotInv, FillSlotPid DEF PagesKept
  <2> QED
    BY <2>2, <2>3
<1> QED
  BY <1>2, <1>3 DEF process_create_user

\* process_exit outside a system call: the mark, and nothing else.
LEMMA KernelExitInv == Inv /\ KernelExit => Inv'
<1> SUFFICES ASSUME Inv, KernelExit PROVE Inv'
  OBVIOUS
<1>1. /\ running \in Slots /\ proc[running].state = "RUNNING"
      /\ proc \in [Slots -> Process] /\ proc[0] = Bootstrap /\ 0 \in Slots
      /\ proc' = ExitMarked(proc, running)
      /\ UNCHANGED <<running, next_pid, free, frame, cpu, cr3, esp0,
                     scheduler_next_directory, halted, progress, waited>>
  BY MaxProcessesAssumption
     DEF KernelExit, InKernel, Inv, TypeOK, TableShape, machine, ghosts, Slots
<1>2. CASE proc[running].bootstrap
  <2>1. UNCHANGED <<table, running, frame, cpu, cr3, esp0, scheduler_next_directory,
                    halted, ghosts>>
    BY <1>1, <1>2 DEF ExitMarked, table, ghosts
  <2> QED
    BY <2>1, ResumeInv DEF Inv, TypeOK
<1>3. CASE ~proc[running].bootstrap
  <2>1. proc' = [proc EXCEPT ![running].state = "ZOMBIE"]
    BY <1>1, <1>3 DEF ExitMarked
  <2>2. running # 0
    BY <1>1, <1>3 DEF Bootstrap
  <2>3. /\ proc'[running] = [proc[running] EXCEPT !.state = "ZOMBIE"]
        /\ \A j \in Slots \ {running} : proc'[j] = proc[j]
    BY <1>1, <2>1
  <2>4. proc[running] \in Process
    BY <1>1
  <2>5. /\ proc'[running] \in Process /\ proc'[running].state = "ZOMBIE"
        /\ SameButState(proc'[running], proc[running])
    BY <2>3, <2>4 DEF Process, SameButState
  <2>6. /\ proc' \in [Slots -> Process]
        /\ \A j \in Slots : SameButState(proc'[j], proc[j])
    BY <1>1, <2>1, <2>3, <2>5 DEF SameButState
  <2>7. TableShape' /\ PidsDistinct' /\ OwnershipExclusive'
    <3>1. \A j \in Slots : (proc'[j].state = "UNUSED") <=> (proc[j].state = "UNUSED")
      BY <1>1, <2>3, <2>5
    <3>2. \A j \in Slots : proc[j].state = "UNUSED" => proc'[j] = proc[j]
      BY <1>1, <2>3
    <3> QED
      BY <1>1, <2>2, <2>3, <2>5, <2>6, <3>1, <3>2, TableStep
  <2>8. TypeOK'
    BY <1>1, <2>6 DEF Inv, TypeOK
  <2>9. MachineOfRunning'
    BY <1>1, <2>5 DEF Inv, MachineOfRunning, SameButState, process_kernel_stack_top
  <2>10. LastFrameResumed'
    <3>1. cpu' = Expected(running)'
      BY <1>1, <2>5 DEF Inv, LastFrameResumed, Expected, SameButState
    <3>2. ASSUME NEW j \in Runnable(proc') \ {running}
          PROVE  proc'[j].context # Null /\ frame'[proc'[j].context] = Expected(j)'
      <4>1. j \in Runnable(proc) \ {running} /\ proc'[j] = proc[j]
        BY <2>3, <3>2 DEF Runnable
      <4> QED
        BY <1>1, <4>1 DEF Inv, LastFrameResumed, Expected
    <3> QED
      BY <1>1, <3>1, <3>2 DEF LastFrameResumed
  <2>11. WaitBounded'
    <3>1. Runnable(proc') \subseteq Runnable(proc)
      BY <2>3, <2>5 DEF Runnable
    <3> QED
      BY <1>1, <3>1 DEF Inv, WaitBounded, Distance
  <2> QED
    BY <2>7, <2>8, <2>9, <2>10, <2>11 DEF Inv
<1> QED
  BY <1>2, <1>3

\* Each handler that calls schedule() hands it what ScheduleReady asks for.
LEMMA TimerTickReady ==
  ASSUME Inv, progress' = progress
  PROVE  ScheduleReady(proc, Pushed(cpu), ContextAddress, cpu)
<1>1. cpu \in Context /\ progress \in [Slots -> Points] /\ cpu = Expected(running)
  BY DEF Inv, TypeOK, LastFrameResumed
<1> QED
  BY <1>1, PushedFacts DEF ScheduleReady, ContextAddress, Expected

LEMMA SyscallYieldReady ==
  ASSUME Inv, cpu.ring = 3, NEW p \in Points,
         progress' = [progress EXCEPT ![running] = p]
  PROVE  ScheduleReady(proc, Pushed([cpu EXCEPT !.point = p]), esp0,
                       [cpu EXCEPT !.point = p])
<1> DEFINE context == [cpu EXCEPT !.point = p]
<1>1. /\ cpu \in Context /\ progress \in [Slots -> Points] /\ running \in Slots
      /\ cpu = Expected(running)
  BY DEF Inv, TypeOK, LastFrameResumed
<1>2. /\ progress' \in [Slots -> Points] /\ progress'[running] = p
      /\ \A j \in Slots \ {running} : progress'[j] = progress[j]
  BY <1>1
<1>3. context \in Context
  BY <1>1 DEF Context
<1>4. context = [pid |-> proc[running].pid, point |-> progress'[running],
                 ring |-> IF proc[running].user THEN 3 ELSE 0]
  BY <1>1, <1>2 DEF Expected
<1> HIDE DEF context
<1>5. ScheduleReady(proc, Pushed(context), esp0, context)
  BY <1>2, <1>3, <1>4, PushedFacts DEF ScheduleReady
<1> QED
  BY <1>5 DEF context

LEMMA SyscallExitReady ==
  ASSUME Inv, cpu.ring = 3, NEW p \in Points, progress' = progress
  PROVE  ScheduleReady(ExitMarked(proc, running), Pushed(cpu), Deep,
                       [cpu EXCEPT !.point = p, !.ring = 0])
<1> DEFINE context == [cpu EXCEPT !.point = p, !.ring = 0]
<1>1. cpu \in Context /\ progress \in [Slots -> Points] /\ running \in Slots
      /\ proc \in [Slots -> Process]
  BY DEF Inv, TypeOK
<1>2. context \in Context
  BY <1>1 DEF Context
<1>3. /\ running # 0
      /\ ExitMarked(proc, running) = [proc EXCEPT ![running].state = "ZOMBIE"]
  BY <1>1, PushedFacts DEF ExitMarked
<1>4. ExitMarked(proc, running)[running].state = "ZOMBIE"
  BY <1>1, <1>3 DEF Process
<1> HIDE DEF context
<1>5. ScheduleReady(ExitMarked(proc, running), Pushed(cpu), Deep, context)
  BY <1>1, <1>2, <1>3, <1>4, PushedFacts DEF ScheduleReady
<1> QED
  BY <1>5 DEF context

-----------------------------------------------------------------------------
\* Every step keeps the invariant.
LEMMA NextInv == Inv /\ [Next]_vars => Inv'
<1> SUFFICES ASSUME Inv, [Next]_vars PROVE Inv'
  OBVIOUS
<1>1. CASE process_create
  BY <1>1, CreateInv
<1>2. CASE process_create_user
  BY <1>2, CreateUserInv
<1>3. CASE Execute
  <2>1. PICK p \in Points : /\ cpu' = [cpu EXCEPT !.point = p]
                            /\ progress' = [progress EXCEPT ![running] = p]
    BY <1>3 DEF Execute
  <2>2. UNCHANGED <<table, running, frame, cr3, esp0, scheduler_next_directory,
                    halted, waited>>
    BY <1>3 DEF Execute
  <2> QED
    BY <2>1, <2>2, ReturnInv DEF Inv, TypeOK
<1>4. CASE KernelExit
  BY <1>4, KernelExitInv
<1>5. CASE TimerTick
  BY <1>5, TimerTickReady, ScheduleInv DEF TimerTick
<1>6. CASE OtherInterrupt
  <2>1. /\ frame' = Pushed(cpu) /\ scheduler_next_directory' = Null
        /\ UNCHANGED <<table, running, cpu, cr3, esp0, halted, ghosts>>
    BY <1>6 DEF OtherInterrupt, iretd
  <2>2. cpu \in Context /\ halted \in BOOLEAN
    BY DEF Inv, TypeOK
  <2> QED
    BY <2>1, <2>2, PushedFacts, ResumeInv DEF PagesOrNull
<1>7. CASE Exception
  <2>1. /\ frame' = Pushed(cpu) /\ scheduler_next_directory' = Null /\ halted' = TRUE
        /\ UNCHANGED <<table, running, cpu, cr3, esp0, ghosts>>
    BY <1>7 DEF Exception
  <2>2. cpu \in Context
    BY DEF Inv, TypeOK
  <2> QED
    BY <2>1, <2>2, PushedFacts, ResumeInv DEF PagesOrNull
<1>8. CASE SyscallReturns
  <2> PICK p \in Points :
        /\ iretd(Null, [cpu EXCEPT !.point = p])
        /\ frame' = Pushed([cpu EXCEPT !.point = p])
        /\ progress' = [progress EXCEPT ![running] = p]
    BY <1>8 DEF SyscallReturns
  <2>1. UNCHANGED <<table, running, esp0, halted, waited>>
    BY <1>8 DEF SyscallReturns
  <2>2. [cpu EXCEPT !.point = p] \in Context /\ halted \in BOOLEAN
    BY DEF Inv, TypeOK, Context
  <2>3. /\ cpu' = [cpu EXCEPT !.point = p] /\ cr3' = cr3
        /\ scheduler_next_directory' \in PagesOrNull \cup {PageDirectory}
    BY DEF iretd, PagesOrNull
  <2>4. /\ frame' \in [Stacks -> Context]
        /\ \A j \in Runnable(proc) \ {running} :
             frame'[proc[j].context] = frame[proc[j].context]
    BY <2>2, PushedFacts
  <2> QED
    BY <2>1, <2>2, <2>3, <2>4, ReturnInv
<1>9. CASE SyscallYield
  <2>1. PICK p \in Points :
          /\ schedule(proc, Pushed([cpu EXCEPT !.point = p]), esp0,
                      [cpu EXCEPT !.point = p])
          /\ progress' = [progress EXCEPT ![running] = p]
    BY <1>9 DEF SyscallYield
  <2>2. cpu.ring = 3 /\ UNCHANGED <<next_pid, free, halted>>
    BY <1>9 DEF SyscallYield
  <2> QED
    BY <2>1, <2>2, SyscallYieldReady, ScheduleInv
<1>10. CASE SyscallExit
  <2>1. PICK p \in Points :
          schedule(ExitMarked(proc, running), Pushed(cpu), Deep,
                   [cpu EXCEPT !.point = p, !.ring = 0])
    BY <1>10 DEF SyscallExit
  <2>2. cpu.ring = 3 /\ UNCHANGED <<next_pid, free, halted, progress>>
    BY <1>10 DEF SyscallExit
  <2> QED
    BY <2>1, <2>2, SyscallExitReady, ScheduleInv
<1>11. CASE UNCHANGED vars
  <2>1. UNCHANGED <<table, running, frame, cpu, cr3, esp0, scheduler_next_directory,
                    halted, ghosts>>
    BY <1>11 DEF vars, table, ghosts
  <2> QED
    BY <2>1, ResumeInv DEF Inv, TypeOK
<1>12. CASE HaltLoop
  BY <1>11, <1>12 DEF HaltLoop
<1> QED
  BY <1>1, <1>2, <1>3, <1>4, <1>5, <1>6, <1>7, <1>8, <1>9, <1>10, <1>11, <1>12 DEF Next

\* The invariant holds in every reachable state.
THEOREM Invariance == Spec => []Inv
<1>1. Init => Inv
  BY InitInv
<1>2. Inv /\ [Next]_vars => Inv'
  BY NextInv
<1> QED
  BY <1>1, <1>2, PTL DEF Spec

\* The kernel's tables, the CPU and the frames keep their types.
THEOREM TypeCorrect == Spec => []TypeOK
<1>1. Inv => TypeOK
  BY DEF Inv
<1> QED
  BY <1>1, Invariance, PTL

\* Whatever program runs, the page directory, the kernel stack in the TSS and
\* the current process are its own, and its pid names it alone.
THEOREM Coherence == Spec => []DispatchCoherent
<1>1. Inv => DispatchCoherent
  <2> SUFFICES ASSUME Inv PROVE process_by_pid(cpu.pid) = {running}
    BY DEF Inv, MachineOfRunning, DispatchCoherent
  <2>1. running \in Slots /\ proc[running].state # "UNUSED"
    BY DEF Inv, TypeOK, TableShape
  <2>2. cpu.pid = proc[running].pid
    BY DEF Inv, LastFrameResumed, Expected
  <2> QED
    BY <2>1, <2>2 DEF process_by_pid, Inv, PidsDistinct
<1> QED
  BY <1>1, Invariance, PTL

\* Every process goes on from the frame of its own last interruption, or from
\* the one it was made with, however interrupts, yields, exits and slot reuse
\* interleave (process.c:232-248, scheduler.c:18-35).
THEOREM LastFrame == Spec => []LastFrameResumed
<1>1. Inv => LastFrameResumed
  BY DEF Inv
<1> QED
  BY <1>1, Invariance, PTL

\* No page is ever free and owned, or owned by two slots.
THEOREM Ownership == Spec => []OwnershipExclusive
<1>1. Inv => OwnershipExclusive
  BY DEF Inv
<1> QED
  BY <1>1, Invariance, PTL

\* A runnable process is passed over fewer than MAX_PROCESSES times.
THEOREM RoundRobinBound == Spec => []BoundedWait
<1>1. Inv => BoundedWait
  <2> SUFFICES ASSUME Inv, NEW i \in Runnable(proc) PROVE waited[i] < MaxProcesses
    BY DEF BoundedWait
  <2>1. i \in Slots /\ running \in Slots /\ waited[i] \in Nat
    BY DEF Inv, TypeOK, Runnable
  <2>2. waited[i] + Distance(running, i) =< MaxProcesses
    BY DEF Inv, WaitBounded
  <2>3. Distance(running, i) \in 1 .. MaxProcesses
    BY <2>1, DistanceFacts
  <2> QED
    BY <2>1, <2>2, <2>3, MaxProcessesAssumption
<1> QED
  BY <1>1, Invariance, PTL

\* schedule() never dispatches a slot that was a zombie before the interrupt,
\* unless it is the running one.
LEMMA ScheduleSkipsZombies ==
  ASSUME Inv, NEW procs, NEW frames, NEW at, NEW context,
         procs = proc \/ procs = ExitMarked(proc, running),
         schedule(procs, frames, at, context),
         NEW i \in Slots, proc[i].state = "ZOMBIE", running # i
  PROVE  running' # i
<1>1. /\ proc \in [Slots -> Process] /\ running \in Slots
      /\ proc[0] = Bootstrap /\ 0 \in Slots
  BY MaxProcessesAssumption DEF Inv, TypeOK, TableShape, Slots
<1>2. procs[i].state = "ZOMBIE"
  BY <1>1 DEF ExitMarked
<1>3. 0 \in Runnable(procs)
  BY <1>1 DEF ExitMarked, Bootstrap, Runnable
<1> QED
  BY <1>2, <1>3 DEF schedule, process_next_round_robin, Runnable

\* A process that has exited and lost the CPU never runs again.
THEOREM ZombiesStayOff == Spec => ZombieStaysOff
<1>1. Inv /\ [Next]_vars =>
        [\A i \in Slots :
           proc[i].state = "ZOMBIE" /\ running # i => running' # i]_vars
  <2> SUFFICES ASSUME Inv, Next, NEW i \in Slots, proc[i].state = "ZOMBIE", running # i
               PROVE  running' # i
    OBVIOUS
  <2>1. CASE TimerTick
    BY <2>1, ScheduleSkipsZombies DEF TimerTick
  <2>2. CASE SyscallYield
    BY <2>2, ScheduleSkipsZombies DEF SyscallYield
  <2>3. CASE SyscallExit
    BY <2>3, ScheduleSkipsZombies DEF SyscallExit
  <2>4. CASE ~(TimerTick \/ SyscallYield \/ SyscallExit)
    BY <2>4 DEF Next, process_create, process_create_user, Execute, KernelExit,
       OtherInterrupt, Exception, HaltLoop, SyscallReturns, vars
  <2> QED
    BY <2>1, <2>2, <2>3, <2>4
<1> QED
  BY <1>1, Invariance, PTL DEF Spec, ZombieStaysOff

\* No creation that fails loses a page.
THEOREM FailedCreatesReturnPages == Spec => FailedCreateReturnsPages
<1>1. Inv /\ [Next]_vars => [next_pid' = next_pid => free' = free]_vars
  <2> SUFFICES ASSUME Inv, Next PROVE PagesKept
    BY DEF PagesKept
  <2>1. CASE process_create \/ process_create_user
    BY <2>1, CreateInv, CreateUserInv
  <2>2. CASE ~(process_create \/ process_create_user)
    BY <2>2 DEF Next, Execute, KernelExit, TimerTick, OtherInterrupt, Exception, HaltLoop,
       SyscallReturns, SyscallYield, SyscallExit, table, vars, PagesKept
  <2> QED
    BY <2>1, <2>2
<1> QED
  BY <1>1, Invariance, PTL DEF Spec, FailedCreateReturnsPages
==============================================================================
