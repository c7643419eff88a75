--------------------------------- MODULE Isr ---------------------------------
(***************************************************************************)
(* The interrupt path of cpu/idt.asm word by word: what the CPU, the stub  *)
(* and pusha push, what process_save_context copies, and what popa, the    *)
(* fix-up for ring 0 and iretd put back.  Three programs share the CPU:    *)
(*   "B"  the bootstrap process, ring 0, on the boot stack;                *)
(*   "U"  a user process, ring 3, with a kernel stack of its own;          *)
(*   "K"  a process made by process_create, ring 0, on its own stack.      *)
(*                                                                         *)
(* A word's address is <<stack, k>>: k words below the top of that stack.  *)
(* Every other word is a tuple naming where it came from, so a register    *)
(* restored from the wrong word is visible.                                *)
(***************************************************************************)
EXTENDS Integers, Sequences

CONSTANTS
  Versions,     \* how many values of each register a program is seen with
  BootWords,    \* the words of the boot stack
  BootDepths,   \* the words of its stack B uses when interrupted
  KernelWords,  \* the words of K's stack
  KernelDepths, \* the words of its stack K uses when interrupted, from 0 at
                \* the first instruction of process_bootstrap on
  ReturnSlot    \* where process_bootstrap's call of entry() puts its return
                \* address: 12 words below the top in the default build

\* The stacks have room for a frame below every depth; a process is interrupted
\* before it has pushed anything and right after the call of entry(), too.
ASSUME DepthAssumption ==
  /\ BootDepths \subseteq Nat \ {0, 1}
  /\ BootWords \in Nat /\ \A d \in BootDepths : d + 13 =< BootWords
  /\ KernelDepths \subseteq Nat /\ {0, ReturnSlot} \subseteq KernelDepths
  /\ KernelWords \in Nat /\ \A d \in KernelDepths : d + 13 =< KernelWords
  /\ KernelWords >= 15 /\ ReturnSlot > 0

VARIABLES
  mem,      \* the words of the stacks
  regs,     \* the registers
  pc,       \* "run", or the part of the interrupt path that comes next
  current,  \* the program whose registers regs are, or will be
  expect,   \* ghost: the registers each program must be resumed with
  inside,   \* K is inside entry()
  torn      \* K's saved context has lost its eip, cs or eflags

vars == <<mem, regs, pc, current, expect, inside, torn>>

Programs == {"B", "U", "K"}

\* struct cpu_context (cpu_context.h), the order of pusha and iretd.
Fields == <<"edi", "esi", "ebp", "esp", "ebx", "edx", "ecx", "eax", "vector",
            "error_code", "eip", "cs", "eflags", "user_esp", "user_ss">>
Popped == {"edi", "esi", "ebp", "ebx", "edx", "ecx", "eax"}
Field(f) == CHOOSE j \in 1 .. 15 : Fields[j] = f

Above(a, n) == <<a[1], a[2] - n>>
Below(a, n) == <<a[1], a[2] + n>>

Size == [boot |-> BootWords, bootstrap |-> 15, kernel_U |-> 15, kernel_K |-> KernelWords]
Words == UNION {{<<s, k>> : k \in 1 .. Size[s]} : s \in DOMAIN Size}

\* Where each process's context pointer points.
ContextOf(t) ==
  <<CASE t = "B" -> "bootstrap" [] t = "U" -> "kernel_U" [] t = "K" -> "kernel_K", 15>>

Ring(n) == <<"cs", n>>
Zero == <<"zero">>

Registers == Popped \cup {"esp", "eip", "cs", "eflags"}

\* Registers of program t, each with a value of its own.
Own(t, v, esp) ==
  [f \in Registers |->
     CASE f = "esp" -> esp
       [] f = "cs" -> Ring(IF t = "U" THEN 3 ELSE 0)
       [] OTHER -> <<t, f, v>>]

\* The registers a fresh context starts a process with: zero but for these.
Fresh(eip, esp, ring) ==
  [f \in Registers |->
     CASE f = "eip" -> <<eip>> [] f = "esp" -> esp [] f = "cs" -> Ring(ring)
       [] f = "eflags" -> <<"IF_FLAG">> [] OTHER -> Zero]

UserStack(v) == <<"U", "esp", v>>

\* The words process_create and process_create_user put in a new frame.  A
\* kernel process's saved ESP is 20 bytes, five words, below its stack top.
FreshWord(t, f) ==
  CASE f = "eip" -> <<IF t = "K" THEN "process_bootstrap" ELSE "USER_CODE_ADDRESS">>
    [] f = "cs" -> Ring(IF t = "K" THEN 0 ELSE 3)
    [] f = "eflags" -> <<"IF_FLAG">>
    [] f = "esp" /\ t = "K" -> <<"kernel_K", 5>>
    [] f = "user_esp" -> IF t = "K" THEN <<"kernel_K", 0>> ELSE UserStack("top")
    [] f = "user_ss" -> <<IF t = "K" THEN "KERNEL_DS" ELSE "USER_DS">>
    [] OTHER -> Zero

\* A word of its stack that a kernel program has in use.
Live(k) == <<"live", k>>

Return == <<"after the call of entry">>

Init ==
  /\ mem = [a \in Words |->
       IF a[1] = "boot" THEN Live(a[2])
       ELSE IF a[1] = "kernel_U" THEN FreshWord("U", Fields[16 - a[2]])
       ELSE IF a[1] = "kernel_K" /\ a[2] =< 15
            THEN FreshWord("K", Fields[16 - a[2]])
       ELSE Zero]
  /\ \E v \in Versions, d \in BootDepths : regs = Own("B", v, <<"boot", d>>)
  /\ pc = "run" /\ current = "B" /\ inside = FALSE /\ torn = FALSE
  /\ expect = [t \in Programs |->
       CASE t = "B" -> regs
         [] t = "U" -> Fresh("USER_CODE_ADDRESS", UserStack("top"), 3)
         [] t = "K" -> Fresh("process_bootstrap", <<"kernel_K", 0>>, 0)]

-----------------------------------------------------------------------------
(* The programs.                                                           *)

Compute(t, v, esp) ==
  /\ regs' = Own(t, v, esp)
  /\ expect' = [expect EXCEPT ![t] = regs']

\* The memory when stack s is in use down to depth d: what it had in use stays,
\* what it pushes is its own, and below its stack pointer nothing counts.
Push(s, d) ==
  [a \in Words |-> IF a[1] # s \/ (a[2] =< regs["esp"][2] /\ a[2] =< d) THEN mem[a]
                   ELSE IF a[2] =< d THEN Live(a[2]) ELSE Zero]

\* B pushes or pops words of its stack.
ExecuteBoot ==
  /\ pc = "run" /\ current = "B"
  /\ \E v \in Versions, d \in BootDepths :
       Compute("B", v, <<"boot", d>>) /\ mem' = Push("boot", d)
  /\ UNCHANGED <<pc, current, inside, torn>>

ExecuteUser ==
  /\ pc = "run" /\ current = "U"
  /\ \E v \in Versions : Compute("U", v, UserStack(v))
  /\ UNCHANGED <<mem, pc, current, inside, torn>>

\* K pushes or pops words, in process_bootstrap or in entry().
ExecuteKernel ==
  /\ pc = "run" /\ current = "K"
  /\ \E v \in Versions, d \in KernelDepths :
       /\ inside <=> d >= ReturnSlot
       /\ Compute("K", v, <<"kernel_K", d>>) /\ mem' = Push("kernel_K", d)
  /\ UNCHANGED <<pc, current, inside, torn>>

\* process_bootstrap calls entry().
CallEntry ==
  /\ pc = "run" /\ current = "K" /\ ~inside
  /\ inside' = TRUE
  /\ mem' = [Push("kernel_K", ReturnSlot) EXCEPT ![<<"kernel_K", ReturnSlot>>] = Return]
  /\ \E v \in Versions : Compute("K", v, <<"kernel_K", ReturnSlot>>)
  /\ UNCHANGED <<pc, current, torn>>

\* entry() returns: into process_bootstrap, which calls process_exit and ends
\* K, or to wherever the word in the return slot leads.
EntryReturns ==
  /\ pc = "run" /\ current = "K" /\ inside
  /\ pc' = IF mem[<<"kernel_K", ReturnSlot>>] = Return THEN "exited" ELSE "wild"
  /\ UNCHANGED <<mem, regs, current, expect, inside, torn>>

\* process_exit's int $0x20 and the hlt loop, as far as K is concerned.
Stopped == pc \in {"exited", "wild", "fault"} /\ UNCHANGED vars

-----------------------------------------------------------------------------
(* Interrupt entry: the CPU, the stub, pusha.                              *)

\* The top of the frame: the interrupted stack, or the one in the TSS.
FrameTop == IF regs["cs"] = Ring(3) THEN <<"kernel_U", 0>> ELSE regs["esp"]

FrameSize == IF regs["cs"] = Ring(3) THEN 15 ELSE 13

\* What lies in the frame's word for field f; the saved ESP is its value at
\* pusha, below error code, eip, cs and eflags (and, from ring 3, esp, ss).
PushedWord(f) ==
  CASE f = "esp" -> Below(FrameTop, FrameSize - 8)
    [] f = "vector" -> <<"vector">>
    [] f = "error_code" -> Zero
    [] f = "user_esp" -> regs["esp"]
    [] f = "user_ss" -> <<"USER_DS">>
    [] OTHER -> regs[f]

Interrupt ==
  /\ pc = "run"
  /\ LET context == Below(FrameTop, FrameSize) IN
     /\ mem' = [a \in Words |->
          IF a[1] = context[1] /\ a[2] \in context[2] - FrameSize + 1 .. context[2]
          THEN PushedWord(Fields[context[2] - a[2] + 1]) ELSE mem[a]]
     /\ regs' = [regs EXCEPT !["esp"] = context]
  /\ pc' = "handler"
  /\ UNCHANGED <<current, expect, inside, torn>>

-----------------------------------------------------------------------------
(* isr_common_handler.  Its result, in eax, is the context to resume.      *)

\* A kernel process interrupted at the very top of its stack has the next
\* page's words above its 13-word frame.
WordAt(a) == IF a \in Words THEN mem[a] ELSE <<"next page">>

\* The struct assignments of process_save_context copy word by word, the lowest
\* first.  On K's stack source and destination overlap: gap words below its
\* destination, the source's fields from gap + 1 on have been overwritten by
\* the copy when it comes to read them.
Gap(to, context) == IF to[1] = context[1] THEN context[2] - to[2] ELSE 0
Overwritten(j, gap) == 0 < gap /\ gap < j
ReadFrom(j, gap) == IF Overwritten(j, gap) THEN ((j - 1) % gap) + 1 ELSE j

CopiedWord(k, to, context) ==
  WordAt(Above(context, ReadFrom(16 - k, Gap(to, context)) - 1))

\* Mutant: only the words iretd needs are copied.
SavedIretWords(t, context) ==
  LET to == ContextOf(t) IN
  IF t # "B" /\ to = context THEN mem
  ELSE [a \in Words |-> IF a[1] = to[1] /\ a[2] \in 1 .. 7 \cup {12}
                        THEN CopiedWord(a[2], to, context) ELSE mem[a]]

\* process_save_context: copy sizeof(struct cpu_context) bytes.
Saved(t, context) ==
  LET to == ContextOf(t) IN
  IF t # "B" /\ to = context THEN mem
  ELSE [a \in Words |-> IF a[1] = to[1] /\ a[2] \in 1 .. 15
                        THEN CopiedWord(a[2], to, context) ELSE mem[a]]

\* The copy loses one of the three words iretd needs.
Tears(t, context) ==
  \E j \in 11 .. 13 : Overwritten(j, Gap(ContextOf(t), context))

\* The copy reaches the return address of isr_common_handler, which lies two
\* words below the context: on the stack of a process that had pushed nothing.
HitsReturn(t, context) ==
  LET to == ContextOf(t) IN
  t # "B" /\ to # context /\ context[1] = to[1] /\ context[2] + 2 =< 15

\* A handler that returns to the interrupted program.  A system call leaves
\* its result in the eax of the frame.
HandlerReturns ==
  /\ pc = "handler" /\ pc' = "popa"
  /\ regs' = [regs EXCEPT !["eax"] = regs["esp"]]
  /\ \/ UNCHANGED <<mem, expect>>
     \/ /\ current = "U"
        /\ mem' = [mem EXCEPT ![Above(regs["esp"], Field("eax") - 1)] = <<"result">>]
        /\ expect' = [expect EXCEPT !["U"]["eax"] = <<"result">>]
  /\ UNCHANGED <<current, inside, torn>>

\* schedule() switches to another process (which one, see Scheduler).
HandlerSwitches ==
  /\ pc = "handler" /\ pc' = "popa"
  /\ ~HitsReturn(current, regs["esp"])
  /\ mem' = Saved(current, regs["esp"])
  /\ torn' = (torn \/ Tears(current, regs["esp"]))
  /\ \E next \in Programs \ {current} :
       /\ current' = next
       /\ regs' = [regs EXCEPT !["eax"] = ContextOf(next)]
  /\ UNCHANGED <<expect, inside>>

\* schedule() saves the context over the way back to isr_common.
HandlerLost ==
  /\ pc = "handler" /\ pc' = "fault"
  /\ HitsReturn(current, regs["esp"])
  /\ mem' = Saved(current, regs["esp"])
  /\ UNCHANGED <<regs, current, expect, inside, torn>>

-----------------------------------------------------------------------------
(* The return path of isr_common.                                          *)

\* Mutant: the saved ESP is taken for the interrupted ESP.
RebuildAtSavedEsp(edi) == Above(edi, 0)

\* Mutant: one word too high.
RebuildWordTooHigh(edi) == Above(edi, 3)

\* add edi, 8
RebuildAt(edi) == Above(edi, 2)

\* A torn context: iretd is given registers for eip, cs or eflags, and where the
\* CPU goes from there the model does not say.
ResumeTorn ==
  /\ pc = "popa" /\ pc' = "fault"
  /\ current = "K" /\ torn
  /\ UNCHANGED <<mem, regs, current, expect, inside, torn>>

\* mov esp, eax; popa; mov edi, [esp - 20]; add esp, 8.
PopAll ==
  /\ pc = "popa" /\ pc' = "ring"
  /\ ~(current = "K" /\ torn)
  /\ LET context == regs["eax"]
         word(f) == mem[Above(context, Field(f) - 1)]
     IN regs' = [f \in Registers |->
          CASE f = "esp" -> Above(context, 10)
            [] f = "edi" -> word("esp")
            [] f \in Popped \ {"edi"} -> word(f)
            [] OTHER -> regs[f]]
  /\ UNCHANGED <<mem, current, expect, inside, torn>>

\* test byte [esp + 4], 3: back to ring 0, the iret frame is rebuilt where
\* the interrupted stack pointer can be recovered from it.
ReturnFrame ==
  /\ pc = "ring" /\ pc' = "iretd"
  /\ LET esp == regs["esp"]
         to == RebuildAt(regs["edi"])
     IN IF mem[Above(esp, 1)] = Ring(0)
        THEN /\ mem' = [mem EXCEPT ![to] = mem[esp],
                                   ![Above(to, 1)] = mem[Above(esp, 1)],
                                   ![Above(to, 2)] = mem[Above(esp, 2)]]
             /\ regs' = [regs EXCEPT !["eax"] = mem[esp],
                                     !["ebx"] = mem[Above(esp, 1)],
                                     !["ecx"] = mem[Above(esp, 2)],
                                     !["edi"] = to, !["esp"] = to]
        ELSE UNCHANGED <<mem, regs>>
  /\ UNCHANGED <<current, expect, inside, torn>>

\* iretd pops eip, cs and eflags and, back to ring 3, esp and ss.
Iretd ==
  /\ pc = "iretd" /\ pc' = "run"
  /\ LET esp == regs["esp"] IN
     regs' = [regs EXCEPT !["eip"] = mem[esp], !["cs"] = mem[Above(esp, 1)],
                !["eflags"] = mem[Above(esp, 2)],
                !["esp"] = IF mem[Above(esp, 1)] = Ring(3)
                           THEN mem[Above(esp, 3)] ELSE Above(esp, 3)]
  /\ UNCHANGED <<mem, current, expect, inside, torn>>

Next ==
  \/ ExecuteBoot \/ ExecuteUser \/ ExecuteKernel \/ CallEntry \/ EntryReturns \/ Stopped
  \/ Interrupt
  \/ HandlerReturns \/ HandlerSwitches \/ HandlerLost
  \/ ResumeTorn \/ PopAll \/ ReturnFrame \/ Iretd

Spec == Init /\ [][Next]_vars

-----------------------------------------------------------------------------
(* Properties.                                                             *)

\* However many switches ago it was interrupted, a program that runs again goes
\* on at its next instruction, in its ring, with its flags and its own stack
\* pointer (idt.asm:27-42: "so iretd restores the original stack pointer").  The
\* ones that do not come back are kernel processes switched away from with
\* nothing on their stack, or with 3 to 14 words, where the copy of process.c:247
\* tears their context; every other program is not touched by that.
ResumedWhereInterrupted ==
  /\ pc = "run" => \A f \in {"eip", "cs", "eflags", "esp"} :
                     regs[f] = expect[current][f]
  /\ pc = "fault" => current = "K" /\ expect["K"]["esp"][2] \in {0} \cup 3 .. 14

\* The general registers that do survive in a program that runs again: all but
\* edi in ring 3, the result of a system call in eax among them; esi, ebp and
\* edx in ring 0.
SurvivingRegisters ==
  pc = "run" =>
    \A f \in IF current = "U" THEN Popped \ {"edi"} ELSE {"esi", "ebp", "edx"} :
      regs[f] = expect[current][f]

\* An interrupt, a switch away and a switch back never write to the part of
\* the boot stack that the bootstrap process has in use, as long as no torn
\* context has been resumed.
BootStackIntact ==
  \A a \in Words : a[1] = "boot" /\ a[2] =< expect["B"]["esp"][2]
                     => mem[a] = Live(a[2])

\* Every register is as it was when the program was interrupted
\* (CONTRIBUTING.md:66).  It is not: edi is lost on every return, and eax, ebx
\* and ecx on a return to ring 0.
RegistersPreserved ==
  pc = "run" => \A f \in Popped : regs[f] = expect[current][f]

\* A process entry point that returns gets to process_exit, as the comment in
\* process_exit has it (process.c:171-172).  It does not once the process has
\* been preempted: its context is saved over the return address.
EntryReturnReachesExit == pc # "wild"
==============================================================================
