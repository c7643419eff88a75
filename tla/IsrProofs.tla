------------------------------ MODULE IsrProofs ------------------------------
(***************************************************************************)
(* The interrupt path for every depth of the stacks and any number of      *)
(* interrupts and switches: a program that runs again does so where it was *)
(* interrupted, with the registers that survive; the only programs that do *)
(* not are kernel processes switched away from 0 or 3 to 14 words deep;    *)
(* and the live part of the boot stack is not written.  The invariant      *)
(* says, for each point of the path, in which frame the interrupted        *)
(* registers are.                                                          *)
(***************************************************************************)
EXTENDS Isr, TLAPS

-----------------------------------------------------------------------------
(* Addresses and fields.                                                   *)

Stacks == {"boot", "bootstrap", "kernel_U", "kernel_K"}

\* The words of the stacks.
LEMMA WordsAre ==
  /\ Size["boot"] = BootWords /\ Size["bootstrap"] = 15 /\ Size["kernel_U"] = 15
  /\ Size["kernel_K"] = KernelWords
  /\ \A s \in Stacks, k \in Nat : <<s, k>> \in Words <=> k \in 1 .. Size[s]
  /\ \A a \in Words : \E s \in Stacks, k \in Nat : a = <<s, k>> /\ k \in 1 .. Size[s]
<1>1. /\ Size["boot"] = BootWords /\ Size["bootstrap"] = 15 /\ Size["kernel_U"] = 15
      /\ Size["kernel_K"] = KernelWords /\ DOMAIN Size = Stacks
  BY DEF Size, Stacks
<1>2. \A s \in Stacks : Size[s] \in Nat
  BY <1>1, DepthAssumption DEF Stacks
<1> HIDE DEF Size
<1>3. ASSUME NEW s \in Stacks, NEW k \in Nat PROVE <<s, k>> \in Words <=> k \in 1 .. Size[s]
  BY <1>1, <1>2 DEF Words
<1>4. ASSUME NEW a \in Words
      PROVE  \E s \in Stacks, k \in Nat : a = <<s, k>> /\ k \in 1 .. Size[s]
  BY <1>1, <1>2 DEF Words
<1>5. QED
  BY <1>1, <1>3, <1>4

\* Where each field lies in a frame (cpu_context.h).
LEMMA FieldsAre ==
  /\ Field("edi") = 1 /\ Field("esi") = 2 /\ Field("ebp") = 3 /\ Field("esp") = 4
  /\ Field("ebx") = 5 /\ Field("edx") = 6 /\ Field("ecx") = 7 /\ Field("eax") = 8
BY DEF Field, Fields

-----------------------------------------------------------------------------
(* The inductive invariant.                                                *)

\* The frame at <<s, k>> of memory m holds what program t needs to go on with
\* registers e; a kernel program finds its stack pointer through the ESP that
\* pusha saved, five words below it (idt.asm:9-42).
Frame(m, e, t, s, k) ==
  /\ m[<<s, k - 1>>] = e["esi"] /\ m[<<s, k - 2>>] = e["ebp"] /\ m[<<s, k - 5>>] = e["edx"]
  /\ m[<<s, k - 10>>] = e["eip"] /\ m[<<s, k - 11>>] = e["cs"] /\ m[<<s, k - 12>>] = e["eflags"]
  /\ IF t = "U"
     THEN /\ m[<<s, k - 4>>] = e["ebx"] /\ m[<<s, k - 6>>] = e["ecx"]
          /\ m[<<s, k - 7>>] = e["eax"] /\ m[<<s, k - 13>>] = e["esp"]
     ELSE m[<<s, k - 3>>] = Below(e["esp"], 5)

\* The stack an interrupt of t pushes on, the stack t's context is copied to,
\* and the stacks that are t's alone.
Home(t) == IF t = "B" THEN "boot" ELSE IF t = "U" THEN "kernel_U" ELSE "kernel_K"
Shelf(t) == IF t = "B" THEN "bootstrap" ELSE IF t = "U" THEN "kernel_U" ELSE "kernel_K"
Mine(t) == {Home(t), Shelf(t)}

\* The words above the thirteen that every frame has: those in use on the
\* stack of a kernel program, esp and ss of a user program.
Depth(t) == IF t = "U" THEN 2 ELSE expect[t]["esp"][2]

Types ==
  /\ pc \in {"run", "handler", "popa", "ring", "iretd", "exited", "wild", "fault"}
  /\ current \in Programs /\ inside \in BOOLEAN /\ torn \in BOOLEAN
  /\ mem = [a \in Words |-> mem[a]]
  /\ regs = [f \in Registers |-> regs[f]]
  /\ expect = [t \in Programs |-> expect[t]]
  /\ \A t \in Programs : expect[t] = [f \in Registers |-> expect[t][f]]

\* What is known of the registers a program was interrupted with.
Expected ==
  /\ \E d \in BootDepths : expect["B"]["esp"] = <<"boot", d>>
  /\ \E d \in KernelDepths : expect["K"]["esp"] = <<"kernel_K", d>>
  /\ \A t \in Programs : expect[t]["cs"] = Ring(IF t = "U" THEN 3 ELSE 0)

\* The context of t has lost words that iretd needs.
Lost(t) == t = "K" /\ torn

\* A context is torn only at the depths where the copy reads what it has
\* written, and K does not run again with it.
Tearing ==
  /\ torn => Depth("K") \in 3 .. 14 /\ (current = "K" => pc \in {"popa", "fault"})
  /\ pc = "fault" => current = "K" /\ Depth("K") \in {0} \cup 3 .. 14

\* Every program but the current one waits with its registers in its context,
\* unless that is torn.
Shelved ==
  \A t \in Programs \ {current} : ~Lost(t) => Frame(mem, expect[t], t, Shelf(t), 15)

\* The current program's registers, at each point of the path.
General == IF current = "U" THEN Popped \ {"edi"} ELSE {"esi", "ebp", "edx"}

InFrame(s, k) ==
  /\ <<s, k>> \in {<<Home(current), Depth(current) + 13>>, <<Shelf(current), 15>>}
  /\ Frame(mem, expect[current], current, s, k)

AtRun ==
  pc = "run" => \A f \in General \cup {"eip", "cs", "eflags", "esp"} :
                  regs[f] = expect[current][f]

AtHandler ==
  pc = "handler" =>
    /\ regs["esp"] = <<Home(current), Depth(current) + 13>>
    /\ InFrame(Home(current), Depth(current) + 13)

AtPopa ==
  pc = "popa" /\ ~Lost(current) =>
    \E s \in Stacks, k \in Nat : regs["eax"] = <<s, k>> /\ InFrame(s, k)

AtRing ==
  pc = "ring" =>
    /\ \E s \in Stacks, k \in Nat : regs["esp"] = <<s, k - 10>> /\ InFrame(s, k)
    /\ current # "U" => regs["edi"] = Below(expect[current]["esp"], 5)
    /\ \A f \in General : regs[f] = expect[current][f]

AtIretd ==
  pc = "iretd" =>
    /\ \A f \in General : regs[f] = expect[current][f]
    /\ \E s \in Stacks, k \in Nat :
         /\ regs["esp"] = <<s, k>>
         /\ mem[<<s, k>>] = expect[current]["eip"] /\ mem[<<s, k - 1>>] = expect[current]["cs"]
         /\ mem[<<s, k - 2>>] = expect[current]["eflags"]
         /\ IF current = "U" THEN mem[<<s, k - 3>>] = expect[current]["esp"]
            ELSE <<s, k - 3>> = expect[current]["esp"]

Inv ==
  /\ Types /\ Expected /\ Tearing /\ Shelved /\ BootStackIntact
  /\ AtRun /\ AtHandler /\ AtPopa /\ AtRing /\ AtIretd

-----------------------------------------------------------------------------
(* Facts the steps share.                                                  *)

\* Registers and programs, spelled out.
LEMMA Names ==
  /\ Registers = {"edi", "esi", "ebp", "ebx", "edx", "ecx", "eax", "esp", "eip", "cs", "eflags"}
  /\ Programs = {"B", "U", "K"}
  /\ General = IF current = "U" THEN {"esi", "ebp", "ebx", "edx", "ecx", "eax"}
               ELSE {"esi", "ebp", "edx"}
BY DEF Registers, Programs, Popped, General

\* How deep the stacks of the programs are, in words.
LEMMA Depths ==
  ASSUME Inv
  PROVE  /\ \A t \in Programs : Depth(t) \in Nat
         /\ Depth("B") \in BootDepths /\ Depth("B") >= 2 /\ Depth("B") + 13 =< BootWords
         /\ Depth("U") = 2 /\ Depth("K") \in KernelDepths /\ Depth("K") + 13 =< KernelWords
         /\ \A t \in Programs : t # "U" => expect[t]["esp"] = <<Home(t), Depth(t)>>
<1>1. PICK d \in BootDepths : expect["B"]["esp"] = <<"boot", d>>
  BY DEF Inv, Expected
<1>2. PICK e \in KernelDepths : expect["K"]["esp"] = <<"kernel_K", e>>
  BY DEF Inv, Expected
<1>3. Depth("B") = d /\ Depth("U") = 2 /\ Depth("K") = e
  BY <1>1, <1>2 DEF Depth
<1>4. d \in Nat /\ d >= 2 /\ d + 13 =< BootWords /\ e \in Nat /\ e + 13 =< KernelWords
  BY DepthAssumption
<1>5. QED
  BY <1>1, <1>2, <1>3, <1>4 DEF Programs, Home

\* The words a frame of the current program lies in.
LEMMA FrameWords ==
  ASSUME Inv, NEW t \in Programs
  PROVE  /\ Home(t) \in Stacks /\ Shelf(t) \in Stacks
         /\ \A k \in 1 .. Depth(t) + 13 : <<Home(t), k>> \in Words
         /\ \A k \in 1 .. 15 : <<Shelf(t), k>> \in Words
<1>1. /\ Depth(t) \in Nat /\ (t = "B" => Depth(t) + 13 =< BootWords) /\ (t = "U" => Depth(t) = 2)
      /\ (t = "K" => Depth(t) + 13 =< KernelWords)
  BY Depths
<1>2. Home(t) \in Stacks /\ Shelf(t) \in Stacks
  BY DEF Home, Shelf, Stacks
<1>3. Size[Home(t)] >= Depth(t) + 13 /\ Size[Shelf(t)] >= 15
      /\ Size[Home(t)] \in Nat /\ Size[Shelf(t)] \in Nat
  <2>1. CASE t = "B"
    BY <1>1, <2>1, WordsAre, DepthAssumption DEF Home, Shelf
  <2>2. CASE t = "U"
    BY <1>1, <2>2, WordsAre, DepthAssumption DEF Home, Shelf
  <2>3. CASE t = "K"
    BY <1>1, <2>3, WordsAre, DepthAssumption DEF Home, Shelf
  <2>4. QED
    BY <2>1, <2>2, <2>3 DEF Programs
<1>4. ASSUME NEW k \in 1 .. Depth(t) + 13 PROVE <<Home(t), k>> \in Words
  <2>1. k \in Nat /\ k \in 1 .. Size[Home(t)]
    BY <1>1, <1>3
  <2>2. QED
    BY <1>2, <2>1, WordsAre
<1>5. ASSUME NEW k \in 1 .. 15 PROVE <<Shelf(t), k>> \in Words
  <2>1. k \in Nat /\ k \in 1 .. Size[Shelf(t)]
    BY <1>3
  <2>2. QED
    BY <1>2, <2>1, WordsAre
<1>6. QED
  BY <1>2, <1>4, <1>5

\* A frame whose words are as they were is as it was.
Alike(m, n, s, low, high) == \A j \in low .. high : n[<<s, j>>] = m[<<s, j>>]

LEMMA FrameSame ==
  ASSUME NEW m, NEW n, NEW e, NEW t, NEW s, NEW k \in Nat, NEW low \in Nat,
         low + 12 =< k, t = "U" => low + 13 =< k, Alike(m, n, s, low, k), Frame(m, e, t, s, k)
  PROVE  Frame(n, e, t, s, k)
<1>1. /\ k - 1 \in low .. k /\ k - 2 \in low .. k /\ k - 3 \in low .. k /\ k - 4 \in low .. k
      /\ k - 5 \in low .. k /\ k - 6 \in low .. k /\ k - 7 \in low .. k
      /\ k - 10 \in low .. k /\ k - 11 \in low .. k /\ k - 12 \in low .. k
      /\ (t = "U" => k - 13 \in low .. k)
  OBVIOUS
<1>2. QED
  BY <1>1, Zenon DEF Frame, Alike

\* The programs that wait are not disturbed by what happens on the stacks of
\* the current one.
LEMMA ShelvedStays ==
  ASSUME Inv, current' = current, torn' = torn,
         \A t \in Programs \ {current} : expect'[t] = expect[t],
         \A a \in Words : a[1] \notin Mine(current) => mem'[a] = mem[a]
  PROVE  Shelved'
<1> SUFFICES ASSUME NEW t \in Programs \ {current}, ~Lost(t)
             PROVE  Frame(mem', expect[t], t, Shelf(t), 15)
  BY DEF Shelved, Lost
<1>1. Frame(mem, expect[t], t, Shelf(t), 15)
  BY DEF Inv, Shelved
<1>2. current \in Programs /\ Shelf(t) \in Stacks \ Mine(current)
  BY DEF Inv, Types, Programs, Shelf, Stacks, Mine, Home
<1>3. Alike(mem, mem', Shelf(t), 1, 15)
  <2>1. ASSUME NEW j \in 1 .. 15 PROVE mem'[<<Shelf(t), j>>] = mem[<<Shelf(t), j>>]
    <3>1. <<Shelf(t), j>> \in Words /\ <<Shelf(t), j>>[1] \notin Mine(current)
      BY <1>2, FrameWords
    <3>2. QED
      BY <3>1
  <2>2. QED
    BY <2>1 DEF Alike
<1>4. QED
  BY <1>1, <1>3, FrameSame

\* What was torn stays torn while K does not run.
LEMMA TearingStays ==
  ASSUME Inv, torn' = torn, current' = current, expect'["K"]["esp"] = expect["K"]["esp"],
         ~Lost(current), pc' # "fault"
  PROVE  Tearing'
<1>1. Depth("K")' = Depth("K")
  BY DEF Depth
<1>2. QED
  BY <1>1 DEF Inv, Tearing, Lost

\* The current program's context is whole unless it is about to be resumed.
LEMMA NotLost ==
  ASSUME Inv, pc \notin {"popa", "fault"}
  PROVE  ~Lost(current)
BY DEF Inv, Tearing, Lost

-----------------------------------------------------------------------------
(* The programs.                                                           *)

\* The registers a program computes are functions with its code segment.
LEMMA OwnRegisters ==
  ASSUME NEW t, NEW v, NEW esp
  PROVE  /\ Own(t, v, esp) = [f \in Registers |-> Own(t, v, esp)[f]]
         /\ Own(t, v, esp)["esp"] = esp
         /\ Own(t, v, esp)["cs"] = Ring(IF t = "U" THEN 3 ELSE 0)
BY DEF Own, Registers, Popped

\* A program that computes is then expected with what it computed.
LEMMA ComputeEffect ==
  ASSUME Inv, NEW v, NEW esp, Compute(current, v, esp), current' = current
  PROVE  /\ regs' = [f \in Registers |-> regs'[f]]
         /\ expect' = [t \in Programs |-> expect'[t]]
         /\ \A t \in Programs : expect'[t] = [f \in Registers |-> expect'[t][f]]
         /\ expect'[current] = regs' /\ \A t \in Programs \ {current} : expect'[t] = expect[t]
         /\ regs'["esp"] = esp /\ regs'["cs"] = Ring(IF current = "U" THEN 3 ELSE 0)
         /\ pc' = "run" => AtRun'
<1>1. /\ current \in Programs /\ expect = [t \in Programs |-> expect[t]]
      /\ \A t \in Programs : expect[t] = [f \in Registers |-> expect[t][f]]
  BY DEF Inv, Types
<1>2. regs' = Own(current, v, esp) /\ expect' = [expect EXCEPT ![current] = regs']
  BY DEF Compute
<1>3. /\ regs' = [f \in Registers |-> regs'[f]]
      /\ regs'["esp"] = esp /\ regs'["cs"] = Ring(IF current = "U" THEN 3 ELSE 0)
  BY <1>2, OwnRegisters
<1>4. expect'[current] = regs' /\ \A t \in Programs \ {current} : expect'[t] = expect[t]
  BY <1>1, <1>2
<1>5. expect' = [t \in Programs |-> expect'[t]]
  BY <1>1, <1>2
<1>6. \A t \in Programs : expect'[t] = [f \in Registers |-> expect'[t][f]]
  BY <1>1, <1>3, <1>4
<1>7. pc' = "run" => AtRun'
  BY <1>4 DEF AtRun
<1>8. QED
  BY <1>3, <1>4, <1>5, <1>6, <1>7

\* While a program runs, nothing is claimed of the path.
LEMMA RunningOnly ==
  ASSUME pc' \in {"run", "exited", "wild", "fault"}
  PROVE  AtHandler' /\ AtPopa' /\ AtRing' /\ AtIretd'
BY DEF AtHandler, AtPopa, AtRing, AtIretd

\* A program that pushes or pops writes to its own stack only, and to no word
\* it has and keeps in use.
LEMMA PushEffect ==
  ASSUME NEW s, NEW d
  PROVE  /\ Push(s, d) = [a \in Words |-> Push(s, d)[a]]
         /\ \A a \in Words : a[1] # s => Push(s, d)[a] = mem[a]
         /\ \A a \in Words : a[1] = s /\ a[2] =< d =>
              Push(s, d)[a] = IF a[2] =< regs["esp"][2] THEN mem[a] ELSE Live(a[2])
<1>1. Push(s, d) = [a \in Words |->
        IF a[1] # s \/ (a[2] =< regs["esp"][2] /\ a[2] =< d) THEN mem[a]
        ELSE IF a[2] =< d THEN Live(a[2]) ELSE Zero]
  BY DEF Push
<1>2. PICK n : n = Push(s, d)
  OBVIOUS
<1>3. /\ n = [a \in Words |-> n[a]]
      /\ \A a \in Words : a[1] # s => n[a] = mem[a]
      /\ \A a \in Words : a[1] = s /\ a[2] =< d =>
           n[a] = IF a[2] =< regs["esp"][2] THEN mem[a] ELSE Live(a[2])
  BY <1>1, <1>2, Zenon
<1>4. QED
  BY <1>2, <1>3

\* A step of a program on a stack of its own keeps the invariant when what it
\* expects and, on the boot stack, what it has in use are right afterwards.
LEMMA ProgramStep ==
  ASSUME Inv, NEW v, NEW esp, Compute(current, v, esp), pc = "run", pc' = "run",
         current' = current, torn' = torn, inside' \in BOOLEAN,
         mem' = [a \in Words |-> mem'[a]],
         \A a \in Words : a[1] \notin Mine(current) => mem'[a] = mem[a],
         current = "B" => (\E d \in BootDepths : esp = <<"boot", d>>) /\ BootStackIntact',
         current = "K" => \E d \in KernelDepths : esp = <<"kernel_K", d>>
  PROVE  Inv'
<1>1. current \in Programs /\ ~Lost(current) /\ torn \in BOOLEAN
  BY NotLost DEF Inv, Types
<1>2. /\ regs' = [f \in Registers |-> regs'[f]]
      /\ expect' = [t \in Programs |-> expect'[t]]
      /\ \A t \in Programs : expect'[t] = [f \in Registers |-> expect'[t][f]]
      /\ expect'[current] = regs' /\ \A t \in Programs \ {current} : expect'[t] = expect[t]
      /\ regs'["esp"] = esp /\ regs'["cs"] = Ring(IF current = "U" THEN 3 ELSE 0) /\ AtRun'
  BY ComputeEffect
<1>3. Types'
  BY <1>1, <1>2 DEF Types
<1>4. Expected'
  <2>1. /\ \E d \in BootDepths : expect'["B"]["esp"] = <<"boot", d>>
        /\ \E d \in KernelDepths : expect'["K"]["esp"] = <<"kernel_K", d>>
    <3>1. /\ \E d \in BootDepths : expect["B"]["esp"] = <<"boot", d>>
          /\ \E d \in KernelDepths : expect["K"]["esp"] = <<"kernel_K", d>>
      BY DEF Inv, Expected
    <3>2. CASE current = "B"
      BY <1>2, <3>1, <3>2 DEF Programs
    <3>3. CASE current = "U"
      BY <1>2, <3>1, <3>3 DEF Programs
    <3>4. CASE current = "K"
      BY <1>2, <3>1, <3>4 DEF Programs
    <3>5. QED
      BY <1>1, <3>2, <3>3, <3>4 DEF Programs
  <2>2. \A t \in Programs : expect'[t]["cs"] = Ring(IF t = "U" THEN 3 ELSE 0)
    BY <1>2 DEF Inv, Expected
  <2>3. QED
    BY <2>1, <2>2 DEF Expected
<1>5. Tearing'
  <2>1. CASE current = "K"
    BY <1>1, <2>1 DEF Tearing, Lost
  <2>2. CASE current # "K"
    <3>1. expect'["K"]["esp"] = expect["K"]["esp"]
      BY <1>2, <2>2 DEF Programs
    <3>2. QED
      BY <1>1, <3>1, TearingStays
  <2>3. QED
    BY <2>1, <2>2
<1>6. Shelved'
  BY <1>2, ShelvedStays
<1>7. BootStackIntact'
  <2>1. CASE current = "B"
    BY <2>1
  <2>2. CASE current # "B"
    <3>1. expect'["B"] = expect["B"]
      BY <1>2, <2>2 DEF Programs
    <3>2. \A a \in Words : a[1] = "boot" => mem'[a] = mem[a]
      BY <1>1, <2>2 DEF Mine, Home, Shelf, Programs
    <3>3. QED
      BY <3>1, <3>2 DEF Inv, BootStackIntact
  <2>3. QED
    BY <2>1, <2>2
<1>8. QED
  BY <1>2, <1>3, <1>4, <1>5, <1>6, <1>7, RunningOnly DEF Inv

\* The bootstrap process pushes and pops.
LEMMA ExecuteBootInv == ASSUME Inv, ExecuteBoot PROVE Inv'
<1>1. PICK v \in Versions, d \in BootDepths : Compute("B", v, <<"boot", d>>) /\ mem' = Push("boot", d)
  BY DEF ExecuteBoot
<1>2. /\ pc = "run" /\ pc' = "run" /\ current = "B" /\ current' = "B" /\ inside' = inside
      /\ torn' = torn /\ inside \in BOOLEAN
  BY DEF ExecuteBoot, Inv, Types
<1>3. /\ mem' = [a \in Words |-> mem'[a]]
      /\ \A a \in Words : a[1] # "boot" => mem'[a] = mem[a]
      /\ \A a \in Words : a[1] = "boot" /\ a[2] =< d =>
           mem'[a] = IF a[2] =< regs["esp"][2] THEN mem[a] ELSE Live(a[2])
  BY <1>1, PushEffect
<1>4. expect'["B"] = regs' /\ regs'["esp"] = <<"boot", d>>
  BY <1>1, <1>2, ComputeEffect
<1>5. BootStackIntact'
  <2>1. regs["esp"] = expect["B"]["esp"]
    BY <1>2 DEF Inv, AtRun
  <2>2. expect'["B"]["esp"][2] = d
    BY <1>4
  <2>3. ASSUME NEW a \in Words, a[1] = "boot", a[2] =< d PROVE mem'[a] = Live(a[2])
    <3>1. CASE a[2] =< regs["esp"][2]
      BY <1>3, <2>1, <2>3, <3>1, Zenon DEF Inv, BootStackIntact
    <3>2. CASE ~(a[2] =< regs["esp"][2])
      BY <1>3, <2>3, <3>2, Zenon
    <3>3. QED
      BY <3>1, <3>2
  <2>4. QED
    BY <2>2, <2>3 DEF BootStackIntact
<1>6. \A a \in Words : a[1] \notin Mine(current) => mem'[a] = mem[a]
  BY <1>2, <1>3 DEF Mine, Home
<1>7. QED
  BY <1>1, <1>2, <1>3, <1>5, <1>6, ProgramStep

\* The user process computes.
LEMMA ExecuteUserInv == ASSUME Inv, ExecuteUser PROVE Inv'
<1>1. PICK v \in Versions : Compute("U", v, UserStack(v))
  BY DEF ExecuteUser
<1>2. /\ pc = "run" /\ pc' = "run" /\ current = "U" /\ current' = current /\ inside' = inside
      /\ mem' = mem /\ torn' = torn /\ inside \in BOOLEAN /\ mem = [a \in Words |-> mem[a]]
  BY DEF ExecuteUser, Inv, Types
<1>3. QED
  BY <1>1, <1>2, ProgramStep

\* The kernel process pushes and pops.
LEMMA ExecuteKernelInv == ASSUME Inv, ExecuteKernel PROVE Inv'
<1>1. PICK v \in Versions, d \in KernelDepths :
        Compute("K", v, <<"kernel_K", d>>) /\ mem' = Push("kernel_K", d)
  BY DEF ExecuteKernel
<1>2. /\ pc = "run" /\ pc' = "run" /\ current = "K" /\ current' = current /\ inside' = inside
      /\ torn' = torn /\ inside \in BOOLEAN
  BY DEF ExecuteKernel, Inv, Types
<1>3. /\ mem' = [a \in Words |-> mem'[a]]
      /\ \A a \in Words : a[1] # "kernel_K" => mem'[a] = mem[a]
  BY <1>1, PushEffect
<1>4. \A a \in Words : a[1] \notin Mine(current) => mem'[a] = mem[a]
  BY <1>2, <1>3 DEF Mine, Home
<1>5. QED
  BY <1>1, <1>2, <1>3, <1>4, ProgramStep

\* process_bootstrap calls entry() (process.c:20-27).
LEMMA CallEntryInv == ASSUME Inv, CallEntry PROVE Inv'
<1>1. PICK v \in Versions : Compute("K", v, <<"kernel_K", ReturnSlot>>)
  BY DEF CallEntry
<1>2. /\ pc = "run" /\ pc' = "run" /\ current = "K" /\ current' = current /\ inside' \in BOOLEAN
      /\ torn' = torn
      /\ mem' = [Push("kernel_K", ReturnSlot) EXCEPT ![<<"kernel_K", ReturnSlot>>] = Return]
  BY DEF CallEntry
<1>3. /\ mem' = [a \in Words |-> mem'[a]]
      /\ \A a \in Words : a[1] # "kernel_K" => mem'[a] = mem[a]
  <2>1. PICK m : /\ m = Push("kernel_K", ReturnSlot) /\ m = [a \in Words |-> m[a]]
                 /\ \A a \in Words : a[1] # "kernel_K" => m[a] = mem[a]
    BY PushEffect
  <2>2. mem' = [m EXCEPT ![<<"kernel_K", ReturnSlot>>] = Return]
    BY <1>2, <2>1
  <2>3. QED
    BY <2>1, <2>2
<1>4. \A a \in Words : a[1] \notin Mine(current) => mem'[a] = mem[a]
  BY <1>2, <1>3 DEF Mine, Home
<1>5. ReturnSlot \in KernelDepths
  BY DepthAssumption
<1>6. QED
  BY <1>1, <1>2, <1>3, <1>4, <1>5, ProgramStep

\* entry() returns, to process_exit or elsewhere; nothing is claimed after it.
LEMMA EntryReturnsInv == ASSUME Inv, EntryReturns PROVE Inv'
<1>1. /\ pc = "run" /\ pc' \in {"exited", "wild"}
      /\ UNCHANGED <<mem, regs, current, expect, inside, torn>>
  BY DEF EntryReturns
<1>2. Types' /\ Expected' /\ Shelved' /\ BootStackIntact' /\ AtRun'
  BY <1>1 DEF Inv, Types, Expected, Shelved, Lost, BootStackIntact, AtRun
<1>3. Tearing'
  BY <1>1, NotLost, TearingStays
<1>4. QED
  BY <1>1, <1>2, <1>3, RunningOnly DEF Inv

\* Nothing changes.
LEMMA StutterInv == ASSUME Inv, UNCHANGED vars PROVE Inv'
<1>1. /\ mem' = mem /\ regs' = regs /\ pc' = pc /\ current' = current /\ expect' = expect
      /\ inside' = inside /\ torn' = torn
  BY DEF vars
<1>2. Types' /\ Expected' /\ Tearing' /\ Shelved' /\ BootStackIntact'
  BY <1>1 DEF Inv, Types, Expected, Tearing, Depth, Shelved, Lost, BootStackIntact
<1>3. AtRun' /\ AtHandler'
  BY <1>1 DEF Inv, AtRun, AtHandler, General, InFrame, Depth
<1>4. AtPopa' /\ AtRing'
  BY <1>1 DEF Inv, AtPopa, AtRing, General, InFrame, Depth, Lost
<1>5. AtIretd'
  BY <1>1 DEF Inv, AtIretd, General
<1>6. QED
  BY <1>2, <1>3, <1>4, <1>5 DEF Inv

-----------------------------------------------------------------------------
(* The way back.                                                           *)

\* iretd finds eip, cs, eflags and the stack pointer (idt.asm:42).
LEMMA IretdInv == ASSUME Inv, Iretd PROVE Inv'
<1>1. /\ pc = "iretd" /\ pc' = "run" /\ mem' = mem /\ current' = current /\ expect' = expect
      /\ inside' = inside /\ torn' = torn
  BY DEF Iretd
<1>2. PICK s \in Stacks, k \in Nat :
        /\ regs["esp"] = <<s, k>>
        /\ mem[<<s, k>>] = expect[current]["eip"] /\ mem[<<s, k - 1>>] = expect[current]["cs"]
        /\ mem[<<s, k - 2>>] = expect[current]["eflags"]
        /\ IF current = "U" THEN mem[<<s, k - 3>>] = expect[current]["esp"]
           ELSE <<s, k - 3>> = expect[current]["esp"]
  BY <1>1 DEF Inv, AtIretd
<1>3. regs' = [regs EXCEPT !["eip"] = mem[<<s, k>>], !["cs"] = mem[<<s, k - 1>>],
                 !["eflags"] = mem[<<s, k - 2>>],
                 !["esp"] = IF mem[<<s, k - 1>>] = Ring(3) THEN mem[<<s, k - 3>>] ELSE <<s, k - 3>>]
  <2>1. /\ Above(regs["esp"], 1) = <<s, k - 1>> /\ Above(regs["esp"], 2) = <<s, k - 2>>
        /\ Above(regs["esp"], 3) = <<s, k - 3>>
    BY <1>2 DEF Above
  <2>2. QED
    BY <1>2, <2>1, Zenon DEF Iretd
<1>4. regs = [f \in Registers |-> regs[f]] /\ current \in Programs
  BY DEF Inv, Types
<1>5. /\ regs'["eip"] = expect[current]["eip"] /\ regs'["cs"] = expect[current]["cs"]
      /\ regs'["eflags"] = expect[current]["eflags"]
  BY <1>2, <1>3, <1>4, Names
<1>6. regs'["esp"] = expect[current]["esp"]
  <2>1. expect[current]["cs"] = Ring(IF current = "U" THEN 3 ELSE 0)
    BY <1>4 DEF Inv, Expected
  <2>2. (mem[<<s, k - 1>>] = Ring(3)) <=> (current = "U")
    BY <1>2, <2>1 DEF Ring
  <2>3. regs'["esp"] = IF mem[<<s, k - 1>>] = Ring(3) THEN mem[<<s, k - 3>>] ELSE <<s, k - 3>>
    BY <1>3, <1>4, Names
  <2>4. QED
    BY <1>2, <2>2, <2>3
<1>7. \A f \in General : regs'[f] = expect[current][f]
  <2>1. \A f \in General : regs[f] = expect[current][f]
    BY <1>1 DEF Inv, AtIretd
  <2>2. \A f \in General : regs'[f] = regs[f]
    BY <1>3, <1>4, Names
  <2>3. QED
    BY <2>1, <2>2
<1>8. AtRun'
  <2>1. General' = General
    BY <1>1 DEF General
  <2>2. QED
    BY <1>1, <1>5, <1>6, <1>7, <2>1 DEF AtRun
<1>9. regs' = [f \in Registers |-> regs'[f]]
  BY <1>3, <1>4
<1>10. Types' /\ Expected' /\ Shelved' /\ BootStackIntact'
  BY <1>1, <1>9 DEF Inv, Types, Expected, Shelved, Lost, BootStackIntact
<1>11. Tearing'
  BY <1>1, NotLost, TearingStays
<1>12. QED
  BY <1>1, <1>8, <1>10, <1>11, RunningOnly DEF Inv

\* popa takes the general registers from the frame, and edi the saved ESP
\* (idt.asm:24-27).
LEMMA PopAllInv == ASSUME Inv, PopAll PROVE Inv'
<1>1. /\ pc = "popa" /\ pc' = "ring" /\ mem' = mem /\ current' = current /\ expect' = expect
      /\ inside' = inside /\ torn' = torn /\ ~Lost(current)
  BY DEF PopAll, Lost
<1>2. PICK s \in Stacks, k \in Nat : regs["eax"] = <<s, k>> /\ InFrame(s, k)
  BY <1>1 DEF Inv, AtPopa
<1>3. regs' = [f \in Registers |->
                 CASE f = "esp" -> <<s, k - 10>>
                   [] f = "edi" -> mem[<<s, k - (Field("esp") - 1)>>]
                   [] f \in Popped \ {"edi"} -> mem[<<s, k - (Field(f) - 1)>>]
                   [] OTHER -> regs[f]]
  BY <1>2 DEF PopAll, Above
<1>4. /\ regs'["esp"] = <<s, k - 10>>
      /\ regs'["edi"] = mem[<<s, k - 3>>] /\ regs'["esi"] = mem[<<s, k - 1>>]
      /\ regs'["ebp"] = mem[<<s, k - 2>>] /\ regs'["ebx"] = mem[<<s, k - 4>>]
      /\ regs'["edx"] = mem[<<s, k - 5>>] /\ regs'["ecx"] = mem[<<s, k - 6>>]
      /\ regs'["eax"] = mem[<<s, k - 7>>]
  BY <1>3, FieldsAre DEF Registers, Popped
<1>5. Frame(mem, expect[current], current, s, k)
  BY <1>2 DEF InFrame
<1>6. \A f \in General : regs'[f] = expect[current][f]
  BY <1>4, <1>5, Names DEF Frame
<1>7. current # "U" => regs'["edi"] = Below(expect[current]["esp"], 5)
  BY <1>4, <1>5 DEF Frame
<1>8. AtRing'
  <2>1. General' = General /\ InFrame(s, k)'
    BY <1>1, <1>2 DEF General, InFrame, Depth
  <2>2. QED
    BY <1>1, <1>4, <1>6, <1>7, <2>1 DEF AtRing
<1>9. regs' = [f \in Registers |-> regs'[f]]
  BY <1>3
<1>10. Types' /\ Expected' /\ Shelved' /\ BootStackIntact'
  BY <1>1, <1>9 DEF Inv, Types, Expected, Shelved, Lost, BootStackIntact
<1>11. AtRun' /\ AtHandler' /\ AtPopa' /\ AtIretd'
  BY <1>1 DEF AtRun, AtHandler, AtPopa, AtIretd
<1>12. Tearing'
  BY <1>1, TearingStays
<1>13. QED
  BY <1>8, <1>10, <1>11, <1>12 DEF Inv

\* What becomes of a program with a torn context is not claimed.
LEMMA ResumeTornInv == ASSUME Inv, ResumeTorn PROVE Inv'
<1>1. /\ pc = "popa" /\ pc' = "fault" /\ current = "K" /\ torn
      /\ UNCHANGED <<mem, regs, current, expect, inside, torn>>
  BY DEF ResumeTorn
<1>2. Types' /\ Expected' /\ Shelved' /\ BootStackIntact' /\ AtRun'
  BY <1>1 DEF Inv, Types, Expected, Shelved, Lost, BootStackIntact, AtRun
<1>3. Tearing'
  BY <1>1 DEF Inv, Tearing, Depth
<1>4. QED
  BY <1>1, <1>2, <1>3, RunningOnly DEF Inv

\* Memory below the interrupted stack pointer may be written, and any stack but
\* the boot stack.
LEMMA BootStays ==
  ASSUME Inv, expect'["B"]["esp"] = expect["B"]["esp"],
         \A a \in Words : a[1] = "boot" /\ a[2] =< Depth("B") => mem'[a] = mem[a]
  PROVE  BootStackIntact'
<1>1. Depth("B") = expect["B"]["esp"][2]
  BY DEF Depth
<1>2. QED
  BY <1>1 DEF Inv, BootStackIntact

-----------------------------------------------------------------------------
(* Into the kernel.                                                        *)

\* Where the frame of an interrupt goes: below the interrupted stack pointer,
\* or at the top of the kernel stack in the TSS.
LEMMA FramePlace ==
  ASSUME Inv, pc = "run"
  PROVE  /\ FrameSize = IF current = "U" THEN 15 ELSE 13
         /\ FrameTop = <<Home(current), IF current = "U" THEN 0 ELSE Depth(current)>>
         /\ Below(FrameTop, FrameSize) = <<Home(current), Depth(current) + 13>>
         /\ current # "U" => Below(FrameTop, FrameSize - 8) = Below(expect[current]["esp"], 5)
<1>1. current \in Programs /\ regs["cs"] = Ring(IF current = "U" THEN 3 ELSE 0)
  BY DEF Inv, Types, Expected, AtRun
<1>2. regs["cs"] = Ring(3) <=> current = "U"
  BY <1>1 DEF Ring
<1>3. regs["esp"] = expect[current]["esp"]
  BY DEF Inv, AtRun
<1>4. FrameSize = IF current = "U" THEN 15 ELSE 13
  BY <1>2 DEF FrameSize
<1>5. FrameTop = <<Home(current), IF current = "U" THEN 0 ELSE Depth(current)>>
  <2>1. current # "U" => regs["esp"] = <<Home(current), Depth(current)>>
    BY <1>1, <1>3, Depths
  <2>2. QED
    BY <1>2, <2>1 DEF FrameTop, Home
<1>6. Depth(current) \in Nat /\ (current = "U" => Depth(current) = 2)
  BY <1>1, Depths
<1>7. Below(FrameTop, FrameSize) = <<Home(current), Depth(current) + 13>>
  BY <1>4, <1>5, <1>6 DEF Below
<1>8. current # "U" => Below(FrameTop, FrameSize - 8) = Below(expect[current]["esp"], 5)
  BY <1>2, <1>3, <1>4 DEF FrameTop
<1>9. QED
  BY <1>4, <1>5, <1>7, <1>8

\* The CPU, the stub and pusha put the registers where the way back looks for
\* them (idt.asm:9-14).
LEMMA InterruptInv == ASSUME Inv, Interrupt PROVE Inv'
<1> DEFINE s == Home(current)
           k == Depth(current) + 13
           size == IF current = "U" THEN 15 ELSE 13
<1>1. /\ pc = "run" /\ pc' = "handler" /\ current' = current /\ expect' = expect
      /\ inside' = inside /\ torn' = torn
  BY DEF Interrupt
<1>2. FrameSize = size /\ Below(FrameTop, FrameSize) = <<s, k>>
  BY <1>1, FramePlace
<1>3. /\ mem' = [a \in Words |-> IF a[1] = s /\ a[2] \in k - size + 1 .. k
                                 THEN PushedWord(Fields[k - a[2] + 1]) ELSE mem[a]]
      /\ regs' = [regs EXCEPT !["esp"] = <<s, k>>]
  <2>1. <<s, k>>[1] = s /\ <<s, k>>[2] = k
    OBVIOUS
  <2> HIDE DEF s, k, size
  <2>2. QED
    BY <1>2, <2>1, Zenon DEF Interrupt
<1>4. /\ current \in Programs /\ regs = [f \in Registers |-> regs[f]]
      /\ \A f \in General \cup {"eip", "cs", "eflags", "esp"} : regs[f] = expect[current][f]
  BY <1>1 DEF Inv, Types, AtRun
<1>5. Depth(current) \in Nat /\ k \in Nat /\ s \in Stacks /\ (current = "U" => k = 15)
      /\ \A j \in 1 .. k : <<s, j>> \in Words
  <2>1. Depth(current) \in Nat /\ (current = "U" => Depth(current) = 2)
    BY <1>4, Depths
  <2>2. s \in Stacks /\ \A j \in 1 .. k : <<s, j>> \in Words
    BY <1>4, FrameWords, Zenon
  <2>3. QED
    BY <2>1, <2>2
<1>6. ASSUME NEW j \in 0 .. 13, current # "U" => j =< 12
      PROVE  mem'[<<s, k - j>>] = PushedWord(Fields[j + 1])
  <2>1. k - j \in 1 .. k /\ k - j \in k - size + 1 .. k /\ k - (k - j) + 1 = j + 1
    BY <1>4, <1>5, <1>6, Depths
  <2>2. <<s, k - j>> \in Words /\ <<s, k - j>>[1] = s /\ <<s, k - j>>[2] = k - j
    BY <1>5, <2>1
  <2> HIDE DEF s, k, size
  <2>3. mem'[<<s, k - j>>] = PushedWord(Fields[k - (k - j) + 1])
    BY <1>3, <2>1, <2>2, Zenon
  <2>4. QED
    BY <2>1, <2>3
<1>7. /\ PushedWord("esi") = regs["esi"] /\ PushedWord("ebp") = regs["ebp"]
      /\ PushedWord("edx") = regs["edx"] /\ PushedWord("eip") = regs["eip"]
      /\ PushedWord("cs") = regs["cs"] /\ PushedWord("eflags") = regs["eflags"]
      /\ PushedWord("ebx") = regs["ebx"] /\ PushedWord("ecx") = regs["ecx"]
      /\ PushedWord("eax") = regs["eax"] /\ PushedWord("user_esp") = regs["esp"]
      /\ PushedWord("esp") = Below(FrameTop, FrameSize - 8)
  BY DEF PushedWord
<1>8. Frame(mem', expect[current], current, s, k)
  <2>1. /\ mem'[<<s, k - 1>>] = PushedWord("esi") /\ mem'[<<s, k - 2>>] = PushedWord("ebp")
        /\ mem'[<<s, k - 3>>] = PushedWord("esp") /\ mem'[<<s, k - 4>>] = PushedWord("ebx")
        /\ mem'[<<s, k - 5>>] = PushedWord("edx") /\ mem'[<<s, k - 6>>] = PushedWord("ecx")
        /\ mem'[<<s, k - 7>>] = PushedWord("eax") /\ mem'[<<s, k - 10>>] = PushedWord("eip")
        /\ mem'[<<s, k - 11>>] = PushedWord("cs") /\ mem'[<<s, k - 12>>] = PushedWord("eflags")
        /\ current = "U" => mem'[<<s, k - 13>>] = PushedWord("user_esp")
    <3> HIDE DEF s, k, size
    <3>1. /\ Fields[1 + 1] = "esi" /\ Fields[2 + 1] = "ebp" /\ Fields[3 + 1] = "esp"
          /\ Fields[4 + 1] = "ebx" /\ Fields[5 + 1] = "edx" /\ Fields[6 + 1] = "ecx"
          /\ Fields[7 + 1] = "eax" /\ Fields[10 + 1] = "eip" /\ Fields[11 + 1] = "cs"
          /\ Fields[12 + 1] = "eflags" /\ Fields[13 + 1] = "user_esp"
      BY DEF Fields
    <3>2. QED
      BY <1>6, <3>1
  <2>2. /\ regs["eip"] = expect[current]["eip"] /\ regs["cs"] = expect[current]["cs"]
        /\ regs["eflags"] = expect[current]["eflags"] /\ regs["esp"] = expect[current]["esp"]
        /\ regs["esi"] = expect[current]["esi"] /\ regs["ebp"] = expect[current]["ebp"]
        /\ regs["edx"] = expect[current]["edx"]
        /\ current = "U" => /\ regs["ebx"] = expect[current]["ebx"]
                            /\ regs["ecx"] = expect[current]["ecx"]
                            /\ regs["eax"] = expect[current]["eax"]
    BY <1>4, Names
  <2>3. current # "U" => Below(FrameTop, FrameSize - 8) = Below(expect[current]["esp"], 5)
    BY <1>1, FramePlace
  <2> HIDE DEF s, k, size
  <2>4. QED
    BY <1>7, <2>1, <2>2, <2>3, Zenon DEF Frame
<1>9. Depth(current)' = Depth(current) /\ Home(current)' = Home(current)
  BY <1>1 DEF Depth, Home
<1>10. AtHandler'
  <2>1. regs'["esp"] = <<s, k>>
    BY <1>3, <1>4, Names
  <2>2. InFrame(Home(current), Depth(current) + 13)'
    BY <1>1, <1>8, <1>9 DEF InFrame
  <2>3. QED
    BY <1>1, <1>9, <2>1, <2>2 DEF AtHandler
<1>11. regs' = [f \in Registers |-> regs'[f]] /\ mem' = [a \in Words |-> mem'[a]]
  BY <1>3, <1>4
<1>12. Types' /\ Expected'
  BY <1>1, <1>11 DEF Inv, Types, Expected
<1>13. Shelved'
  <2>1. \A a \in Words : a[1] \notin Mine(current) => mem'[a] = mem[a]
    BY <1>3 DEF Mine
  <2>2. QED
    BY <1>1, <2>1, ShelvedStays
<1>14. BootStackIntact'
  <2>1. ASSUME NEW a \in Words, a[1] = "boot", a[2] =< Depth("B") PROVE mem'[a] = mem[a]
    <3>1. CASE current = "B"
      <4>1. ~(a[2] \in k - size + 1 .. k)
        BY <1>5, <2>1, <3>1, WordsAre
      <4>2. QED
        BY <1>3, <4>1
    <3>2. CASE current # "B"
      BY <1>3, <1>4, <2>1, <3>2 DEF Home
    <3>3. QED
      BY <3>1, <3>2
  <2>2. QED
    BY <1>1, <2>1, BootStays
<1>15. AtRun' /\ AtPopa' /\ AtRing' /\ AtIretd'
  BY <1>1 DEF AtRun, AtPopa, AtRing, AtIretd
<1>16. Tearing'
  BY <1>1, NotLost, TearingStays
<1>17. QED
  BY <1>10, <1>12, <1>13, <1>14, <1>15, <1>16 DEF Inv

\* A handler that returns to the interrupted program, perhaps with a result in
\* the eax of its frame (interrupts.c, syscall.c).
LEMMA HandlerReturnsInv == ASSUME Inv, HandlerReturns PROVE Inv'
<1>0. PICK s, k : s = Home(current) /\ k = Depth(current) + 13
  OBVIOUS
<1>1. /\ pc = "handler" /\ pc' = "popa" /\ current' = current /\ inside' = inside /\ torn' = torn
      /\ regs' = [regs EXCEPT !["eax"] = regs["esp"]]
  BY DEF HandlerReturns
<1>2. /\ regs["esp"] = <<s, k>> /\ Frame(mem, expect[current], current, s, k)
  BY <1>0, <1>1 DEF Inv, AtHandler, InFrame
<1>3. current \in Programs /\ regs = [f \in Registers |-> regs[f]]
  BY DEF Inv, Types
<1>4. s \in Stacks /\ k \in Nat
  <2>1. Depth(current) \in Nat
    BY <1>3, Depths
  <2>2. s \in Stacks
    BY <1>0, <1>3, FrameWords, Zenon
  <2>3. QED
    BY <1>0, <2>1, <2>2
<1>5. regs'["eax"] = <<s, k>> /\ regs' = [f \in Registers |-> regs'[f]]
  BY <1>1, <1>2, <1>3, Names
<1>6. AtRun' /\ AtHandler' /\ AtRing' /\ AtIretd'
  BY <1>1 DEF AtRun, AtHandler, AtRing, AtIretd
<1>7. CASE UNCHANGED <<mem, expect>>
  <2>1. Types' /\ Expected' /\ Shelved' /\ BootStackIntact'
    BY <1>1, <1>5, <1>7 DEF Inv, Types, Expected, Shelved, Lost, BootStackIntact
  <2>2. InFrame(s, k)'
    BY <1>0, <1>1, <1>2, <1>7 DEF InFrame, Depth
  <2>3. AtPopa'
    BY <1>4, <1>5, <2>2 DEF AtPopa
  <2>4. Tearing'
    BY <1>1, <1>7, NotLost, TearingStays
  <2>5. QED
    BY <1>6, <2>1, <2>3, <2>4 DEF Inv
<1>8. CASE /\ current = "U"
           /\ mem' = [mem EXCEPT ![Above(regs["esp"], Field("eax") - 1)] = <<"result">>]
           /\ expect' = [expect EXCEPT !["U"]["eax"] = <<"result">>]
  <2>1. /\ mem = [a \in Words |-> mem[a]] /\ expect = [t \in Programs |-> expect[t]]
        /\ \A t \in Programs : expect[t] = [f \in Registers |-> expect[t][f]]
    BY DEF Inv, Types
  <2>2. s = "kernel_U" /\ k = 15
    BY <1>0, <1>8 DEF Home, Depth
  <2>3. mem' = [mem EXCEPT ![<<"kernel_U", 8>>] = <<"result">>]
    <3>1. Above(regs["esp"], Field("eax") - 1) = <<"kernel_U", 8>>
      BY <1>2, <2>2, FieldsAre DEF Above
    <3>2. QED
      BY <1>8, <3>1, Zenon
  <2>4. expect' = [expect EXCEPT !["U"] = [expect["U"] EXCEPT !["eax"] = <<"result">>]]
    BY <1>8
  <2>5. /\ expect' = [t \in Programs |-> expect'[t]]
        /\ \A t \in Programs \ {"U"} : expect'[t] = expect[t]
        /\ expect'["U"] = [expect["U"] EXCEPT !["eax"] = <<"result">>]
    BY <2>1, <2>4, Names
  <2>6. /\ expect'["U"] = [f \in Registers |-> expect'["U"][f]]
        /\ expect'["U"]["eax"] = <<"result">>
        /\ \A f \in Registers \ {"eax"} : expect'["U"][f] = expect["U"][f]
    <3>1. expect["U"] = [f \in Registers |-> expect["U"][f]]
      BY <2>1, Names
    <3>2. QED
      BY <2>5, <3>1, Names
  <2>7. mem' = [a \in Words |-> mem'[a]]
    BY <2>1, <2>3
  <2>8. Types'
    <3>1. \A t \in Programs : expect'[t] = [f \in Registers |-> expect'[t][f]]
      BY <2>1, <2>5, <2>6
    <3>2. QED
      BY <1>1, <1>3, <1>5, <2>5, <2>7, <3>1 DEF Inv, Types
  <2>9. Expected'
    BY <1>1, <2>5, <2>6, Names DEF Inv, Expected
  <2>10. \A a \in Words : a # <<"kernel_U", 8>> => mem'[a] = mem[a]
    BY <2>1, <2>3
  <2>11. Shelved'
    <3>1. \A a \in Words : a[1] \notin Mine(current) => mem'[a] = mem[a]
      BY <1>8, <2>10 DEF Mine, Home
    <3>2. QED
      BY <1>1, <1>8, <2>5, <3>1, ShelvedStays
  <2>12. BootStackIntact'
    <3>1. \A a \in Words : a[1] = "boot" => mem'[a] = mem[a]
      BY <2>10
    <3>2. expect'["B"] = expect["B"]
      BY <2>5, Names
    <3>3. QED
      BY <3>1, <3>2, BootStays
  <2>13. Frame(mem', expect'["U"], "U", "kernel_U", 15)
    <3>1. Frame(mem, expect["U"], "U", "kernel_U", 15)
      BY <1>2, <1>8, <2>2
    <3>2. \A j \in 1 .. 15 : <<"kernel_U", j>> \in Words
      <4>1. Size["kernel_U"] = 15 /\ "kernel_U" \in Stacks
        BY WordsAre DEF Stacks
      <4>2. QED
        BY <4>1, WordsAre
    <3>3. mem'[<<"kernel_U", 8>>] = <<"result">>
      BY <2>1, <2>3, <3>2
    <3>4. \A j \in 1 .. 15 : j # 8 => mem'[<<"kernel_U", j>>] = mem[<<"kernel_U", j>>]
      BY <2>10, <3>2
    <3>5. QED
      BY <2>6, <3>1, <3>3, <3>4, Names DEF Frame
  <2>14. AtPopa'
    <3>1. InFrame("kernel_U", 15)'
      BY <1>1, <1>8, <2>13 DEF InFrame, Shelf
    <3>2. QED
      BY <1>5, <2>2, <3>1 DEF AtPopa, Stacks
  <2>15. Tearing'
    <3>1. expect'["K"] = expect["K"]
      BY <2>5 DEF Programs
    <3>2. QED
      BY <1>1, <3>1, NotLost, TearingStays
  <2>16. QED
    BY <1>6, <2>8, <2>9, <2>11, <2>12, <2>14, <2>15 DEF Inv
<1>9. QED
  BY <1>7, <1>8 DEF HandlerReturns

\* process_save_context writes to the context of the process it saves, and
\* nowhere else (process.c:232-248).
LEMMA SavedElsewhere ==
  ASSUME Inv, NEW context
  PROVE  /\ Saved(current, context) = [a \in Words |-> Saved(current, context)[a]]
         /\ \A a \in Words : a[1] # Shelf(current) => Saved(current, context)[a] = mem[a]
<1>1. mem = [a \in Words |-> mem[a]] /\ current \in Programs
  BY DEF Inv, Types
<1>2. ContextOf(current)[1] = Shelf(current)
  BY <1>1 DEF ContextOf, Shelf, Programs
<1>3. CASE current # "B" /\ ContextOf(current) = context
  <2>1. Saved(current, context) = mem
    BY <1>3 DEF Saved
  <2>2. QED
    BY <1>1, <2>1
<1>4. CASE ~(current # "B" /\ ContextOf(current) = context)
  <2>1. Saved(current, context) =
          [a \in Words |-> IF a[1] = ContextOf(current)[1] /\ a[2] \in 1 .. 15
                           THEN CopiedWord(a[2], ContextOf(current), context) ELSE mem[a]]
    BY <1>4, Zenon DEF Saved
  <2>2. QED
    BY <1>2, <2>1
<1>5. QED
  BY <1>3, <1>4

\* Where the interrupted frame and the context it is copied to lie.
LEMMA CopyPlaces ==
  ASSUME Inv, pc = "handler"
  PROVE  /\ current \in Programs /\ Depth(current) \in Nat
         /\ regs["esp"] = <<Home(current), Depth(current) + 13>>
         /\ ContextOf(current) = <<Shelf(current), 15>>
         /\ Gap(ContextOf(current), regs["esp"]) \in Int
         /\ Gap(ContextOf(current), regs["esp"]) =
              IF current = "K" THEN Depth("K") - 2 ELSE 0
<1>1. current \in Programs
  BY DEF Inv, Types
<1>2. Depth(current) \in Nat /\ Depth("U") = 2
  BY <1>1, Depths
<1>3. regs["esp"] = <<Home(current), Depth(current) + 13>>
  BY DEF Inv, AtHandler
<1>4. ContextOf(current) = <<Shelf(current), 15>>
  BY <1>1 DEF ContextOf, Shelf, Programs
<1>5. PICK h, d, f : h = Home(current) /\ d = Depth(current) /\ f = Shelf(current)
  OBVIOUS
<1>6. /\ h = f <=> current # "B"
      /\ current = "U" => d = 2
      /\ d \in Nat
  BY <1>1, <1>2, <1>5 DEF Home, Shelf, Programs
<1>7. Gap(ContextOf(current), regs["esp"]) = IF f = h THEN (d + 13) - 15 ELSE 0
  BY <1>3, <1>4, <1>5 DEF Gap
<1>8. QED
  BY <1>1, <1>2, <1>3, <1>4, <1>5, <1>6, <1>7 DEF Programs

\* The copy tears a context only on the stack of a kernel process, and only at
\* these depths.
LEMMA TearsWhere ==
  ASSUME Inv, pc = "handler", Tears(current, regs["esp"])
  PROVE  current = "K" /\ Depth("K") \in 3 .. 14
<1>1. PICK j \in 11 .. 13 : Overwritten(j, Gap(ContextOf(current), regs["esp"]))
  BY DEF Tears
<1>2. PICK g \in Int : g = Gap(ContextOf(current), regs["esp"])
  BY CopyPlaces
<1>3. 0 < g /\ g < j
  BY <1>1, <1>2 DEF Overwritten
<1>4. g = IF current = "K" THEN Depth("K") - 2 ELSE 0
  BY <1>2, CopyPlaces
<1>5. current = "K" /\ Depth("K") \in Nat
  BY <1>3, <1>4, CopyPlaces
<1>6. QED
  BY <1>3, <1>4, <1>5

\* It reaches the handler's return address only if nothing lies above it.
LEMMA HitsWhere ==
  ASSUME Inv, pc = "handler", HitsReturn(current, regs["esp"])
  PROVE  current = "K" /\ Depth("K") = 0
<1>1. /\ current # "B" /\ ContextOf(current) # regs["esp"]
      /\ regs["esp"][2] + 2 =< 15
  BY DEF HitsReturn
<1>2. regs["esp"][2] = Depth(current) + 13 /\ Depth(current) \in Nat /\ current \in Programs
  BY CopyPlaces
<1>3. Depth(current) = 0
  BY <1>1, <1>2
<1>4. current # "U"
  BY <1>3 DEF Depth
<1>5. QED
  BY <1>1, <1>2, <1>3, <1>4 DEF Programs

\* Unless it tears it, the copy makes the frame of the interrupt the process's
\* context, also where the two overlap on a kernel process's stack.
LEMMA SavedFrame ==
  ASSUME Inv, pc = "handler", ~Tears(current, regs["esp"])
  PROVE  Frame(Saved(current, regs["esp"]), expect[current], current, Shelf(current), 15)
<1>1. PICK s, k, to, n : /\ s = Home(current) /\ k = Depth(current) + 13 /\ to = Shelf(current)
                         /\ n = Saved(current, regs["esp"])
  OBVIOUS
<1>2. regs["esp"] = <<s, k>> /\ Frame(mem, expect[current], current, s, k)
  BY <1>1 DEF Inv, AtHandler, InFrame
<1>3. current \in Programs
  BY DEF Inv, Types
<1>4. ContextOf(current) = <<to, 15>>
  BY <1>1, <1>3 DEF ContextOf, Shelf, Programs
<1>5. CASE current # "B" /\ <<to, 15>> = <<s, k>>
  <2>1. n = mem
    BY <1>1, <1>2, <1>4, <1>5 DEF Saved
  <2>2. to = s /\ k = 15
    BY <1>5
  <2>3. QED
    BY <1>1, <1>2, <2>1, <2>2
<1>6. CASE ~(current # "B" /\ <<to, 15>> = <<s, k>>)
  <2>1. n = [a \in Words |-> IF a[1] = to /\ a[2] \in 1 .. 15
                             THEN CopiedWord(a[2], <<to, 15>>, <<s, k>>) ELSE mem[a]]
    <3>1. <<to, 15>>[1] = to
      OBVIOUS
    <3>2. QED
      BY <1>1, <1>2, <1>4, <1>6, <3>1, Zenon DEF Saved
  <2>2. current # "U"
    <3>1. current = "U" => to = s /\ k = 15
      BY <1>1 DEF Shelf, Home, Depth
    <3>2. QED
      BY <1>6, <3>1
  <2>3. k \in Nat /\ k >= 13
    <3>1. Depth(current) \in Nat
      BY <1>3, Depths
    <3>2. QED
      BY <1>1, <3>1
  <2>4. /\ \A j \in 1 .. k : <<s, j>> \in Words
        /\ \A j \in 1 .. 15 : <<to, j>> \in Words
    BY <1>1, <1>3, FrameWords, Zenon
  <2>5. ASSUME NEW j \in 0 .. 12 PROVE n[<<to, 15 - j>>] = mem[<<s, k - j>>]
    <3>1. 15 - j \in 1 .. 15 /\ k - j \in 1 .. k /\ 15 - (15 - j) = j
      BY <2>3
    <3>2. /\ <<to, 15 - j>> \in Words /\ <<s, k - j>> \in Words
          /\ <<to, 15 - j>>[1] = to /\ <<to, 15 - j>>[2] = 15 - j
      BY <2>4, <3>1
    <3>3. n[<<to, 15 - j>>] = CopiedWord(15 - j, <<to, 15>>, <<s, k>>)
      BY <2>1, <3>1, <3>2, Zenon
    <3>4. PICK g \in Int : g = Gap(<<to, 15>>, <<s, k>>) /\ \A i \in 11 .. 13 : ~Overwritten(i, g)
      <4>1. Gap(ContextOf(current), regs["esp"]) \in Int
        BY CopyPlaces
      <4>2. QED
        BY <1>2, <1>4, <4>1, Zenon DEF Tears
    <3>5. ~Overwritten(j + 1, g)
      BY <3>4 DEF Overwritten
    <3>6. ReadFrom(j + 1, g) = j + 1
      BY <3>5, Zenon DEF ReadFrom
    <3>7. Above(<<s, k>>, ReadFrom(16 - (15 - j), g) - 1) = <<s, k - j>>
      <4>1. 16 - (15 - j) = j + 1 /\ (j + 1) - 1 = j
        OBVIOUS
      <4>2. QED
        BY <3>6, <4>1 DEF Above
    <3>8. QED
      BY <3>2, <3>3, <3>4, <3>7, Zenon DEF WordAt, CopiedWord
  <2>6. Frame(n, expect[current], current, to, 15)
    <3>1. /\ n[<<to, 15 - 1>>] = mem[<<s, k - 1>>] /\ n[<<to, 15 - 2>>] = mem[<<s, k - 2>>]
          /\ n[<<to, 15 - 3>>] = mem[<<s, k - 3>>] /\ n[<<to, 15 - 5>>] = mem[<<s, k - 5>>]
          /\ n[<<to, 15 - 10>>] = mem[<<s, k - 10>>] /\ n[<<to, 15 - 11>>] = mem[<<s, k - 11>>]
          /\ n[<<to, 15 - 12>>] = mem[<<s, k - 12>>]
      BY <2>5
    <3>2. QED
      BY <1>2, <2>2, <3>1, Zenon DEF Frame
  <2>7. QED
    BY <1>1, <2>6
<1>7. QED
  BY <1>5, <1>6

\* schedule() switches to another process: the interrupted one is saved, the
\* next one's context has been waiting since it was (scheduler.c:18-35).
LEMMA HandlerSwitchesInv == ASSUME Inv, HandlerSwitches PROVE Inv'
<1>1. /\ pc = "handler" /\ pc' = "popa" /\ expect' = expect /\ inside' = inside
      /\ mem' = Saved(current, regs["esp"]) /\ torn' = (torn \/ Tears(current, regs["esp"]))
  BY DEF HandlerSwitches
<1>2. PICK next \in Programs \ {current} :
        current' = next /\ regs' = [regs EXCEPT !["eax"] = ContextOf(next)]
  BY DEF HandlerSwitches
<1>3. current \in Programs /\ regs = [f \in Registers |-> regs[f]] /\ torn \in BOOLEAN
  BY DEF Inv, Types
<1>4. /\ mem' = [a \in Words |-> mem'[a]]
      /\ \A a \in Words : a[1] # Shelf(current) => mem'[a] = mem[a]
  BY <1>1, SavedElsewhere
<1>5. ASSUME NEW t \in Programs, ~Lost(t)' PROVE Frame(mem', expect[t], t, Shelf(t), 15)
  <2>1. CASE t = current
    <3>1. ~Tears(current, regs["esp"])
      BY <1>1, <1>5, <2>1, TearsWhere DEF Lost
    <3>2. QED
      BY <1>1, <2>1, <3>1, SavedFrame
  <2>2. CASE t # current
    <3>1. Frame(mem, expect[t], t, Shelf(t), 15)
      BY <1>1, <1>5, <2>2 DEF Inv, Shelved, Lost
    <3>2. Shelf(t) # Shelf(current)
      BY <1>3, <2>2 DEF Shelf, Programs
    <3>3. \A j \in 1 .. 15 : <<Shelf(t), j>> \in Words
      BY FrameWords
    <3>4. Alike(mem, mem', Shelf(t), 1, 15)
      <4>1. ASSUME NEW j \in 1 .. 15 PROVE mem'[<<Shelf(t), j>>] = mem[<<Shelf(t), j>>]
        <5>1. <<Shelf(t), j>> \in Words /\ <<Shelf(t), j>>[1] # Shelf(current)
          BY <3>2, <3>3
        <5>2. QED
          BY <1>4, <5>1
      <4>2. QED
        BY <4>1 DEF Alike
    <3>5. QED
      BY <3>1, <3>4, FrameSame
  <2>3. QED
    BY <2>1, <2>2
<1>6. Shelved'
  BY <1>1, <1>5 DEF Shelved, Lost
<1>7. regs'["eax"] = <<Shelf(next), 15>> /\ regs' = [f \in Registers |-> regs'[f]]
  <2>1. ContextOf(next) = <<Shelf(next), 15>>
    BY <1>2 DEF ContextOf, Shelf, Programs
  <2>2. QED
    BY <1>2, <1>3, <2>1, Names
<1>8. AtPopa'
  <2>1. PICK s : s = Shelf(next) /\ s \in Stacks
    BY <1>2 DEF Shelf, Stacks
  <2>2. ASSUME ~Lost(current)' PROVE InFrame(s, 15)'
    <3>1. ~Lost(next)' /\ next \in Programs
      BY <1>2, <2>2 DEF Lost
    <3>2. Frame(mem', expect[next], next, s, 15)
      BY <1>5, <2>1, <3>1
    <3>3. QED
      BY <1>1, <1>2, <2>1, <3>2 DEF InFrame
  <2>3. QED
    BY <1>7, <2>1, <2>2 DEF AtPopa
<1>9. Types' /\ Expected'
  <2>1. Types'
    BY <1>1, <1>2, <1>3, <1>4, <1>7 DEF Inv, Types
  <2>2. Expected'
    BY <1>1 DEF Inv, Expected
  <2>3. QED
    BY <2>1, <2>2
<1>10. BootStackIntact'
  <2>1. Shelf(current) # "boot"
    BY DEF Shelf
  <2>2. QED
    BY <1>1, <1>4, <2>1, BootStays
<1>11. AtRun' /\ AtHandler' /\ AtRing' /\ AtIretd'
  BY <1>1 DEF AtRun, AtHandler, AtRing, AtIretd
<1>12. Tearing'
  <2>1. Depth("K")' = Depth("K")
    BY <1>1 DEF Depth
  <2>2. torn => Depth("K") \in 3 .. 14
    BY DEF Inv, Tearing
  <2>3. torn' => Depth("K") \in 3 .. 14
    BY <1>1, <2>2, TearsWhere
  <2>4. QED
    BY <1>1, <2>1, <2>3 DEF Tearing
<1>13. QED
  BY <1>6, <1>8, <1>9, <1>10, <1>11, <1>12 DEF Inv

\* schedule() cannot return: nothing is claimed but which process it was.
LEMMA HandlerLostInv == ASSUME Inv, HandlerLost PROVE Inv'
<1>1. /\ pc = "handler" /\ pc' = "fault" /\ mem' = Saved(current, regs["esp"])
      /\ UNCHANGED <<regs, current, expect, inside, torn>>
      /\ HitsReturn(current, regs["esp"])
  BY DEF HandlerLost
<1>2. current = "K" /\ Depth("K") = 0
  BY <1>1, HitsWhere
<1>3. /\ mem' = [a \in Words |-> mem'[a]]
      /\ \A a \in Words : a[1] # Shelf(current) => mem'[a] = mem[a]
  BY <1>1, SavedElsewhere
<1>4. Types' /\ Expected' /\ AtRun'
  BY <1>1, <1>3 DEF Inv, Types, Expected, AtRun
<1>5. Tearing'
  <2>1. ~torn
    BY <1>1, <1>2, NotLost DEF Lost
  <2>2. Depth("K")' = Depth("K")
    BY <1>1 DEF Depth
  <2>3. QED
    BY <1>1, <1>2, <2>1, <2>2 DEF Tearing
<1>6. Shelved'
  <2>1. \A a \in Words : a[1] \notin Mine(current) => mem'[a] = mem[a]
    BY <1>3 DEF Mine
  <2>2. QED
    BY <1>1, <2>1, ShelvedStays
<1>7. BootStackIntact'
  <2>1. Shelf(current) # "boot"
    BY DEF Shelf
  <2>2. QED
    BY <1>1, <1>3, <2>1, BootStays
<1>8. QED
  BY <1>1, <1>4, <1>5, <1>6, <1>7, RunningOnly DEF Inv

\* Three words of memory written, one above the other, and what they leave.
IretWords(m, s, d, x, y, z) ==
  [m EXCEPT ![<<s, d + 3>>] = x, ![<<s, d + 2>>] = y, ![<<s, d + 1>>] = z]

HoldsThree(m, n, s, d, x, y, z) ==
  /\ n = [a \in Words |-> n[a]]
  /\ n[<<s, d + 3>>] = x /\ n[<<s, d + 2>>] = y /\ n[<<s, d + 1>>] = z
  /\ \A a \in Words : a \notin {<<s, d + 1>>, <<s, d + 2>>, <<s, d + 3>>} => n[a] = m[a]

\* The rebuilt iret frame holds the three words, and nothing else is written.
LEMMA ThreeWrites ==
  ASSUME NEW m, m = [a \in Words |-> m[a]], NEW s, NEW d \in Nat, NEW x, NEW y, NEW z,
         <<s, d + 1>> \in Words, <<s, d + 2>> \in Words, <<s, d + 3>> \in Words
  PROVE  HoldsThree(m, IretWords(m, s, d, x, y, z), s, d, x, y, z)
<1>0. PICK n : n = IretWords(m, s, d, x, y, z)
  OBVIOUS
<1>1. PICK n1 : n1 = [m EXCEPT ![<<s, d + 3>>] = x]
  OBVIOUS
<1>2. PICK n2 : n2 = [n1 EXCEPT ![<<s, d + 2>>] = y]
  OBVIOUS
<1>3. n = [n2 EXCEPT ![<<s, d + 1>>] = z]
  BY <1>0, <1>1, <1>2, Zenon DEF IretWords
<1>4. /\ <<s, d + 3>> # <<s, d + 2>> /\ <<s, d + 3>> # <<s, d + 1>> /\ <<s, d + 2>> # <<s, d + 1>>
  OBVIOUS
<1>5. /\ n1 = [a \in Words |-> n1[a]] /\ n1[<<s, d + 3>>] = x
      /\ \A a \in Words : a # <<s, d + 3>> => n1[a] = m[a]
  BY <1>1
<1>6. /\ n2 = [a \in Words |-> n2[a]] /\ n2[<<s, d + 2>>] = y
      /\ \A a \in Words : a # <<s, d + 2>> => n2[a] = n1[a]
  BY <1>2, <1>5
<1>7. /\ n = [a \in Words |-> n[a]] /\ n[<<s, d + 1>>] = z
      /\ \A a \in Words : a # <<s, d + 1>> => n[a] = n2[a]
  BY <1>3, <1>6
<1>8. HoldsThree(m, n, s, d, x, y, z)
  BY <1>4, <1>5, <1>6, <1>7 DEF HoldsThree
<1>9. QED
  BY <1>0, <1>8

\* Back to ring 0 the iret frame is rebuilt just below the interrupted stack
\* pointer, whatever stack the frame is on; back to ring 3 it is used where it
\* lies (idt.asm:28-41).
LEMMA ReturnFrameInv == ASSUME Inv, ReturnFrame PROVE Inv'
<1>1. /\ pc = "ring" /\ pc' = "iretd" /\ current' = current /\ expect' = expect
      /\ inside' = inside /\ torn' = torn
  BY DEF ReturnFrame
<1>2. PICK s \in Stacks, k \in Nat : regs["esp"] = <<s, k - 10>> /\ InFrame(s, k)
  BY <1>1 DEF Inv, AtRing
<1>3. Frame(mem, expect[current], current, s, k)
  BY <1>2 DEF InFrame
<1>4. /\ current # "U" => regs["edi"] = Below(expect[current]["esp"], 5)
      /\ \A f \in General : regs[f] = expect[current][f]
  BY <1>1 DEF Inv, AtRing
<1>5. /\ current \in Programs /\ regs = [f \in Registers |-> regs[f]]
      /\ mem = [a \in Words |-> mem[a]]
      /\ expect[current]["cs"] = Ring(IF current = "U" THEN 3 ELSE 0)
  BY DEF Inv, Types, Expected
<1>6. /\ mem[<<s, k - 10>>] = expect[current]["eip"] /\ mem[<<s, k - 11>>] = expect[current]["cs"]
      /\ mem[<<s, k - 12>>] = expect[current]["eflags"]
      /\ current = "U" => mem[<<s, k - 13>>] = expect[current]["esp"]
  BY <1>3 DEF Frame
<1>7. Above(regs["esp"], 1) = <<s, k - 11>> /\ Above(regs["esp"], 2) = <<s, k - 12>>
  BY <1>2 DEF Above
<1>8. mem[Above(regs["esp"], 1)] = Ring(0) <=> current # "U"
  <2>1. mem[Above(regs["esp"], 1)] = expect[current]["cs"]
    BY <1>6, <1>7, Zenon
  <2>2. Ring(3) # Ring(0)
    BY DEF Ring
  <2>3. QED
    BY <1>5, <2>1, <2>2, Zenon
<1>9. AtRun' /\ AtHandler' /\ AtPopa' /\ AtRing' /\ Tearing'
  <2>1. AtRun' /\ AtHandler' /\ AtPopa' /\ AtRing'
    BY <1>1 DEF AtRun, AtHandler, AtPopa, AtRing
  <2>2. Tearing'
    BY <1>1, NotLost, TearingStays
  <2>3. QED
    BY <2>1, <2>2
<1>10. CASE current = "U"
  <2>1. mem' = mem /\ regs' = regs
    BY <1>8, <1>10, Zenon DEF ReturnFrame
  <2>2. Types' /\ Expected' /\ Shelved' /\ BootStackIntact'
    BY <1>1, <2>1 DEF Inv, Types, Expected, Shelved, Lost, BootStackIntact
  <2>3. k = 15
    BY <1>2, <1>10 DEF InFrame, Depth
  <2>4. AtIretd'
    <3>1. General' = General
      BY <1>1 DEF General
    <3>2. /\ regs["esp"] = <<s, 5>> /\ mem[<<s, 5>>] = expect[current]["eip"]
          /\ mem[<<s, 5 - 1>>] = expect[current]["cs"]
          /\ mem[<<s, 5 - 2>>] = expect[current]["eflags"]
          /\ mem[<<s, 5 - 3>>] = expect[current]["esp"]
      BY <1>2, <1>6, <1>10, <2>3
    <3>3. QED
      BY <1>1, <1>4, <1>10, <2>1, <3>1, <3>2 DEF AtIretd
  <2>5. QED
    BY <1>9, <2>2, <2>4 DEF Inv
<1>11. CASE current # "U"
  <2>1. PICK h, d : h = Home(current) /\ d = Depth(current)
    OBVIOUS
  <2>2. d \in Nat /\ expect[current]["esp"] = <<h, d>>
    BY <1>5, <1>11, <2>1, Depths
  <2>3. h \in Stacks /\ \A j \in 1 .. d + 13 : <<h, j>> \in Words
    BY <1>5, <2>1, FrameWords, Zenon
  <2>4. <<h, d + 1>> \in Words /\ <<h, d + 2>> \in Words /\ <<h, d + 3>> \in Words
    BY <2>2, <2>3
  <2>5. /\ RebuildAt(regs["edi"]) = <<h, d + 3>> /\ Above(<<h, d + 3>>, 1) = <<h, d + 2>>
        /\ Above(<<h, d + 3>>, 2) = <<h, d + 1>>
    BY <1>4, <1>11, <2>2 DEF RebuildAt, Above, Below
  <2>6. /\ mem' = [mem EXCEPT ![<<h, d + 3>>] = expect[current]["eip"],
                              ![<<h, d + 2>>] = expect[current]["cs"],
                              ![<<h, d + 1>>] = expect[current]["eflags"]]
        /\ regs' = [regs EXCEPT !["eax"] = mem[regs["esp"]],
                                !["ebx"] = mem[Above(regs["esp"], 1)],
                                !["ecx"] = mem[Above(regs["esp"], 2)],
                                !["edi"] = <<h, d + 3>>, !["esp"] = <<h, d + 3>>]
    <3>1. /\ mem[regs["esp"]] = expect[current]["eip"]
          /\ mem[Above(regs["esp"], 1)] = expect[current]["cs"]
          /\ mem[Above(regs["esp"], 2)] = expect[current]["eflags"]
      BY <1>2, <1>6, <1>7, Zenon
    <3>2. QED
      BY <1>8, <1>11, <2>5, <3>1, Zenon DEF ReturnFrame
  <2>7. /\ mem' = [a \in Words |-> mem'[a]]
        /\ mem'[<<h, d + 3>>] = expect[current]["eip"]
        /\ mem'[<<h, d + 2>>] = expect[current]["cs"]
        /\ mem'[<<h, d + 1>>] = expect[current]["eflags"]
        /\ \A a \in Words : a \notin {<<h, d + 1>>, <<h, d + 2>>, <<h, d + 3>>}
                              => mem'[a] = mem[a]
    <3>1. mem' = IretWords(mem, h, d, expect[current]["eip"], expect[current]["cs"],
                           expect[current]["eflags"])
      BY <2>6 DEF IretWords
    <3>2. HoldsThree(mem, mem', h, d, expect[current]["eip"], expect[current]["cs"],
                     expect[current]["eflags"])
      BY <1>5, <2>2, <2>4, <3>1, ThreeWrites
    <3>3. QED
      BY <3>2 DEF HoldsThree
  <2>8. regs'["esp"] = <<h, d + 3>> /\ regs' = [f \in Registers |-> regs'[f]]
        /\ \A f \in General : regs'[f] = regs[f]
    BY <1>5, <1>11, <2>6, Names
  <2>9. AtIretd'
    <3>1. General' = General
      BY <1>1 DEF General
    <3>2. d + 3 \in Nat /\ (d + 3) - 1 = d + 2 /\ (d + 3) - 2 = d + 1 /\ (d + 3) - 3 = d
      BY <2>2
    <3>3. PICK j \in Nat : j = d + 3 /\ j - 1 = d + 2 /\ j - 2 = d + 1 /\ j - 3 = d
      BY <3>2
    <3>4. /\ regs'["esp"] = <<h, j>> /\ mem'[<<h, j>>] = expect[current]["eip"]
          /\ mem'[<<h, j - 1>>] = expect[current]["cs"]
          /\ mem'[<<h, j - 2>>] = expect[current]["eflags"]
          /\ <<h, j - 3>> = expect[current]["esp"]
      BY <2>2, <2>7, <2>8, <3>3
    <3>5. QED
      BY <1>1, <1>4, <1>11, <2>3, <2>8, <3>1, <3>4 DEF AtIretd
  <2>10. Types' /\ Expected'
    <3>1. Types'
      BY <1>1, <2>7, <2>8 DEF Inv, Types
    <3>2. Expected'
      BY <1>1 DEF Inv, Expected
    <3>3. QED
      BY <3>1, <3>2
  <2>11. Shelved'
    <3>1. ASSUME NEW a \in Words, a[1] \notin Mine(current) PROVE mem'[a] = mem[a]
      <4>1. a[1] # h
        BY <2>1, <3>1 DEF Mine
      <4>2. QED
        BY <2>7, <4>1
    <3>2. QED
      BY <1>1, <3>1, ShelvedStays
  <2>12. BootStackIntact'
    <3>1. ASSUME NEW a \in Words, a[1] = "boot", a[2] =< Depth("B") PROVE mem'[a] = mem[a]
      <4>1. a \notin {<<h, d + 1>>, <<h, d + 2>>, <<h, d + 3>>}
        BY <1>5, <2>1, <2>2, <3>1 DEF Home, Programs
      <4>2. QED
        BY <2>7, <4>1
    <3>2. QED
      BY <1>1, <3>1, BootStays
  <2>13. QED
    BY <1>9, <2>9, <2>10, <2>11, <2>12 DEF Inv
<1>12. QED
  BY <1>10, <1>11

-----------------------------------------------------------------------------
(* The specification.                                                      *)

\* The registers a process starts with.
Starts(e, eip, esp, ring) ==
  /\ e = [f \in Registers |-> e[f]]
  /\ \A f \in {"esi", "ebp", "ebx", "edx", "ecx", "eax"} : e[f] = Zero
  /\ e["eip"] = <<eip>> /\ e["esp"] = esp /\ e["cs"] = Ring(ring) /\ e["eflags"] = <<"IF_FLAG">>

\* Fresh is what it says.
LEMMA FreshRegisters ==
  ASSUME NEW eip, NEW esp, NEW ring
  PROVE  Starts(Fresh(eip, esp, ring), eip, esp, ring)
BY DEF Starts, Fresh, Registers, Popped

\* The frames process_create and process_create_user make start their
\* processes with the registers they are meant to (process.c:91-103, 150-160).
LEMMA FreshFrames ==
  ASSUME Init
  PROVE  /\ Frame(mem, expect["U"], "U", "kernel_U", 15)
         /\ Frame(mem, expect["K"], "K", "kernel_K", 15)
<1>1. /\ mem = [a \in Words |->
           IF a[1] = "boot" THEN Live(a[2])
           ELSE IF a[1] = "kernel_U" THEN FreshWord("U", Fields[16 - a[2]])
           ELSE IF a[1] = "kernel_K" /\ a[2] =< 15 THEN FreshWord("K", Fields[16 - a[2]])
           ELSE Zero]
      /\ expect["U"] = Fresh("USER_CODE_ADDRESS", UserStack("top"), 3)
      /\ expect["K"] = Fresh("process_bootstrap", <<"kernel_K", 0>>, 0)
  BY DEF Init, Programs
<1>2. ASSUME NEW k \in 1 .. 15
      PROVE  <<"kernel_U", k>> \in Words /\ <<"kernel_K", k>> \in Words
  <2>1. /\ "kernel_U" \in Stacks /\ "kernel_K" \in Stacks /\ Size["kernel_U"] = 15
        /\ Size["kernel_K"] \in Nat /\ Size["kernel_K"] >= 15
    BY WordsAre, DepthAssumption DEF Stacks
  <2>2. k \in Nat /\ k \in 1 .. Size["kernel_U"] /\ k \in 1 .. Size["kernel_K"]
    BY <2>1
  <2>3. QED
    BY <2>1, <2>2, WordsAre
<1>3. ASSUME NEW j \in 1 .. 15
      PROVE  /\ mem[<<"kernel_U", 16 - j>>] = FreshWord("U", Fields[j])
             /\ mem[<<"kernel_K", 16 - j>>] = FreshWord("K", Fields[j])
  <2>1. 16 - j \in 1 .. 15 /\ 16 - (16 - j) = j
    OBVIOUS
  <2>2. <<"kernel_U", 16 - j>> \in Words /\ <<"kernel_K", 16 - j>> \in Words
    BY <1>2, <2>1
  <2>3. QED
    BY <1>1, <2>1, <2>2
<1>4. /\ Fields[2] = "esi" /\ Fields[3] = "ebp" /\ Fields[4] = "esp" /\ Fields[5] = "ebx"
      /\ Fields[6] = "edx" /\ Fields[7] = "ecx" /\ Fields[8] = "eax" /\ Fields[11] = "eip"
      /\ Fields[12] = "cs" /\ Fields[13] = "eflags" /\ Fields[14] = "user_esp"
  BY DEF Fields
<1>5. ASSUME NEW t \in {"U", "K"}, NEW s, (s = "kernel_U" /\ t = "U") \/ (s = "kernel_K" /\ t = "K")
      PROVE  /\ mem[<<s, 15 - 1>>] = FreshWord(t, "esi") /\ mem[<<s, 15 - 2>>] = FreshWord(t, "ebp")
             /\ mem[<<s, 15 - 3>>] = FreshWord(t, "esp") /\ mem[<<s, 15 - 4>>] = FreshWord(t, "ebx")
             /\ mem[<<s, 15 - 5>>] = FreshWord(t, "edx") /\ mem[<<s, 15 - 6>>] = FreshWord(t, "ecx")
             /\ mem[<<s, 15 - 7>>] = FreshWord(t, "eax") /\ mem[<<s, 15 - 10>>] = FreshWord(t, "eip")
             /\ mem[<<s, 15 - 11>>] = FreshWord(t, "cs")
             /\ mem[<<s, 15 - 12>>] = FreshWord(t, "eflags")
             /\ mem[<<s, 15 - 13>>] = FreshWord(t, "user_esp")
  <2>1. \A j \in 1 .. 15 : mem[<<s, 16 - j>>] = FreshWord(t, Fields[j])
    BY <1>3, <1>5
  <2>2. /\ mem[<<s, 16 - 2>>] = FreshWord(t, Fields[2]) /\ mem[<<s, 16 - 3>>] = FreshWord(t, Fields[3])
        /\ mem[<<s, 16 - 4>>] = FreshWord(t, Fields[4]) /\ mem[<<s, 16 - 5>>] = FreshWord(t, Fields[5])
        /\ mem[<<s, 16 - 6>>] = FreshWord(t, Fields[6]) /\ mem[<<s, 16 - 7>>] = FreshWord(t, Fields[7])
        /\ mem[<<s, 16 - 8>>] = FreshWord(t, Fields[8])
        /\ mem[<<s, 16 - 11>>] = FreshWord(t, Fields[11])
        /\ mem[<<s, 16 - 12>>] = FreshWord(t, Fields[12])
        /\ mem[<<s, 16 - 13>>] = FreshWord(t, Fields[13])
        /\ mem[<<s, 16 - 14>>] = FreshWord(t, Fields[14])
    BY <2>1
  <2>3. QED
    BY <1>4, <2>2
<1>6. /\ \A t \in {"U", "K"} : \A f \in {"esi", "ebp", "ebx", "edx", "ecx", "eax"} :
           FreshWord(t, f) = Zero
      /\ FreshWord("U", "eip") = <<"USER_CODE_ADDRESS">>
      /\ FreshWord("K", "eip") = <<"process_bootstrap">>
      /\ FreshWord("U", "cs") = Ring(3) /\ FreshWord("K", "cs") = Ring(0)
      /\ FreshWord("U", "eflags") = <<"IF_FLAG">> /\ FreshWord("K", "eflags") = <<"IF_FLAG">>
      /\ FreshWord("K", "esp") = <<"kernel_K", 5>> /\ FreshWord("U", "user_esp") = UserStack("top")
  BY DEF FreshWord
<1>7. Frame(mem, expect["U"], "U", "kernel_U", 15)
  <2>1. /\ \A f \in {"esi", "ebp", "ebx", "edx", "ecx", "eax"} : expect["U"][f] = Zero
        /\ expect["U"]["eip"] = <<"USER_CODE_ADDRESS">> /\ expect["U"]["esp"] = UserStack("top")
        /\ expect["U"]["cs"] = Ring(3) /\ expect["U"]["eflags"] = <<"IF_FLAG">>
    <3>1. Starts(expect["U"], "USER_CODE_ADDRESS", UserStack("top"), 3)
      BY <1>1, FreshRegisters
    <3>2. QED
      BY <3>1, Zenon DEF Starts
  <2>2. /\ mem[<<"kernel_U", 15 - 1>>] = Zero /\ mem[<<"kernel_U", 15 - 2>>] = Zero
        /\ mem[<<"kernel_U", 15 - 4>>] = Zero /\ mem[<<"kernel_U", 15 - 5>>] = Zero
        /\ mem[<<"kernel_U", 15 - 6>>] = Zero /\ mem[<<"kernel_U", 15 - 7>>] = Zero
        /\ mem[<<"kernel_U", 15 - 10>>] = <<"USER_CODE_ADDRESS">>
        /\ mem[<<"kernel_U", 15 - 11>>] = Ring(3) /\ mem[<<"kernel_U", 15 - 12>>] = <<"IF_FLAG">>
        /\ mem[<<"kernel_U", 15 - 13>>] = UserStack("top")
    BY <1>5, <1>6
  <2>3. QED
    BY <2>1, <2>2, Zenon DEF Frame
<1>8. Frame(mem, expect["K"], "K", "kernel_K", 15)
  <2>1. /\ \A f \in {"esi", "ebp", "ebx", "edx", "ecx", "eax"} : expect["K"][f] = Zero
        /\ expect["K"]["eip"] = <<"process_bootstrap">> /\ expect["K"]["esp"] = <<"kernel_K", 0>>
        /\ expect["K"]["cs"] = Ring(0) /\ expect["K"]["eflags"] = <<"IF_FLAG">>
    <3>1. Starts(expect["K"], "process_bootstrap", <<"kernel_K", 0>>, 0)
      BY <1>1, FreshRegisters
    <3>2. QED
      BY <3>1, Zenon DEF Starts
  <2>2. Below(expect["K"]["esp"], 5) = <<"kernel_K", 5>>
    BY <2>1 DEF Below
  <2>3. QED
    BY <1>5, <1>6, <2>1, <2>2 DEF Frame
<1>9. QED
  BY <1>7, <1>8

\* The bootstrap process runs, the others wait in the frames made for them.
LEMMA InitInv == ASSUME Init PROVE Inv
<1>1. pc = "run" /\ current = "B" /\ inside = FALSE /\ torn = FALSE
  BY DEF Init
<1>2. PICK v \in Versions, d \in BootDepths : regs = Own("B", v, <<"boot", d>>)
  BY DEF Init
<1>3. /\ expect = [t \in Programs |-> expect[t]] /\ expect["B"] = regs
      /\ expect["U"] = Fresh("USER_CODE_ADDRESS", UserStack("top"), 3)
      /\ expect["K"] = Fresh("process_bootstrap", <<"kernel_K", 0>>, 0)
  BY DEF Init, Programs
<1>4. /\ mem = [a \in Words |-> mem[a]]
      /\ \A a \in Words : a[1] = "boot" => mem[a] = Live(a[2])
  BY DEF Init
<1>5. /\ regs = [f \in Registers |-> regs[f]] /\ regs["esp"] = <<"boot", d>>
      /\ regs["cs"] = Ring(0)
  BY <1>2, OwnRegisters
<1>6. /\ expect["U"] = [f \in Registers |-> expect["U"][f]]
      /\ expect["K"] = [f \in Registers |-> expect["K"][f]]
      /\ expect["U"]["cs"] = Ring(3) /\ expect["K"]["cs"] = Ring(0)
      /\ expect["K"]["esp"] = <<"kernel_K", 0>>
  <2>1. /\ Starts(expect["U"], "USER_CODE_ADDRESS", UserStack("top"), 3)
        /\ Starts(expect["K"], "process_bootstrap", <<"kernel_K", 0>>, 0)
    BY <1>3, FreshRegisters
  <2>2. QED
    BY <2>1, Zenon DEF Starts
<1>7. Types
  BY <1>1, <1>3, <1>4, <1>5, <1>6, Names DEF Types
<1>8. Expected /\ Tearing
  BY <1>1, <1>3, <1>5, <1>6, Names, DepthAssumption DEF Expected, Tearing
<1>9. Shelved
  BY <1>1, FreshFrames DEF Shelved, Programs, Shelf
<1>10. BootStackIntact
  BY <1>4 DEF BootStackIntact
<1>11. AtRun /\ AtHandler /\ AtPopa /\ AtRing /\ AtIretd
  BY <1>1, <1>3 DEF AtRun, AtHandler, AtPopa, AtRing, AtIretd
<1>12. QED
  BY <1>7, <1>8, <1>9, <1>10, <1>11 DEF Inv

\* Every step of the programs, the CPU and the interrupt path keeps it.
LEMMA NextInv == ASSUME Inv, [Next]_vars PROVE Inv'
<1>1. CASE ExecuteBoot
  BY <1>1, ExecuteBootInv
<1>2. CASE ExecuteUser \/ ExecuteKernel
  BY <1>2, ExecuteUserInv, ExecuteKernelInv
<1>3. CASE CallEntry
  BY <1>3, CallEntryInv
<1>4. CASE EntryReturns
  BY <1>4, EntryReturnsInv
<1>5. CASE Interrupt
  BY <1>5, InterruptInv
<1>6. CASE HandlerReturns
  BY <1>6, HandlerReturnsInv
<1>7. CASE HandlerSwitches \/ HandlerLost
  BY <1>7, HandlerSwitchesInv, HandlerLostInv
<1>8. CASE PopAll \/ ResumeTorn
  BY <1>8, PopAllInv, ResumeTornInv
<1>9. CASE ReturnFrame
  BY <1>9, ReturnFrameInv
<1>10. CASE Iretd
  BY <1>10, IretdInv
<1>11. CASE Stopped \/ UNCHANGED vars
  BY <1>11, StutterInv DEF Stopped
<1>12. QED
  BY <1>1, <1>2, <1>3, <1>4, <1>5, <1>6, <1>7, <1>8, <1>9, <1>10, <1>11 DEF Next

LEMMA Invariance == Spec => []Inv
<1>1. Init => Inv
  BY InitInv
<1>2. Inv /\ [Next]_vars => Inv'
  BY NextInv
<1>3. QED
  BY <1>1, <1>2, PTL DEF Spec

\* However deep the stacks, whichever ring was interrupted and however many
\* switches lie between, a program that runs again goes on at the interrupted
\* instruction, in its ring, with its flags and stack pointer (idt.asm:28-42);
\* the only programs that do not run again are kernel processes switched away
\* from 0 or 3 to 14 words deep (process.c:247).
THEOREM ResumesWhereInterrupted == Spec => []ResumedWhereInterrupted
<1>1. Inv => ResumedWhereInterrupted
  BY DEF Inv, AtRun, Tearing, Depth, ResumedWhereInterrupted
<1>2. QED
  BY <1>1, Invariance, PTL

\* A user program that runs again has all its general registers but edi, or the
\* result of its system call in eax; a kernel program esi, ebp and edx
\* (idt.asm:24-41).
THEOREM RegistersSurvive == Spec => []SurvivingRegisters
<1>1. Inv => SurvivingRegisters
  BY DEF Inv, AtRun, General, SurvivingRegisters
<1>2. QED
  BY <1>1, Invariance, PTL

\* No interrupt frame, saved context or rebuilt iret frame is written over the
\* part of the boot stack that the bootstrap process has in use (idt.asm:28-41,
\* process.c:232-248).
THEOREM BootStackKept == Spec => []BootStackIntact
<1>1. Inv => BootStackIntact
  BY DEF Inv
<1>2. QED
  BY <1>1, Invariance, PTL
=============================================================================
