---------------------------- MODULE AddressSpace ----------------------------
(***************************************************************************)
(* Page directories and page tables (memory/paging.c), how the creation of *)
(* processes uses them (process.c), and the range check that guards        *)
(* SYS_WRITE (syscall.c).                                                  *)
(*                                                                         *)
(* A page is a page number, physical or virtual; 0 is the null address.    *)
(* mem holds what the MMU reads: a directory or a table is a page of       *)
(* Entries entries.  A virtual page v is entry v % Entries of the table    *)
(* that directory entry v \div Entries names.  The kernel writes these     *)
(* pages through their identity mapping: mem stands for what it wrote on a *)
(* machine without memory at or above USER_CODE_ADDRESS.  Elsewhere it     *)
(* need not, which is what the violation of PmmPagesAddressable says.      *)
(***************************************************************************)
EXTENDS Integers, FiniteSets

CONSTANTS
  Entries,        \* 1024
  PageBytes,      \* 4096
  PageDirectory,  \* the page of page_directory
  IdentityTable,  \* [0 .. 3 -> page of identity_tables[i]]
  PmmPages,       \* the pages the allocator owns
  MaxUsers        \* bound on the number of user processes

Index == 0 .. Entries - 1
Tables == DOMAIN IdentityTable
Recursive == Entries - 1
Null == 0

\* USER_CODE_ADDRESS is the first, USER_STACK_TOP - 4096 the last page of
\* directory entry 1.
UserCodePage == Entries
UserStackPage == 2 * Entries - 1

\* The 0xc0000000 of user_range_valid, in bytes, and the width of uint32_t.
UserLimit == (Entries - Entries \div 4) * Entries * PageBytes
Wide == Entries * Entries * PageBytes

\* page_directory and identity_tables are static arrays, a page each; the
\* identity mapping ends before the user limit.
ASSUME LayoutAssumption ==
  /\ Entries \in Nat /\ Entries >= 8
  /\ PageBytes \in Nat \ {0}
  /\ {0, 1} \subseteq Tables /\ Tables \subseteq 0 .. Entries - Entries \div 4 - 2
  /\ PmmPages \subseteq Nat \ {0}
  /\ PageDirectory \in Nat \ ({0} \cup PmmPages)
  /\ \A t \in Tables : IdentityTable[t] \in Nat \ ({0, PageDirectory} \cup PmmPages)
  /\ \A t, u \in Tables : IdentityTable[t] = IdentityTable[u] => t = u

VARIABLES
  mem,       \* the directories and tables, by physical page
  free,      \* the pages the allocator has not handed out
  kernels,   \* the directories of the kernel processes
  users,     \* the user processes: directory, code and stack page
  granted    \* ghost: the pages ring 3 was meant to reach

vars == <<mem, free, kernels, users, granted>>

Absent == [page |-> Null, present |-> FALSE, user |-> FALSE]
Mapped(page, user) == [page |-> page, present |-> TRUE, user |-> user]
EmptyPage == [i \in Index |-> Absent]

TablePages == PmmPages \cup {PageDirectory} \cup {IdentityTable[t] : t \in Tables}

-----------------------------------------------------------------------------
(* init_paging.                                                            *)

\* Mutant: the identity mapping carries USER.
IdentityEntryUser(t, i) == Mapped(t * Entries + i, TRUE)

IdentityEntry(t, i) == Mapped(t * Entries + i, FALSE)

init_paging ==
  mem = [p \in TablePages |->
    IF p = PageDirectory
    THEN [i \in Index |->
            IF i = Recursive THEN Mapped(PageDirectory, FALSE)
            ELSE IF i \in Tables THEN Mapped(IdentityTable[i], FALSE)
            ELSE Absent]
    ELSE IF \E t \in Tables : p = IdentityTable[t]
    THEN LET t == CHOOSE t \in Tables : p = IdentityTable[t] IN
         [i \in Index |-> IdentityEntry(t, i)]
    ELSE EmptyPage]

Init ==
  /\ init_paging
  /\ free = PmmPages
  /\ kernels = {} /\ users = {} /\ granted = {}

-----------------------------------------------------------------------------
(* The MMU.                                                                *)

\* The table entry that directory d leads to for virtual page v.
TableOf(d, v) == mem[d][v \div Entries].page
Walk(d, v) ==
  IF mem[d][v \div Entries].present /\ TableOf(d, v) \in TablePages
  THEN mem[TableOf(d, v)][v % Entries] ELSE Absent

\* What the kernel reaches at v, and what ring 3 reaches: for ring 3 both
\* levels must carry USER.
KernelReaches(d, v) == IF Walk(d, v).present THEN Walk(d, v).page ELSE Null
UserReaches(d, v) ==
  IF mem[d][v \div Entries].user /\ Walk(d, v).user THEN KernelReaches(d, v)
  ELSE Null

VirtualPages == 0 .. Entries * Entries - 1

-----------------------------------------------------------------------------
(* allocate_page, create_page_directory, map_page_in.                      *)

allocate_page(f) == IF f = {} THEN {Null} ELSE {p \in f : \A q \in f : p =< q}

\* Mutant: only the table the user pages go to is taken over.
DirectoryUserPartOnly(d) ==
  [EmptyPage EXCEPT ![1] = mem[PageDirectory][1], ![Recursive] = Mapped(d, FALSE)]

\* The contents of the directory create_page_directory makes in page d.
NewDirectory(d) ==
  [mem[PageDirectory] EXCEPT ![Recursive] = Mapped(d, FALSE)]

\* map_page_in when the directory entry is present: the table it names is
\* used, whoever else uses it.
MapInTable(m, d, v, page, user) ==
  LET di == v \div Entries
      t == m[d][di].page
  IN [m EXCEPT ![d][di].user = @ \/ user, ![t][v % Entries] = Mapped(page, user)]

\* ... and when it is not: table is the page allocated for a new one.
MapInNewTable(m, d, v, page, user, table) ==
  [m EXCEPT ![d][v \div Entries] = Mapped(table, user),
            ![table] = [EmptyPage EXCEPT ![v % Entries] = Mapped(page, user)]]

ApiPages == {UserLimit \div PageBytes - 1, UserLimit \div PageBytes}

\* map_page, the exported form for page_directory.  The kernel has no caller
\* yet: any page handed out can be mapped, for the kernel or for ring 3, in
\* a part of the address space that the identity tables leave alone.  A call
\* that gets no table for the directory entry returns without a mapping.
\* ApiPages are the last page below the user limit and the first above it.
map_page ==
  \E v \in ApiPages, user \in BOOLEAN :
  \E page \in allocate_page(free) \ {Null} :
    /\ IF mem[PageDirectory][v \div Entries].present
       THEN /\ mem' = MapInTable(mem, PageDirectory, v, page, user)
            /\ free' = free \ {page}
       ELSE \E table \in allocate_page(free \ {page}) :
              /\ mem' = IF table = Null THEN mem
                        ELSE MapInNewTable(mem, PageDirectory, v, page, user, table)
              /\ free' = free \ {page, table}
    /\ granted' = IF user THEN granted \cup {page} ELSE granted
    /\ UNCHANGED <<kernels, users>>

\* process_create: a kernel stack and a directory.
process_create ==
  \E stack \in allocate_page(free) :
  \E d \in allocate_page(free \ {stack}) :
    /\ Null \notin {stack, d}
    /\ mem' = [mem EXCEPT ![d] = NewDirectory(d)]
    /\ free' = free \ {stack, d}
    /\ kernels' = kernels \cup {d}
    /\ UNCHANGED <<users, granted>>

\* process_create_user, when all its pages can be had (Scheduler has the
\* error path): the two user mappings are made in the new directory.
process_create_user ==
  /\ Cardinality(users) < MaxUsers
  /\ \E stack \in allocate_page(free) :
     \E code \in allocate_page(free \ {stack}) :
     \E ustack \in allocate_page(free \ {stack, code}) :
     \E d \in allocate_page(free \ {stack, code, ustack}) :
       /\ Null \notin {stack, code, ustack, d}
       /\ LET made == [mem EXCEPT ![d] = NewDirectory(d)]
              coded == MapInTable(made, d, UserCodePage, code, TRUE)
          IN mem' = MapInTable(coded, d, UserStackPage, ustack, TRUE)
       /\ free' = free \ {stack, code, ustack, d}
       /\ users' = users \cup {[directory |-> d, code |-> code, stack |-> ustack]}
       /\ granted' = granted \cup {code, ustack}
       /\ UNCHANGED kernels

Next == process_create \/ process_create_user \/ map_page

Spec == Init /\ [][Next]_vars

-----------------------------------------------------------------------------
(* user_range_valid and syscall_write, for byte addresses.                 *)

user_page_present(d, v) ==
  /\ mem[d][v \div Entries].present /\ mem[d][v \div Entries].user
  /\ mem[TableOf(d, v)][v % Entries].present
  /\ mem[TableOf(d, v)][v % Entries].user

\* Mutant: the length is not compared with the room below the limit.
user_range_valid_unbounded(d, address, length) ==
  IF address >= UserLimit THEN FALSE
  ELSE IF length = 0 THEN TRUE
  ELSE LET end == (address + length - 1) % Wide
           first == address \div PageBytes
           last == end \div PageBytes
       IN \A v \in IF first =< last THEN first .. last
                   ELSE (first .. Wide \div PageBytes - 1) \cup (0 .. last) :
            user_page_present(d, v)

\* The loop from the first page to the one end lies in.
user_range_valid(d, address, length) ==
  IF address >= UserLimit THEN FALSE
  ELSE IF length = 0 THEN TRUE
  ELSE IF length > UserLimit - address THEN FALSE
  ELSE LET end == (address + length - 1) % Wide
       IN \A v \in address \div PageBytes .. end \div PageBytes :
            user_page_present(d, v)

-----------------------------------------------------------------------------
(* Properties.                                                             *)

Directories == {PageDirectory} \cup kernels \cup {u.directory : u \in users}

\* No user process reaches, from ring 3, a page that was not handed to ring 3:
\* no kernel page, kernel stack, directory or table, although its tables are
\* the kernel's identity tables (paging.c:55-79, 87-97).
UserIsolation ==
  /\ \A u \in users, v \in VirtualPages :
       UserReaches(u.directory, v) \in granted \cup {Null}
  /\ granted \cap Directories = {}
  /\ \A d \in Directories, i \in Index : mem[d][i].page \notin granted

\* Whichever directory is loaded, page_directory, a kernel process's or a
\* user process's, the kernel goes on running in it: every identity mapped
\* page other than the two that carry user memory is where it was
\* (paging.c:87-97, idt.asm:18-22).
KernelStaysMapped ==
  \A d \in Directories, t \in Tables, i \in Index :
    t * Entries + i \notin {UserCodePage, UserStackPage} =>
      KernelReaches(d, t * Entries + i) = t * Entries + i

\* Addresses at, before and after the page borders and limits that matter.
Addresses ==
  {0, Wide - 1} \cup
  UNION {{b - 1, b, b + 1} : b \in {PageBytes * p : p \in
           {1, UserCodePage, UserCodePage + 1, UserStackPage, UserStackPage + 1}}
         \cup {UserLimit - PageBytes, UserLimit}}
Lengths == {0, 1, 2, PageBytes, PageBytes + 1, 2 * PageBytes, UserLimit - 1,
            Wide - PageBytes, Wide - 1}

\* user_range_valid accepts exactly the ranges below the limit all of whose
\* bytes ring 3 itself can reach, also where address + length wraps around or
\* crosses the limit (paging.c:104-123): SYS_WRITE neither faults nor prints
\* kernel memory.
RangeCheckExact ==
  \A u \in users, address \in Addresses, length \in Lengths :
    user_range_valid(u.directory, address, length) <=>
      /\ address < UserLimit
      /\ address + length =< UserLimit
      /\ length > 0 => \A v \in address \div PageBytes ..
                                (address + length - 1) \div PageBytes :
                         UserReaches(u.directory, v) # Null

\* Every page of the allocator is reachable at its own address in every
\* directory, as the comment in init_paging has it (paging.c:37-38).  It is
\* not on a machine with a page at USER_CODE_ADDRESS, 4 MB: a user process's
\* mapping replaces that page's in the shared table.  Nor has a page above
\* the identity tables, 16 MB, a mapping at all.
PmmPagesAddressable ==
  \A d \in Directories, p \in PmmPages : KernelReaches(d, p) = p

\* Each user process runs its own image: more than one can exist
\* (CONTRIBUTING.md:118).  It does not: the mappings of the next user process
\* go to the same, shared table.
OwnImageMapped ==
  \A u \in users : /\ UserReaches(u.directory, UserCodePage) = u.code
                   /\ UserReaches(u.directory, UserStackPage) = u.stack
==============================================================================
