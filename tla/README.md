# A TLA+ model of LevOS

LevOS is a small 32-bit x86 kernel: multiboot start, a physical page allocator,
paging, preemptive round robin between ring 0 and ring 3 processes, four system
calls, a keyboard-driven shell and a read-only FAT32 over ATA PIO. This
directory holds TLA+ modules that model its concurrent and stateful core, TLC
configurations that check them on small instances, and TLAPS proofs.

Paths below are relative to the repository's `src/` directory.

## Inventory

| Component | State | Operations | Interacts with |
|---|---|---|---|
| Process table, `process/process.c` | 16 slots, `running`, `next_pid`, saved contexts | create, create_user, exit, round robin, save context | allocator, paging, TSS |
| Scheduler and dispatch, `process/scheduler.c`, `cpu/interrupts.c`, `syscall.c` | `scheduler_next_directory` | timer tick, yield, exit, other vectors, exceptions | process table, interrupt return |
| Interrupt entry and return, `cpu/idt.asm` | stacks, registers | stubs, `isr_common` | everything that can be interrupted |
| Page allocator, `memory/pmm.c` | bitmap, `highest_page`, `free_count` | init from the boot information, allocate, free | process creation, paging |
| Paging, `memory/paging.c` | directories, tables | init, map, new directory, range check | allocator, process creation, SYS_WRITE |
| Keyboard and input loop, `drivers/keyboard.c`, `shell/shell.c` | ring buffer, modifiers, command line | interrupt, getchar, edit | timer (wakes `hlt`) |
| Shell commands, `shell/shell.c` | current line, file system handle | commands | FAT32, terminal |
| FAT32, `filesystem/fat32.c` | volume geometry, sector buffer | mount, lookup, list, read | block device |
| ATA and block layer, `drivers/ata.c`, `drivers/block.c` | device record | identify, read | ports |
| Terminal, `drivers/terminal.c` | cursor, colours | putchar, scroll, clear | shell, SYS_WRITE |
| CMOS, port I/O, PIC, GDT, boot | constants, TSS | initialisation | all |

What is hard here is the concurrency of one CPU: interrupts arrive between any
two instructions of ring 0 or ring 3, a process can be abandoned in the middle of
a handler, a slot is reused after an exit, allocation can fail half way through
a creation, and the keyboard interrupt shares a ring with the shell without a
lock, and SYS_WRITE the screen. The rest is data that may be anything and
arithmetic at its boundaries: ranges of memory, ring indices, an address range
that wraps around, a disk whose boot record, FAT and directories need not agree
and any read of which may fail.

## Modules

| Module | Models | State and actions |
|---|---|---|
| `Process` | `process.c` | the process table, the frame at the top of every kernel stack, the CPU; the operators and the two creation actions |
| `Scheduler` (extends `Process`) | `scheduler.c`, `interrupts.c`, `syscall.c`, the effect of `idt.asm` | one action per branch of `isr_common_handler` and `syscall_dispatch`, the program's own steps, `process_exit` |
| `SchedulerProofs` | | the inductive invariant and the proofs |
| `Isr` | `idt.asm` word by word, `process_save_context`'s copy | stacks as words that name where they came from, the registers; one action for each part of the path |
| `PageAllocator` | what callers rely on | abstract: available and held pages |
| `Pmm` | `pmm.c` | bitmap as a set, the walk over tags and map entries one step at a time, allocate and free; implements `PageAllocator` |
| `AddressSpace` | `paging.c`, the mappings process creation makes, `user_range_valid` | memory as directories and tables that the MMU walks |
| `InputQueue` | what the shell relies on | abstract: a bounded queue that drops when full |
| `Keyboard` | `keyboard.c`, the loop of `shell()` | the interrupt in one step, `keyboard_getchar` and the loop in several; implements `InputQueue` |
| `Ata` | `ata.c`, `block.c` | the driver step by step, `ata_wait` one poll at a time, against a disk that moves in between |
| `FatLayout` | the layout `fat32.c` reads | constants only: the disks, and the chains, directories, files and paths on one, read off the disk as a whole |
| `Fat32` (extends `FatLayout`) | `fat32.c` | the mounted volume and the call under way; one step per sector read, with the code up to the next read; the properties |
| `Shell` (extends `Fat32`) | `shell.c`: `shell_filesystem_init`, the banner, `ls`, `cat`, `filesystem_error` | what runs and what is on the screen; makes the calls |
| `Terminal` | `terminal.c`, `syscall_write` | cursor and cells; the shell's calls one memory access at a time, SYS_WRITE in one step |
| `PmmProofs` | | the allocator for every memory map, and its refinement of `PageAllocator` |
| `IsrProofs` | | what survives an interrupt, for any number of interrupts and any depth of the stacks |
| `AddressSpaceProofs` | | isolation, the kernel's mapping and the range check for every layout |
| `KeyboardProofs` | | the refinement of `InputQueue` and the line's bound for every size |
| `AtaProofs` | | the driver for every poll limit, address width and capacity |
| `Fat32Proofs` | | sectors inside the volume, mounting, and that a call gives the file, the directory or an error that is there, for every disk and every path |
| `TerminalProofs` | | the cursor's bounds, and that the screen shows what was written, for a screen of any size |
| `MC*` | | constants for TLC |

Atomicity. Every gate of the IDT is an interrupt gate (`interrupts.c:70-75`) and
no handler enables interrupts, so a handler is one action of `Scheduler` and
`Keyboard`. `SYS_EXIT` nests an `int $0x20` inside the handler; that is part of
the same action. Processes are created before `enable_interrupts`
(`kernel.c:30-33`), so a creation is one action too; a creation with interrupts
on would not be, and `process.c:80` publishes the slot before it is complete.

How the modules divide the interrupt path. `Scheduler` is about which frame a
process goes on from: a frame is known by the point of its program it was pushed
at, and the registers in it are left out. `Isr` is about the words of a frame:
instruction pointer, ring, flags and stack pointer come back, and part of the
general registers; edi does not, nor in ring 0 do eax, ebx and ecx; and the copy of
`process_save_context`, which overlaps its source on a shallow kernel stack, may
lose even the former, for a kernel process alone. `Terminal` lets any interrupt of
the shell inside a call cost it what it computes with, and follows it no further
(`RegisterLost`); what it shows of the shell's calls is for those that are
interrupted, if at all, with nothing in these registers. `Keyboard` assumes that
the registers of `keyboard_getchar` survive, so `IsQueue` and `TypedIsRead` hold of
the code only with finding 1 repaired.

In the same way `Scheduler` takes `allocate_page` as the lowest free page or null,
which is what `Pmm` shows, and `AddressSpace` takes memory as what the kernel
wrote, which finding 4 limits to machines without memory at 4 MB. `Fat32` takes the
block device as `Ata` shows it: a read delivers the sector or fails, once the disk
is gone it stays gone, and `last_error` says what happened last, except that a
sector number of more than 28 bits is refused without a word (`ata.c:160-163`). It
is pessimistic in one respect: `Ata` shows that once the disk has reported an error
reads go on failing, `Fat32` lets them succeed again. It is optimistic in another:
the stale sector that `Ata` allows after a time-out does not occur in it, so
`FileContents`, `ListingExact` and `MountRight` are for calls before any time-out.

How a disk is given. `FatLayout` does not fix what a sector is: `Boot`, `Link`,
`Raw` and `Byte` say what the bytes of a sector give when they are read as a boot
record or partition table, as FAT entries, as directory entries or as data, since
the code may read any sector as any of these. An entry is of kind "end", "skip"
(deleted, a label, part of a long name) or "entry". The properties compare what a
call did, sector by sector, with the chain, the directory or the file defined on
the disk as a whole (`Chain`, `Listing`, `Holds`, `Named`).

Granularity of `Terminal`. The Makefile passes no optimisation option, so each
access of `cursor_x`, `cursor_y` and `video` in the source is one of the program,
`x++` is a load and a store, and a preemption can fall between any two of them.
`putchar` and the body of `print`'s loop are the same steps. SYS_WRITE is a
handler and therefore one step.

Ghost variables. `progress` and `waited` in `Scheduler` record what a process
must be resumed at and how often it was passed over; `expect` in `Isr`,
`kernels` and `granted` in `AddressSpace`, `held` and `fell_back` in `Pmm`, `got` in `Keyboard`,
`faulted` and `total_sectors` in `Fat32`, and `paper` and `overlapped` in
`Terminal` are of the same kind. No action tests them but `FreePage` in `Pmm`,
whose caller frees what it holds.

## Runs

| Run | Configuration | Shows |
|---|---|---|
| `scheduler` | 3 slots, 8 or 9 pages, 2 points of interruption, pids below 5 | no mix-up of frames, directories, stacks, pages; bounded waiting; no starvation; an exited process leaves the CPU |
| `pmm` | 4-byte pages, 6 pages, about 900 boot situations | exact count, only usable memory, no unreachable page, refinement of `PageAllocator` |
| `isr` | 3 programs, 2 values per register, 2 depths of the boot stack, 9 of a kernel stack | resumption at the right place, but for a kernel process whose saved context is torn; the registers that survive; the boot stack is intact |
| `isr_registers` | the same | violated: registers are not all preserved |
| `isr_entry_return` | the same | violated: a preempted entry point does not return to `process_exit` |
| `address_space` | 16 entries per table, 2 identity tables, memory below 4 MB | isolation of ring 3, the kernel stays mapped, exact range check |
| `address_space_image` | the same | violated: two user processes do not keep their own images |
| `address_space_identity` | memory across 4 MB | violated: an allocator page loses its identity mapping |
| `keyboard` | ring of 3, line of 3, a letter and a key that gives a character only with shift | the ring is a queue, the line fits, what is typed is read |
| `ata` | 16 sectors, 2 polls per wait, 3 capacities | every call returns, commands stay in bounds, the right sector until a wait has run out, one disk error is final |
| `shell` | 2-byte sectors with 2 FAT or directory entries, 6 clusters of 1 or 2 sectors, or 21 clusters, 1470 disks, 13 paths, any read may fail | calls return, stay in the volume, give exactly the file or the directory, or an error that is deserved; the right volume is mounted; an I/O error is explained |
| `terminal` | 2 columns, 3 rows, 2 glyphs | the cursor stays near the screen wherever SYS_WRITE falls, unless a register is lost; without overlap the screen shows what was written |

Bounds. Three slots are the bootstrap process and two others, enough for a slot
to be reused while another process waits and for the scan to pass over somebody.
Creations take two or four pages, so a machine of 8 pages has 4, 2 or 0 left and
one of 9 has 5, 3 or 1: between the two, each of the four allocations of
`process_create_user` is the first to fail in some state. Four pids let
both slots be used twice. The page size and table size of
`Pmm` and `AddressSpace` keep the layout (two user pages at the ends of
directory entry 1, the limit at three quarters) and shrink the counts. A ring of
three holds two characters, so it is empty, half full, full and wraps around.
Two polls per wait let the disk answer at once, late, or after the driver has
given up; it starts idle, busy, with data or with an error left by the boot
loader. The volume of `shell` has a root directory and a file of two clusters each and a directory of one; the disks change one or two links of its FAT to
every kind of value (free, a cluster of the same or another chain, the first
number past the volume, bad, end of chain), so that chains of directories and
files loop, merge, break and are cut short; other disks have nine boot records
with a wrong field, and two partitions with right, wrong, look-alike and
oversized volumes, on devices of known, too small and unknown capacity; on one a
boot record in sector 0 that only looks right comes before a good partition, and
some volumes of unknown capacity go past what the driver can address. A third
kind has as many clusters as `fat32_mount` accepts, so that the last have the
numbers of reserved FAT values, and a file and a directory start there. `Wide`,
which is 2^32, is 512 there, the driver's addresses have 4 bits less, and cluster
numbers have 5 bits. The boot stack of `isr` has 18 words (`BootWords`), the
deepest of the two depths and the frame of one interrupt. The depths of its kernel
stack (`KernelDepths`) are the edges of the copy of `process.c:247`: 0, where it
reaches the return address of the handler, 1 and 2, above and at its destination,
3, 7, 12 and 14, where it is torn (12 is the call of `entry`), 15, where only the
words ring 0 does not need are lost, and 17, where nothing overlaps. A screen of 2
columns and 3 rows wraps, fills and scrolls, and a scroll moves more than one
row. `PidLimit` in `Scheduler` and `MaxUsers` in `AddressSpace` bound counters;
`address_space` may stop when the pages are used up, so it does not check for
deadlock.

Fairness. `Scheduler` assumes weak fairness of the timer: the PIT fires 100 times
a second (`timer.c`) and ring 3 cannot disable interrupts. `Keyboard` assumes it
of the timer and of the shell, which `NoStarvation` justifies; it assumes nothing
about keys. `Ata` assumes it of the driver and nothing of the disk. `Shell`
assumes it of the steps of a call, which `NoStarvation` and the `CallReturns` of
`Ata` justify, and nothing of who types. `Terminal` states no liveness.

That the timer wakes the shell is what makes the test and the `hlt`
(`shell.c:73-78`), which are not atomic, safe: with the keyboard interrupt alone
a character could wait for the next key.

## Findings

1. `idt.asm:26,33-35`: the return path uses edi, and for ring 0 eax, ebx and
   ecx, after popa has restored them (`isr_registers`).
2. `process.c:247`: the context of a ring 0 process is saved over the frames at
   the top of the stack it runs on, including the return address of its entry
   point in the default build (`isr_entry_return`). The copy goes upwards and reads
   words it has already overwritten: a process switched away from 3 to 14 words
   deep, in `process_bootstrap` or a small entry function, goes on with another
   word for its eip, cs or eflags, and from its first instruction, where nothing is on
   the stack, the copy overwrites the handler's way back. `ResumedWhereInterrupted`
   states exactly these exceptions.
3. `paging.c:63-64`: all directories share the table that holds the user pages,
   so a second user process replaces the first one's code and stack
   (`address_space_image`).
4. `paging.c:37-38`: with physical memory at 4 MB the identity mapping of an
   allocator page is lost when a user process is made
   (`address_space_identity`). Pages above the 16 MB of the identity tables have
   none from the start, and the allocator hands them out too.

One more disagreement has no run of its own, as the property that the `shell` run
checks already states what the code does. `fat32.c:308-310` says that the complete
FAT32 BPB is validated before sector zero is treated as a volume, so that partition
table bytes are not interpreted as one. The code validates what
`looks_like_fat32_bpb` reads; the extended boot signature, the sizes against the
disk and the root cluster are checked when the choice has been made
(`fat32.c:312, 362-406`), and a failure there ends `fat32_mount` with `FAT32_EBADFS`
although a partition holds a good volume. The same goes for the partitions among
themselves (`fat32.c:346-360`). `MountRight` says that the first place that looks
like a volume decides, and one disk of the run has a look-alike before a good
partition.

Two consequences of the ATA driver's waits hold in the model and are worth
knowing, although nothing in the repository says otherwise. ERR stays set until
a command is accepted and every call begins with a wait that gives up on ERR, so
one failed read ends the use of the disk (`ErrorIsFinal`). And both waits before
a command accept DRQ, so after a time-out a disk that ignores commands while it
holds data hands the old sector to the next call: `SectorDelivered` is claimed
only while no wait has run out.

The same holds of the file system and the screen:

* A directory whose FAT sector cannot be read is reported as an invalid file
  system, not as an I/O error, because `scan_directory` gives up on any failure
  of `next_cluster` with `FAT32_EBADFS` (`fat32.c:229-230`); a file's is reported
  as what it is. `ErrorsDeserved` therefore allows both errors after a fault.
* A path that ends in `.` below the root is not found, although the directory
  exists (`fat32.c:251-259`), and `..` of a directory in the root, whose entry
  holds cluster 0 by the layout's convention, is an invalid file system.
* `fat32_mount` accepts up to 0x0FFFFFF5 clusters (`fat32.c:401`), whose numbers
  go up to 0x0FFFFFF6, while `next_cluster` takes every link from 0x0FFFFFF0 on
  for reserved (`fat32.c:92`). On a volume of nearly that size a file or a
  directory may start in one of the last seven clusters, and is read, but a chain
  that leads into one of them is an invalid file system.
* When the disk reports no capacity, nothing before `ata_pio_read_sector` refuses a
  sector number of more than 28 bits, and it does so without setting `last_error`
  (`ata.c:160-163`): the shell then says "disk I/O error (ok)". `ErrorExplained`
  allows that case and no other.
* When a SYS_WRITE falls inside `backspace` of the shell, the cursor can end one
  column before the screen (`cursor_x` is -1), and a glyph written then goes to the
  end of the row above, or for the first row to the two bytes before 0xB8000. When
  it falls between `cursor_y++` and `scroll`, its text goes to the row below the
  screen and is lost. As long as
  the shell loses no register to finding 1 nothing goes farther (`CursorBounded`),
  and the next `clear` puts all right (`ShowsOutput`). A cursor value that is lost
  while it is in eax can put the cursor anywhere.

## Proofs

`SchedulerProofs` proves, for every number of slots from 2, every set of pages,
every set of points of interruption and every bound on pids, that `Spec` implies the
five invariants and the two action properties that the `scheduler` run checks.

The assumptions are those of `Process`: the page of `page_directory` and the boot
stack are not among the allocator's pages, page 0 is not either, and the point a
fresh context starts at is one of the points.

The properties are not inductive on their own: that a frame is the last one
of its process depends on no other process being resumed from that frame,
which depends on who owns which page, on where context pointers point, and on
slots being filled the way the creation functions do. `Inv` adds

* `TableShape`: slot 0 is the bootstrap process, any other used slot owns a
  stack and a directory (and a user process two more pages), is resumed from the
  top of its own stack and has a pid below `next_pid`, and the running slot is
  running or has just exited;
* `PidsDistinct`: used slots have different pids;
* `MachineOfRunning`: CR3 and the TSS stack are those of the running slot;
* `WaitBounded`: the number of times a process was passed over plus the distance
  the scan has still to go to it is at most one round. `BoundedWait` follows
  because that distance is at least 1.

`NextInv` has one case per action. Handlers that return to the interrupted
program share `ReturnInv` and `ResumeInv`; the three that call `schedule()` share
`ScheduleInv`, which splits on whether the process is kept (`ScheduleKeeps`) or
replaced (`ScheduleSwitches`), from a common description of what the handler
passes to it (`ScheduleReady`). Creations share `FillSlotInv` and
`CreateFailsInv`.

`TerminalProofs` proves `CursorBounded` for every width and height from 1, with
`RegisterLost` as a step that ends what is claimed. The
property is not inductive: between two steps of the shell SYS_WRITE may move the
cursor anywhere on the screen, so what matters is what the shell has already
loaded or tested. `Held` adds

* `CursorPlaced`: the cursor is right of the screen only between the increment
  and the end of the wrap, and below it only while the shell is in `scroll`;
* `RegisterHeld`: a row the shell has loaded is on the screen, a column is at
  least -1, and in `backspace` at least 0 between the test and the store, because
  no SYS_WRITE moves a cursor that is not negative to the left of column 0
  (`PutcharBound`).

`PositionBound` turns rows and columns into cell numbers.

The same module proves `ShowsOutput`. Within a call of the shell the screen is not
the paper, which has the character from the start of the call: `Faithful` says at
each place of the shell's code what the stores that are due will make of the
screen. `RowDue` is a row begun on the paper and not yet on the screen, perhaps
because the screen is yet to be scrolled (`Moved`), `GlyphDue` a glyph that is
stored and a cursor that is not moved; `CopiedTo` and `Drawn` say how far the loops
of `scroll` and `clear` have got, and `CopiedMore` that a copy never overwrites a
cell it has still to read. `WriteNewline`, `WriteGlyph` and `WriteBackspace` compare
one character on the paper with one on the screen, and serve the shell's call and
SYS_WRITE alike (`PutcharShows`). Once a SYS_WRITE has fallen inside a call
`Faithful` promises nothing but that the cells are those of the screen, until
`clear` starts again. It uses `Held`, and TLC agrees with it on the run's
instance and on screens of one row and of one column.

`Fat32Proofs` proves `InsideVolume` for every set of disks, whatever their boot
records, FATs and directories hold, for every path and every failing read, and
with the widths as constants: `SizesAssumption` (a sector is a whole number of
FAT entries and of directory entries, a FAT entry has at most 16 bytes) and
`DisksAssumption` (what is read from a sector as a number is one, and a reported
capacity is one the driver can address, which `Ata` shows) are all it uses.
The property is not inductive: it is about the sector computed now, and the next
one comes from a link, a directory entry or the root cluster. `Inv` adds

* `Volume`: the areas of a mounted volume follow one another, end on the device
  and below 2^32, the FAT has an entry for every cluster and there are at most
  0x0FFFFFF5 of them. `FinishMountSound` derives it from the checks of
  `fat32_mount`;
* `Placed`: a walk is at a cluster `valid_cluster` accepts and at a sector below
  `sectors_per_cluster`, and the directory a lookup is in is a number.

`DataSectorInside` and `LinkInside` turn the two into the sector numbers, where
nothing wraps; `LinkBound` also shows that the code's test for an entry that
crosses the end of a sector (`fat32.c:83`) and its test against `fat_sectors`
(`fat32.c:79`) never fire. There is one lemma per operator of `Fat32` and one per
action.

The same module proves three more properties, for every disk. `TypeOK`, whose
part of interest is that a read never copies more than the caller's buffer holds,
and `ErrorExplained` need `Told`: what has been copied and what remains fit the
buffer together, until the file is found nothing has been copied and the capacity
is the caller's (`Room`), and an `EIO` that a command is about to report has its
reason in `last_error`, or the volume goes past 28 bits (`Explained`, `Silent`).
Each operator of `Fat32` gives an `Answer`, a call that, if it has ended, has not
ended with `EIO`; only a failing read does that, and as `InsideVolume` keeps the
range checks from firing, such a read has asked the driver. `MountRight` needs
`Searched`: as long as no read has failed, no place before the present one in the
order of the search looks like a volume (`PassedNotLooks`, `BeforeCandidate`).
`GeometryIsComplete` shows that the checks of `fat32_mount`
accept exactly the boot records that are right in every field,
`PlaceIsCandidate` and `CandidateIsPlace` that the two passes over the partition
table go through the partitions on the disk and no others, and `FirstUnique` that
one place at most is the first. The proof attempt corrected the property: a volume that would need
more than 32 bits for its sector numbers, or more clusters than FAT32 can number,
is refused by the code, and `Complete` did not say so.

Last, the module proves that calls do what they promise: `FileContents`,
`ListingExact` and `ErrorsDeserved`, on every disk, for every path and every
failing read. The one assumption added is `PathsAssumption`, that a path is a
sequence of components none of which is empty. The properties speak only of a call
that has ended; `Served` says where a call is before that, in the terms of
`FatLayout`. Unless a read has failed, in which case the call has returned `EIO` or
`EBADFS`, `Course` holds of it:

* `Followed`: lookup stands at a directory that `Along` reaches with the part of
  the path that is used up;
* `Walked`: a loop over clusters is at cluster `visited - 1` of the chain that
  starts at the directory or file, and all before it are clusters of the volume.
  `Done` counts the sectors of the chain that have been read;
* `Finding`, `Collecting`, `Copying`: the slots of those sectors hold neither the
  name nor the end mark (`Sought`), or what is listed are their entries
  (`Collected`), or what is copied are their bytes and `remaining` is the rest of the
  file (`Copied`);
* `Deserved`: what a call returns is right, the clauses of the three properties.

Two kinds of lemma carry the step from sectors to the whole. `SectorIs` and `LinkIs`
say that the sector and the FAT entry the code computes are those of the chain,
which needs that nothing wraps (`DataSectorInside`, `LinkInside`). The others are
about `FatLayout` alone: a chain that is left stays where it is and has not gone
round (`ChainLeft`, `ChainStraight`), one that has more clusters than the volume
goes round (`ChainTurns`, by counting, so that the code's limit on visited clusters
reports `ELOOP` only when there is a loop), the entries of two runs of slots are
those of the first and of the second (`EntriesJoined`), a directory ends at the first
slot that is over (`ExtentAt`), what is no directory leads nowhere (`AlongStays`).
`Chain`, `EntriesOf` and `Along` are recursive functions. The library's induction
theorems cannot be instantiated, but they are not needed: a statement that fails
for some number fails for a least one (`Least`), and from that each function is
shown to exist and to satisfy its equations (`ChainIs`, `EntriesToIs`, `AlongIs`).

The attempts to prove the three properties changed them. The definition of a chain
left out the clusters with reserved numbers, so that `FileContents` and
`ListingExact` were false on the largest volumes; a chain whose first cluster is
none of the volume did not count as broken; a path that leads nowhere put the
cluster of the missing entry on the path, so that an error could be blamed on a
chain nobody walked; and `ENOSPC` was compared with a capacity that had been reset
on the return. `ErrorsDeserved` now covers every error code.

`PmmProofs` proves the four invariants of `pmm` and that `Pmm` implements
`PageAllocator`, for every page size, every `MAX_PAGES` and every boot information
(`BootsAssumption` only gives its fields their types). Addresses are natural
numbers there: a range whose end wraps around 2^64 (`pmm.c:31, 88`), which no machine
reports, is outside what is shown. `Inv` adds to `TypeOK` and
`CountExact`

* `WalkOfMap`: the entries the walk has still to read are entries of the boot
  loader's map;
* `Reach`: no page at or above `highest_page` is free;
* `Phases`: what the bitmap holds after each phase of `pmm_init`. Between the
  release of a range and the reservation of the kernel a page may be free that
  must not be handed out, so the properties themselves hold only once the phase
  is over.

`KeyboardProofs` proves `TypeOK`, `LineFits` and `IsQueue`, the refinement of
`InputQueue`, for every ring of at least 2 and every line buffer of at least 1.
The refinement rests on `Reading`: once `keyboard_getchar` has seen the ring not
empty, and then read a character, interrupts change neither. The abstract queue is
the part of the ring from tail to head; `HandleEffect` says what one interrupt
does to it.

`AtaProofs` proves the four invariants of `ata` for every poll limit, every width of
the address registers and every set of sectors and capacities. The properties are
tied to one another: that a successful read delivers the sector needs the address
in the registers to be that of the call (`AddressComplete`: the four pieces put
together give the sector back) and the disk to be in step with the driver
(`InStep`: which command it is working on at each point of the driver, unless a
wait has run out); that errors are final needs `Stuck`, that ERR stays set while
every call begins with a wait that gives up on it.

`AddressSpaceProofs` proves the three invariants of `address_space` for every number
of entries per table from 8, every page size, any set of memory pages and any
number of processes. `LayoutAssumption` has what the static arrays of `paging.c`
and the memory map give: `page_directory` and the identity tables are distinct
pages outside the allocator's, and the identity tables end below the user limit.
Since all directories share tables, the invariant is one of the whole memory:
`DirectorySound` (an entry of a directory is empty or points to a table, and
the kernel's entries are those of `page_directory`), `IdentitySound` (the entries of the
identity tables outside the two user pages are what `paging_init` wrote) and
`OnlyGranted` (an entry carries USER only if it is one of the two user pages
and maps a page granted to a process). `RangeCheck` is proved for every address and length, the ones that wrap around
included.

`IsrProofs` proves the three invariants of `isr` for every depth of the stacks, the
shallow ones where the copy overlaps included (`DepthAssumption`: each stack has room
for the frame of one more interrupt below every depth, and a kernel process may be
interrupted at its first instruction and at the call of `entry`), and any number of
interrupts, switches and register values. At every point of the path `Inv` says in
which frame the registers of the interrupted program are, and that they are the
expected ones up to those the path has already lost: `AtRun`, `AtHandler`, `AtPopa`,
`AtRing`, `AtIretd` for the program that is in the path, `Shelved` for the others,
which wait in the frame at the top of their kernel stack. A kernel process whose
context was torn waits there without one, at a depth where that can happen; it
leaves the path by `ResumeTorn`.

Liveness (`NoStarvation`, `ExitedLeavesCpu`, `TypedIsRead`, both `CallReturns`) is
model-checked only: fairness and ENABLED are outside the proof system. Every
invariant of a passing run, every action property and both refinements are proved.

## Plan

Done: `Process`, `Scheduler`, `Pmm`, `Isr`, `AddressSpace`, `Keyboard`, `Ata`,
`FatLayout`, `Fat32`, `Shell`, `Terminal`, and a theorem for every property but the
five of liveness. What would come next is in the following section, and in the
hazards of `PROJECT.json` that no property covers.

## Not modelled

* `split_command` and the commands that only print (`help`, `about`, `echo`,
  `clock`, `memory`); the conversion of numbers to digits in `terminal.c`;
  colours; the hardware cursor, which `terminal_init` disables.
* The decoding of 8.3 names, of little-endian integers and of path separators in
  `fat32.c`; checks for null pointers, which no caller passes.
* The CMOS clock (two port accesses per register, no state; `clock` reads seven
  registers without regard to an update of the clock in between), port I/O, PIC
  initialisation, the GDT and the boot code: straight-line writes of constants
  whose effect the other modules take as given.
* The TLB; segment registers, which `struct cpu_context` does not hold; the
  release of a zombie's pages, which the code does not do either; the wrap-around
  of `next_pid` after 2^32 creations; what a program does after a register or its
  context was lost (findings 1 and 2); a range of the memory map whose end wraps
  around 2^64.
