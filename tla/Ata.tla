--------------------------------- MODULE Ata ---------------------------------
(***************************************************************************)
(* The ATA PIO driver (drivers/ata.c) below block_read_sector              *)
(* (drivers/block.c), against a disk that may be absent, slow, report      *)
(* errors or go away.  The driver polls with interrupts on, so the disk    *)
(* moves between any two of its port accesses; only the shell's process    *)
(* uses it, so one request is under way at a time.                         *)
(*                                                                         *)
(* A register or an address digit counts to Radix (256), the part of the   *)
(* address in the drive register to High (16).                             *)
(***************************************************************************)
EXTENDS Integers

CONSTANTS
  PollLimit,   \* the 1000000 of ata_wait
  Radix, High,
  Sectors,     \* the sectors callers ask for
  Capacities   \* what IDENTIFY can report, 0 for a disk that does not say

ASSUME LimitsAssumption ==
  /\ PollLimit \in Nat \ {0}
  /\ Radix \in Nat \ {0, 1} /\ High \in Nat \ {0, 1}
  /\ Sectors \subseteq Nat /\ Capacities \subseteq Nat

VARIABLES
  step,          \* where the driver is, "idle" between calls
  timeout,       \* the count of the ata_wait under way
  present, last_error, sector_count,
  sector,        \* the argument of the call under way or the last one
  result,        \* what the last call returned
  buffer,        \* the sector whose data the caller's buffer holds
  attached,      \* the disk is there
  disk,          \* what its status register shows
  command,       \* the command it executes
  reported,      \* the capacity it reports
  timed_out,     \* ghost: some wait has run out
  erred          \* ghost: the disk has reported an error to the driver

driver == <<present, last_error, sector_count, sector, result, buffer>>
device == <<attached, disk, command, reported>>
vars == <<step, timeout, driver, device, timed_out, erred>>

None == -1
Junk == -2
Lba28 == Radix * Radix * Radix * High   \* 0x10000000
Identify == -3
Errors == {"EINVAL", "ENODEV", "ESTATUS", "ETIMEOUT", "EDRQ"}

-----------------------------------------------------------------------------
(* The disk.  BSY while a command is executed, then DRQ or ERR; ERR stays  *)
(* until the next command is accepted, DRQ until the data is taken.        *)

Answer ==
  /\ attached /\ disk = "busy"
  /\ disk' \in IF command = None THEN {"idle"} ELSE {"data", "error"}
  /\ UNCHANGED <<step, timeout, driver, attached, command, reported, timed_out, erred>>

Detach ==
  /\ attached /\ attached' = FALSE
  /\ UNCHANGED <<step, timeout, driver, disk, command, reported, timed_out, erred>>

\* A write to the command register.  A disk that is holding data for another
\* command may ignore it.
Accepts(c) ==
  \/ attached /\ disk' = "busy" /\ command' = c
  \/ (~attached \/ disk = "data") /\ UNCHANGED <<disk, command>>

\* The data register: the data of the command, all of it.
DataTaken ==
  /\ disk' = IF attached /\ disk = "data" THEN "idle" ELSE disk
  /\ UNCHANGED <<attached, command, reported>>

-----------------------------------------------------------------------------
(* ata_fail and ata_wait.                                                  *)

\* The call ends with this error.
ata_fail(error) ==
  /\ step' = "idle" /\ result' = error /\ last_error' = error
  /\ present' = IF error = "ENODEV" THEN FALSE ELSE present

\* Where the driver goes on after each wait, and which of them want DRQ.
After == [init_wait |-> "identify", identify_wait |-> "identify_data",
          read_wait |-> "select", select_wait |-> "command",
          data_wait |-> "check"]
Waits == DOMAIN After
WantsData == {"identify_wait", "data_wait"}

StartWait(w) == step' = w /\ timeout' = PollLimit

\* Mutant: an old error does not end a wait that wants no data.
PollErrorForData == disk = "error" /\ step \in WantsData

PollError == disk = "error"

PollReady == disk # "busy" /\ (step \in WantsData => disk = "data")

\* Mutant: the count does not go down.
CountedNever(t) == t

Counted(t) == t - 1

\* One round of the loop: status 0 or 0xFF, ERR or DF, ready, or once more.
ata_wait ==
  /\ step \in Waits
  /\ \/ /\ ~attached
        /\ ata_fail("ENODEV")
        /\ UNCHANGED <<timeout, timed_out, erred>>
     \/ /\ attached /\ PollError
        /\ ata_fail("ESTATUS")
        /\ erred' = TRUE
        /\ UNCHANGED <<timeout, timed_out>>
     \/ /\ attached /\ ~PollError /\ PollReady
        /\ step' = After[step]
        /\ UNCHANGED <<timeout, present, last_error, result, timed_out, erred>>
     \/ /\ attached /\ ~PollError /\ ~PollReady
        /\ timeout' = Counted(timeout)
        /\ IF timeout' # 0
           THEN UNCHANGED <<step, present, last_error, result, timed_out>>
           ELSE ata_fail("ETIMEOUT") /\ timed_out' = TRUE
        /\ UNCHANGED erred
  /\ UNCHANGED <<sector_count, sector, buffer, device>>

-----------------------------------------------------------------------------
(* ata_pio_init, which shell_filesystem_init calls once.                   *)

\* The boot loader may have left the disk in any state, data it has not taken
\* and an error included.
Init ==
  /\ step = "probe" /\ timeout = 0
  /\ present = FALSE /\ last_error = "ENODEV" /\ sector_count = 0
  /\ sector = None /\ result = "ENODEV" /\ buffer = None
  /\ attached \in BOOLEAN /\ disk \in {"idle", "busy", "data", "error"} /\ command = None
  /\ reported \in Capacities
  /\ timed_out = FALSE /\ erred = FALSE

\* The drive is selected and its status looked at.
Probe ==
  /\ step = "probe"
  /\ IF attached THEN StartWait("init_wait")
     ELSE step' = "idle" /\ UNCHANGED timeout
  /\ UNCHANGED <<driver, device, timed_out, erred>>

IssueIdentify ==
  /\ step = "identify" /\ StartWait("identify_wait")
  /\ Accepts(Identify)
  /\ UNCHANGED <<driver, attached, reported, timed_out, erred>>

\* Mutant: a capacity that 28 bits cannot address is kept.
CapacityWhole(count) == count

\* A capacity of 0 leaves sector_count 0, "not known".
Capacity(count) == IF count > Lba28 THEN Lba28 ELSE count

\* The words of a disk that has gone are all ones or all zeros; one that still
\* held data when IDENTIFY was written may hand over that.
ReadIdentify ==
  /\ step = "identify_data" /\ step' = "idle"
  /\ DataTaken
  /\ \E count \in IF attached /\ command = Identify THEN {reported}
                    ELSE {0, Lba28} \cup Capacities :
       sector_count' = Capacity(count)
  /\ present' = TRUE /\ last_error' = "ok"
  /\ UNCHANGED <<timeout, sector, result, buffer, timed_out, erred>>

-----------------------------------------------------------------------------
(* block_read_sector and ata_pio_read_sector.                              *)

\* Mutant: the sector after the last one is let through.
OutOfBoundsLate(s) == sector_count # 0 /\ s > sector_count

OutOfBounds(s) == sector_count # 0 /\ s >= sector_count

Request ==
  /\ step = "idle"
  /\ \E s \in Sectors :
       /\ sector' = s
       /\ \/ /\ OutOfBounds(s) \/ s > Lba28 - 1
             /\ result' = "EINVAL"
             /\ UNCHANGED <<step, timeout, present, last_error>>
          \/ /\ ~(OutOfBounds(s) \/ s > Lba28 - 1) /\ ~present
             /\ ata_fail("ENODEV") /\ UNCHANGED timeout
          \/ /\ ~(OutOfBounds(s) \/ s > Lba28 - 1) /\ present
             /\ StartWait("read_wait")
             /\ UNCHANGED <<present, last_error, result>>
  /\ UNCHANGED <<sector_count, buffer, device, timed_out, erred>>

\* The drive register, with the top of the address, is written.
Select ==
  /\ step = "select" /\ StartWait("select_wait")
  /\ UNCHANGED <<driver, device, timed_out, erred>>

\* Mutant: the top of the address is left out.
RegistersLow(s) ==
  [lba0 |-> s % Radix, lba1 |-> (s \div Radix) % Radix,
   lba2 |-> (s \div (Radix * Radix)) % Radix, drive |-> 0]

\* The address registers for sector s, each cut to its width.
Registers(s) ==
  [lba0 |-> s % Radix, lba1 |-> (s \div Radix) % Radix,
   lba2 |-> (s \div (Radix * Radix)) % Radix,
   drive |-> (s \div (Radix * Radix * Radix)) % High]

\* The sector a disk makes of them.
Addressed(r) == r.lba0 + Radix * (r.lba1 + Radix * (r.lba2 + Radix * r.drive))

IssueRead ==
  /\ step = "command" /\ StartWait("data_wait")
  /\ Accepts(Addressed(Registers(sector)))
  /\ UNCHANGED <<driver, attached, reported, timed_out, erred>>

\* The status once more.  A disk that has gone shows 0xFF, which holds ERR,
\* or 0, which does not hold DRQ.
CheckStatus ==
  /\ step = "check"
  /\ \/ /\ ~attached \/ disk = "error"
        /\ ata_fail("ESTATUS")
        /\ erred' = (erred \/ attached)
     \/ /\ ~attached \/ disk \notin {"error", "data"}
        /\ ata_fail("EDRQ")
        /\ UNCHANGED erred
     \/ /\ attached /\ disk = "data"
        /\ step' = "data"
        /\ UNCHANGED <<present, last_error, result, erred>>
  /\ UNCHANGED <<timeout, sector_count, sector, buffer, device, timed_out>>

ReadData ==
  /\ step = "data" /\ step' = "idle"
  /\ buffer' = IF attached /\ disk = "data" THEN command ELSE Junk
  /\ DataTaken
  /\ last_error' = "ok" /\ result' = "ok"
  /\ UNCHANGED <<timeout, present, sector_count, sector, timed_out, erred>>

Driver ==
  \/ Probe \/ IssueIdentify \/ ReadIdentify
  \/ ata_wait \/ Select \/ IssueRead \/ CheckStatus \/ ReadData

Next == Driver \/ Request \/ Answer \/ Detach

\* The shell's process gets the CPU again and again (Scheduler!NoStarvation).
\* Nothing is assumed of the disk.
Fairness == WF_vars(Driver)

Spec == Init /\ [][Next]_vars /\ Fairness

-----------------------------------------------------------------------------
(* Properties.                                                             *)

\* Types; sector_count never exceeds what 28 bits address.
TypeOK ==
  /\ step \in Waits \cup {"probe", "identify", "identify_data", "idle", "select",
                          "command", "check", "data"}
  /\ timeout \in 0 .. PollLimit
  /\ present \in BOOLEAN
  /\ last_error \in Errors \cup {"ok"} /\ result \in Errors \cup {"ok"}
  /\ sector_count \in 0 .. Lba28
  /\ sector \in Sectors \cup {None}
  /\ disk \in {"idle", "busy", "data", "error"}

\* A read that returns 0 filled the buffer with the sector that was asked for,
\* provided the disk is still there and no wait has ever run out.  After a
\* time-out it need not: the data of the abandoned command still waits, both
\* waits of the next call accept DRQ, and a disk that ignores the new command
\* hands over the old sector (ata.c:68-69, 167-180).
SectorDelivered ==
  step = "idle" /\ result = "ok" /\ attached /\ ~timed_out => buffer = sector

\* The disk is never told to read a sector outside the capacity it reported
\* (block.c:9-10, ata.c:118-123, 162).
CommandsInBounds ==
  command \notin {None, Identify} /\ sector_count # 0 => command < sector_count

\* ERR stays in the status register and every call begins with a wait that
\* gives up on it, so a disk that has once failed a read is never read again
\* (ata.c:66-67, 167).
ErrorIsFinal == erred => result # "ok"

\* Every call returns, whatever the disk does: absent, gone, busy for good or
\* never asking for its data (ata.c:54-72).
CallReturns == (step # "idle") ~> (step = "idle")
==============================================================================
