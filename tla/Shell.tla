-------------------------------- MODULE Shell --------------------------------
(***************************************************************************)
(* The shell's use of the file system (shell/shell.c): the attempt to      *)
(* mount when the kernel starts, ls and cat, and what they report.  The    *)
(* shell is the only caller of Fat32.  Keyboard has the line editor and    *)
(* Terminal the output; the commands that only print are not here.         *)
(***************************************************************************)
EXTENDS Fat32

CONSTANTS
  Names,       \* the components of paths
  Paths,       \* the arguments, as paths; <<>> is "/"
  CatBuffer    \* sizeof cat_buffer

ASSUME CatBufferAssumption == CatBuffer \in Nat

\* A component is never empty.
ASSUME PathsAssumption == Paths \subseteq Seq(Names) /\ None \notin Names

VARIABLES
  command,     \* what runs: "init", "ls", "cat", or "none"
  status,      \* shell_fat32_status
  shown        \* the error message on the screen: its text and ATA's part

vars == <<fsvars, command, status, shown>>

\* Between calls there is none.
NoCall == Ended("none", <<>>, "EIO", <<>>)

NoMessage == [text |-> "OK", detail |-> "none"]

\* ata_pio_init has run; without a disk there is nothing to mount.
Init ==
  /\ disk \in Disks /\ fs = Unmounted /\ faulted = FALSE
  /\ present \in BOOLEAN /\ last_error = IF present THEN "ok" ELSE "ENODEV"
  /\ call = IF present THEN fat32_mount ELSE NoCall
  /\ command = "init" /\ status = "EBADFS" /\ shown = NoMessage

\* filesystem_error: ATA's last error explains an EIO.
filesystem_error(result) ==
  [text |-> result, detail |-> IF result = "EIO" THEN last_error ELSE "none"]

\* shell_filesystem_init is done and shell() prints its banner: what the file
\* system says, or ATA's error alone when the disk is not there.
Banner ==
  /\ command = "init" /\ call.pc = "idle"
  /\ status' = call.result
  /\ shown' = IF call.result = "OK" THEN NoMessage
              ELSE IF present THEN [text |-> call.result, detail |-> "none"]
              ELSE [text |-> "none", detail |-> last_error]
  /\ command' = "none" /\ call' = NoCall
  /\ UNCHANGED <<disk, fs, device>>

\* ls [path] and cat path; cat of nothing says so and ls of nothing lists "/".
Enter(name, op, path) ==
  /\ command = "none" /\ command' = name
  /\ call' = Called(op, path, CatBuffer) /\ faulted' = FALSE
  /\ shown' = NoMessage
  /\ UNCHANGED <<disk, fs, present, last_error, status>>

ls == \E path \in Paths : Enter("ls", "list", path)
cat == \E path \in Paths : Enter("cat", "read", path)

\* The end of either command.
Report ==
  /\ command \in {"ls", "cat"} /\ call.pc = "idle"
  /\ shown' = IF call.result = "OK" THEN NoMessage ELSE filesystem_error(call.result)
  /\ command' = "none" /\ call' = NoCall
  /\ UNCHANGED <<disk, fs, device, status>>

Step == FsStep /\ UNCHANGED <<command, status, shown>>

Next == Banner \/ ls \/ cat \/ Report \/ Step

\* The shell's process runs again and again (Scheduler!NoStarvation) and the
\* driver's calls return (Ata!CallReturns); nobody need type a command.
Fairness == WF_vars(Step)

Spec == Init /\ [][Next]_vars /\ Fairness

-----------------------------------------------------------------------------
(* Properties.                                                             *)

\* Types; no call copies more than it has room for.
TypeOK ==
  /\ fs.mounted \in BOOLEAN /\ faulted \in BOOLEAN
  /\ present \in BOOLEAN /\ last_error \in {"ok", "ESTATUS", "ENODEV"}
  /\ call.pc \in {"idle", "boot", "partition", "lookup", "scan", "scan_next",
                  "copy", "copy_next"}
  /\ call.result \in Results /\ status \in Results
  /\ call.visited \in 0 .. fs.cluster_count
  /\ call.op = "read" => Len(call.out) + call.remaining =< CatBuffer
  /\ command \in {"init", "ls", "cat", "none"}

\* The volume has sectors that the driver cannot address, which only a disk that
\* does not report its capacity can have.
PastLba28 == Count(disk) = 0 /\ ~Addressable(fs.volume_start + fs.total_sectors - 1)

\* A message that blames the disk says what the disk reported: no check of the
\* file system or of the block layer makes it an EIO with last_error still "ok"
\* (shell.c:38-47, fat32.c:52-57, block.c:9-10).  The one that does is the
\* driver's own, which does not set last_error (ata.c:160-163), and it takes a
\* disk of unknown capacity and a volume that goes past 28 bits.
ErrorExplained == shown.text = "EIO" /\ shown.detail = "ok" => PastLba28
=============================================================================
