-------------------------------- MODULE Fat32 --------------------------------
(***************************************************************************)
(* The read-only FAT32 file system (filesystem/fat32.c) on a block device  *)
(* (drivers/block.c, drivers/ata.c) any of whose reads may fail.  Every    *)
(* sector read is one step, with all that the code does until the next     *)
(* one: what is in fs->sector_buffer is used there, before it is           *)
(* overwritten.  Shell makes the calls.                                    *)
(*                                                                         *)
(* FatLayout has the disks, and what the volume on one of them holds.      *)
(***************************************************************************)
EXTENDS FatLayout

VARIABLES
  disk,           \* the disk
  fs,             \* fat32_fs_t
  present, last_error,  \* of the ATA device
  call,           \* the call under way: its arguments, locals and result
  faulted         \* ghost: the driver failed a read of this call

device == <<present, last_error, faulted>>
fsvars == <<disk, fs, device, call>>

\* What is not mounted is never read: the fields fat32_mount has set before a
\* check fails are left out.
Unmounted ==
  [mounted |-> FALSE, volume_start |-> 0, sectors_per_cluster |-> 1,
   fat_start |-> 0, fat_sectors |-> 0, data_start |-> 0, cluster_count |-> 0,
   root_cluster |-> 0, total_sectors |-> 0]   \* total_sectors: ghost

\* A call that has ended.  purpose is what a scan is for: find_callback or
\* the caller's callback.  out is what was copied or listed.
Ended(op, path, result, out) ==
  [pc |-> "idle", op |-> op, path |-> path, result |-> result, out |-> out,
   capacity |-> 0, rest |-> <<>>, directory |-> 0, purpose |-> "find",
   cluster |-> 0, visited |-> 0, sector |-> 0, remaining |-> 0, candidate |-> 0]

\* A return.  bytes_read stays 0 on an error.
Return(r, result) ==
  [Ended(r.op, r.path, result, IF result = "OK" THEN r.out ELSE <<>>)
     EXCEPT !.capacity = r.capacity]

-----------------------------------------------------------------------------
(* block_read_sector: a read of a sector beyond sector_count is refused    *)
(* without asking the device.  ata_pio_read_sector refuses a sector that   *)
(* 28 bits do not address, which sector_count excludes when it is known,   *)
(* and leaves last_error alone.  Otherwise the device delivers the sector  *)
(* (Ata!SectorDelivered) or fails and leaves the buffer as it was.  Once   *)
(* it has failed with ENODEV it is not asked any more.                     *)

InDevice(s) == Count(disk) # 0 => s < Count(disk)
Addressable(s) == s < Lba28

BlockReadOk(s) ==
  /\ InDevice(s) /\ Addressable(s) /\ present /\ s < Sectors(disk)
  /\ last_error' = "ok"
  /\ UNCHANGED <<present, faulted>>

BlockReadFails(s) ==
  \/ ~InDevice(s) /\ UNCHANGED device
  \/ /\ InDevice(s) /\ ~Addressable(s)
     /\ faulted' = TRUE /\ UNCHANGED <<present, last_error>>
  \/ /\ InDevice(s) /\ Addressable(s)
     /\ present' \in {present, FALSE} /\ faulted' = TRUE
     /\ last_error' = IF present' THEN "ESTATUS" ELSE "ENODEV"

\* read_sector, for sectors of the volume.
Refused(s) ==
  \/ ~fs.mounted
  \/ Count(disk) # 0 /\ \/ fs.volume_start > Count(disk)
                        \/ s >= Count(disk) - fs.volume_start
  \/ s > Wide - 1 - fs.volume_start

ReadOk(s) == ~Refused(s) /\ BlockReadOk(fs.volume_start + s)

ReadFails(s) ==
  IF Refused(s) THEN UNCHANGED device
  ELSE BlockReadFails(fs.volume_start + s)

-----------------------------------------------------------------------------
(* fat32_mount.                                                            *)

\* Byte 13 of a boot record has 8 bits.
power_of_two(v) == v \in {1, 2, 4, 8, 16, 32, 64, 128}

\* legacy_zero: the FAT16 fields at 17 and 19 are zero.
looks_like_fat32_bpb(b) ==
  /\ b.signed /\ b.bytes_per_sector = SectorBytes
  /\ power_of_two(b.sectors_per_cluster)
  /\ b.reserved_sectors # 0 /\ b.fats \in {1, 2}
  /\ b.legacy_zero /\ b.total_sectors # 0 /\ b.fat_size # 0

\* Candidates are tried by pass, conventional types first, then by number.
Partition(c) == Boot(disk, 0).partitions[(c % 4) + 1]

Candidate(c) ==
  LET p == Partition(c) IN
  /\ (c \div 4 = 0) = p.conventional
  /\ p.start # 0 /\ p.size # 0
  /\ Count(disk) # 0 => p.start < Count(disk) /\ p.size =< Count(disk) - p.start

HoldsVolume(p, b) ==
  /\ looks_like_fat32_bpb(b)
  /\ b.total_sectors =< p.size /\ p.start =< Wide - 1 - b.total_sectors

DataStart(b) == b.reserved_sectors + b.fats * b.fat_size
ClusterCount(b) == (b.total_sectors - DataStart(b)) \div b.sectors_per_cluster

FatCovers(b) == (b.fat_size * SectorBytes) \div LinkBytes >= ClusterCount(b) + 2

\* Mutant: the volume may be larger than the device.
VolumeFitsPartition(b, start, size) ==
  start =< Wide - 1 - b.total_sectors /\ (size # 0 => b.total_sectors =< size)

\* The volume lies in its partition (size is 0 without one) and in the device.
VolumeFits(b, start, size) ==
  /\ start =< Wide - 1 - b.total_sectors
  /\ size # 0 => b.total_sectors =< size
  /\ Count(disk) # 0 => start =< Count(disk) /\ b.total_sectors =< Count(disk) - start

\* Mutant: the second part of the boot record is not looked at.
GeometryUnsigned(b, start, size) ==
  /\ VolumeFits(b, start, size)
  /\ DataStart(b) < b.total_sectors
  /\ ClusterCount(b) # 0 /\ ClusterCount(b) =< Clusters28 - 11
  /\ b.root_cluster - 2 < ClusterCount(b)
  /\ FatCovers(b)

\* The checks after a boot record has been found.  extended_valid: the fields
\* at 22 and 42 are zero and the signature at 66 is 0x28 or 0x29.
GeometryValid(b, start, size) ==
  /\ b.extended_valid /\ b.root_cluster \in 2 .. Clusters28 - 1
  /\ VolumeFits(b, start, size)
  /\ DataStart(b) < b.total_sectors
  /\ ClusterCount(b) # 0 /\ ClusterCount(b) =< Clusters28 - 11
  /\ b.root_cluster - 2 < ClusterCount(b)
  /\ FatCovers(b)

\* The end of fat32_mount with boot record b in the buffer.
FinishMount(b, start, size) ==
  IF GeometryValid(b, start, size)
  THEN /\ fs' = [mounted |-> TRUE, volume_start |-> start,
                 sectors_per_cluster |-> b.sectors_per_cluster,
                 fat_start |-> b.reserved_sectors, fat_sectors |-> b.fat_size,
                 data_start |-> DataStart(b), cluster_count |-> ClusterCount(b),
                 root_cluster |-> b.root_cluster, total_sectors |-> b.total_sectors]
       /\ call' = Return(call, "OK")
  ELSE UNCHANGED fs /\ call' = Return(call, "EBADFS")

fat32_mount == [Ended("mount", <<>>, "OK", <<>>) EXCEPT !.pc = "boot"]

\* Sector 0: a volume, or a partition table.
MountBoot ==
  LET b == Boot(disk, 0) IN
  /\ call.pc = "boot"
  /\ \/ BlockReadFails(0) /\ call' = Return(call, "EIO") /\ UNCHANGED fs
     \/ /\ BlockReadOk(0)
        /\ IF looks_like_fat32_bpb(b) THEN FinishMount(b, 0, 0)
           ELSE /\ call' = IF b.signed THEN [call EXCEPT !.pc = "partition"]
                           ELSE Return(call, "EBADFS")
                /\ UNCHANGED fs
  /\ UNCHANGED disk

NextCandidate ==
  call' = IF call.candidate = 7 THEN Return(call, "EBADFS")
          ELSE [call EXCEPT !.candidate = @ + 1]

MountPartition ==
  LET p == Partition(call.candidate) IN
  /\ call.pc = "partition"
  /\ \/ /\ ~Candidate(call.candidate)
        /\ NextCandidate /\ UNCHANGED <<fs, device>>
     \/ /\ Candidate(call.candidate) /\ BlockReadFails(p.start)
        /\ NextCandidate /\ UNCHANGED fs
     \/ /\ Candidate(call.candidate) /\ BlockReadOk(p.start)
        /\ IF HoldsVolume(p, Boot(disk, p.start))
           THEN FinishMount(Boot(disk, p.start), p.start, p.size)
           ELSE NextCandidate /\ UNCHANGED fs
  /\ UNCHANGED disk

-----------------------------------------------------------------------------
(* Clusters.                                                               *)

\* Mutant: one cluster too many.
valid_cluster_late(c) == c >= 2 /\ c - 2 =< fs.cluster_count

valid_cluster(c) == c >= 2 /\ c - 2 < fs.cluster_count

\* The sector of the volume that holds a cluster's part of a directory or a
\* file, and the one that holds its FAT entry.
DataSector(r) ==
  (fs.data_start + (r.cluster - 2) * fs.sectors_per_cluster + r.sector) % Wide

LinkOffset(c) == (c * LinkBytes) % Wide
LinkSector(c) == (fs.fat_start + LinkOffset(c) \div SectorBytes) % Wide

LinkInFat(c) ==
  /\ valid_cluster(c) /\ LinkOffset(c) \div SectorBytes < fs.fat_sectors
  /\ (LinkOffset(c) % SectorBytes) + LinkBytes =< SectorBytes

LinkRead(c) ==
  Link(disk, fs.volume_start + LinkSector(c), (LinkOffset(c) % SectorBytes) \div LinkBytes)
    % Clusters28

\* Mutant: the count of visited clusters is not kept.
LoopHeadUncounted(r, c) == [r EXCEPT !.cluster = c, !.sector = 0]

\* The head of both loops over clusters, and its test for a chain that loops.
LoopHead(r, c) ==
  IF r.visited + 1 > fs.cluster_count THEN Return(r, "ELOOP")
  ELSE [r EXCEPT !.cluster = c, !.visited = @ + 1, !.sector = 0]

\* next_cluster with entry v of the FAT and the loop after it: the end of the
\* chain makes the call return ended, a link that is no cluster EBADFS.
AfterLink(r, v, ended) ==
  IF v >= EndMark THEN Return(r, ended)
  ELSE IF v >= ReservedMark \/ ~valid_cluster(v) THEN Return(r, "EBADFS")
  ELSE LoopHead([r EXCEPT !.pc = IF r.pc = "scan_next" THEN "scan" ELSE "copy"], v)

-----------------------------------------------------------------------------
(* scan_directory, lookup, fat32_list_directory, fat32_read_file.  Each    *)
(* operator gives the call r as it is after the part of the code it names. *)

StartScan(r, c, purpose) ==
  IF ~valid_cluster(c) THEN Return(r, "EBADFS")
  ELSE LoopHead([r EXCEPT !.pc = "scan", !.purpose = purpose, !.visited = 0], c)

\* lookup has found e.
Resolved(r, e) ==
  IF r.op = "list"
  THEN IF e.directory THEN StartScan(r, e.first_cluster, "list") ELSE Return(r, "ENOTDIR")
  ELSE IF e.directory THEN Return(r, "EISDIR")
  ELSE IF r.capacity < e.size THEN Return(r, "ENOSPC")
  ELSE IF e.size = 0 THEN Return(r, "OK")
  ELSE IF ~valid_cluster(e.first_cluster) THEN Return(r, "EBADFS")
  ELSE LoopHead([r EXCEPT !.pc = "copy", !.visited = 0, !.remaining = e.size],
                e.first_cluster)

RootEntry == [directory |-> TRUE, size |-> 0, first_cluster |-> fs.root_cluster]

\* The next component, in upper case; None at the end of the path.
component(rest) == IF rest = <<>> THEN None ELSE Head(rest)

names_equal(a, b) == a = b

\* The head of lookup's loop.
LookupNext(r) ==
  IF component(r.rest) = None
  THEN IF r.directory = fs.root_cluster THEN Resolved(r, RootEntry)
       ELSE Return(r, "ENOTFOUND")
  ELSE IF component(r.rest) = TooLong THEN Return(r, "EINVAL")
  ELSE IF names_equal(component(r.rest), Dot) THEN [r EXCEPT !.rest = Tail(@)]
  ELSE StartScan(r, r.directory, "find")

\* find_callback has found the component as entry e.
Found(r, e) ==
  IF Len(r.rest) = 1 THEN Resolved(r, e)
  ELSE IF ~e.directory THEN Return(r, "ENOTDIR")
  ELSE IF ~valid_cluster(e.first_cluster) THEN Return(r, "EBADFS")
  ELSE [r EXCEPT !.pc = "lookup", !.rest = Tail(@), !.directory = e.first_cluster]

\* The callback asks to stop: find_callback at a match, ls's never.
find_callback(r, raw) == r.purpose = "find" /\ names_equal(raw.name, component(r.rest))

\* Mutant: the end mark of the directory is passed over.
StopsAtMatch(r, raw) == raw.kind = "entry" /\ find_callback(r, raw)

\* A directory entry at which the scan of a sector ends.  Entries of kind
\* "skip" are deleted, labels or parts of long names (entry_from_raw).
Stops(r, raw) ==
  \/ raw.kind = "end"
  \/ raw.kind = "entry" /\ find_callback(r, raw)

\* The next sector of the cluster, or the next cluster.
NextSector(r, next) ==
  IF r.sector + 1 < fs.sectors_per_cluster THEN [r EXCEPT !.sector = @ + 1]
  ELSE [r EXCEPT !.pc = next]

\* The loop over the entries of a sector.
ScanEntries(r, raws) ==
  LET stops == {i \in 1 .. EntriesPerSector : Stops(r, raws[i])}
      stop == CHOOSE i \in stops : \A j \in stops : i =< j
      seen == IF stops = {} THEN raws ELSE SubSeq(raws, 1, stop - 1)
      listed == IF r.purpose = "list" THEN [r EXCEPT !.out = @ \o EntriesOf(seen)] ELSE r
  IN IF stops = {} THEN NextSector(listed, "scan_next")
     ELSE IF raws[stop].kind = "entry" THEN Found(r, raws[stop])
     ELSE Return(listed, IF r.purpose = "find" THEN "ENOTFOUND" ELSE "OK")

\* Mutant: a whole sector is copied whatever is left of the file.
AmountWhole(r) == SectorBytes

Amount(r) == IF r.remaining < SectorBytes THEN r.remaining ELSE SectorBytes

\* The copy of a sector to the caller's buffer.
CopySector(r, bytes) ==
  LET copied == [r EXCEPT !.out = @ \o SubSeq(bytes, 1, Amount(r)),
                          !.remaining = IF Amount(r) < @ THEN @ - Amount(r) ELSE 0]
  IN IF copied.remaining = 0 THEN Return(copied, "OK")
     ELSE NextSector(copied, "copy_next")

\* fat32_list_directory and fat32_read_file up to lookup's loop.
Called(op, path, capacity) ==
  LET r == Ended(op, path, "OK", <<>>) IN
  IF ~fs.mounted THEN Return(r, "EBADFS")
  ELSE [r EXCEPT !.pc = "lookup", !.capacity = capacity, !.rest = path,
                 !.directory = fs.root_cluster]

-----------------------------------------------------------------------------
(* The steps.                                                              *)

Lookup ==
  /\ call.pc = "lookup" /\ call' = LookupNext(call)
  /\ UNCHANGED <<disk, fs, device>>

RawsOf(s) == [i \in 1 .. EntriesPerSector |-> Raw(disk, fs.volume_start + s, i - 1)]
BytesOf(s) == [i \in 1 .. SectorBytes |-> Byte(disk, fs.volume_start + s, i - 1)]

Scan ==
  /\ call.pc = "scan"
  /\ \/ ReadOk(DataSector(call)) /\ call' = ScanEntries(call, RawsOf(DataSector(call)))
     \/ ReadFails(DataSector(call)) /\ call' = Return(call, "EIO")
  /\ UNCHANGED <<disk, fs>>

Copy ==
  /\ call.pc = "copy"
  /\ \/ ReadOk(DataSector(call)) /\ call' = CopySector(call, BytesOf(DataSector(call)))
     \/ ReadFails(DataSector(call)) /\ call' = Return(call, "EIO")
  /\ UNCHANGED <<disk, fs>>

\* Mutant: a directory whose FAT cannot be read ends where it was.
ScanFaultEnds == "OK"

\* scan_directory gives up on any failure of next_cluster with EBADFS.
ScanFault == "EBADFS"

\* The FAT is read and the walk goes on.
next_cluster(pc, ended, fault) ==
  /\ call.pc = pc
  /\ IF LinkInFat(call.cluster)
     THEN \/ /\ ReadOk(LinkSector(call.cluster))
             /\ call' = AfterLink(call, LinkRead(call.cluster), ended)
          \/ /\ ReadFails(LinkSector(call.cluster))
             /\ call' = Return(call, fault)
     ELSE /\ call' = Return(call, "EBADFS")
          /\ UNCHANGED device
  /\ UNCHANGED <<disk, fs>>

ScanNext ==
  next_cluster("scan_next", IF call.purpose = "find" THEN "ENOTFOUND" ELSE "OK", ScanFault)

\* A file's chain must not end before the file does.
CopyNext == next_cluster("copy_next", "EBADFS", "EIO")

FsStep == MountBoot \/ MountPartition \/ Lookup \/ Scan \/ ScanNext \/ Copy \/ CopyNext

-----------------------------------------------------------------------------
(* Properties.                                                             *)

Results == {"OK", "EINVAL", "EIO", "EBADFS", "ENOTFOUND", "ENOTDIR", "EISDIR",
            "ELOOP", "ENOSPC"}
Answered(op) == call.pc = "idle" /\ call.op = op

\* The sector of the volume a step is about to read lies in the part of the
\* volume meant for it, data or FAT, and the volume on the device, whatever the
\* FAT and the directories hold: no uint32_t computation of a sector wraps and
\* the range check of read_sector never has to refuse (fat32.c:49-98, 213, 476;
\* the checks of fat32_mount, 387-406, are what it rests on).
InsideVolume ==
  /\ call.pc \in {"scan", "copy"} =>
       /\ DataSector(call) \in fs.data_start .. fs.total_sectors - 1
       /\ ~Refused(DataSector(call))
  /\ call.pc \in {"scan_next", "copy_next"} =>
       /\ LinkInFat(call.cluster)
       /\ LinkSector(call.cluster) \in fs.fat_start .. fs.data_start - 1
       /\ LinkSector(call.cluster) < fs.fat_start + fs.fat_sectors
       /\ ~Refused(LinkSector(call.cluster))

\* A read that succeeds has copied exactly the bytes of the file the path
\* names, no more than the caller has room for, although one sector buffer
\* serves directories, FAT and data in turn (fat32.c:435-499).
FileContents ==
  Answered("read") /\ call.result = "OK" =>
    LET named == Named(disk, fs, call.path) IN
    /\ named # Missing /\ ~named.directory
    /\ Holds(disk, fs, named.first_cluster, named.size, call.out)

\* A listing that succeeds is the directory the path names, whole and in order
\* (fat32.c:197-235, 415-433).
ListingExact ==
  Answered("list") /\ call.result = "OK" =>
    LET named == Named(disk, fs, call.path) IN
    named.directory /\ call.out = Listing(disk, fs, named.first_cluster)

\* An error is what is wrong.  A failed read never passes for an answer; without
\* one, ELOOP means a chain on the path that loops, EBADFS one that breaks or is
\* too short for the file, ENOTFOUND a name that is not there (or a path that
\* ends in "." below the root), ENOTDIR and EISDIR that the path ends at the
\* other kind, ENOSPC a file larger than the buffer, EINVAL a name that is too
\* long, and EIO does not occur (fat32.c:209, 229-230, 237-284, 455-495).
ErrorsDeserved ==
  call.pc = "idle" /\ call.op \in {"list", "read"} /\ fs.mounted =>
    LET named == Named(disk, fs, call.path)
        onPath == OnPath(disk, fs, call.path)
        error == call.result
    IN IF faulted THEN error = "EIO" \/ error = "EBADFS"
       ELSE /\ error # "EIO"
            /\ error = "ELOOP" => \E c \in onPath : Loops(disk, fs, c)
            /\ error = "EBADFS" =>
                 \/ \E c \in onPath : Breaks(disk, fs, c)
                 \/ /\ call.op = "read" /\ ~named.directory /\ named.size > 0
                    /\ ~Loops(disk, fs, named.first_cluster)
                    /\ ~Reaches(fs, Chain(disk, fs, named.first_cluster),
                                (named.size - 1) \div SectorBytes)
            /\ error = "ENOTFOUND" =>
                 \/ named = Missing
                 \/ /\ call.path # <<>> /\ call.path[Len(call.path)] = Dot
                    /\ named.first_cluster # fs.root_cluster
            /\ error = "ENOTDIR" => ~named.directory
            /\ error = "EISDIR" => named.directory
            /\ error = "ENOSPC" => named.size > call.capacity
            /\ error = "EINVAL" => \E k \in 1 .. Len(call.path) : call.path[k] = TooLong

\* Where a volume can be: place 0 is all of the disk, 1 to 4 are the partitions
\* that lie on it.  The search goes through them in this order.
Place(n) ==
  IF n = 0 THEN [start |-> 0, size |-> 0, conventional |-> TRUE]
  ELSE Boot(disk, 0).partitions[n]
OnDisk(p) ==
  p.start # 0 /\ p.size # 0 /\ (Count(disk) # 0 => p.start + p.size =< Count(disk))
Places == {0} \cup {n \in 1 .. 4 : Boot(disk, 0).signed /\ OnDisk(Place(n))}
Before(m, n) ==
  \/ Place(m).conventional /\ ~Place(n).conventional
  \/ Place(m).conventional = Place(n).conventional /\ m < n

\* A boot record that might be a volume's, and would fit the partition it is in.
Looks(n) ==
  LET p == Place(n)
      b == Boot(disk, p.start)
  IN /\ looks_like_fat32_bpb(b)
     /\ n # 0 => b.total_sectors =< p.size /\ p.start + b.total_sectors < Wide

\* A volume whose boot record is right in every field, whose sectors have 32-bit
\* numbers and whose clusters have numbers below the marks.
Complete(n) ==
  LET p == Place(n)
      b == Boot(disk, p.start)
  IN /\ Looks(n) /\ b.extended_valid
     /\ p.start + b.total_sectors < Wide /\ ClusterCount(b) + 1 < Clusters28 - 9
     /\ Count(disk) # 0 => p.start + b.total_sectors =< Count(disk)
     /\ b.root_cluster \in 2 .. ClusterCount(b) + 1
     /\ b.fat_size * PerSector >= ClusterCount(b) + 2

\* The search ends at the first place that looks like a volume: all of the disk,
\* then the partitions of conventional types, then the others.  That place is
\* mounted if and only if it is right in every field, and nothing else ever is;
\* a partition after a first one that only looks right is not found
\* (fat32.c:307-406).
MountRight ==
  Answered("mount") /\ ~faulted =>
    LET first == {n \in Places : Looks(n) /\ \A m \in Places : Before(m, n) => ~Looks(m)}
    IN IF fs.mounted
       THEN \E n \in first : Place(n).start = fs.volume_start /\ Complete(n)
       ELSE \A n \in first : ~Complete(n)

\* Every call returns, also when a chain of clusters runs in a circle
\* (fat32.c:209-210, 471-472).
CallReturns == (call.pc # "idle") ~> (call.pc = "idle")
=============================================================================
