------------------------------ MODULE FatLayout ------------------------------
(***************************************************************************)
(* The disks a file system can meet, and what the FAT32 layout makes of    *)
(* them: the chains, directories and files of a volume v (a fat32_fs_t) on *)
(* a disk d, and what a path names, read off the disk as a whole.  Nothing *)
(* here changes: Fat32 is the code, which gets there sector by sector.     *)
(*                                                                         *)
(* What the bytes of a sector give when they are read as a boot record, as *)
(* FAT entries, as directory entries or as file data are four constant     *)
(* operators: the code may read any sector as any of these.  Names stand   *)
(* for names up to case, a path for its components, TooLong for one of 13  *)
(* characters or more.                                                     *)
(***************************************************************************)
EXTENDS Integers, Sequences

CONSTANTS
  Wide,         \* 2^32, the width of uint32_t
  SectorBytes,  \* device->sector_size, 512
  LinkBytes,    \* 4, the bytes of a FAT entry
  EntryBytes,   \* 32, the bytes of a directory entry
  Disks,        \* the disks that can be attached
  Count(_),     \* sector_count of a disk, 0 when it is not known
  Sectors(_),   \* the sectors it really has
  Boot(_, _), Link(_, _, _), Raw(_, _, _), Byte(_, _, _),
  Dot, TooLong, None

PerSector == SectorBytes \div LinkBytes          \* FAT entries
EntriesPerSector == SectorBytes \div EntryBytes  \* directory entries
Clusters28 == Wide \div 16                       \* 0x10000000
Lba28 == Wide \div 16                            \* the same, of sectors
EndMark == Clusters28 - 8                        \* 0x0FFFFFF8 and above
ReservedMark == Clusters28 - 16                  \* 0x0FFFFFF0 and above

\* 2^32, 512, 4 and 32 in the code.
ASSUME SizesAssumption ==
  /\ Wide \in Nat /\ Clusters28 > 16
  /\ SectorBytes \in Nat \ {0} /\ LinkBytes \in Nat \ {0} /\ EntryBytes \in Nat \ {0}
  /\ SectorBytes % LinkBytes = 0 /\ SectorBytes % EntryBytes = 0
  /\ LinkBytes =< 16

\* Whatever the bytes of a sector are, the numbers read from them are naturals;
\* ata_pio_init cuts the capacity to what 28 bits address.
ASSUME DisksAssumption ==
  \A d \in Disks :
    /\ Count(d) \in Nat /\ Count(d) =< Lba28 /\ Sectors(d) \in Nat
    /\ \A s \in 0 .. Sectors(d) - 1 :
         /\ LET b == Boot(d, s) IN
              /\ {b.sectors_per_cluster, b.reserved_sectors, b.fats, b.fat_size,
                  b.total_sectors, b.root_cluster} \subseteq Nat
              /\ \A k \in 1 .. 4 :
                   /\ b.partitions[k].start \in Nat /\ b.partitions[k].size \in Nat
                   /\ b.partitions[k].conventional \in BOOLEAN
         /\ \A k \in 0 .. PerSector - 1 : Link(d, s, k) \in Nat
         /\ \A k \in 0 .. EntriesPerSector - 1 :
              Raw(d, s, k).kind = "entry" =>
                /\ Raw(d, s, k).first_cluster \in Nat /\ Raw(d, s, k).size \in Nat
                /\ Raw(d, s, k).directory \in BOOLEAN

-----------------------------------------------------------------------------
(* Chains of clusters.                                                     *)

InChain(v, c) == c \in 2 .. v.cluster_count + 1

\* Entry c of the FAT.  A reserved value leads to no cluster, as 0 does, also on
\* a volume so large that a cluster has that number.
LinkOf(d, v, c) ==
  LET link == Link(d, v.volume_start + v.fat_start + c \div PerSector, c % PerSector)
                % Clusters28
  IN IF link >= ReservedMark /\ link < EndMark THEN 0 ELSE link

Follow(d, v, c) == IF InChain(v, c) THEN LinkOf(d, v, c) ELSE c

\* The clusters from c on, the last value repeated when the chain is left.
Chain(d, v, c) ==
  LET f[n \in 0 .. v.cluster_count] == IF n = 0 THEN c ELSE Follow(d, v, f[n - 1])
  IN f

Loops(d, v, c) ==
  LET f == Chain(d, v, c)
  IN \E m, n \in 0 .. v.cluster_count : m < n /\ InChain(v, f[m]) /\ f[m] = f[n]

Breaks(d, v, c) ==
  LET f == Chain(d, v, c)
  IN ~InChain(v, c) \/ \E n \in 0 .. v.cluster_count : ~InChain(v, f[n]) /\ f[n] < EndMark

\* Sector q of the chain f: whether the chain gets that far, and where it is.
Reaches(v, f, q) ==
  /\ q \div v.sectors_per_cluster \in 0 .. v.cluster_count
  /\ InChain(v, f[q \div v.sectors_per_cluster])
SectorAt(v, f, q) ==
  v.volume_start + v.data_start
    + (f[q \div v.sectors_per_cluster] - 2) * v.sectors_per_cluster
    + (q % v.sectors_per_cluster)

-----------------------------------------------------------------------------
(* Directories, files and paths.                                           *)

EntriesOf(raws) ==
  LET f[n \in 0 .. Len(raws)] ==
        IF n = 0 THEN <<>>
        ELSE IF raws[n].kind = "entry" THEN Append(f[n - 1], raws[n]) ELSE f[n - 1]
  IN f[Len(raws)]

\* Slot k of the directory with chain f; the directory is over at its end mark or
\* where the chain ends.
Slot(d, v, f, k) ==
  Raw(d, SectorAt(v, f, k \div EntriesPerSector), k % EntriesPerSector)
Over(d, v, f, k) ==
  ~Reaches(v, f, k \div EntriesPerSector) \/ Slot(d, v, f, k).kind = "end"
Extent(d, v, f) ==
  CHOOSE k \in 0 .. (v.cluster_count + 1) * v.sectors_per_cluster * EntriesPerSector :
    Over(d, v, f, k) /\ \A j \in 0 .. k - 1 : ~Over(d, v, f, j)

\* The entries of the directory at c.
Listing(d, v, c) ==
  LET f == Chain(d, v, c) IN EntriesOf([k \in 1 .. Extent(d, v, f) |-> Slot(d, v, f, k - 1)])

\* The first of them with a name.
Missing == [directory |-> FALSE, size |-> -1, first_cluster |-> 0]
EntryIn(d, v, c, name) ==
  LET f == Chain(d, v, c)
      hits == {k \in 0 .. Extent(d, v, f) - 1 :
                 Slot(d, v, f, k).kind = "entry" /\ Slot(d, v, f, k).name = name}
  IN IF hits = {} THEN Missing ELSE Slot(d, v, f, CHOOSE k \in hits : \A j \in hits : k =< j)

\* The file at c holds these bytes.
Holds(d, v, c, size, bytes) ==
  LET f == Chain(d, v, c) IN
  /\ Len(bytes) = size
  /\ \A k \in 0 .. size - 1 :
       /\ Reaches(v, f, k \div SectorBytes)
       /\ bytes[k + 1] = Byte(d, SectorAt(v, f, k \div SectorBytes), k % SectorBytes)

\* The entries along a path: the root, and what is reached with each component.
Root(v) == [directory |-> TRUE, size |-> 0, first_cluster |-> v.root_cluster]
Beyond(d, v, e, name) ==
  IF name = Dot THEN e
  ELSE IF e.directory /\ InChain(v, e.first_cluster) THEN EntryIn(d, v, e.first_cluster, name)
  ELSE Missing
Along(d, v, path) ==
  LET e[k \in 0 .. Len(path)] == IF k = 0 THEN Root(v) ELSE Beyond(d, v, e[k - 1], path[k])
  IN e
Named(d, v, path) == Along(d, v, path)[Len(path)]

\* The first clusters of what a path leads through, and of what it ends at.
OnPath(d, v, path) ==
  LET e == Along(d, v, path)
  IN {e[k].first_cluster : k \in {j \in 0 .. Len(path) : e[j] # Missing}}
=============================================================================
