----------------------------- MODULE Fat32Proofs -----------------------------
(***************************************************************************)
(* The file system and its use by the shell, for every disk, every path    *)
(* and every failing read.  First InsideVolume: whatever the FAT and the   *)
(* directories hold, no step computes a sector that wraps, lies outside    *)
(* the part of the volume it is meant for, or is refused by read_sector.   *)
(* It is not inductive: it says nothing of the volume as such, nor of the  *)
(* calls that have not yet reached a cluster.  Inv adds what fat32_mount   *)
(* establishes (Volume) and what valid_cluster and the loops keep          *)
(* (Placed); the rest is arithmetic, done in the first part.  Then TypeOK  *)
(* and ErrorExplained, with the invariant Told, and MountRight, with       *)
(* Searched.                                                               *)
(*                                                                         *)
(* Last FileContents, ListingExact and ErrorsDeserved: what the code does  *)
(* sector by sector is what FatLayout reads off the disk as a whole.  The  *)
(* lemmas about FatLayout come first (chains, directories, paths and       *)
(* files; recursive functions are shown to exist and then unfolded), then  *)
(* the invariant Served, which says of every step of a call what part of   *)
(* the path, the directory or the file it has got through (Course).        *)
(***************************************************************************)
EXTENDS Shell, TLAPS, NaturalsInduction, WellFoundedInduction, FiniteSetTheorems,
        SequenceTheorems

\* Quotient and remainder are unique.
LEMMA DivisionUnique ==
  ASSUME NEW d \in Nat \ {0}, NEW a \in Int, NEW x \in Int,
         NEW b \in 0 .. d - 1, NEW y \in 0 .. d - 1, d * a + b = d * x + y
  PROVE  a = x /\ b = y
<1>1. d * (a - x) = y - b /\ d * (x - a) = b - y
  OBVIOUS
<1>2. ASSUME NEW e \in Int, e >= 1 PROVE d * e >= d
  <2>1. PICK k \in Nat : e = 1 + k
    <3>1. e - 1 \in Nat /\ e = 1 + (e - 1)
      BY <1>2
    <3>2. QED
      BY <3>1
  <2>2. d * e = d + d * k /\ d * k \in Nat
    BY <2>1
  <2>3. QED
    BY <2>2
<1>3. ~(a - x >= 1)
  BY <1>1, <1>2
<1>4. ~(x - a >= 1)
  BY <1>1, <1>2
<1>5. a = x
  BY <1>3, <1>4
<1>6. QED
  BY <1>1, <1>5

\* The quotient and the remainder of a natural number.
LEMMA DivMod ==
  ASSUME NEW n \in Nat, NEW d \in Nat \ {0}
  PROVE  /\ n \div d \in Nat /\ n \div d \in Int /\ n % d \in 0 .. d - 1
         /\ n = d * (n \div d) + (n % d)
<1>1. n \div d \in Int
  OBVIOUS
<1>2. n % d \in 0 .. d - 1
  OBVIOUS
<1>3. n = d * (n \div d) + (n % d)
  OBVIOUS
<1>4. n \div d >= 0
  OBVIOUS
<1>5. QED
  BY <1>1, <1>2, <1>3, <1>4

\* A number below d * m has a quotient below m.
LEMMA Quotient ==
  ASSUME NEW d \in Nat \ {0}, NEW n \in Nat, NEW m \in Nat, n < d * m
  PROVE  n \div d < m
<1>1. n \div d \in Nat /\ d * (n \div d) =< n
  BY DivMod
<1>2. SUFFICES ASSUME n \div d >= m PROVE FALSE
  BY <1>1
<1>3. PICK k \in Nat : n \div d = m + k
  <2>1. n \div d - m \in Nat /\ n \div d = m + (n \div d - m)
    BY <1>1, <1>2
  <2>2. QED
    BY <2>1
<1>4. d * (n \div d) = d * m + d * k /\ d * k \in Nat /\ d * m \in Nat
  BY <1>3
<1>5. QED
  BY <1>1, <1>4

\* A FAT has as many entries as its sectors have.
LEMMA FatEntries ==
  ASSUME NEW sb \in Nat \ {0}, NEW lb \in Nat \ {0}, sb % lb = 0, NEW fat \in Nat
  PROVE  (fat * sb) \div lb = fat * (sb \div lb)
<1> DEFINE q == sb \div lb
<1>1. q \in Nat /\ sb = lb * q
  <2>1. q \in Nat /\ sb = lb * q + (sb % lb)
    BY DivMod, Zenon
  <2>2. QED
    BY <2>1
<1> HIDE DEF q
<1>2. fat * q \in Nat /\ fat * sb \in Nat /\ fat * sb = lb * (fat * q) + 0
  BY <1>1
<1>3. fat * sb = lb * ((fat * sb) \div lb) + ((fat * sb) % lb)
      /\ (fat * sb) \div lb \in Int /\ (fat * sb) % lb \in 0 .. lb - 1
  BY <1>2, DivMod, Zenon
<1>4. (fat * sb) \div lb = fat * q
  <2>1. /\ lb * ((fat * sb) \div lb) + ((fat * sb) % lb) = lb * (fat * q) + 0
        /\ fat * q \in Int /\ 0 \in 0 .. lb - 1
    BY <1>2, <1>3
  <2>2. QED
    BY <1>3, <2>1, DivisionUnique
<1>5. QED
  BY <1>4 DEF q

\* The sector and the number in it of FAT entry c, from its offset in bytes.
EntryPlaced(sb, lb, c) ==
  /\ (c * lb) \div sb = c \div (sb \div lb)
  /\ ((c * lb) % sb) \div lb = c % (sb \div lb)

\* If the FAT has an entry for every cluster, the entry of cluster c lies in it,
\* and in one sector of it (fat32.c:76-84).
LEMMA LinkBound ==
  ASSUME NEW sb \in Nat \ {0}, NEW lb \in Nat \ {0}, sb % lb = 0, NEW fat \in Nat,
         NEW count \in Nat, NEW c \in 2 .. count + 1, (fat * sb) \div lb >= count + 2
  PROVE  /\ c * lb \in Nat /\ (c * lb) \div sb \in 0 .. fat - 1
         /\ ((c * lb) % sb) + lb =< sb
         /\ ((c * lb) % sb) \div lb \in 0 .. (sb \div lb) - 1
         /\ EntryPlaced(sb, lb, c)
<1> DEFINE q == sb \div lb
           a == c \div q
           b == c % q
<1>1. q \in Nat \ {0} /\ sb = lb * q
  <2>1. q \in Nat /\ sb = lb * q + (sb % lb)
    BY DivMod, Zenon
  <2>2. QED
    BY <2>1
<1> HIDE DEF q
<1>2. c = q * a + b /\ a \in Nat /\ b \in 0 .. q - 1
  <2>1. c \in Nat
    OBVIOUS
  <2>2. QED
    BY <1>1, <2>1, DivMod, Zenon
<1> HIDE DEF a, b
<1>3. fat * q \in Nat /\ fat * sb \in Nat /\ fat * sb = lb * (fat * q) + 0
  BY <1>1
<1>4. (fat * sb) \div lb = fat * q
  BY FatEntries, Zenon DEF q
<1>5. c * lb \in Nat /\ c =< fat * q - 1
  BY <1>3, <1>4
<1>6. c * lb < sb * fat
  <2>1. PICK k \in Nat : fat * q = c + 1 + k
    <3>1. fat * q - c - 1 \in Nat /\ fat * q = c + 1 + (fat * q - c - 1)
      BY <1>3, <1>5
    <3>2. QED
      BY <3>1
  <2>2. lb * (c + 1 + k) = c * lb + lb + lb * k /\ lb * k \in Nat
    OBVIOUS
  <2>3. sb * fat = lb * (c + 1 + k)
    BY <1>3, <2>1
  <2>4. QED
    BY <1>5, <2>2, <2>3
<1>7. (c * lb) \div sb \in 0 .. fat - 1
  <2>1. (c * lb) \div sb \in Nat
    BY <1>5, DivMod, Zenon
  <2>2. (c * lb) \div sb < fat
    BY <1>5, <1>6, Quotient, Zenon
  <2>3. QED
    BY <2>1, <2>2
<1>8. b * lb \in 0 .. sb - lb /\ b * lb = lb * b + 0
  <2>1. PICK k \in Nat : q = b + 1 + k
    <3>1. q - b - 1 \in Nat /\ q = b + 1 + (q - b - 1)
      BY <1>1, <1>2
    <3>2. QED
      BY <3>1
  <2>2. lb * (b + 1 + k) = b * lb + lb + lb * k /\ lb * k \in Nat /\ b * lb \in Nat
    BY <1>2
  <2>3. QED
    BY <1>1, <1>2, <2>1, <2>2
<1>9. c * lb = sb * a + b * lb
  <2>1. c * lb = (q * a) * lb + b * lb
    BY <1>1, <1>2
  <2>2. (q * a) * lb = (lb * q) * a
    BY <1>1, <1>2
  <2>3. QED
    BY <1>1, <2>1, <2>2
<1>10. (c * lb) % sb = b * lb /\ (c * lb) \div sb = a
  <2> DEFINE x == (c * lb) \div sb
             y == (c * lb) % sb
             z == b * lb
  <2>1. c * lb = sb * x + y /\ x \in Int /\ y \in 0 .. sb - 1
    BY <1>5, DivMod, Zenon
  <2>2. z \in 0 .. sb - 1 /\ a \in Int
    BY <1>2, <1>8
  <2>3. sb * x + y = sb * a + z
    BY <1>9, <2>1
  <2> HIDE DEF x, y, z
  <2>4. y = z /\ x = a
    BY <2>1, <2>2, <2>3, DivisionUnique
  <2>5. QED
    BY <2>4 DEF x, y, z
<1>11. (b * lb) \div lb = b
  <2>0. b * lb \in Nat
    BY <1>8
  <2>1. b * lb = lb * ((b * lb) \div lb) + ((b * lb) % lb)
        /\ (b * lb) \div lb \in Int /\ (b * lb) % lb \in 0 .. lb - 1
    BY <2>0, DivMod, Zenon
  <2>2. lb * ((b * lb) \div lb) + ((b * lb) % lb) = lb * b + 0 /\ b \in Int /\ 0 \in 0 .. lb - 1
    BY <1>2, <1>8, <2>1
  <2>3. QED
    BY <2>1, <2>2, DivisionUnique
<1>12. /\ c * lb \in Nat /\ (c * lb) \div sb \in 0 .. fat - 1
       /\ ((c * lb) % sb) + lb =< sb
       /\ ((c * lb) % sb) \div lb \in 0 .. (sb \div lb) - 1
  BY <1>2, <1>5, <1>7, <1>8, <1>10, <1>11 DEF q
<1>13. (c * lb) \div sb = a /\ ((c * lb) % sb) \div lb = b
  BY <1>10, <1>11, Zenon
<1>14. QED
  BY <1>12, <1>13, Zenon DEF EntryPlaced, a, b, q

\* A sector of a cluster lies among the sectors of all clusters (fat32.c:213, 476).
LEMMA DataBound ==
  ASSUME NEW spc \in Nat \ {0}, NEW count \in Nat, NEW c \in 2 .. count + 1,
         NEW sector \in 0 .. spc - 1
  PROVE  (c - 2) * spc + sector \in 0 .. count * spc - 1
<1>1. PICK k \in Nat : count = (c - 2) + 1 + k
  <2>1. count - c + 1 \in Nat /\ count = (c - 2) + 1 + (count - c + 1)
    OBVIOUS
  <2>2. QED
    BY <2>1
<1>2. c - 2 \in Nat /\ count * spc = (c - 2) * spc + spc + k * spc /\ k * spc \in Nat
      /\ (c - 2) * spc \in Nat
  BY <1>1
<1>3. QED
  BY <1>2

\* The entry at which the scan of a sector stops is one of its entries
\* (fat32.c:218-227).
LEMMA LeastStop ==
  ASSUME NEW n \in Nat, NEW S \in SUBSET (1 .. n), S # {}
  PROVE  (CHOOSE i \in S : \A j \in S : i =< j) \in 1 .. n
<1>1. \E i \in S : \A j \in S : ~(<<j, i>> \in OpToRel(<, Nat))
  <2>1. S \subseteq Nat
    OBVIOUS
  <2>2. QED
    BY <2>1, WFMin, NatLessThanWellFounded, Zenon
<1>2. ASSUME NEW i \in Nat, NEW j \in Nat, j < i
      PROVE  <<j, i>> \in OpToRel(<, Nat)
  BY <1>2, Zenon DEF OpToRel
<1>3. \E i \in S : \A j \in S : i =< j
  <2>1. PICK i \in S : \A j \in S : ~(<<j, i>> \in OpToRel(<, Nat))
    BY <1>1, Zenon
  <2>2. i \in Nat /\ \A j \in S : j \in Nat
    OBVIOUS
  <2>3. \A j \in S : ~(j < i)
    BY <1>2, <2>1, <2>2, Zenon
  <2>4. QED
    BY <2>2, <2>3
<1>4. QED
  BY <1>3

-----------------------------------------------------------------------------
(* The invariant.                                                          *)

\* What the checks of fat32_mount make true of a volume (fat32.c:362-413).
Volume(v) ==
  /\ v.volume_start \in Nat /\ v.sectors_per_cluster \in Nat \ {0} /\ v.fat_start \in Nat
  /\ v.fat_sectors \in Nat /\ v.data_start \in Nat /\ v.cluster_count \in Nat
  /\ v.root_cluster \in 2 .. v.cluster_count + 1 /\ v.total_sectors \in Nat
  /\ v.fat_start + v.fat_sectors =< v.data_start
  /\ v.data_start + v.cluster_count * v.sectors_per_cluster =< v.total_sectors
  /\ v.cluster_count =< Clusters28 - 11
  /\ (v.fat_sectors * SectorBytes) \div LinkBytes >= v.cluster_count + 2
  /\ v.volume_start + v.total_sectors =< Wide - 1
  /\ Count(disk) # 0 => v.volume_start + v.total_sectors =< Count(disk)

\* A call is a record of these fields.
Shape(r) ==
  DOMAIN r = {"pc", "op", "path", "result", "out", "capacity", "rest", "directory",
              "purpose", "cluster", "visited", "sector", "remaining", "candidate"}

\* The places in the two loops over clusters.
Walking == {"scan", "scan_next", "copy", "copy_next"}

\* Where a call has got to: the candidate it looks at, the directory it looks in,
\* or the cluster and the sector in it.
Placed(r) ==
  /\ r.pc = "boot" => r.candidate = 0
  /\ r.pc = "partition" => r.candidate \in 0 .. 7 /\ 0 < Sectors(disk)
  /\ r.pc = "lookup" => fs.mounted /\ r.directory \in Nat
  /\ r.pc \in Walking =>
       /\ fs.mounted
       /\ r.cluster \in 2 .. fs.cluster_count + 1
       /\ r.sector \in 0 .. fs.sectors_per_cluster - 1

\* A call as the code leaves it at each read.
Sound(r) == Shape(r) /\ Placed(r)

\* The inductive invariant.
Inv == disk \in Disks /\ (fs.mounted => Volume(fs)) /\ Sound(call)

\* What the sizes of the layout give.
LEMMA SizesFacts ==
  /\ Wide \in Nat /\ Clusters28 \in Nat /\ Clusters28 > 16 /\ 16 * Clusters28 =< Wide
  /\ EntriesPerSector \in Nat /\ PerSector \in Nat
BY SizesAssumption DEF Clusters28, EntriesPerSector, PerSector

\* The sector of a directory or file that is read next is a data sector of the
\* volume, and read_sector does not refuse it (fat32.c:49-58, 213, 476).
LEMMA DataSectorInside ==
  ASSUME Volume(fs), disk \in Disks, fs.mounted, NEW r, Placed(r), r.pc \in Walking
  PROVE  /\ DataSector(r) \in fs.data_start .. fs.total_sectors - 1 /\ ~Refused(DataSector(r))
         /\ DataSector(r) = fs.data_start + ((r.cluster - 2) * fs.sectors_per_cluster + r.sector)
<1> DEFINE k == (r.cluster - 2) * fs.sectors_per_cluster + r.sector
<1>1. k \in 0 .. fs.cluster_count * fs.sectors_per_cluster - 1
  <2>1. fs.sectors_per_cluster \in Nat \ {0} /\ fs.cluster_count \in Nat
        /\ r.cluster \in 2 .. fs.cluster_count + 1 /\ r.sector \in 0 .. fs.sectors_per_cluster - 1
    BY DEF Volume, Placed
  <2>2. QED
    BY <2>1, DataBound, Zenon
<1>2. fs.cluster_count * fs.sectors_per_cluster \in Nat
  BY DEF Volume
<1>3. DataSector(r) = (fs.data_start + k) % Wide
  BY <1>1, <1>2 DEF DataSector, Volume, Placed
<1> HIDE DEF k
<1>4. fs.data_start + k \in fs.data_start .. fs.total_sectors - 1
  BY <1>1, <1>2 DEF Volume
<1>5. fs.data_start + k \in 0 .. Wide - 1
  BY <1>4, SizesFacts DEF Volume
<1>6. DataSector(r) = fs.data_start + k
  BY <1>3, <1>5, SizesFacts
<1>7. Count(disk) \in Nat
  BY DisksAssumption
<1>8. DataSector(r) \in fs.data_start .. fs.total_sectors - 1 /\ ~Refused(DataSector(r))
  BY <1>4, <1>6, <1>7, SizesFacts DEF Refused, Volume
<1>9. QED
  BY <1>6, <1>8 DEF k

\* The FAT entry of a cluster of the volume is in the FAT and can be read
\* (fat32.c:49-86).
LEMMA LinkInside ==
  ASSUME Volume(fs), disk \in Disks, fs.mounted, NEW c \in 2 .. fs.cluster_count + 1
  PROVE  /\ LinkInFat(c) /\ LinkSector(c) \in fs.fat_start .. fs.data_start - 1
         /\ LinkSector(c) < fs.fat_start + fs.fat_sectors
         /\ ~Refused(LinkSector(c))
         /\ (LinkOffset(c) % SectorBytes) \div LinkBytes \in 0 .. PerSector - 1
         /\ LinkSector(c) = fs.fat_start + c \div PerSector
         /\ (LinkOffset(c) % SectorBytes) \div LinkBytes = c % PerSector
<1> DEFINE o == c * LinkBytes
           s == o \div SectorBytes
<1>1. /\ o \in Nat /\ s \in 0 .. fs.fat_sectors - 1
      /\ (o % SectorBytes) + LinkBytes =< SectorBytes
      /\ (o % SectorBytes) \div LinkBytes \in 0 .. PerSector - 1
      /\ s = c \div PerSector /\ (o % SectorBytes) \div LinkBytes = c % PerSector
  <2>1. /\ SectorBytes \in Nat \ {0} /\ LinkBytes \in Nat \ {0} /\ SectorBytes % LinkBytes = 0
        /\ fs.fat_sectors \in Nat /\ fs.cluster_count \in Nat
        /\ (fs.fat_sectors * SectorBytes) \div LinkBytes >= fs.cluster_count + 2
    BY SizesAssumption DEF Volume
  <2>2. /\ o \in Nat /\ s \in 0 .. fs.fat_sectors - 1
        /\ (o % SectorBytes) + LinkBytes =< SectorBytes
        /\ (o % SectorBytes) \div LinkBytes \in 0 .. PerSector - 1
    BY <2>1, LinkBound, Zenon DEF PerSector
  <2>3. EntryPlaced(SectorBytes, LinkBytes, c)
    BY <2>1, LinkBound, Zenon
  <2>4. s = c \div PerSector /\ (o % SectorBytes) \div LinkBytes = c % PerSector
    BY <2>3, Zenon DEF EntryPlaced, PerSector
  <2>5. QED
    BY <2>2, <2>4, Zenon
<1>2. o < Wide
  <2>1. c =< Clusters28 /\ c \in Nat /\ LinkBytes \in Nat /\ LinkBytes =< 16
    BY SizesFacts, SizesAssumption DEF Volume
  <2>2. c * LinkBytes =< c * 16
    <3>1. PICK k \in Nat : 16 = LinkBytes + k
      <4>1. 16 - LinkBytes \in Nat /\ 16 = LinkBytes + (16 - LinkBytes)
        BY <2>1
      <4>2. QED
        BY <4>1
    <3>2. c * 16 = c * LinkBytes + c * k /\ c * k \in Nat
      BY <2>1, <3>1
    <3>3. QED
      BY <2>1, <3>2
  <2>3. c < Clusters28
    BY <2>1, SizesFacts DEF Volume
  <2>4. QED
    BY <2>1, <2>2, <2>3, SizesFacts
<1>3. LinkOffset(c) = o
  BY <1>1, <1>2, SizesFacts DEF LinkOffset
<1> HIDE DEF o
<1>4. fs.fat_start + s \in 0 .. Wide - 1 /\ fs.fat_start + s < fs.fat_start + fs.fat_sectors
      /\ fs.fat_start + s < fs.data_start /\ fs.fat_start + s < fs.total_sectors
  BY <1>1, SizesFacts DEF Volume
<1>5. LinkSector(c) = (fs.fat_start + s) % Wide
  BY <1>3 DEF LinkSector
<1> HIDE DEF s
<1>6. LinkSector(c) = fs.fat_start + s
  BY <1>4, <1>5, SizesFacts
<1>7. LinkInFat(c)
  BY <1>1, <1>3 DEF LinkInFat, valid_cluster, s, Volume
<1>8. Count(disk) \in Nat
  BY DisksAssumption
<1>9. ~Refused(LinkSector(c))
  BY <1>4, <1>6, <1>8, SizesFacts DEF Refused, Volume
<1>10. s \in Nat
  BY <1>1 DEF Volume
<1>11. LinkSector(c) \in fs.fat_start .. fs.data_start - 1
       /\ LinkSector(c) < fs.fat_start + fs.fat_sectors
  BY <1>1, <1>3, <1>4, <1>6, <1>10 DEF Volume
<1>12. /\ LinkSector(c) = fs.fat_start + c \div PerSector
       /\ (LinkOffset(c) % SectorBytes) \div LinkBytes \in 0 .. PerSector - 1
       /\ (LinkOffset(c) % SectorBytes) \div LinkBytes = c % PerSector
  BY <1>1, <1>3, <1>6, Zenon
<1>13. QED
  BY <1>7, <1>9, <1>11, <1>12, Zenon

\* The invariant is strong enough.
LEMMA HeldInside == Inv => InsideVolume
<1> SUFFICES ASSUME Inv PROVE InsideVolume
  OBVIOUS
<1>1. ASSUME call.pc \in Walking
      PROVE  Volume(fs) /\ disk \in Disks /\ fs.mounted /\ Placed(call)
             /\ call.cluster \in 2 .. fs.cluster_count + 1
  BY <1>1 DEF Inv, Sound, Placed
<1>2. ASSUME call.pc \in Walking
      PROVE  DataSector(call) \in fs.data_start .. fs.total_sectors - 1
             /\ ~Refused(DataSector(call))
  BY <1>1, <1>2, DataSectorInside
<1>3. ASSUME call.pc \in Walking
      PROVE  /\ LinkInFat(call.cluster)
             /\ LinkSector(call.cluster) \in fs.fat_start .. fs.data_start - 1
             /\ LinkSector(call.cluster) < fs.fat_start + fs.fat_sectors
             /\ ~Refused(LinkSector(call.cluster))
  BY <1>1, <1>3, LinkInside
<1>4. QED
  BY <1>2, <1>3 DEF InsideVolume, Walking

-----------------------------------------------------------------------------
\* A return from any of the functions.
LEMMA ReturnSound == ASSUME NEW r, NEW result PROVE Sound(Return(r, result))
BY DEF Return, Ended, Sound, Shape, Placed, Walking

\* The loops start over with a valid cluster (fat32.c:208-212, 470-476).
LEMMA LoopHeadSound ==
  ASSUME fs.mounted, Volume(fs), NEW r, Shape(r), r.pc \in {"scan", "copy"},
         NEW c \in Nat, valid_cluster(c)
  PROVE  Sound(LoopHead(r, c))
<1>1. CASE r.visited + 1 > fs.cluster_count
  BY <1>1, ReturnSound DEF LoopHead
<1>2. CASE ~(r.visited + 1 > fs.cluster_count)
  <2> DEFINE t == [r EXCEPT !.cluster = c, !.visited = @ + 1, !.sector = 0]
  <2>1. Shape(t) /\ t.pc = r.pc /\ t.cluster = c /\ t.sector = 0
    BY DEF Shape
  <2>2. LoopHead(r, c) = t
    BY <1>2 DEF LoopHead
  <2> HIDE DEF t
  <2>3. Placed(t)
    BY <2>1 DEF Placed, Walking, valid_cluster, Volume
  <2>4. QED
    BY <2>1, <2>2, <2>3 DEF Sound
<1>3. QED
  BY <1>1, <1>2

\* scan_directory checks the cluster it starts at (fat32.c:197-206).
LEMMA StartScanSound ==
  ASSUME fs.mounted, Volume(fs), NEW r, Shape(r), NEW c \in Nat, NEW purpose
  PROVE  Sound(StartScan(r, c, purpose))
<1> DEFINE t == [r EXCEPT !.pc = "scan", !.purpose = purpose, !.visited = 0]
<1>1. Shape(t) /\ t.pc = "scan"
  BY DEF Shape
<1>2. StartScan(r, c, purpose) = IF ~valid_cluster(c) THEN Return(r, "EBADFS") ELSE LoopHead(t, c)
  BY DEF StartScan
<1> HIDE DEF t
<1>3. QED
  BY <1>1, <1>2, ReturnSound, LoopHeadSound

\* fat32_list_directory and fat32_read_file with what lookup has found
\* (fat32.c:427-472).
LEMMA ResolvedSound ==
  ASSUME fs.mounted, Volume(fs), NEW r, Shape(r), NEW e, e.first_cluster \in Nat
  PROVE  Sound(Resolved(r, e))
<1> DEFINE t == [r EXCEPT !.pc = "copy", !.visited = 0, !.remaining = e.size]
<1>1. Shape(t) /\ t.pc = "copy"
  BY DEF Shape
<1>2. \/ Resolved(r, e) \in {StartScan(r, e.first_cluster, "list"), Return(r, "ENOTDIR"),
           Return(r, "EISDIR"), Return(r, "ENOSPC"), Return(r, "OK"), Return(r, "EBADFS")}
      \/ valid_cluster(e.first_cluster) /\ Resolved(r, e) = LoopHead(t, e.first_cluster)
  BY DEF Resolved
<1> HIDE DEF t
<1>3. QED
  BY <1>1, <1>2, ReturnSound, StartScanSound, LoopHeadSound

\* The head of the loop of lookup (fat32.c:247-266).
LEMMA LookupNextSound ==
  ASSUME Inv, call.pc = "lookup"
  PROVE  Sound(LookupNext(call))
<1> DEFINE t == [call EXCEPT !.rest = Tail(@)]
<1>1. fs.mounted /\ Volume(fs) /\ Shape(call) /\ call.directory \in Nat
  BY DEF Inv, Sound, Placed
<1>2. Sound(t)
  BY <1>1 DEF Inv, Sound, Shape, Placed, Walking
<1>3. RootEntry.first_cluster \in Nat
  BY <1>1 DEF RootEntry, Volume
<1>4. LookupNext(call) \in {Resolved(call, RootEntry), Return(call, "ENOTFOUND"),
        Return(call, "EINVAL"), t, StartScan(call, call.directory, "find")}
  BY Zenon DEF LookupNext
<1> HIDE DEF t
<1>5. QED
  BY <1>1, <1>2, <1>3, <1>4, ReturnSound, StartScanSound, ResolvedSound

\* lookup goes into a directory only at a valid cluster (fat32.c:272-283).
LEMMA FoundSound ==
  ASSUME fs.mounted, Volume(fs), NEW r, Shape(r), NEW e, e.first_cluster \in Nat
  PROVE  Sound(Found(r, e))
<1> DEFINE t == [r EXCEPT !.pc = "lookup", !.rest = Tail(@), !.directory = e.first_cluster]
<1>1. Shape(t) /\ t.pc = "lookup" /\ t.directory = e.first_cluster
  BY DEF Shape
<1>2. Found(r, e) \in {Resolved(r, e), Return(r, "ENOTDIR"), Return(r, "EBADFS"), t}
  BY Zenon DEF Found
<1> HIDE DEF t
<1>3. Sound(t)
  BY <1>1 DEF Sound, Placed, Walking
<1>4. QED
  BY <1>2, <1>3, ReturnSound, ResolvedSound

\* The sector in the cluster stays below sectors_per_cluster (fat32.c:211-212, 473-475).
LEMMA NextSectorSound ==
  ASSUME fs.mounted, Volume(fs), NEW r, Sound(r), r.pc \in {"scan", "copy"},
         NEW next \in {"scan_next", "copy_next"}
  PROVE  Sound(NextSector(r, next))
BY DEF NextSector, Sound, Shape, Placed, Walking, Volume

\* The entries of a sector, whatever clusters they name (fat32.c:218-227).
LEMMA ScanEntriesSound ==
  ASSUME Inv, call.pc = "scan", NEW raws,
         \A k \in 1 .. EntriesPerSector : raws[k].kind = "entry" => raws[k].first_cluster \in Nat
  PROVE  Sound(ScanEntries(call, raws))
<1> DEFINE stops == {k \in 1 .. EntriesPerSector : Stops(call, raws[k])}
           stop == CHOOSE k \in stops : \A j \in stops : k =< j
           seen == IF stops = {} THEN raws ELSE SubSeq(raws, 1, stop - 1)
           listed == IF call.purpose = "list"
                     THEN [call EXCEPT !.out = @ \o EntriesOf(seen)] ELSE call
<1>1. fs.mounted /\ Volume(fs) /\ Sound(call)
  BY DEF Inv, Sound, Placed, Walking
<1>2. Sound(listed) /\ listed.pc = "scan"
  BY <1>1 DEF Sound, Shape, Placed, Walking
<1>3. stops # {} => stop \in 1 .. EntriesPerSector
  <2>1. stops \in SUBSET (1 .. EntriesPerSector)
    OBVIOUS
  <2> HIDE DEF stops
  <2>2. QED
    BY <2>1, LeastStop, SizesFacts
<1>4. ScanEntries(call, raws) =
        IF stops = {} THEN NextSector(listed, "scan_next")
        ELSE IF raws[stop].kind = "entry" THEN Found(call, raws[stop])
        ELSE Return(listed, IF call.purpose = "find" THEN "ENOTFOUND" ELSE "OK")
  BY Zenon DEF ScanEntries
<1> HIDE DEF stops, stop, listed
<1>5. CASE stops = {}
  BY <1>1, <1>2, <1>4, <1>5, NextSectorSound
<1>6. CASE stops # {} /\ raws[stop].kind = "entry"
  <2>1. raws[stop].first_cluster \in Nat /\ Shape(call)
    BY <1>1, <1>3, <1>6 DEF Sound
  <2>2. QED
    BY <1>1, <1>4, <1>6, <2>1, FoundSound
<1>7. CASE stops # {} /\ raws[stop].kind # "entry"
  BY <1>4, <1>7, ReturnSound
<1>8. QED
  BY <1>5, <1>6, <1>7

\* The copy of a sector (fat32.c:473-498).
LEMMA CopySectorSound ==
  ASSUME Inv, call.pc = "copy", NEW bytes
  PROVE  Sound(CopySector(call, bytes))
<1> DEFINE copied == [call EXCEPT !.out = @ \o SubSeq(bytes, 1, Amount(call)),
                        !.remaining = IF Amount(call) < @ THEN @ - Amount(call) ELSE 0]
<1>1. fs.mounted /\ Volume(fs) /\ Sound(call)
  BY DEF Inv, Sound, Placed, Walking
<1>2. Sound(copied) /\ copied.pc = "copy"
  BY <1>1 DEF Sound, Shape, Placed, Walking
<1>3. CopySector(call, bytes) \in {Return(copied, "OK"), NextSector(copied, "copy_next")}
  BY Zenon DEF CopySector
<1> HIDE DEF copied
<1>4. QED
  BY <1>1, <1>2, <1>3, ReturnSound, NextSectorSound

\* A link that is followed is a valid cluster, whatever the FAT holds
\* (fat32.c:87-98, 229-234, 489-495).
LEMMA AfterLinkSound ==
  ASSUME Inv, call.pc \in {"scan_next", "copy_next"}, NEW v \in Nat, NEW ended
  PROVE  Sound(AfterLink(call, v, ended))
<1> DEFINE t == [call EXCEPT !.pc = IF call.pc = "scan_next" THEN "scan" ELSE "copy"]
<1>1. fs.mounted /\ Volume(fs) /\ Shape(call)
  BY DEF Inv, Sound, Placed, Walking
<1>2. Shape(t) /\ t.pc \in {"scan", "copy"}
  BY <1>1 DEF Shape
<1>3. \/ AfterLink(call, v, ended) \in {Return(call, ended), Return(call, "EBADFS")}
      \/ valid_cluster(v) /\ AfterLink(call, v, ended) = LoopHead(t, v)
  BY DEF AfterLink
<1> HIDE DEF t
<1>4. QED
  BY <1>1, <1>2, <1>3, ReturnSound, LoopHeadSound

-----------------------------------------------------------------------------
\* A volume that passes the checks of fat32_mount is one in the sense of Volume;
\* none of the computations on its boot record wraps (fat32.c:362-413).
LEMMA FinishMountSound ==
  ASSUME Inv, disk' = disk, NEW sector \in 0 .. Sectors(disk) - 1, NEW start \in Nat, NEW size \in Nat,
         looks_like_fat32_bpb(Boot(disk, sector)), FinishMount(Boot(disk, sector), start, size)
  PROVE  Inv'
<1> DEFINE b == Boot(disk, sector)
<1>1. /\ b.sectors_per_cluster \in Nat \ {0} /\ b.reserved_sectors \in Nat /\ b.fats \in {1, 2}
      /\ b.fat_size \in Nat /\ b.total_sectors \in Nat /\ b.root_cluster \in Nat
      /\ Count(disk) \in Nat
  <2>1. disk \in Disks
    BY DEF Inv
  <2>2. {b.sectors_per_cluster, b.reserved_sectors, b.fats, b.fat_size,
         b.total_sectors, b.root_cluster} \subseteq Nat /\ Count(disk) \in Nat
    BY <2>1, DisksAssumption
  <2>3. QED
    BY <2>2 DEF looks_like_fat32_bpb, power_of_two
<1> HIDE DEF b
<1>2. CASE GeometryValid(b, start, size)
  <2>1. DataStart(b) \in Nat /\ b.reserved_sectors + b.fat_size =< DataStart(b)
    BY <1>1 DEF DataStart
  <2>2. DataStart(b) < b.total_sectors /\ VolumeFits(b, start, size) /\ FatCovers(b)
        /\ ClusterCount(b) =< Clusters28 - 11
        /\ b.root_cluster >= 2 /\ b.root_cluster - 2 < ClusterCount(b)
    BY <1>2 DEF GeometryValid
  <2>3. b.total_sectors - DataStart(b) \in Nat
    BY <1>1, <2>1, <2>2
  <2>4. /\ ClusterCount(b) \in Nat
        /\ b.total_sectors - DataStart(b)
             = b.sectors_per_cluster * ClusterCount(b)
               + ((b.total_sectors - DataStart(b)) % b.sectors_per_cluster)
        /\ (b.total_sectors - DataStart(b)) % b.sectors_per_cluster
             \in 0 .. b.sectors_per_cluster - 1
    BY <1>1, <2>3, DivMod, Zenon DEF ClusterCount
  <2>5. DataStart(b) + ClusterCount(b) * b.sectors_per_cluster =< b.total_sectors
    BY <1>1, <2>1, <2>4
  <2>6. /\ start + b.total_sectors =< Wide - 1
        /\ Count(disk) # 0 => start + b.total_sectors =< Count(disk)
    BY <1>1, <2>2, SizesFacts DEF VolumeFits
  <2>7. call' = Return(call, "OK") /\ fs' =
          [mounted |-> TRUE, volume_start |-> start,
           sectors_per_cluster |-> b.sectors_per_cluster,
           fat_start |-> b.reserved_sectors, fat_sectors |-> b.fat_size,
           data_start |-> DataStart(b), cluster_count |-> ClusterCount(b),
           root_cluster |-> b.root_cluster, total_sectors |-> b.total_sectors]
    BY <1>2, Zenon DEF FinishMount, b
  <2>8. Volume(fs)'
    BY <1>1, <2>1, <2>2, <2>4, <2>5, <2>6, <2>7 DEF Volume, FatCovers
  <2>9. Sound(call)'
    BY <2>7 DEF Return, Ended, Sound, Shape, Placed, Walking
  <2>10. QED
    BY <2>8, <2>9 DEF Inv
<1>3. CASE ~GeometryValid(b, start, size)
  <2>1. fs' = fs /\ call' = Return(call, "EBADFS")
    BY <1>3, Zenon DEF FinishMount, b
  <2>2. Sound(call)'
    BY <2>1 DEF Return, Ended, Sound, Shape, Placed, Walking
  <2>3. QED
    BY <2>1, <2>2 DEF Inv, Volume
<1>4. QED
  BY <1>2, <1>3

\* A step that leaves the volume alone need only leave the call sound.
LEMMA SoundKept ==
  ASSUME Inv, UNCHANGED <<disk, fs>>, Sound(call')
  PROVE  Inv'
<1>1. Sound(call)'
  BY DEF Sound, Placed, Shape
<1>2. QED
  BY <1>1 DEF Inv, Volume
-----------------------------------------------------------------------------
\* Sector 0 (fat32.c:305-326).
LEMMA MountBootKeeps == Inv /\ MountBoot => Inv'
<1> SUFFICES ASSUME Inv, MountBoot PROVE Inv'
  OBVIOUS
<1> DEFINE b == Boot(disk, 0)
           t == [call EXCEPT !.pc = "partition"]
<1>1. disk \in Disks /\ Sectors(disk) \in Nat /\ disk' = disk /\ call.pc = "boot"
      /\ Shape(call) /\ call.candidate = 0
  BY DisksAssumption DEF Inv, MountBoot, Sound, Placed
<1>2. Shape(t) /\ t.pc = "partition" /\ t.candidate = 0
  BY <1>1 DEF Shape
<1>3. \/ call' = Return(call, "EIO") /\ fs' = fs
      \/ BlockReadOk(0) /\ looks_like_fat32_bpb(b) /\ FinishMount(b, 0, 0)
      \/ BlockReadOk(0) /\ call' \in {t, Return(call, "EBADFS")} /\ fs' = fs
  BY Zenon DEF MountBoot
<1> HIDE DEF t
<1>4. CASE call' \in {Return(call, "EIO"), Return(call, "EBADFS")} /\ fs' = fs
  BY <1>1, <1>4, ReturnSound, SoundKept
<1>5. CASE BlockReadOk(0) /\ looks_like_fat32_bpb(b) /\ FinishMount(b, 0, 0)
  <2>1. 0 \in 0 .. Sectors(disk) - 1 /\ 0 \in Nat
    BY <1>1, <1>5 DEF BlockReadOk
  <2>2. QED
    BY <1>1, <1>5, <2>1, FinishMountSound, Zenon
<1>6. CASE BlockReadOk(0) /\ call' = t /\ fs' = fs
  <2>1. Sound(t)
    BY <1>2, <1>6 DEF Sound, Placed, Walking, BlockReadOk
  <2>2. QED
    BY <1>1, <1>6, <2>1, SoundKept
<1>7. QED
  BY <1>3, <1>4, <1>5, <1>6

\* The partitions (fat32.c:332-360).
LEMMA MountPartitionKeeps == Inv /\ MountPartition => Inv'
<1> SUFFICES ASSUME Inv, MountPartition PROVE Inv'
  OBVIOUS
<1> DEFINE p == Partition(call.candidate)
           t == [call EXCEPT !.candidate = @ + 1]
<1>1. disk \in Disks /\ Sectors(disk) \in Nat /\ disk' = disk /\ call.pc = "partition"
      /\ Shape(call) /\ call.candidate \in 0 .. 7 /\ 0 < Sectors(disk)
  BY DisksAssumption DEF Inv, MountPartition, Sound, Placed
<1>2. p.start \in Nat /\ p.size \in Nat
  <2>1. 0 \in 0 .. Sectors(disk) - 1 /\ (call.candidate % 4) + 1 \in 1 .. 4
    BY <1>1
  <2>2. QED
    BY <1>1, <2>1, DisksAssumption, Zenon DEF Partition
<1>3. ASSUME NextCandidate, fs' = fs PROVE Inv'
  <2>1. CASE call.candidate = 7
    BY <1>1, <1>3, <2>1, ReturnSound, SoundKept DEF NextCandidate
  <2>2. CASE call.candidate # 7
    <3>1. Shape(t) /\ t.pc = "partition" /\ t.candidate = call.candidate + 1
      BY <1>1 DEF Shape
    <3>2. call' = t
      BY <1>3, <2>2 DEF NextCandidate
    <3> HIDE DEF t
    <3>3. Sound(t)
      BY <1>1, <2>2, <3>1 DEF Sound, Placed, Walking
    <3>4. QED
      BY <1>1, <1>3, <3>2, <3>3, SoundKept
  <2>3. QED
    BY <2>1, <2>2
<1>4. ASSUME BlockReadOk(p.start), HoldsVolume(p, Boot(disk, p.start)),
             FinishMount(Boot(disk, p.start), p.start, p.size)
      PROVE  Inv'
  <2>1. p.start \in 0 .. Sectors(disk) - 1
    BY <1>1, <1>2, <1>4 DEF BlockReadOk
  <2>2. looks_like_fat32_bpb(Boot(disk, p.start))
    BY <1>4, Zenon DEF HoldsVolume
  <2>3. QED
    BY <1>1, <1>2, <1>4, <2>1, <2>2, FinishMountSound, Zenon
<1>5. \/ NextCandidate /\ fs' = fs
      \/ /\ BlockReadOk(p.start) /\ HoldsVolume(p, Boot(disk, p.start))
         /\ FinishMount(Boot(disk, p.start), p.start, p.size)
  BY Zenon DEF MountPartition
<1>6. QED
  BY <1>3, <1>4, <1>5, Zenon

\* lookup (fat32.c:237-284).
LEMMA LookupKeeps == Inv /\ Lookup => Inv'
<1> SUFFICES ASSUME Inv, Lookup PROVE Inv'
  OBVIOUS
<1>1. call.pc = "lookup" /\ call' = LookupNext(call) /\ UNCHANGED <<disk, fs>>
  BY DEF Lookup
<1>2. QED
  BY <1>1, LookupNextSound, SoundKept, Zenon

\* A sector of a directory (fat32.c:211-228).
LEMMA ScanKeeps == Inv /\ Scan => Inv'
<1> SUFFICES ASSUME Inv, Scan PROVE Inv'
  OBVIOUS
<1> DEFINE s == DataSector(call)
<1>1. call.pc = "scan" /\ UNCHANGED <<disk, fs>>
  BY DEF Scan
<1>2. fs.mounted /\ Volume(fs) /\ disk \in Disks /\ Placed(call) /\ call.pc \in Walking
  BY <1>1 DEF Inv, Sound, Placed, Walking
<1>3. s \in Nat /\ fs.volume_start \in Nat
  <2>1. s \in fs.data_start .. fs.total_sectors - 1
    BY <1>2, DataSectorInside, Zenon
  <2> HIDE DEF s
  <2>2. QED
    BY <1>2, <2>1 DEF Volume
<1> HIDE DEF s
<1>4. ASSUME ReadOk(s) PROVE Sound(ScanEntries(call, RawsOf(s)))
  <2>1. fs.volume_start + s \in 0 .. Sectors(disk) - 1
    BY <1>2, <1>3, <1>4, DisksAssumption DEF ReadOk, BlockReadOk
  <2>2. \A k \in 0 .. EntriesPerSector - 1 :
          Raw(disk, fs.volume_start + s, k).kind = "entry"
            => Raw(disk, fs.volume_start + s, k).first_cluster \in Nat
    BY <1>2, <2>1, DisksAssumption, Zenon
  <2>3. \A k \in 1 .. EntriesPerSector :
          RawsOf(s)[k].kind = "entry" => RawsOf(s)[k].first_cluster \in Nat
    <3>1. SUFFICES ASSUME NEW k \in 1 .. EntriesPerSector
                   PROVE  RawsOf(s)[k].kind = "entry" => RawsOf(s)[k].first_cluster \in Nat
      OBVIOUS
    <3>2. k - 1 \in 0 .. EntriesPerSector - 1
      BY SizesFacts
    <3>3. RawsOf(s)[k] = Raw(disk, fs.volume_start + s, k - 1)
      BY DEF RawsOf
    <3>4. QED
      BY <2>2, <3>2, <3>3, Zenon
  <2>4. QED
    BY <1>1, <2>3, ScanEntriesSound, Zenon
<1>5. \/ ReadOk(s) /\ call' = ScanEntries(call, RawsOf(s))
      \/ call' = Return(call, "EIO")
  BY Zenon DEF Scan, s
<1>6. QED
  BY <1>1, <1>4, <1>5, ReturnSound, SoundKept, Zenon

\* A sector of a file (fat32.c:473-488).
LEMMA CopyKeeps == Inv /\ Copy => Inv'
<1> SUFFICES ASSUME Inv, Copy PROVE Inv'
  OBVIOUS
<1>1. call.pc = "copy" /\ UNCHANGED <<disk, fs>>
  BY DEF Copy
<1>2. \/ call' = CopySector(call, BytesOf(DataSector(call)))
      \/ call' = Return(call, "EIO")
  BY Zenon DEF Copy
<1>3. QED
  BY <1>1, <1>2, CopySectorSound, ReturnSound, SoundKept, Zenon

\* next_cluster, called by either loop (fat32.c:68-98).
LEMMA NextClusterKeeps ==
  ASSUME Inv, NEW pc \in {"scan_next", "copy_next"}, NEW ended, NEW fault,
         next_cluster(pc, ended, fault)
  PROVE  Inv'
<1> DEFINE c == call.cluster
           s == LinkSector(c)
           k == (LinkOffset(c) % SectorBytes) \div LinkBytes
<1>1. call.pc = pc /\ UNCHANGED <<disk, fs>>
  BY DEF next_cluster
<1>2. fs.mounted /\ Volume(fs) /\ disk \in Disks /\ c \in 2 .. fs.cluster_count + 1
  BY <1>1 DEF Inv, Sound, Placed, Walking
<1>3. s \in Nat /\ fs.volume_start \in Nat /\ k \in 0 .. PerSector - 1
  <2>1. s \in fs.fat_start .. fs.data_start - 1 /\ k \in 0 .. PerSector - 1
    BY <1>2, LinkInside, Zenon
  <2> HIDE DEF s, k
  <2>2. QED
    BY <1>2, <2>1 DEF Volume
<1>4. \/ ReadOk(s) /\ call' = AfterLink(call, LinkRead(c), ended)
      \/ call' \in {Return(call, fault), Return(call, "EBADFS")}
  BY Zenon DEF next_cluster
<1>5. LinkRead(c) = Link(disk, fs.volume_start + s, k) % Clusters28
  BY Zenon DEF LinkRead
<1> HIDE DEF c, s, k
<1>6. ASSUME ReadOk(s) PROVE LinkRead(c) \in Nat
  <2>1. fs.volume_start + s \in 0 .. Sectors(disk) - 1
    BY <1>2, <1>3, <1>6, DisksAssumption DEF ReadOk, BlockReadOk
  <2>2. Link(disk, fs.volume_start + s, k) \in Nat
    BY <1>2, <1>3, <2>1, DisksAssumption, Zenon
  <2>3. QED
    BY <1>5, <2>2, SizesFacts
<1>7. CASE ReadOk(s) /\ call' = AfterLink(call, LinkRead(c), ended)
  BY <1>1, <1>6, <1>7, AfterLinkSound, SoundKept, Zenon
<1>8. CASE call' \in {Return(call, fault), Return(call, "EBADFS")}
  BY <1>1, <1>8, ReturnSound, SoundKept
<1>9. QED
  BY <1>4, <1>7, <1>8

\* Every step of the file system.
LEMMA StepKeeps == Inv /\ Step => Inv'
<1>1. ASSUME Inv, ScanNext PROVE Inv'
  BY <1>1, NextClusterKeeps DEF ScanNext
<1>2. ASSUME Inv, CopyNext PROVE Inv'
  BY <1>2, NextClusterKeeps DEF CopyNext
<1>3. QED
  BY <1>1, <1>2, MountBootKeeps, MountPartitionKeeps, LookupKeeps, ScanKeeps, CopyKeeps
     DEF Step, FsStep

\* No call is under way.
LEMMA NoCallSound == Sound(NoCall)
BY DEF NoCall, Ended, Sound, Shape, Placed, Walking

\* ls and cat make a call (shell.c:183-197, fat32.c:415-452).
LEMMA EnterKeeps ==
  ASSUME Inv, NEW name, NEW op, NEW path, Enter(name, op, path)
  PROVE  Inv'
<1> DEFINE r == Ended(op, path, "OK", <<>>)
           t == [r EXCEPT !.pc = "lookup", !.capacity = CatBuffer, !.rest = path,
                          !.directory = fs.root_cluster]
<1>1. UNCHANGED <<disk, fs>> /\ call' = Called(op, path, CatBuffer)
  BY DEF Enter
<1>2. Called(op, path, CatBuffer) = IF ~fs.mounted THEN Return(r, "EBADFS") ELSE t
  BY Zenon DEF Called
<1>3. Shape(t) /\ t.pc = "lookup" /\ t.directory = fs.root_cluster
  BY DEF Ended, Shape
<1> HIDE DEF r, t
<1>4. fs.mounted => Sound(t)
  BY <1>3 DEF Inv, Volume, Sound, Placed, Walking
<1>5. QED
  BY <1>1, <1>2, <1>4, ReturnSound, SoundKept

\* The invariant holds at the start.
LEMMA InitSound == Init => Inv
<1> SUFFICES ASSUME Init PROVE Inv
  OBVIOUS
<1>1. Sound(fat32_mount)
  BY DEF fat32_mount, Ended, Sound, Shape, Placed, Walking
<1>2. disk \in Disks /\ ~fs.mounted /\ call \in {fat32_mount, NoCall}
  BY DEF Init, Unmounted
<1>3. QED
  BY <1>1, <1>2, NoCallSound DEF Inv

\* The invariant is inductive.
LEMMA NextKeeps == Inv /\ [Next]_vars => Inv'
<1> SUFFICES ASSUME Inv, [Next]_vars PROVE Inv'
  OBVIOUS
<1>1. CASE Banner
  BY <1>1, NoCallSound, SoundKept DEF Banner
<1>2. CASE ls
  BY <1>2, EnterKeeps DEF ls
<1>3. CASE cat
  BY <1>3, EnterKeeps DEF cat
<1>4. CASE Report
  BY <1>4, NoCallSound, SoundKept DEF Report
<1>5. CASE Step
  BY <1>5, StepKeeps
<1>6. CASE UNCHANGED vars
  <2>1. UNCHANGED <<disk, fs, call>>
    BY <1>6 DEF vars, fsvars
  <2>2. Sound(call')
    BY <2>1 DEF Inv
  <2>3. QED
    BY <2>1, <2>2, SoundKept
<1>7. QED
  BY <1>1, <1>2, <1>3, <1>4, <1>5, <1>6 DEF Next

\* Every sector that a directory walk, a file read or a FAT lookup asks for lies
\* in the data area or the FAT of the volume and on the device, on every disk,
\* for every path and wherever the device fails (fat32.c:49-98, 213, 476).
THEOREM StaysInsideVolume == Spec => []InsideVolume
BY InitSound, NextKeeps, HeldInside, PTL DEF Spec

-----------------------------------------------------------------------------
(* What a call returns.  TypeOK bounds the bytes copied by the caller's    *)
(* buffer, and ErrorExplained an EIO by what the device said; neither is   *)
(* inductive.  Typed says what the loops keep of the space left and which  *)
(* part of lookup leaves it alone, and an Answer is a call whose result,   *)
(* if it has one, is not EIO: only a failing read returns that.  No call   *)
(* turns into another (r.op).                                              *)

\* The bytes a sector can give.
Bytes == {Byte(disk, s, k) : s \in Nat, k \in Nat}

\* The room in the caller's buffer.  Until the file is found nothing has been
\* copied and the capacity is still what the caller said (fat32.c:435-470).
Room(r) ==
  /\ r.out \in Seq(Bytes) /\ r.remaining \in Nat /\ Len(r.out) + r.remaining =< CatBuffer
  /\ r.pc \in {"lookup", "scan", "scan_next"} =>
       r.out = <<>> /\ r.capacity = CatBuffer /\ r.purpose = "find"

Typed(r) ==
  /\ r.pc \in {"idle", "boot", "partition", "lookup"} \cup Walking
  /\ r.result \in Results /\ r.visited \in 0 .. fs.cluster_count
  /\ r.pc \in {"boot", "partition"} => r.op = "mount"
  /\ r.pc \in {"lookup"} \cup Walking => r.op \in {"list", "read"}
  /\ r.op = "read" => Room(r)

Answer(r) ==
  Shape(r) /\ Typed(r) /\ r.op = call.op /\ (r.pc = "idle" => r.result # "EIO")

\* A return gives no more than was copied.
LEMMA ReturnTyped ==
  ASSUME NEW r, r.op = "read" => Room(r), fs.cluster_count \in Nat, CatBuffer \in Nat,
         NEW result \in Results
  PROVE  /\ Typed(Return(r, result)) /\ Return(r, result).result = result
         /\ Return(r, result).op = r.op
         /\ r.op = call.op /\ result # "EIO" => Answer(Return(r, result))
<1> DEFINE out == IF result = "OK" THEN r.out ELSE <<>>
           t == [Ended(r.op, r.path, result, out) EXCEPT !.capacity = r.capacity]
<1>1. /\ Shape(t) /\ t.pc = "idle" /\ t.op = r.op /\ t.result = result /\ t.out = out
      /\ t.visited = 0 /\ t.remaining = 0
  BY DEF Ended, Shape
<1>2. Return(r, result) = t
  BY DEF Return
<1>3. ASSUME r.op = "read" PROVE out \in Seq(Bytes) /\ Len(out) =< CatBuffer /\ Len(out) \in Nat
  BY <1>3 DEF Room
<1> HIDE DEF t, out
<1>4. t.op = "read" => Room(t)
  BY <1>1, <1>3 DEF Room
<1>5. Typed(t)
  BY <1>1, <1>4 DEF Typed, Walking
<1>6. QED
  BY <1>1, <1>2, <1>5 DEF Answer

\* The count of visited clusters stays within the volume (fat32.c:209, 471).
LEMMA LoopHeadTyped ==
  ASSUME fs.cluster_count \in Nat, CatBuffer \in Nat, NEW r, Answer(r),
         r.pc \in {"scan", "copy"}, NEW c
  PROVE  Answer(LoopHead(r, c))
<1>1. CASE r.visited + 1 > fs.cluster_count
  <2>1. LoopHead(r, c) = Return(r, "ELOOP") /\ "ELOOP" \in Results
    BY <1>1 DEF LoopHead, Results
  <2>2. QED
    BY <2>1, ReturnTyped DEF Answer, Typed
<1>2. CASE ~(r.visited + 1 > fs.cluster_count)
  <2> DEFINE t == [r EXCEPT !.cluster = c, !.visited = @ + 1, !.sector = 0]
  <2>1. /\ Shape(t) /\ t.pc = r.pc /\ t.op = r.op /\ t.result = r.result /\ t.out = r.out
        /\ t.remaining = r.remaining /\ t.capacity = r.capacity /\ t.purpose = r.purpose
        /\ t.visited = r.visited + 1
    BY DEF Answer, Shape
  <2>2. LoopHead(r, c) = t
    BY <1>2 DEF LoopHead
  <2> HIDE DEF t
  <2>3. t.op = "read" => Room(t)
    BY <2>1 DEF Answer, Typed, Room
  <2>4. t.visited \in 0 .. fs.cluster_count
    BY <1>2, <2>1 DEF Answer, Typed
  <2>5. QED
    BY <2>1, <2>2, <2>3, <2>4 DEF Answer, Typed
<1>3. QED
  BY <1>1, <1>2

\* A scan for lookup copies nothing.
LEMMA StartScanTyped ==
  ASSUME fs.cluster_count \in Nat, CatBuffer \in Nat, NEW r, Answer(r),
         NEW c, NEW purpose, r.op \in {"list", "read"},
         r.op = "read" => r.pc \in {"lookup", "scan"} /\ purpose = "find"
  PROVE  Answer(StartScan(r, c, purpose))
<1> DEFINE t == [r EXCEPT !.pc = "scan", !.purpose = purpose, !.visited = 0]
<1>1. /\ Shape(t) /\ t.pc = "scan" /\ t.op = r.op /\ t.result = r.result /\ t.out = r.out
      /\ t.remaining = r.remaining /\ t.capacity = r.capacity /\ t.purpose = purpose
      /\ t.visited = 0
  BY DEF Answer, Shape
<1>2. StartScan(r, c, purpose) \in {Return(r, "EBADFS"), LoopHead(t, c)}
  BY DEF StartScan
<1> HIDE DEF t
<1>3. t.op = "read" => Room(t)
  BY <1>1 DEF Answer, Typed, Room
<1>4. Answer(t)
  BY <1>1, <1>3 DEF Answer, Typed, Walking
<1>5. Answer(Return(r, "EBADFS"))
  BY ReturnTyped DEF Answer, Typed, Results
<1>6. QED
  BY <1>1, <1>2, <1>4, <1>5, LoopHeadTyped

\* A file is copied only if it fits (fat32.c:455-472).
LEMMA ResolvedTyped ==
  ASSUME fs.cluster_count \in Nat, CatBuffer \in Nat, NEW r, Answer(r),
         r.pc \in {"lookup", "scan"}, r.op \in {"list", "read"}, NEW e, e.size \in Nat
  PROVE  Answer(Resolved(r, e))
<1> DEFINE t == [r EXCEPT !.pc = "copy", !.visited = 0, !.remaining = e.size]
<1>1. /\ Shape(t) /\ t.pc = "copy" /\ t.op = r.op /\ t.result = r.result /\ t.out = r.out
      /\ t.remaining = e.size /\ t.visited = 0
  BY DEF Answer, Shape
<1>2. \/ Resolved(r, e) \in {Return(r, x) : x \in Results \ {"EIO"}}
      \/ r.op = "list" /\ Resolved(r, e) = StartScan(r, e.first_cluster, "list")
      \/ /\ r.op = "read" /\ ~(r.capacity < e.size)
         /\ Resolved(r, e) = LoopHead(t, e.first_cluster)
  BY DEF Resolved, Results
<1> HIDE DEF t
<1>3. ASSUME NEW x \in Results \ {"EIO"} PROVE Answer(Return(r, x))
  BY ReturnTyped DEF Answer, Typed
<1>4. r.op = "list" => Answer(StartScan(r, e.first_cluster, "list"))
  BY StartScanTyped
<1>5. ASSUME r.op = "read", ~(r.capacity < e.size) PROVE Answer(LoopHead(t, e.first_cluster))
  <2>1. r.out = <<>> /\ r.capacity = CatBuffer /\ Room(r)
    BY <1>5 DEF Answer, Typed, Room
  <2>2. t.out \in Seq(Bytes) /\ Len(t.out) = 0
    BY <1>1, <2>1
  <2>3. Room(t)
    BY <1>1, <1>5, <2>1, <2>2 DEF Room
  <2>4. Answer(t)
    BY <1>1, <2>3 DEF Answer, Typed, Walking
  <2>5. QED
    BY <1>1, <2>4, LoopHeadTyped
<1>6. QED
  BY <1>2, <1>3, <1>4, <1>5

\* A step of lookup (fat32.c:247-266).
LEMMA LookupNextTyped ==
  ASSUME fs.cluster_count \in Nat, CatBuffer \in Nat, NEW r, Answer(r), r.pc = "lookup",
         r.op \in {"list", "read"}
  PROVE  Answer(LookupNext(r))
<1> DEFINE t == [r EXCEPT !.rest = Tail(@)]
<1>1. /\ Shape(t) /\ t.pc = r.pc /\ t.op = r.op /\ t.result = r.result /\ t.out = r.out
      /\ t.remaining = r.remaining /\ t.capacity = r.capacity /\ t.purpose = r.purpose
      /\ t.visited = r.visited
  BY DEF Answer, Shape
<1>2. LookupNext(r) \in {Resolved(r, RootEntry), Return(r, "ENOTFOUND"),
        Return(r, "EINVAL"), t, StartScan(r, r.directory, "find")}
  BY Zenon DEF LookupNext
<1> HIDE DEF t
<1>3. t.op = "read" => Room(t)
  BY <1>1 DEF Answer, Typed, Room
<1>4. Answer(t)
  BY <1>1, <1>3 DEF Answer, Typed
<1>5. Answer(Return(r, "ENOTFOUND")) /\ Answer(Return(r, "EINVAL"))
  BY ReturnTyped DEF Answer, Typed, Results
<1>6. Answer(StartScan(r, r.directory, "find"))
  BY StartScanTyped
<1>7. Answer(Resolved(r, RootEntry))
  <2>1. RootEntry.size \in Nat
    BY DEF RootEntry
  <2>2. QED
    BY <2>1, ResolvedTyped
<1>8. QED
  BY <1>2, <1>4, <1>5, <1>6, <1>7

\* find_callback has found an entry (fat32.c:267-283).
LEMMA FoundTyped ==
  ASSUME fs.cluster_count \in Nat, CatBuffer \in Nat, NEW r, Answer(r), r.pc = "scan",
         r.op \in {"list", "read"}, NEW e, e.size \in Nat
  PROVE  Answer(Found(r, e))
<1> DEFINE t == [r EXCEPT !.pc = "lookup", !.rest = Tail(@), !.directory = e.first_cluster]
<1>1. /\ Shape(t) /\ t.pc = "lookup" /\ t.op = r.op /\ t.result = r.result /\ t.out = r.out
      /\ t.remaining = r.remaining /\ t.capacity = r.capacity /\ t.purpose = r.purpose
      /\ t.visited = r.visited
  BY DEF Answer, Shape
<1>2. Found(r, e) \in {Resolved(r, e), Return(r, "ENOTDIR"), Return(r, "EBADFS"), t}
  BY Zenon DEF Found
<1> HIDE DEF t
<1>3. t.op = "read" => Room(t)
  BY <1>1 DEF Answer, Typed, Room
<1>4. Answer(t)
  BY <1>1, <1>3 DEF Answer, Typed
<1>5. Answer(Return(r, "ENOTDIR")) /\ Answer(Return(r, "EBADFS"))
  BY ReturnTyped DEF Answer, Typed, Results
<1>6. QED
  BY <1>2, <1>4, <1>5, ResolvedTyped

\* The next sector, or the FAT (fat32.c:211-212, 473-475).
LEMMA NextSectorTyped ==
  ASSUME NEW r, Answer(r), NEW next,
         <<r.pc, next>> \in {<<"scan", "scan_next">>, <<"copy", "copy_next">>}
  PROVE  Answer(NextSector(r, next))
<1> DEFINE t == [r EXCEPT !.sector = @ + 1]
           u == [r EXCEPT !.pc = next]
<1>1. /\ Shape(t) /\ t.pc = r.pc /\ t.op = r.op /\ t.result = r.result /\ t.out = r.out
      /\ t.remaining = r.remaining /\ t.capacity = r.capacity /\ t.purpose = r.purpose
      /\ t.visited = r.visited
  BY DEF Answer, Shape
<1>2. /\ Shape(u) /\ u.pc = next /\ u.op = r.op /\ u.result = r.result /\ u.out = r.out
      /\ u.remaining = r.remaining /\ u.capacity = r.capacity /\ u.purpose = r.purpose
      /\ u.visited = r.visited
  BY DEF Answer, Shape
<1>3. NextSector(r, next) \in {t, u}
  BY DEF NextSector
<1> HIDE DEF t, u
<1>4. (t.op = "read" => Room(t)) /\ (u.op = "read" => Room(u))
  BY <1>1, <1>2 DEF Answer, Typed, Room
<1>5. Answer(t)
  BY <1>1, <1>4 DEF Answer, Typed
<1>6. Answer(u)
  BY <1>2, <1>4 DEF Answer, Typed, Walking
<1>7. QED
  BY <1>3, <1>5, <1>6

\* The entries of a sector: those that are listed are no bytes of a file, and a
\* scan for a read lists none (fat32.c:218-227).
LEMMA ScanEntriesTyped ==
  ASSUME fs.cluster_count \in Nat, CatBuffer \in Nat, NEW r, Answer(r), r.pc = "scan",
         NEW raws,
         \A k \in 1 .. EntriesPerSector : raws[k].kind = "entry" => raws[k].size \in Nat
  PROVE  Answer(ScanEntries(r, raws))
<1> DEFINE stops == {k \in 1 .. EntriesPerSector : Stops(r, raws[k])}
           stop == CHOOSE k \in stops : \A j \in stops : k =< j
           seen == IF stops = {} THEN raws ELSE SubSeq(raws, 1, stop - 1)
           listed == IF r.purpose = "list"
                     THEN [r EXCEPT !.out = @ \o EntriesOf(seen)] ELSE r
<1>1. r.op \in {"list", "read"}
  BY DEF Answer, Typed, Walking
<1>2. Answer(listed) /\ listed.pc = "scan"
  <2> DEFINE t == [r EXCEPT !.out = @ \o EntriesOf(seen)]
  <2> HIDE DEF seen
  <2>1. /\ Shape(t) /\ t.pc = r.pc /\ t.op = r.op /\ t.result = r.result
        /\ t.visited = r.visited
    BY DEF Answer, Shape
  <2>2. listed = IF r.purpose = "list" THEN t ELSE r
    OBVIOUS
  <2> HIDE DEF t, listed
  <2>3. CASE r.purpose = "list"
    <3>1. t.op # "read"
      BY <2>1, <2>3 DEF Answer, Typed, Room
    <3>2. QED
      BY <2>1, <2>2, <2>3, <3>1 DEF Answer, Typed
  <2>4. CASE r.purpose # "list"
    BY <2>2, <2>4
  <2>5. QED
    BY <2>3, <2>4
<1>3. stops # {} => stop \in 1 .. EntriesPerSector
  <2>1. stops \in SUBSET (1 .. EntriesPerSector)
    OBVIOUS
  <2> HIDE DEF stops
  <2>2. QED
    BY <2>1, LeastStop, SizesFacts
<1>4. ScanEntries(r, raws) =
        IF stops = {} THEN NextSector(listed, "scan_next")
        ELSE IF raws[stop].kind = "entry" THEN Found(r, raws[stop])
        ELSE Return(listed, IF r.purpose = "find" THEN "ENOTFOUND" ELSE "OK")
  BY Zenon DEF ScanEntries
<1> HIDE DEF stops, stop, listed
<1>5. CASE stops = {}
  BY <1>2, <1>4, <1>5, NextSectorTyped
<1>6. CASE stops # {} /\ raws[stop].kind = "entry"
  BY <1>1, <1>3, <1>4, <1>6, FoundTyped
<1>7. CASE stops # {} /\ raws[stop].kind # "entry"
  <2>1. ScanEntries(r, raws) \in {Return(listed, "ENOTFOUND"), Return(listed, "OK")}
    BY <1>4, <1>7
  <2>2. QED
    BY <1>2, <2>1, ReturnTyped DEF Answer, Typed, Results
<1>8. QED
  BY <1>5, <1>6, <1>7

\* The lengths of two sequences add up.
LEMMA Joined ==
  ASSUME NEW S, NEW a \in Seq(S), NEW b \in Seq(S)
  PROVE  a \o b \in Seq(S) /\ Len(a \o b) = Len(a) + Len(b)
OBVIOUS

\* What is copied is taken off what remains (fat32.c:479-487).
LEMMA CopySectorTyped ==
  ASSUME fs.cluster_count \in Nat, CatBuffer \in Nat, NEW r, Answer(r), r.pc = "copy",
         NEW bytes \in Seq(Bytes), Len(bytes) = SectorBytes
  PROVE  Answer(CopySector(r, bytes))
<1> DEFINE more == SubSeq(bytes, 1, Amount(r))
           left == IF Amount(r) < r.remaining THEN r.remaining - Amount(r) ELSE 0
           copied == [r EXCEPT !.out = @ \o more, !.remaining = left]
<1>1. CopySector(r, bytes) = IF copied.remaining = 0 THEN Return(copied, "OK")
                             ELSE NextSector(copied, "copy_next")
  BY DEF CopySector
<1>2. ASSUME r.op = "read"
      PROVE  /\ r.out \o more \in Seq(Bytes) /\ left \in Nat
             /\ Len(r.out \o more) + left =< CatBuffer
  <2>1. r.out \in Seq(Bytes) /\ r.remaining \in Nat /\ Len(r.out) + r.remaining =< CatBuffer
        /\ Len(r.out) \in Nat
    BY <1>2 DEF Answer, Typed, Room
  <2>2. Amount(r) \in 0 .. SectorBytes /\ Amount(r) =< r.remaining
    BY <2>1, SizesAssumption DEF Amount
  <2>3. more \in Seq(Bytes) /\ Len(more) = Amount(r)
    <3>1. PICK n : n = Amount(r)
      OBVIOUS
    <3>2. n \in 0 .. Len(bytes)
      BY <2>2, <3>1
    <3>3. SubSeq(bytes, 1, n) \in Seq(Bytes) /\ Len(SubSeq(bytes, 1, n)) = n
      BY <3>2
    <3>4. QED
      BY <3>1, <3>3
  <2> HIDE DEF more
  <2>4. Len(r.out \o more) = Len(r.out) + Amount(r) /\ r.out \o more \in Seq(Bytes)
    BY <2>1, <2>3, Joined, Zenon
  <2>5. left = r.remaining - Amount(r)
    BY <2>1, <2>2
  <2> HIDE DEF left
  <2>6. QED
    BY <2>1, <2>2, <2>4, <2>5, SMTT(30)
<1> HIDE DEF more, left
<1>3. /\ Shape(copied) /\ copied.pc = "copy" /\ copied.op = r.op /\ copied.result = r.result
      /\ copied.out = r.out \o more /\ copied.remaining = left /\ copied.visited = r.visited
  BY DEF Answer, Shape
<1> HIDE DEF copied
<1>4. copied.op = "read" => Room(copied)
  BY <1>2, <1>3 DEF Room
<1>5. Answer(copied)
  BY <1>3, <1>4 DEF Answer, Typed
<1>6. Answer(Return(copied, "OK")) /\ Answer(NextSector(copied, "copy_next"))
  <2>1. copied.op = call.op /\ "OK" \in Results /\ "OK" # "EIO"
    BY <1>5 DEF Answer, Results
  <2>2. QED
    BY <1>3, <1>4, <1>5, <2>1, ReturnTyped, NextSectorTyped
<1>7. QED
  BY <1>1, <1>6

\* The walk goes on, or ends otherwise than with EIO (fat32.c:87-98, 229-234).
LEMMA AfterLinkTyped ==
  ASSUME fs.cluster_count \in Nat, CatBuffer \in Nat, NEW r, Answer(r),
         r.pc \in {"scan_next", "copy_next"}, NEW v, NEW ended \in Results \ {"EIO"}
  PROVE  Answer(AfterLink(r, v, ended))
<1> DEFINE t == [r EXCEPT !.pc = IF r.pc = "scan_next" THEN "scan" ELSE "copy"]
<1>1. /\ Shape(t) /\ t.pc = (IF r.pc = "scan_next" THEN "scan" ELSE "copy")
      /\ t.op = r.op /\ t.result = r.result /\ t.out = r.out
      /\ t.remaining = r.remaining /\ t.capacity = r.capacity /\ t.purpose = r.purpose
      /\ t.visited = r.visited
  BY DEF Answer, Shape
<1>2. AfterLink(r, v, ended) \in {Return(r, ended), Return(r, "EBADFS"), LoopHead(t, v)}
  BY DEF AfterLink
<1> HIDE DEF t
<1>3. t.op = "read" => Room(t)
  BY <1>1 DEF Answer, Typed, Room
<1>4. Answer(t) /\ t.pc \in {"scan", "copy"}
  BY <1>1, <1>3 DEF Answer, Typed, Walking
<1>5. Answer(Return(r, ended)) /\ Answer(Return(r, "EBADFS"))
  BY ReturnTyped DEF Answer, Typed, Results
<1>6. QED
  BY <1>2, <1>4, <1>5, LoopHeadTyped

-----------------------------------------------------------------------------
\* The device as the calls leave it.
DeviceTypes ==
  faulted \in BOOLEAN /\ present \in BOOLEAN /\ last_error \in {"ok", "ESTATUS", "ENODEV"}

\* An EIO that a command will report has its reason in last_error, or comes from
\* a sector that the driver cannot address.
Explained ==
  command \in {"ls", "cat"} /\ call.pc = "idle" /\ call.result = "EIO" =>
    last_error # "ok" \/ PastLba28

\* Nothing is on the screen before the volume is mounted.
Silent == call.op = "mount" => shown = NoMessage

\* With Inv, the inductive invariant behind TypeOK and ErrorExplained.
Told ==
  /\ fs.mounted \in BOOLEAN /\ fs.cluster_count \in Nat /\ DeviceTypes /\ Typed(call)
  /\ status \in Results /\ command \in {"init", "ls", "cat", "none"}
  /\ Explained /\ Silent /\ ErrorExplained

\* Told is stronger than the two properties.
LEMMA ToldTypes == Told => TypeOK /\ ErrorExplained
<1> SUFFICES ASSUME Told PROVE TypeOK
  BY DEF Told
<1>1. /\ fs.mounted \in BOOLEAN /\ faulted \in BOOLEAN
      /\ present \in BOOLEAN /\ last_error \in {"ok", "ESTATUS", "ENODEV"}
      /\ status \in Results /\ command \in {"init", "ls", "cat", "none"} /\ Typed(call)
  BY Zenon DEF Told, DeviceTypes
<1>2. /\ call.pc \in {"idle", "boot", "partition", "lookup", "scan", "scan_next",
                      "copy", "copy_next"}
      /\ call.result \in Results /\ call.visited \in 0 .. fs.cluster_count
      /\ call.op = "read" => Len(call.out) + call.remaining =< CatBuffer
  BY <1>1 DEF Typed, Walking, Room
<1>3. QED
  BY <1>1, <1>2, Zenon DEF TypeOK

\* A read that succeeds.
LEMMA ReadOkDevice ==
  ASSUME DeviceTypes, NEW s, BlockReadOk(s)
  PROVE  DeviceTypes'
BY DEF DeviceTypes, BlockReadOk

\* A read of a sector on the device that fails leaves its reason if the driver
\* can address the sector (block.c:9-11, ata.c:43-49, 160-163).
LEMMA ReadFailsDevice ==
  ASSUME DeviceTypes, NEW s, BlockReadFails(s)
  PROVE  DeviceTypes' /\ (InDevice(s) /\ Addressable(s) => last_error' # "ok")
<1>1. CASE InDevice(s) /\ Addressable(s)
  <2>1. present' \in BOOLEAN /\ faulted' \in BOOLEAN
    BY <1>1, Zenon DEF DeviceTypes, BlockReadFails
  <2>2. last_error' \in {"ESTATUS", "ENODEV"}
    BY <1>1 DEF BlockReadFails
  <2>3. QED
    BY <2>1, <2>2 DEF DeviceTypes
<1>2. CASE ~InDevice(s) \/ ~Addressable(s)
  <2>1. faulted' \in {faulted, TRUE} /\ UNCHANGED <<present, last_error>>
    BY <1>2 DEF BlockReadFails, device
  <2>2. faulted' \in BOOLEAN
    BY <2>1, Zenon DEF DeviceTypes
  <2>3. present' \in BOOLEAN
    BY <2>1, Zenon DEF DeviceTypes
  <2>4. last_error' \in {"ok", "ESTATUS", "ENODEV"}
    BY <2>1 DEF DeviceTypes
  <2>5. QED
    BY <1>2, <2>2, <2>3, <2>4, Zenon DEF DeviceTypes
<1>3. QED
  BY <1>1, <1>2

\* The same for a sector of the volume that read_sector does not refuse
\* (fat32.c:49-58).
LEMMA VolumeReadFails ==
  ASSUME DeviceTypes, disk \in Disks, fs.mounted, Volume(fs), NEW s \in Nat,
         s < fs.total_sectors, ~Refused(s), ReadFails(s)
  PROVE  DeviceTypes' /\ (last_error' # "ok" \/ PastLba28)
<1>1. BlockReadFails(fs.volume_start + s)
  BY DEF ReadFails
<1>2. Count(disk) \in Nat /\ Count(disk) =< Lba28 /\ Lba28 \in Nat
  BY DisksAssumption, SizesFacts DEF Lba28, Clusters28
<1>3. fs.volume_start \in Nat /\ fs.total_sectors \in Nat
  BY DEF Volume
<1>4. InDevice(fs.volume_start + s)
  BY <1>2, <1>3 DEF Refused, InDevice
<1>5. ~Addressable(fs.volume_start + s) => PastLba28
  BY <1>2, <1>3, <1>4 DEF InDevice, Addressable, PastLba28
<1>6. QED
  BY <1>1, <1>4, <1>5, ReadFailsDevice, Zenon

\* A step of the file system need only leave the call typed, the volume and the
\* device in their types, and an EIO explained.
LEMMA ToldKept ==
  ASSUME Told, disk' = disk, fs' = fs, UNCHANGED <<command, status, shown>>,
         DeviceTypes', Typed(call'), call'.op = call.op,
         call'.pc = "idle" /\ call'.result = "EIO" => last_error' # "ok" \/ PastLba28
  PROVE  Told'
<1>1. Typed(call)'
  BY DEF Typed, Room, Bytes
<1>2. Explained' /\ Silent' /\ ErrorExplained'
  BY DEF Told, Explained, Silent, ErrorExplained, PastLba28, Addressable
<1>3. QED
  BY <1>1, <1>2 DEF Told

\* Sector 0 and the partitions: only a failing read of sector 0, which is on every
\* device, makes mounting return EIO (fat32.c:305-360).
LEMMA MountTold ==
  ASSUME Inv, Told, MountBoot \/ MountPartition, UNCHANGED <<command, status, shown>>, Inv'
  PROVE  Told'
<1>1. disk' = disk /\ disk \in Disks /\ Count(disk) \in Nat /\ DeviceTypes /\ CatBuffer \in Nat
      /\ fs.cluster_count \in Nat /\ Typed(call) /\ (call.op = "read" => Room(call))
  BY DisksAssumption, CatBufferAssumption DEF Inv, Told, Typed, MountBoot, MountPartition
<1>2. ASSUME NEW result \in Results, call' = Return(call, result), fs' = fs, DeviceTypes',
             result = "EIO" => last_error' # "ok"
      PROVE  Told'
  <2>1. Typed(call') /\ call'.op = call.op
    BY <1>1, <1>2, ReturnTyped
  <2>2. call'.result = result
    BY <1>2 DEF Return, Ended
  <2>3. QED
    BY <1>1, <1>2, <2>1, <2>2, ToldKept
<1>3. ASSUME NEW b, NEW start, NEW size, FinishMount(b, start, size), DeviceTypes'
      PROVE  Told'
  <2>1. CASE ~GeometryValid(b, start, size)
    BY <1>2, <1>3, <2>1, Zenon DEF FinishMount, Results
  <2>2. CASE GeometryValid(b, start, size)
    <3>1. fs'.mounted = TRUE /\ call' = Return(call, "OK")
      BY <1>3, <2>2 DEF FinishMount
    <3>2. fs'.cluster_count \in Nat
      BY <3>1 DEF Inv, Volume
    <3>3. /\ call'.pc = "idle" /\ call'.result = "OK" /\ call'.visited = 0 /\ call'.op = call.op
          /\ call'.out = call.out /\ call'.remaining = 0
      BY <3>1 DEF Return, Ended
    <3>4. (call.op = "read" => Room(call))'
      <4>1. Bytes' = Bytes
        BY <1>1 DEF Bytes
      <4>2. ASSUME call.op = "read"
            PROVE  call.out \in Seq(Bytes) /\ Len(call.out) + 0 =< CatBuffer
        BY <1>1, <4>2 DEF Room
      <4>3. QED
        BY <3>3, <4>1, <4>2 DEF Room
    <3>5. Typed(call)'
      BY <3>2, <3>3, <3>4 DEF Typed, Walking, Results
    <3>6. shown = NoMessage /\ shown' = shown
      BY DEF Told, Silent, Typed, MountBoot, MountPartition
    <3>7. Explained' /\ Silent' /\ ErrorExplained'
      BY <3>3, <3>6 DEF Explained, Silent, ErrorExplained, NoMessage
    <3>8. QED
      BY <1>3, <3>1, <3>2, <3>5, <3>7 DEF Told
  <2>3. QED
    BY <2>1, <2>2
<1>4. ASSUME NEW t, Typed(t), t.pc # "idle", t.op = call.op, call' = t, fs' = fs, DeviceTypes'
      PROVE  Told'
  BY <1>1, <1>4, ToldKept
<1>5. CASE MountBoot
  <2> DEFINE b == Boot(disk, 0)
             t == [call EXCEPT !.pc = "partition"]
  <2>1. Typed(t) /\ t.pc = "partition" /\ t.op = call.op
    <3>1. Shape(call) /\ call.pc = "boot"
      BY <1>5 DEF Inv, Sound, MountBoot
    <3>2. /\ t.pc = "partition" /\ t.op = call.op /\ t.result = call.result
          /\ t.out = call.out /\ t.remaining = call.remaining /\ t.visited = call.visited
      BY <3>1 DEF Shape
    <3> HIDE DEF t
    <3>3. t.op = "read" => Room(t)
      BY <1>1, <3>2 DEF Room
    <3>4. QED
      BY <1>1, <3>1, <3>2, <3>3 DEF Typed, Walking
  <2>2. \/ BlockReadFails(0) /\ call' = Return(call, "EIO") /\ fs' = fs
        \/ BlockReadOk(0) /\ FinishMount(b, 0, 0)
        \/ BlockReadOk(0) /\ call' \in {t, Return(call, "EBADFS")} /\ fs' = fs
    BY <1>5, Zenon DEF MountBoot
  <2> HIDE DEF t, b
  <2>3. CASE BlockReadFails(0) /\ call' = Return(call, "EIO") /\ fs' = fs
    <3>1. InDevice(0) /\ Addressable(0)
      BY <1>1, SizesFacts DEF InDevice, Addressable, Lba28, Clusters28
    <3>2. DeviceTypes' /\ last_error' # "ok"
      BY <1>1, <2>3, <3>1, ReadFailsDevice
    <3>3. QED
      BY <1>2, <2>3, <3>2 DEF Results
  <2>4. CASE BlockReadOk(0) /\ FinishMount(b, 0, 0)
    BY <1>1, <1>3, <2>4, ReadOkDevice
  <2>5. CASE BlockReadOk(0) /\ call' = t /\ fs' = fs
    BY <1>1, <1>4, <2>1, <2>5, ReadOkDevice
  <2>6. CASE BlockReadOk(0) /\ call' = Return(call, "EBADFS") /\ fs' = fs
    BY <1>1, <1>2, <2>6, ReadOkDevice DEF Results
  <2>7. QED
    BY <2>2, <2>3, <2>4, <2>5, <2>6
<1>6. CASE MountPartition
  <2> DEFINE p == Partition(call.candidate)
             t == [call EXCEPT !.candidate = @ + 1]
  <2>1. Typed(t) /\ t.pc = "partition" /\ t.op = call.op
    <3>1. Shape(call) /\ call.pc = "partition"
      BY <1>6 DEF Inv, Sound, MountPartition
    <3>2. /\ t.pc = "partition" /\ t.op = call.op /\ t.result = call.result
          /\ t.out = call.out /\ t.remaining = call.remaining /\ t.visited = call.visited
      BY <3>1 DEF Shape
    <3> HIDE DEF t
    <3>3. t.op = "read" => Room(t)
      BY <1>1, <3>2 DEF Room
    <3>4. QED
      BY <1>1, <3>1, <3>2, <3>3 DEF Typed, Walking
  <2>2. NextCandidate => call' \in {t, Return(call, "EBADFS")}
    BY DEF NextCandidate
  <2>3. \/ NextCandidate /\ fs' = fs /\ UNCHANGED device
        \/ NextCandidate /\ fs' = fs /\ BlockReadFails(p.start)
        \/ NextCandidate /\ fs' = fs /\ BlockReadOk(p.start)
        \/ BlockReadOk(p.start) /\ FinishMount(Boot(disk, p.start), p.start, p.size)
    BY <1>6, Zenon DEF MountPartition
  <2> HIDE DEF t
  <2>4. UNCHANGED device => DeviceTypes'
    BY <1>1 DEF device, DeviceTypes
  <2>5. DeviceTypes'
    BY <1>1, <2>3, <2>4, ReadFailsDevice, ReadOkDevice
  <2>6. ASSUME NextCandidate, fs' = fs PROVE Told'
    BY <1>2, <1>4, <2>1, <2>2, <2>5, <2>6 DEF Results
  <2>7. QED
    BY <1>3, <2>3, <2>5, <2>6
<1>7. QED
  BY <1>5, <1>6

\* lookup (fat32.c:237-284).
LEMMA LookupTold ==
  ASSUME Inv, Told, Lookup, UNCHANGED <<command, status, shown>>
  PROVE  Told' /\ call'.op = call.op
<1>1. /\ call.pc = "lookup" /\ call' = LookupNext(call) /\ disk' = disk /\ fs' = fs
      /\ UNCHANGED device
  BY DEF Lookup
<1>2. Answer(call) /\ call.op \in {"list", "read"} /\ fs.cluster_count \in Nat
  BY <1>1 DEF Inv, Sound, Told, Answer, Typed
<1>3. Answer(call')
  BY <1>1, <1>2, LookupNextTyped, CatBufferAssumption, Zenon
<1>4. DeviceTypes'
  BY <1>1 DEF Told, DeviceTypes, device
<1>5. QED
  BY <1>1, <1>3, <1>4, ToldKept DEF Answer

\* A sector of a directory or of a file (fat32.c:211-228, 473-488).
LEMMA ReadTold ==
  ASSUME Inv, Told, Scan \/ Copy, UNCHANGED <<command, status, shown>>
  PROVE  Told' /\ call'.op = call.op
<1>1. PICK s : s = DataSector(call)
  OBVIOUS
<1>2. call.pc \in {"scan", "copy"} /\ disk' = disk /\ fs' = fs
  BY DEF Scan, Copy
<1>3. /\ Answer(call) /\ fs.cluster_count \in Nat /\ CatBuffer \in Nat /\ DeviceTypes
      /\ (call.op = "read" => Room(call))
  BY <1>2, CatBufferAssumption DEF Inv, Sound, Told, Answer, Typed
<1>4. fs.mounted /\ Volume(fs) /\ disk \in Disks /\ Placed(call) /\ call.pc \in Walking
  BY <1>2 DEF Inv, Sound, Placed, Walking
<1>5. s \in Nat /\ fs.volume_start \in Nat /\ ~Refused(s) /\ s < fs.total_sectors
  <2>1. s \in fs.data_start .. fs.total_sectors - 1 /\ ~Refused(s)
    BY <1>1, <1>4, DataSectorInside, Zenon
  <2>2. QED
    BY <1>4, <2>1 DEF Volume
<1>6. \/ call.pc = "scan" /\ ReadOk(s) /\ call' = ScanEntries(call, RawsOf(s))
      \/ call.pc = "copy" /\ ReadOk(s) /\ call' = CopySector(call, BytesOf(s))
      \/ ReadFails(s) /\ call' = Return(call, "EIO")
  BY <1>1, Zenon DEF Scan, Copy
<1>7. ASSUME ReadOk(s) PROVE DeviceTypes'
  BY <1>3, <1>7, ReadOkDevice DEF ReadOk
<1>8. CASE call.pc = "scan" /\ ReadOk(s) /\ call' = ScanEntries(call, RawsOf(s))
  <2>1. fs.volume_start + s \in 0 .. Sectors(disk) - 1
    BY <1>4, <1>5, <1>8, DisksAssumption DEF ReadOk, BlockReadOk
  <2>2. \A k \in 0 .. EntriesPerSector - 1 :
          Raw(disk, fs.volume_start + s, k).kind = "entry"
            => Raw(disk, fs.volume_start + s, k).size \in Nat
    BY <1>4, <2>1, DisksAssumption, Zenon
  <2>3. ASSUME NEW k \in 1 .. EntriesPerSector
        PROVE  RawsOf(s)[k].kind = "entry" => RawsOf(s)[k].size \in Nat
    <3>1. k - 1 \in 0 .. EntriesPerSector - 1
      BY SizesFacts
    <3>2. RawsOf(s)[k] = Raw(disk, fs.volume_start + s, k - 1)
      BY DEF RawsOf
    <3>3. QED
      BY <2>2, <3>1, <3>2, Zenon
  <2>4. Answer(call')
    BY <1>3, <1>8, <2>3, ScanEntriesTyped, Zenon
  <2>5. QED
    BY <1>2, <1>7, <1>8, <2>4, ToldKept DEF Answer
<1>9. CASE call.pc = "copy" /\ ReadOk(s) /\ call' = CopySector(call, BytesOf(s))
  <2>1. BytesOf(s) \in Seq(Bytes) /\ Len(BytesOf(s)) = SectorBytes
    <3>1. \A i \in 1 .. SectorBytes : Byte(disk, fs.volume_start + s, i - 1) \in Bytes
      <4>1. ASSUME NEW i \in 1 .. SectorBytes
            PROVE  fs.volume_start + s \in Nat /\ i - 1 \in Nat
        BY <1>5, SizesAssumption
      <4>2. ASSUME NEW a \in Nat, NEW k \in Nat PROVE Byte(disk, a, k) \in Bytes
        BY DEF Bytes
      <4>3. QED
        BY <4>1, <4>2, Zenon
    <3>2. QED
      BY <3>1, SizesAssumption DEF BytesOf
  <2>2. Answer(call')
    BY <1>3, <1>9, <2>1, CopySectorTyped, Zenon
  <2>3. QED
    BY <1>2, <1>7, <1>9, <2>2, ToldKept DEF Answer
<1>10. CASE ReadFails(s) /\ call' = Return(call, "EIO")
  <2>1. DeviceTypes' /\ (last_error' # "ok" \/ PastLba28)
    BY <1>3, <1>4, <1>5, <1>10, VolumeReadFails
  <2>2. Typed(call') /\ call'.op = call.op
    BY <1>3, <1>10, ReturnTyped DEF Results
  <2>3. QED
    BY <1>2, <2>1, <2>2, ToldKept
<1>11. QED
  BY <1>6, <1>8, <1>9, <1>10

\* The FAT, in either loop: a file's read that fails is EIO and explained, a
\* directory's is EBADFS (fat32.c:68-98, 229-230, 489-490).
LEMMA NextClusterTold ==
  ASSUME Inv, Told, NEW pc \in {"scan_next", "copy_next"}, NEW ended \in Results \ {"EIO"},
         NEW fault \in Results, next_cluster(pc, ended, fault),
         UNCHANGED <<command, status, shown>>
  PROVE  Told' /\ call'.op = call.op
<1>1. PICK c, s : c = call.cluster /\ s = LinkSector(c)
  OBVIOUS
<1>2. call.pc = pc /\ disk' = disk /\ fs' = fs
  BY DEF next_cluster
<1>3. /\ Answer(call) /\ fs.cluster_count \in Nat /\ CatBuffer \in Nat /\ DeviceTypes
      /\ (call.op = "read" => Room(call))
  BY <1>2, CatBufferAssumption DEF Inv, Sound, Told, Answer, Typed
<1>4. fs.mounted /\ Volume(fs) /\ disk \in Disks /\ c \in 2 .. fs.cluster_count + 1
  BY <1>1, <1>2 DEF Inv, Sound, Placed, Walking
<1>5. LinkInFat(c) /\ s \in Nat /\ ~Refused(s) /\ s < fs.total_sectors
  <2>1. LinkInFat(c) /\ s \in fs.fat_start .. fs.data_start - 1 /\ ~Refused(s)
    BY <1>1, <1>4, LinkInside, Zenon
  <2>2. fs.cluster_count * fs.sectors_per_cluster \in Nat
    BY <1>4 DEF Volume
  <2>3. QED
    BY <1>4, <2>1, <2>2 DEF Volume
<1>6. \/ ReadOk(s) /\ call' = AfterLink(call, LinkRead(c), ended)
      \/ ReadFails(s) /\ call' = Return(call, fault)
  BY <1>1, <1>5, Zenon DEF next_cluster
<1>7. CASE ReadOk(s) /\ call' = AfterLink(call, LinkRead(c), ended)
  <2>1. DeviceTypes'
    BY <1>3, <1>7, ReadOkDevice DEF ReadOk
  <2>2. Answer(call')
    BY <1>2, <1>3, <1>7, AfterLinkTyped, Zenon
  <2>3. QED
    BY <1>2, <2>1, <2>2, ToldKept DEF Answer
<1>8. CASE ReadFails(s) /\ call' = Return(call, fault)
  <2>1. DeviceTypes' /\ (last_error' # "ok" \/ PastLba28)
    BY <1>3, <1>4, <1>5, <1>8, VolumeReadFails
  <2>2. Typed(call') /\ call'.op = call.op
    BY <1>3, <1>8, ReturnTyped
  <2>3. QED
    BY <1>2, <2>1, <2>2, ToldKept
<1>9. QED
  BY <1>6, <1>7, <1>8

\* Every step of the file system.
LEMMA StepTold == Inv /\ Told /\ Step => Told'
<1> SUFFICES ASSUME Inv, Told, Step PROVE Told'
  OBVIOUS
<1>1. UNCHANGED <<command, status, shown>> /\ FsStep /\ Inv'
  BY StepKeeps DEF Step
<1>2. CASE ScanNext
  <2>1. PICK ended : ended = IF call.purpose = "find" THEN "ENOTFOUND" ELSE "OK"
    OBVIOUS
  <2>2. next_cluster("scan_next", ended, "EBADFS")
    BY <1>2, <2>1, Zenon DEF ScanNext, ScanFault
  <2>3. ended \in Results \ {"EIO"} /\ "EBADFS" \in Results
    BY <2>1 DEF Results
  <2>4. QED
    BY <1>1, <2>2, <2>3, NextClusterTold
<1>3. CASE CopyNext
  <2>1. next_cluster("copy_next", "EBADFS", "EIO")
    BY <1>3 DEF CopyNext
  <2>2. "EBADFS" \in Results \ {"EIO"} /\ "EIO" \in Results
    BY DEF Results
  <2>3. QED
    BY <1>1, <2>1, <2>2, NextClusterTold
<1>4. QED
  BY <1>1, <1>2, <1>3, MountTold, LookupTold, ReadTold DEF FsStep

\* No call is under way.
LEMMA NoCallTyped == ASSUME fs.cluster_count \in Nat PROVE Typed(NoCall)
BY DEF NoCall, Ended, Typed, Walking, Results

\* ls and cat make a call (shell.c:183-197, fat32.c:415-452).
LEMMA EnterTold ==
  ASSUME Inv, Told, NEW name \in {"ls", "cat"}, NEW op \in {"list", "read"}, NEW path,
         Enter(name, op, path)
  PROVE  Told'
<1> DEFINE r == Ended(op, path, "OK", <<>>)
           t == [r EXCEPT !.pc = "lookup", !.capacity = CatBuffer, !.rest = path,
                          !.directory = fs.root_cluster]
<1>1. /\ disk' = disk /\ fs' = fs /\ call' = Called(op, path, CatBuffer) /\ faulted' = FALSE
      /\ shown' = NoMessage /\ present' = present /\ last_error' = last_error
      /\ status' = status /\ command' = name
  BY DEF Enter
<1>2. Called(op, path, CatBuffer) = IF ~fs.mounted THEN Return(r, "EBADFS") ELSE t
  BY Zenon DEF Called
<1>3. /\ Shape(t) /\ t.pc = "lookup" /\ t.op = op /\ t.result = "OK" /\ t.out = <<>>
      /\ t.remaining = 0 /\ t.capacity = CatBuffer /\ t.purpose = "find" /\ t.visited = 0
  BY DEF Ended, Shape
<1>4. r.op = op /\ r.out = <<>> /\ r.remaining = 0 /\ r.pc = "idle"
  BY DEF Ended
<1> HIDE DEF r, t
<1>5. fs.cluster_count \in Nat /\ CatBuffer \in Nat /\ <<>> \in Seq(Bytes) /\ Len(<<>>) = 0
  BY CatBufferAssumption DEF Told
<1>6. Room(r) /\ Room(t)
  BY <1>3, <1>4, <1>5 DEF Room
<1>7. Typed(t)
  BY <1>3, <1>5, <1>6 DEF Typed, Walking, Results
<1>8. /\ Typed(Return(r, "EBADFS")) /\ Return(r, "EBADFS").result = "EBADFS"
      /\ Return(r, "EBADFS").op = r.op
  BY <1>5, <1>6, ReturnTyped DEF Results
<1>9. Typed(call') /\ call'.result # "EIO" /\ call'.op # "mount"
  BY <1>1, <1>2, <1>3, <1>4, <1>7, <1>8
<1>10. Typed(call)'
  BY <1>1, <1>9 DEF Typed, Room, Bytes
<1>11. Explained' /\ Silent' /\ ErrorExplained'
  BY <1>1, <1>9 DEF Explained, Silent, ErrorExplained, NoMessage
<1>12. DeviceTypes'
  BY <1>1, Zenon DEF Told, DeviceTypes
<1>13. QED
  BY <1>1, <1>10, <1>11, <1>12 DEF Told

\* A command has ended (shell.c:38-47, 56-69).
LEMMA ReportTold ==
  ASSUME Told, Banner \/ Report
  PROVE  Told'
<1>1. /\ disk' = disk /\ fs' = fs /\ call' = NoCall /\ UNCHANGED device /\ command' = "none"
      /\ status' \in {status, call.result}
  BY DEF Banner, Report
<1>2. Typed(call)'
  BY <1>1, NoCallTyped DEF Told, Typed, Room, Bytes
<1>3. call.result \in Results
  BY DEF Told, Typed
<1>4. ErrorExplained'
  <2>1. PastLba28' <=> PastLba28
    BY <1>1 DEF PastLba28, Addressable
  <2>2. shown'.text = "EIO" /\ shown'.detail = "ok" => PastLba28
    BY DEF Banner, Report, Told, Explained, NoMessage, filesystem_error
  <2>3. QED
    BY <2>1, <2>2, Zenon DEF ErrorExplained
<1>5. Explained' /\ Silent' /\ DeviceTypes'
  BY <1>1 DEF Told, Explained, Silent, NoCall, Ended, DeviceTypes, device
<1>6. QED
  BY <1>1, <1>2, <1>3, <1>4, <1>5 DEF Told

\* Told holds at the start.
LEMMA InitTold == Init => Told
<1> SUFFICES ASSUME Init PROVE Told
  OBVIOUS
<1>1. fs.mounted = FALSE /\ fs.cluster_count = 0 /\ call \in {fat32_mount, NoCall}
  BY DEF Init, Unmounted
<1>2. Typed(fat32_mount)
  BY <1>1 DEF fat32_mount, Ended, Typed, Walking, Results
<1>3. Typed(call)
  BY <1>1, <1>2, NoCallTyped
<1>4. DeviceTypes
  <2>1. present \in BOOLEAN /\ faulted = FALSE
    BY DEF Init
  <2>2. last_error \in {"ok", "ENODEV"}
    BY DEF Init
  <2>3. QED
    BY <2>1, <2>2, Zenon DEF DeviceTypes
<1>5. status \in Results /\ command = "init" /\ ErrorExplained
  BY DEF Init, Results, ErrorExplained, NoMessage
<1>6. Explained /\ Silent
  BY <1>5 DEF Explained, Silent, Init
<1>7. fs.mounted \in BOOLEAN
  BY <1>1, Zenon
<1>8. fs.cluster_count \in Nat
  BY <1>1
<1>9. QED
  BY <1>3, <1>4, <1>5, <1>6, <1>7, <1>8, Zenon DEF Told

\* With Inv, Told is inductive.
LEMMA NextTold == Inv /\ Told /\ [Next]_vars => Told'
<1> SUFFICES ASSUME Inv, Told, [Next]_vars PROVE Told'
  OBVIOUS
<1>1. CASE Banner \/ Report
  BY <1>1, ReportTold
<1>2. CASE ls
  BY <1>2, EnterTold DEF ls
<1>3. CASE cat
  BY <1>3, EnterTold DEF cat
<1>4. CASE Step
  BY <1>4, StepTold
<1>5. CASE UNCHANGED vars
  <2>1. UNCHANGED <<disk, fs, call, command, status, shown>> /\ UNCHANGED device
    BY <1>5 DEF vars, fsvars
  <2>2. Typed(call)'
    BY <2>1 DEF Told, Typed, Room, Bytes
  <2>3. DeviceTypes' /\ Explained' /\ Silent' /\ ErrorExplained'
    BY <2>1 DEF Told, DeviceTypes, Explained, Silent, ErrorExplained, PastLba28, Addressable, device
  <2>4. QED
    BY <2>1, <2>2, <2>3 DEF Told
<1>6. QED
  BY <1>1, <1>2, <1>3, <1>4, <1>5 DEF Next

\* On every disk and for every path, a call's count of clusters stays within the
\* volume and what it copies within the caller's buffer, and every result is one
\* of the codes of fat32.h (fat32.c:197-235, 435-499).
THEOREM TypeCorrect == Spec => []TypeOK
<1>1. Inv /\ Told /\ [Next]_vars => (Inv /\ Told)'
  BY NextKeeps, NextTold
<1>2. QED
  BY InitSound, InitTold, ToldTypes, <1>1, PTL DEF Spec

\* No message blames the disk for an error the disk did not report, because no
\* range check of read_sector or block_read_sector ever fires.  Only the driver's
\* own can, on a disk of unknown capacity with a volume past 28 bits
\* (shell.c:38-47, fat32.c:49-58, block.c:9-10, ata.c:160-163).
THEOREM EioIsExplained == Spec => []ErrorExplained
<1>1. Inv /\ Told /\ [Next]_vars => (Inv /\ Told)'
  BY NextKeeps, NextTold
<1>2. QED
  BY InitSound, InitTold, ToldTypes, <1>1, PTL DEF Spec

-----------------------------------------------------------------------------
(* Mounting.  MountRight compares the volume found with all places where a *)
(* volume can be; the search looks at them one after the other, so the     *)
(* invariant says what it has passed over so far (PassedOver), as long as  *)
(* no read has failed.                                                     *)

\* A cluster count that is not 0 leaves room for the data area.
LEMMA DataAreaExists ==
  ASSUME NEW total \in Nat, NEW start \in Nat, NEW spc, power_of_two(spc),
         (total - start) \div spc >= 1
  PROVE  start < total
BY DEF power_of_two

\* The checks of fat32_mount accept a boot record that looks right if and only
\* if it is right in every field (fat32.c:362-406).
LEMMA GeometryIsComplete ==
  ASSUME disk \in Disks, NEW n, NEW p, p = Place(n), p.start \in 0 .. Sectors(disk) - 1,
         p.size \in Nat, Looks(n)
  PROVE  GeometryValid(Boot(disk, p.start), p.start, p.size) <=> Complete(n)
<1>1. PICK b : b = Boot(disk, p.start)
  OBVIOUS
<1>2. /\ b.reserved_sectors \in Nat /\ b.fats \in Nat /\ b.fat_size \in Nat
      /\ b.total_sectors \in Nat /\ b.root_cluster \in Nat /\ Count(disk) \in Nat
      /\ p.start \in Nat /\ looks_like_fat32_bpb(b)
  <2>1. {b.sectors_per_cluster, b.reserved_sectors, b.fats, b.fat_size,
         b.total_sectors, b.root_cluster} \subseteq Nat /\ Count(disk) \in Nat
    BY <1>1, DisksAssumption
  <2>2. looks_like_fat32_bpb(b)
    BY <1>1, Zenon DEF Looks
  <2>3. QED
    BY <2>1, <2>2
<1>0. p.size # 0 => b.total_sectors =< p.size
  <2>1. n = 0 => p.size = 0
    BY DEF Place
  <2>2. n # 0 => b.total_sectors =< p.size
    BY <1>1, Zenon DEF Looks
  <2>3. QED
    BY <2>1, <2>2
<1>3. power_of_two(b.sectors_per_cluster)
  BY <1>2, Zenon DEF looks_like_fat32_bpb
<1>4. DataStart(b) \in Nat
  BY <1>2 DEF DataStart
<1>5. ClusterCount(b) \in Int
  BY <1>2, <1>3, <1>4 DEF ClusterCount, power_of_two
<1>6. ClusterCount(b) >= 1 => DataStart(b) < b.total_sectors
  BY <1>2, <1>3, <1>4, DataAreaExists, Zenon DEF ClusterCount
<1>7. DataStart(b) < b.total_sectors => ClusterCount(b) >= 0
  BY <1>2, <1>3, <1>4 DEF ClusterCount, power_of_two
<1>8. FatCovers(b) <=> b.fat_size * PerSector >= ClusterCount(b) + 2
  <2>1. (b.fat_size * SectorBytes) \div LinkBytes = b.fat_size * (SectorBytes \div LinkBytes)
    BY <1>2, SizesAssumption, FatEntries
  <2>2. QED
    BY <2>1, Zenon DEF FatCovers, PerSector
<1>9. VolumeFits(b, p.start, p.size)
        <=> /\ p.start + b.total_sectors < Wide
            /\ Count(disk) # 0 => p.start + b.total_sectors =< Count(disk)
  BY <1>0, <1>2, SizesFacts DEF VolumeFits
<1>10. Complete(n)
         <=> /\ b.extended_valid /\ p.start + b.total_sectors < Wide
             /\ ClusterCount(b) + 1 < Clusters28 - 9
             /\ Count(disk) # 0 => p.start + b.total_sectors =< Count(disk)
             /\ b.root_cluster \in 2 .. ClusterCount(b) + 1
             /\ b.fat_size * PerSector >= ClusterCount(b) + 2
  BY <1>1, Zenon DEF Complete
<1>11. ClusterCount(b) =< Clusters28 - 11 <=> ClusterCount(b) + 1 < Clusters28 - 9
  BY <1>5, SizesFacts
<1>12. ASSUME GeometryValid(b, p.start, p.size) PROVE Complete(n)
  <2>1. b.root_cluster \in 2 .. ClusterCount(b) + 1
    BY <1>2, <1>5, <1>12 DEF GeometryValid
  <2>2. QED
    BY <1>8, <1>9, <1>10, <1>11, <1>12, <2>1, Zenon DEF GeometryValid
<1>13. ASSUME Complete(n) PROVE GeometryValid(b, p.start, p.size)
  <2>1. b.root_cluster \in 2 .. ClusterCount(b) + 1 /\ ClusterCount(b) + 1 < Clusters28 - 9
    BY <1>10, <1>13, Zenon
  <2>2. /\ b.root_cluster \in 2 .. Clusters28 - 1 /\ ClusterCount(b) # 0
        /\ b.root_cluster - 2 < ClusterCount(b) /\ ClusterCount(b) >= 1
    BY <1>5, <2>1, SizesFacts
  <2>3. QED
    BY <1>6, <1>8, <1>9, <1>10, <1>11, <1>13, <2>2, Zenon DEF GeometryValid
<1>14. QED
  BY <1>1, <1>12, <1>13

\* What the search has passed over: no volume on the disk as a whole, and no
\* volume in the candidates before n.
PassedOver(n) ==
  /\ Boot(disk, 0).signed /\ ~Looks(0)
  /\ \A c \in 0 .. n - 1 :
       Candidate(c) => /\ Partition(c).start < Sectors(disk)
                       /\ ~HoldsVolume(Partition(c), Boot(disk, Partition(c).start))

\* With Inv and Told, the inductive invariant behind MountRight.
Searched ==
  /\ call.pc \in {"boot", "partition"} => ~fs.mounted
  /\ call.pc = "partition" /\ ~faulted => PassedOver(call.candidate)
  /\ MountRight

\* The types of a place.
LEMMA PlaceTypes ==
  ASSUME disk \in Disks, 0 < Sectors(disk), NEW n \in 0 .. 4
  PROVE  /\ Place(n).start \in Nat /\ Place(n).size \in Nat /\ Place(n).conventional \in BOOLEAN
         /\ n = 0 => Place(n).start = 0 /\ Place(n).size = 0 /\ Place(n).conventional
         /\ n # 0 => Place(n) = Boot(disk, 0).partitions[n]
<1>1. CASE n = 0
  <2>1. Place(0).start = 0 /\ Place(0).size = 0
    BY DEF Place
  <2>2. Place(0).conventional = TRUE
    BY DEF Place
  <2>3. Place(n).conventional /\ Place(n).conventional \in BOOLEAN
    BY <1>1, <2>2, Zenon
  <2>4. QED
    BY <1>1, <2>1, <2>3
<1>2. CASE n # 0
  <2>1. 0 \in 0 .. Sectors(disk) - 1 /\ n \in 1 .. 4
    BY <1>2, DisksAssumption
  <2>2. Place(n) = Boot(disk, 0).partitions[n]
    BY <1>2 DEF Place
  <2>3. QED
    BY <1>2, <2>1, <2>2, DisksAssumption, Zenon
<1>3. QED
  BY <1>1, <1>2

\* Of two places one comes before the other.
LEMMA BeforeTotal ==
  ASSUME disk \in Disks, 0 < Sectors(disk), NEW m \in Places, NEW n \in Places
  PROVE  m = n \/ Before(m, n) \/ Before(n, m)
<1>1. m \in 0 .. 4 /\ n \in 0 .. 4
  BY DEF Places
<1>2. Place(m).conventional \in BOOLEAN /\ Place(n).conventional \in BOOLEAN
  BY <1>1, PlaceTypes
<1>3. m = n \/ m < n \/ n < m
  BY <1>1
<1>4. QED
  BY <1>2, <1>3, Zenon DEF Before

\* A partition that lies on the disk is a candidate in one of the two passes
\* (fat32.c:332-345).
LEMMA PlaceIsCandidate ==
  ASSUME disk \in Disks, 0 < Sectors(disk), NEW n \in Places, n # 0
  PROVE  \E c \in 0 .. 7 : /\ Candidate(c) /\ Partition(c) = Place(n)
                           /\ IF Place(n).conventional THEN c = n - 1 ELSE c = n + 3
<1>1. PICK p : p = Place(n)
  OBVIOUS
<1>2. /\ n \in 1 .. 4 /\ p.start # 0 /\ p.size # 0
      /\ Count(disk) # 0 => p.start + p.size =< Count(disk)
  BY <1>1 DEF Places, OnDisk
<1>3. p.start \in Nat /\ p.size \in Nat /\ p.conventional \in BOOLEAN /\ Count(disk) \in Nat
      /\ p = Boot(disk, 0).partitions[n]
  BY <1>1, <1>2, PlaceTypes, DisksAssumption
<1>4. Count(disk) # 0 => p.start < Count(disk) /\ p.size =< Count(disk) - p.start
  BY <1>2, <1>3
<1>5. CASE p.conventional
  <2>1. n - 1 \in 0 .. 7 /\ (n - 1) \div 4 = 0 /\ ((n - 1) % 4) + 1 = n
    BY <1>2
  <2>2. Partition(n - 1) = p
    BY <1>3, <2>1 DEF Partition
  <2>3. p.conventional = TRUE
    BY <1>3, <1>5, Zenon
  <2>4. Candidate(n - 1)
    BY <1>2, <1>4, <2>1, <2>2, <2>3, Zenon DEF Candidate
  <2>5. QED
    BY <1>1, <1>5, <2>1, <2>2, <2>4, Zenon
<1>6. CASE ~p.conventional
  <2>1. n + 3 \in 0 .. 7 /\ (n + 3) \div 4 # 0 /\ ((n + 3) % 4) + 1 = n
    BY <1>2
  <2>2. Partition(n + 3) = p
    BY <1>3, <2>1 DEF Partition
  <2>3. p.conventional = FALSE
    BY <1>3, <1>6, Zenon
  <2>4. Candidate(n + 3)
    BY <1>2, <1>4, <2>1, <2>2, <2>3, Zenon DEF Candidate
  <2>5. QED
    BY <1>1, <1>6, <2>1, <2>2, <2>4, Zenon
<1>7. QED
  BY <1>5, <1>6

\* A candidate is a place.
LEMMA CandidateIsPlace ==
  ASSUME disk \in Disks, 0 < Sectors(disk), NEW c \in 0 .. 7, Candidate(c), Boot(disk, 0).signed
  PROVE  \E n \in Places :
           /\ n \in 1 .. 4 /\ Partition(c) = Place(n) /\ InDevice(Partition(c).start)
           /\ IF Place(n).conventional THEN c = n - 1 ELSE c = n + 3
<1>1. PICK n, p : n = (c % 4) + 1 /\ p = Partition(c)
  OBVIOUS
<1>2. n \in 1 .. 4 /\ (c \div 4 = 0 <=> c < 4) /\ (IF c < 4 THEN c = n - 1 ELSE c = n + 3)
  BY <1>1
<1>3. p = Boot(disk, 0).partitions[n]
  BY <1>1, Zenon DEF Partition
<1>4. p = Place(n)
  BY <1>2, <1>3 DEF Place
<1>5. p.start \in Nat /\ p.size \in Nat /\ p.conventional \in BOOLEAN /\ Count(disk) \in Nat
  BY <1>2, <1>4, PlaceTypes, DisksAssumption
<1>6. /\ (c \div 4 = 0) = p.conventional
      /\ p.start # 0 /\ p.size # 0
      /\ Count(disk) # 0 => p.start < Count(disk) /\ p.size =< Count(disk) - p.start
  BY <1>1, Zenon DEF Candidate
<1>7. Count(disk) # 0 => p.start + p.size =< Count(disk)
  BY <1>5, <1>6
<1>8. n \in Places
  BY <1>2, <1>4, <1>6, <1>7, Zenon DEF Places, OnDisk
<1>9. p.conventional <=> c < 4
  BY <1>2, <1>6, Zenon
<1>10. InDevice(p.start)
  BY <1>6, Zenon DEF InDevice
<1>11. IF Place(n).conventional THEN c = n - 1 ELSE c = n + 3
  BY <1>2, <1>4, <1>9, Zenon
<1>12. QED
  BY <1>1, <1>2, <1>4, <1>8, <1>10, <1>11, Zenon

\* A partition looks like a volume if and only if the search stops at it
\* (fat32.c:346-352).
LEMMA LooksHolds ==
  ASSUME disk \in Disks, 0 < Sectors(disk), NEW n \in 1 .. 4, Place(n).start < Sectors(disk)
  PROVE  Looks(n) <=> HoldsVolume(Place(n), Boot(disk, Place(n).start))
<1>1. PICK p, b : p = Place(n) /\ b = Boot(disk, p.start)
  OBVIOUS
<1>2. p.start \in 0 .. Sectors(disk) - 1 /\ p.start \in Nat
  BY <1>1, PlaceTypes, DisksAssumption
<1>3. b.total_sectors \in Nat
  BY <1>1, <1>2, DisksAssumption
<1>4. p.start =< Wide - 1 - b.total_sectors <=> p.start + b.total_sectors < Wide
  BY <1>2, <1>3, SizesFacts
<1>5. n # 0
  OBVIOUS
<1>6. QED
  BY <1>1, <1>4, <1>5, Zenon DEF Looks, HoldsVolume

\* What has been passed over does not look like a volume.
LEMMA PassedNotLooks ==
  ASSUME disk \in Disks, 0 < Sectors(disk), NEW k \in 0 .. 8, PassedOver(k), NEW n \in Places,
         n # 0 => IF Place(n).conventional THEN n - 1 < k ELSE n + 3 < k
  PROVE  ~Looks(n)
<1>1. CASE n = 0
  BY <1>1, Zenon DEF PassedOver
<1>2. CASE n # 0
  <2>1. PICK c \in 0 .. 7 : /\ Candidate(c) /\ Partition(c) = Place(n)
                            /\ IF Place(n).conventional THEN c = n - 1 ELSE c = n + 3
    BY <1>2, PlaceIsCandidate, Zenon
  <2>2. c \in 0 .. k - 1
    BY <1>2, <2>1
  <2>3. ~HoldsVolume(Place(n), Boot(disk, Place(n).start)) /\ Place(n).start < Sectors(disk)
    BY <2>1, <2>2, Zenon DEF PassedOver
  <2>4. n \in 1 .. 4
    BY <1>2 DEF Places
  <2>5. QED
    BY <2>3, <2>4, LooksHolds, Zenon
<1>3. QED
  BY <1>1, <1>2

\* The places before a candidate's are candidates before it, or the disk as a
\* whole.
LEMMA BeforeCandidate ==
  ASSUME disk \in Disks, 0 < Sectors(disk), NEW n \in 1 .. 4, NEW m \in Places, Before(m, n),
         NEW c \in 0 .. 7, IF Place(n).conventional THEN c = n - 1 ELSE c = n + 3, m # 0
  PROVE  IF Place(m).conventional THEN m - 1 < c ELSE m + 3 < c
<1>1. m \in 1 .. 4
  BY DEF Places
<1>2. PICK x \in BOOLEAN, y \in BOOLEAN : x = Place(m).conventional /\ y = Place(n).conventional
  <2>1. Place(m).conventional \in BOOLEAN /\ Place(n).conventional \in BOOLEAN
    BY <1>1, PlaceTypes
  <2>2. QED
    BY <2>1, Zenon
<1>3. (x /\ ~y) \/ ((x <=> y) /\ m < n)
  BY <1>2, Zenon DEF Before
<1>4. (y => c = n - 1) /\ (~y => c = n + 3)
  BY <1>2, Zenon
<1>5. (x => m - 1 < c) /\ (~x => m + 3 < c)
  BY <1>1, <1>3, <1>4
<1>6. QED
  BY <1>2, <1>5, Zenon

\* The place where the search ends.
First(n) == n \in Places /\ Looks(n) /\ \A m \in Places : Before(m, n) => ~Looks(m)

\* There is only one.
LEMMA FirstUnique ==
  ASSUME disk \in Disks, 0 < Sectors(disk), NEW m, First(m), NEW n, First(n)
  PROVE  m = n
BY BeforeTotal, Zenon DEF First

\* MountRight speaks of the disk, which does not change, and of what is mounted.
LEMMA RightNext ==
  ASSUME disk' = disk,
         ~faulted' => /\ fs'.mounted =>
                           \E n : First(n) /\ Place(n).start = fs'.volume_start /\ Complete(n)
                      /\ ~fs'.mounted => \A n : First(n) => ~Complete(n)
  PROVE  MountRight'
<1>1. Places' = Places
  BY DEF Places, Place, OnDisk
<1>2. \A n : Looks(n)' <=> Looks(n)
  BY DEF Looks, Place
<1>3. \A n : Complete(n)' <=> Complete(n)
  BY <1>2 DEF Complete, Place
<1>4. \A m, n : Before(m, n)' <=> Before(m, n)
  BY DEF Before, Place
<1>5. \A n : Place(n)' = Place(n)
  BY DEF Place
<1>6. \A n : First(n)' <=> First(n)
  BY <1>1, <1>2, <1>4, Zenon DEF First
<1>7. (\A n : n \in {k \in Places : Looks(k) /\ \A m \in Places : Before(m, k) => ~Looks(m)}
              <=> First(n))'
  BY Zenon DEF First
<1>8. QED
  BY <1>3, <1>5, <1>6, <1>7, Zenon DEF MountRight

\* The end of fat32_mount, at the first place that looks like a volume
\* (fat32.c:362-413).
LEMMA FinishRight ==
  ASSUME disk \in Disks, disk' = disk, 0 < Sectors(disk), fs.mounted = FALSE, NEW n \in Places,
         NEW p, p = Place(n), p.start \in 0 .. Sectors(disk) - 1, p.size \in Nat, Looks(n),
         FinishMount(Boot(disk, p.start), p.start, p.size),
         ~faulted' => \A m \in Places : Before(m, n) => ~Looks(m)
  PROVE  Searched'
<1>1. call'.pc = "idle"
  BY DEF FinishMount, Return, Ended
<1>2. ~faulted' => First(n)
  BY Zenon DEF First
<1>3. CASE GeometryValid(Boot(disk, p.start), p.start, p.size)
  <2>1. fs'.mounted /\ fs'.volume_start = p.start
    BY <1>3 DEF FinishMount
  <2>2. Complete(n)
    BY <1>3, GeometryIsComplete, Zenon
  <2>3. MountRight'
    BY <1>2, <2>1, <2>2, RightNext, Zenon
  <2>4. QED
    BY <1>1, <2>3 DEF Searched
<1>4. CASE ~GeometryValid(Boot(disk, p.start), p.start, p.size)
  <2>1. ~fs'.mounted
    BY <1>4 DEF FinishMount
  <2>2. ~Complete(n)
    BY <1>4, GeometryIsComplete, Zenon
  <2>3. ASSUME ~faulted', NEW m, First(m) PROVE ~Complete(m)
    <3>1. First(n)
      BY <1>2, <2>3, Zenon
    <3>2. m = n
      BY <2>3, <3>1, FirstUnique, Zenon
    <3>3. QED
      BY <2>2, <3>2, Zenon
  <2>4. MountRight'
    BY <2>1, <2>3, RightNext, Zenon
  <2>5. QED
    BY <1>1, <2>4 DEF Searched
<1>5. QED
  BY <1>3, <1>4

\* Nothing is mounted and the search is over.
LEMMA GivenUpRight ==
  ASSUME disk' = disk, ~fs'.mounted, call'.pc = "idle",
         ~faulted' => \A n \in Places : ~Looks(n)
  PROVE  Searched'
<1>1. ~faulted' => \A n : First(n) => ~Complete(n)
  BY Zenon DEF First
<1>2. MountRight'
  BY <1>1, RightNext, Zenon
<1>3. QED
  BY <1>2 DEF Searched

\* A candidate that is not on the disk or holds no volume is passed over.
LEMMA PassedOne ==
  ASSUME NEW n \in 0 .. 7, PassedOver(n),
         Candidate(n) => /\ Partition(n).start < Sectors(disk)
                         /\ ~HoldsVolume(Partition(n), Boot(disk, Partition(n).start))
  PROVE  PassedOver(n + 1)
<1>1. \A c \in 0 .. (n + 1) - 1 : c \in 0 .. n - 1 \/ c = n
  OBVIOUS
<1>2. QED
  BY <1>1, Zenon DEF PassedOver

\* Without a failed read, a scan of sector 0 that starts the search has found no
\* volume there (fat32.c:305-326).
LEMMA MountBootRight ==
  ASSUME Inv, Told, Searched, MountBoot
  PROVE  Searched'
<1> DEFINE b == Boot(disk, 0)
           t == [call EXCEPT !.pc = "partition"]
<1>1. /\ disk' = disk /\ disk \in Disks /\ Sectors(disk) \in Nat /\ call.pc = "boot"
      /\ fs.mounted = FALSE /\ call.candidate = 0 /\ Shape(call) /\ Count(disk) \in Nat
  BY DisksAssumption DEF Inv, Sound, Placed, MountBoot, Searched, Told
<1>2. 0 \in Places /\ Place(0).start = 0 /\ Place(0).size = 0 /\ Place(0).size \in Nat
  BY DEF Place, Places
<1>3. t.pc = "partition" /\ t.candidate = 0
  BY <1>1 DEF Shape
<1>4. \/ BlockReadFails(0) /\ call' = Return(call, "EIO") /\ fs' = fs
      \/ BlockReadOk(0) /\ looks_like_fat32_bpb(b) /\ FinishMount(b, 0, 0)
      \/ BlockReadOk(0) /\ ~looks_like_fat32_bpb(b) /\ b.signed /\ call' = t /\ fs' = fs
      \/ /\ BlockReadOk(0) /\ ~looks_like_fat32_bpb(b) /\ ~b.signed
         /\ call' = Return(call, "EBADFS") /\ fs' = fs
  BY Zenon DEF MountBoot
<1> HIDE DEF t
<1>5. ASSUME BlockReadOk(0)
      PROVE  0 \in 0 .. Sectors(disk) - 1 /\ 0 < Sectors(disk) /\ faulted' = faulted
  BY <1>1, <1>5 DEF BlockReadOk
<1>6. CASE BlockReadFails(0) /\ call' = Return(call, "EIO") /\ fs' = fs
  <2>1. faulted' = TRUE
    <3>1. InDevice(0)
      BY <1>1 DEF InDevice
    <3>2. QED
      BY <1>6, <3>1 DEF BlockReadFails
  <2>2. call'.pc = "idle" /\ ~fs'.mounted
    BY <1>1, <1>6 DEF Return, Ended
  <2>3. QED
    BY <1>1, <2>1, <2>2, GivenUpRight
<1>7. CASE BlockReadOk(0) /\ looks_like_fat32_bpb(b) /\ FinishMount(b, 0, 0)
  <2>1. Looks(0) /\ FinishMount(Boot(disk, Place(0).start), Place(0).start, Place(0).size)
    BY <1>2, <1>7, Zenon DEF Looks
  <2>2. Place(0).start \in 0 .. Sectors(disk) - 1 /\ 0 < Sectors(disk)
    BY <1>2, <1>5, <1>7
  <2>3. ASSUME NEW m \in Places PROVE ~Before(m, 0)
    <3>1. m \in 0 .. 4
      BY DEF Places
    <3>2. ~(m < 0)
      BY <3>1
    <3>3. Place(0).conventional
      BY <2>2, PlaceTypes, <1>1
    <3>4. QED
      BY <3>2, <3>3, Zenon DEF Before
  <2>4. QED
    BY <1>1, <1>2, <2>1, <2>2, <2>3, FinishRight, Zenon
<1>8. CASE BlockReadOk(0) /\ ~looks_like_fat32_bpb(b) /\ b.signed /\ call' = t /\ fs' = fs
  <2>1. PassedOver(0)
    BY <1>2, <1>8 DEF PassedOver, Looks
  <2>2. PassedOver(call.candidate)'
    <3>1. PassedOver(0)'
      BY <1>1, <2>1 DEF PassedOver, Looks, Place, Candidate, Partition
    <3>2. QED
      BY <1>3, <1>8, <3>1
  <2>3. call'.pc = "partition" /\ ~fs'.mounted
    BY <1>1, <1>3, <1>8
  <2>4. MountRight'
    BY <2>3 DEF MountRight, Answered
  <2>5. QED
    BY <2>2, <2>3, <2>4 DEF Searched
<1>9. CASE /\ BlockReadOk(0) /\ ~looks_like_fat32_bpb(b) /\ ~b.signed
           /\ call' = Return(call, "EBADFS") /\ fs' = fs
  <2>1. call'.pc = "idle" /\ ~fs'.mounted
    BY <1>1, <1>9 DEF Return, Ended
  <2>2. Places = {0}
    BY <1>9 DEF Places
  <2>3. ~Looks(0)
    BY <1>2, <1>9, Zenon DEF Looks
  <2>4. QED
    BY <1>1, <2>1, <2>2, <2>3, GivenUpRight
<1>10. QED
  BY <1>4, <1>6, <1>7, <1>8, <1>9

\* The candidates, one after the other (fat32.c:332-360).
LEMMA MountPartitionRight ==
  ASSUME Inv, Told, Searched, MountPartition
  PROVE  Searched'
<1>1. PICK c, p : c = call.candidate /\ p = Partition(c)
  OBVIOUS
<1> DEFINE t == [call EXCEPT !.candidate = @ + 1]
<1>2. /\ disk' = disk /\ disk \in Disks /\ Sectors(disk) \in Nat /\ 0 < Sectors(disk)
      /\ call.pc = "partition" /\ fs.mounted = FALSE /\ c \in 0 .. 7 /\ Shape(call)
      /\ faulted \in BOOLEAN
  BY <1>1, DisksAssumption DEF Inv, Sound, Placed, MountPartition, Searched, Told, DeviceTypes
<1>3. ~faulted => PassedOver(c)
  BY <1>1, <1>2 DEF Searched
<1>4. t.pc = "partition" /\ t.candidate = c + 1
  BY <1>1, <1>2 DEF Shape
<1>5. NextCandidate => call' = IF c = 7 THEN Return(call, "EBADFS") ELSE t
  BY <1>1 DEF NextCandidate
<1> HIDE DEF t
<1>6. ASSUME NextCandidate, fs' = fs,
             ~faulted' => /\ ~faulted
                          /\ Candidate(c) => p.start < Sectors(disk)
                                             /\ ~HoldsVolume(p, Boot(disk, p.start))
      PROVE  Searched'
  <2>1. ~fs'.mounted
    BY <1>2, <1>6
  <2>2. ~faulted' => PassedOver(c + 1)
    BY <1>1, <1>2, <1>3, <1>6, PassedOne, Zenon
  <2>3. CASE c = 7
    <3>1. call'.pc = "idle"
      BY <1>5, <1>6, <2>3 DEF Return, Ended
    <3>2. ASSUME ~faulted', NEW n \in Places PROVE ~Looks(n)
      <4>1. PassedOver(8) /\ 8 \in 0 .. 8
        BY <2>2, <2>3, <3>2
      <4>2. n \in 0 .. 4
        BY DEF Places
      <4>3. n - 1 < 8 /\ n + 3 < 8
        BY <4>2
      <4>4. QED
        BY <1>2, <4>1, <4>3, PassedNotLooks, Zenon
    <3>3. QED
      BY <1>2, <2>1, <3>1, <3>2, GivenUpRight
  <2>4. CASE c # 7
    <3>1. call' = t
      BY <1>5, <1>6, <2>4
    <3>2. PassedOver(c + 1) => PassedOver(c + 1)'
      BY <1>2 DEF PassedOver, Looks, Place, Candidate, Partition
    <3>3. (call.pc = "partition" /\ ~faulted => PassedOver(call.candidate))'
      BY <1>4, <2>2, <3>1, <3>2
    <3>4. MountRight'
      BY <1>4, <3>1 DEF MountRight, Answered
    <3>5. QED
      BY <2>1, <3>3, <3>4 DEF Searched
  <2>5. QED
    BY <2>3, <2>4
<1>7. \/ ~Candidate(c) /\ NextCandidate /\ fs' = fs /\ UNCHANGED device
      \/ Candidate(c) /\ BlockReadFails(p.start) /\ NextCandidate /\ fs' = fs
      \/ /\ Candidate(c) /\ BlockReadOk(p.start) /\ NextCandidate /\ fs' = fs
         /\ ~HoldsVolume(p, Boot(disk, p.start))
      \/ /\ Candidate(c) /\ BlockReadOk(p.start) /\ HoldsVolume(p, Boot(disk, p.start))
         /\ FinishMount(Boot(disk, p.start), p.start, p.size)
  BY <1>1, Zenon DEF MountPartition
<1>8. CASE ~Candidate(c) /\ NextCandidate /\ fs' = fs /\ UNCHANGED device
  BY <1>6, <1>8, Zenon DEF device
<1>9. CASE Candidate(c) /\ BlockReadFails(p.start) /\ NextCandidate /\ fs' = fs
  <2>1. p.start \in Nat /\ Count(disk) \in Nat
    <3>1. 0 \in 0 .. Sectors(disk) - 1 /\ (c % 4) + 1 \in 1 .. 4
      BY <1>2
    <3>2. QED
      BY <1>1, <1>2, <3>1, DisksAssumption, Zenon DEF Partition
  <2>2. InDevice(p.start)
    BY <1>1, <1>9, Zenon DEF InDevice, Candidate
  <2>3. faulted' = TRUE
    BY <1>9, <2>2 DEF BlockReadFails
  <2>4. QED
    BY <1>6, <1>9, <2>3, Zenon
<1>10. CASE /\ Candidate(c) /\ BlockReadOk(p.start) /\ NextCandidate /\ fs' = fs
            /\ ~HoldsVolume(p, Boot(disk, p.start))
  BY <1>6, <1>10, Zenon DEF BlockReadOk
<1>11. CASE /\ Candidate(c) /\ BlockReadOk(p.start) /\ HoldsVolume(p, Boot(disk, p.start))
            /\ FinishMount(Boot(disk, p.start), p.start, p.size)
  <2>1. p.start < Sectors(disk) /\ faulted' = faulted
    BY <1>11, Zenon DEF BlockReadOk
  <2>2. CASE Boot(disk, 0).signed
    <3>1. PICK n \in Places :
            /\ n \in 1 .. 4 /\ p = Place(n) /\ InDevice(p.start)
            /\ IF Place(n).conventional THEN c = n - 1 ELSE c = n + 3
      BY <1>1, <1>2, <1>11, <2>2, CandidateIsPlace, Zenon
    <3>2. p.start \in Nat /\ p.size \in Nat
      BY <1>2, <3>1, PlaceTypes
    <3>3. p.start \in 0 .. Sectors(disk) - 1
      BY <1>2, <2>1, <3>2
    <3>4. Looks(n)
      BY <1>2, <1>11, <2>1, <3>1, LooksHolds, Zenon
    <3>5. ASSUME ~faulted', NEW m \in Places, Before(m, n) PROVE ~Looks(m)
      <4>1. PassedOver(c) /\ c \in 0 .. 8
        BY <1>2, <1>3, <2>1, <3>5
      <4>2. m # 0 => IF Place(m).conventional THEN m - 1 < c ELSE m + 3 < c
        BY <1>2, <3>1, <3>5, BeforeCandidate, Zenon
      <4>3. QED
        BY <1>2, <4>1, <4>2, PassedNotLooks, Zenon
    <3>6. QED
      BY <1>2, <1>11, <3>1, <3>2, <3>3, <3>4, <3>5, FinishRight, Zenon
  <2>3. CASE ~Boot(disk, 0).signed
    <3>1. faulted' = TRUE
      BY <1>2, <1>3, <2>1, <2>3 DEF PassedOver
    <3>2. call'.pc = "idle"
      BY <1>11 DEF FinishMount, Return, Ended
    <3>3. MountRight'
      BY <3>1, Zenon DEF MountRight
    <3>4. QED
      BY <3>2, <3>3 DEF Searched
  <2>4. QED
    BY <2>2, <2>3
<1>12. QED
  BY <1>7, <1>8, <1>9, <1>10, <1>11

\* Calls other than fat32_mount have nothing to do with it.
LEMMA OtherCallRight ==
  ASSUME Told', call'.op # "mount"
  PROVE  Searched'
<1>1. call'.pc \notin {"boot", "partition"}
  BY DEF Told, Typed
<1>2. MountRight'
  BY DEF MountRight, Answered
<1>3. QED
  BY <1>1, <1>2 DEF Searched

\* Every step of the file system.
LEMMA StepRight == Inv /\ Told /\ Searched /\ Step => Searched'
<1> SUFFICES ASSUME Inv, Told, Searched, Step PROVE Searched'
  OBVIOUS
<1>1. UNCHANGED <<command, status, shown>> /\ FsStep /\ Inv' /\ Told'
  BY StepKeeps, StepTold DEF Step
<1>2. ASSUME call'.op = call.op, call.pc \in {"lookup"} \cup Walking PROVE Searched'
  <2>1. call.op \in {"list", "read"}
    BY <1>2 DEF Told, Typed
  <2>2. QED
    BY <1>1, <1>2, <2>1, OtherCallRight
<1>3. CASE ScanNext
  <2>1. PICK ended : ended = IF call.purpose = "find" THEN "ENOTFOUND" ELSE "OK"
    OBVIOUS
  <2>2. next_cluster("scan_next", ended, "EBADFS")
    BY <1>3, <2>1, Zenon DEF ScanNext, ScanFault
  <2>3. ended \in Results \ {"EIO"} /\ "EBADFS" \in Results
    BY <2>1 DEF Results
  <2>4. call'.op = call.op /\ call.pc \in Walking
    BY <1>1, <2>2, <2>3, NextClusterTold DEF next_cluster, Walking
  <2>5. QED
    BY <1>2, <2>4
<1>4. CASE CopyNext
  <2>1. next_cluster("copy_next", "EBADFS", "EIO")
    BY <1>4 DEF CopyNext
  <2>2. "EBADFS" \in Results \ {"EIO"} /\ "EIO" \in Results
    BY DEF Results
  <2>3. call'.op = call.op /\ call.pc \in Walking
    BY <1>1, <2>1, <2>2, NextClusterTold DEF next_cluster, Walking
  <2>4. QED
    BY <1>2, <2>3
<1>5. CASE Lookup
  <2>1. call'.op = call.op /\ call.pc = "lookup"
    BY <1>1, <1>5, LookupTold DEF Lookup
  <2>2. QED
    BY <1>2, <2>1
<1>6. CASE Scan \/ Copy
  <2>1. call'.op = call.op /\ call.pc \in Walking
    BY <1>1, <1>6, ReadTold DEF Scan, Copy, Walking
  <2>2. QED
    BY <1>2, <2>1
<1>7. QED
  BY <1>1, <1>3, <1>4, <1>5, <1>6, MountBootRight, MountPartitionRight DEF FsStep

\* The search has not begun.
LEMMA InitRight == Init => Searched
<1> SUFFICES ASSUME Init PROVE Searched
  OBVIOUS
<1>1. fs.mounted = FALSE /\ call \in {fat32_mount, NoCall}
  BY DEF Init, Unmounted
<1>2. call.pc # "partition" /\ ~Answered("mount")
  BY <1>1 DEF fat32_mount, NoCall, Ended, Answered
<1>3. QED
  BY <1>1, <1>2 DEF Searched, MountRight

\* With Inv and Told, Searched is inductive.
LEMMA NextRight == Inv /\ Told /\ Searched /\ [Next]_vars => Searched'
<1> SUFFICES ASSUME Inv, Told, Searched, [Next]_vars PROVE Searched'
  OBVIOUS
<1>1. Told'
  BY NextTold
<1>2. CASE Banner \/ Report
  <2>1. call'.op # "mount"
    BY <1>2 DEF Banner, Report, NoCall, Ended
  <2>2. QED
    BY <1>1, <2>1, OtherCallRight
<1>3. CASE ls \/ cat
  <2>1. PICK op \in {"list", "read"}, path \in Paths : call' = Called(op, path, CatBuffer)
    BY <1>3 DEF ls, cat, Enter
  <2>2. call'.op = op
    BY <2>1 DEF Called, Return, Ended
  <2>3. QED
    BY <1>1, <2>2, OtherCallRight
<1>4. CASE Step
  BY <1>4, StepRight
<1>5. CASE UNCHANGED vars
  <2>1. UNCHANGED <<disk, fs, call, faulted>>
    BY <1>5 DEF vars, fsvars, device
  <2>2. MountRight'
    <3>1. CASE Answered("mount")
      <4>1. ~faulted' => ~faulted
        BY <2>1
      <4>2. \A n : First(n) <=> n \in {k \in Places :
                                        Looks(k) /\ \A m \in Places : Before(m, k) => ~Looks(m)}
        BY Zenon DEF First
      <4>3. /\ ~faulted /\ fs.mounted =>
                  \E n : First(n) /\ Place(n).start = fs.volume_start /\ Complete(n)
            /\ ~faulted /\ ~fs.mounted => \A n : First(n) => ~Complete(n)
        BY <3>1, <4>2, Zenon DEF Searched, MountRight
      <4>4. QED
        BY <2>1, <4>1, <4>3, RightNext, Zenon
    <3>2. CASE ~Answered("mount")
      BY <2>1, <3>2 DEF MountRight, Answered
    <3>3. QED
      BY <3>1, <3>2
  <2>3. (call.pc = "partition" /\ ~faulted => PassedOver(call.candidate))'
    BY <2>1 DEF Searched, PassedOver, Looks, Place, Candidate, Partition
  <2>4. QED
    BY <2>1, <2>2, <2>3 DEF Searched
<1>6. QED
  BY <1>2, <1>3, <1>4, <1>5 DEF Next

\* On every disk whose reads have not failed, the first place that looks like a
\* volume, in the order the search promises, is mounted if and only if it is right
\* in every field, and nothing else ever is (fat32.c:287-413).
THEOREM MountsTheRightVolume == Spec => []MountRight
<1>1. Inv /\ Told /\ Searched /\ [Next]_vars => (Inv /\ Told /\ Searched)'
  BY NextKeeps, NextTold, NextRight
<1>2. Searched => MountRight
  BY DEF Searched
<1>3. QED
  BY InitSound, InitTold, InitRight, <1>1, <1>2, PTL DEF Spec

\* A nonempty set of naturals has a least element.
LEMMA Least ==
  ASSUME NEW T, T \subseteq Nat, T # {}
  PROVE  \E x \in T : \A y \in T : x =< y
<1>1. PICK R : R = OpToRel(<, Nat)
  BY Zenon
<1>2. IsWellFoundedOn(R, Nat)
  BY <1>1, NatLessThanWellFounded, Zenon
<1>3. PICK x \in T : \A y \in T : ~(<<y, x>> \in R)
  BY <1>2, WFMin, Zenon
<1>4. \A y \in Nat, z \in Nat : y < z => <<y, z>> \in R
  <2>1. R = {ss \in Nat \X Nat : ss[1] < ss[2]}
    BY <1>1 DEF OpToRel
  <2>2. QED
    BY <2>1
<1>5. ASSUME NEW y \in T PROVE x =< y
  <2>1. x \in Nat /\ y \in Nat /\ ~(y < x)
    BY <1>3, <1>4
  <2>2. QED
    BY <2>1
<1>6. QED
  BY <1>5

\* Position b of block a, in blocks of d.
LEMMA Blocks ==
  ASSUME NEW d \in Nat \ {0}, NEW a \in Nat, NEW b \in 0 .. d - 1
  PROVE  /\ d * a + b \in Nat /\ (d * a + b) \div d = a /\ (d * a + b) % d = b
<1>1. PICK n : n = d * a + b
  OBVIOUS
<1>2. n \in Nat
  <2>1. d * a \in Nat
    OBVIOUS
  <2>2. QED
    BY <1>1, <2>1
<1>3. /\ n \div d \in Int /\ n % d \in 0 .. d - 1 /\ n = d * (n \div d) + (n % d)
  BY <1>2, DivMod
<1>4. n \div d = a /\ n % d = b
  <2>1. PICK x \in Int, y \in 0 .. d - 1 : x = n \div d /\ y = n % d
    BY <1>3
  <2>2. d * x + y = d * a + b
    BY <1>1, <1>3, <2>1
  <2>3. a \in Int
    OBVIOUS
  <2>4. x = a /\ y = b
    BY <2>2, <2>3, DivisionUnique
  <2>5. QED
    BY <2>1, <2>4
<1>5. QED
  BY <1>1, <1>2, <1>4

-----------------------------------------------------------------------------
(* Chains.  The functions FatLayout defines by recursion exist, and so     *)
(* satisfy their equations.                                                *)

\* The equations of Chain.
LEMMA ChainIs ==
  ASSUME NEW d, NEW v, NEW c, v.cluster_count \in Nat
  PROVE  /\ Chain(d, v, c)[0] = c
         /\ \A n \in 1 .. v.cluster_count :
              Chain(d, v, c)[n] = Follow(d, v, Chain(d, v, c)[n - 1])
<1> DEFINE Fits(n) == \E f : f = [m \in 0 .. n |-> IF m = 0 THEN c ELSE Follow(d, v, f[m - 1])]
           T == {n \in Nat : ~Fits(n)}
<1>1. T = {}
  <2>1. SUFFICES ASSUME T # {} PROVE FALSE
    OBVIOUS
  <2>2. PICK n \in T : \A m \in T : n =< m
    <3>1. T \subseteq Nat
      OBVIOUS
    <3> HIDE DEF T
    <3>2. QED
      BY <2>1, <3>1, Least, Zenon
  <2>3. n # 0
    <3>1. Fits(0)
      <4>1. WITNESS [m \in 0 .. 0 |-> c]
      <4>2. QED
        OBVIOUS
    <3>2. QED
      BY <2>2, <3>1
  <2>4. PICK f : f = [m \in 0 .. n - 1 |-> IF m = 0 THEN c ELSE Follow(d, v, f[m - 1])]
    BY <2>2, <2>3
  <2>5. PICK g : g = [m \in 0 .. n |-> IF m = n THEN Follow(d, v, f[n - 1]) ELSE f[m]]
    OBVIOUS
  <2>6. g = [m \in 0 .. n |-> IF m = 0 THEN c ELSE Follow(d, v, g[m - 1])]
    <3>1. n \in Nat \ {0}
      BY <2>2, <2>3
    <3>2. \A m \in 0 .. n - 1 : g[m] = f[m]
      BY <3>1, <2>5
    <3>3. \A m \in 0 .. n : g[m] = IF m = 0 THEN c ELSE Follow(d, v, g[m - 1])
      <4>1. g[0] = c
        BY <3>1, <3>2, <2>4
      <4>2. g[n] = Follow(d, v, g[n - 1])
        BY <3>1, <3>2, <2>5
      <4>3. ASSUME NEW m \in 1 .. n - 1 PROVE g[m] = Follow(d, v, g[m - 1])
        <5>1. g[m] = f[m] /\ g[m - 1] = f[m - 1]
          BY <3>1, <3>2
        <5>2. f[m] = Follow(d, v, f[m - 1])
          BY <2>4
        <5>3. QED
          BY <5>1, <5>2
      <4>4. QED
        BY <3>1, <4>1, <4>2, <4>3
    <3>4. QED
      BY <2>5, <3>3
  <2>7. Fits(n)
    BY <2>6
  <2>8. QED
    BY <2>2, <2>7
<1>2. PICK N \in Nat : N = v.cluster_count
  OBVIOUS
<1>3. Fits(N)
  BY <1>1
<1>4. PICK h : h = Chain(d, v, c)
  OBVIOUS
<1>5. h = CHOOSE f : f = [m \in 0 .. N |-> IF m = 0 THEN c ELSE Follow(d, v, f[m - 1])]
  BY <1>2, <1>4 DEF Chain
<1>6. h = [m \in 0 .. N |-> IF m = 0 THEN c ELSE Follow(d, v, h[m - 1])]
  BY <1>3, <1>5, Zenon
<1>7. h[0] = c /\ \A n \in 1 .. N : h[n] = Follow(d, v, h[n - 1])
  BY <1>6
<1>8. QED
  BY <1>2, <1>4, <1>7

\* A chain that is left stays where it is.
LEMMA ChainLeft ==
  ASSUME NEW d, NEW v, NEW c, v.cluster_count \in Nat, NEW m \in 0 .. v.cluster_count,
         ~InChain(v, Chain(d, v, c)[m]), NEW n \in m .. v.cluster_count
  PROVE  Chain(d, v, c)[n] = Chain(d, v, c)[m]
<1>1. PICK f : f = Chain(d, v, c)
  OBVIOUS
<1> DEFINE T == {k \in Nat : k \in m .. v.cluster_count /\ f[k] # f[m]}
<1>2. T = {}
  <2>1. SUFFICES ASSUME T # {} PROVE FALSE
    OBVIOUS
  <2>2. PICK k \in T : \A j \in T : k =< j
    <3>1. T \subseteq Nat
      OBVIOUS
    <3> HIDE DEF T
    <3>2. QED
      BY <2>1, <3>1, Least, Zenon
  <2>3. k \in Nat /\ k \in m .. v.cluster_count /\ f[k] # f[m] /\ k # m
    BY <2>2
  <2>4. k - 1 \in Nat /\ k - 1 \in m .. v.cluster_count /\ k \in 1 .. v.cluster_count
    BY <2>3
  <2>5. f[k - 1] = f[m]
    <3>1. k - 1 \notin T
      BY <2>2, <2>4
    <3>2. QED
      BY <2>4, <3>1
  <2>6. f[k] = Follow(d, v, f[k - 1])
    BY <1>1, <2>4, ChainIs
  <2>7. f[k] = f[m]
    BY <1>1, <2>5, <2>6 DEF Follow
  <2>8. QED
    BY <2>3, <2>7
<1>3. QED
  BY <1>1, <1>2

\* A chain of more clusters than the volume has goes round.
LEMMA ChainTurns ==
  ASSUME NEW d, NEW v, NEW c, v.cluster_count \in Nat,
         \A m \in 0 .. v.cluster_count : InChain(v, Chain(d, v, c)[m])
  PROVE  Loops(d, v, c)
<1>1. PICK f : f = Chain(d, v, c)
  OBVIOUS
<1>2. PICK N \in Nat : N = v.cluster_count
  OBVIOUS
<1>3. PICK S : S = 0 .. N
  OBVIOUS
<1>4. PICK T : T = 2 .. N + 1
  OBVIOUS
<1>5. IsFiniteSet(S) /\ Cardinality(S) = N + 1
  BY <1>3, FS_Interval
<1>6. IsFiniteSet(T) /\ Cardinality(T) = N
  BY <1>4, FS_Interval
<1>7. PICK g : g = [m \in S |-> f[m]]
  OBVIOUS
<1>8. g \in [S -> T]
  BY <1>1, <1>2, <1>3, <1>4, <1>7 DEF InChain
<1>9. \E x, y \in S : x # y /\ g[x] = g[y]
  <2>1. Cardinality(T) < Cardinality(S)
    BY <1>5, <1>6
  <2>2. QED
    BY <1>5, <1>6, <1>8, <2>1, FS_PigeonHole, Zenon
<1>10. PICK x \in 0 .. N, y \in 0 .. N : x # y /\ f[x] = f[y]
  BY <1>3, <1>7, <1>9
<1>11. \E m, n \in 0 .. N : m < n /\ f[m] = f[n]
  BY <1>10
<1>12. QED
  BY <1>1, <1>2, <1>11 DEF Loops

\* A chain that is left has not gone round.
LEMMA ChainStraight ==
  ASSUME NEW d, NEW v, NEW c, v.cluster_count \in Nat, NEW n \in 0 .. v.cluster_count,
         \A m \in 0 .. n - 1 : InChain(v, Chain(d, v, c)[m]), ~InChain(v, Chain(d, v, c)[n])
  PROVE  ~Loops(d, v, c)
<1>1. PICK f : f = Chain(d, v, c)
  OBVIOUS
<1>2. SUFFICES ASSUME NEW a \in 0 .. v.cluster_count, NEW b \in 0 .. v.cluster_count,
                      a < b, InChain(v, f[a]), f[a] = f[b]
               PROVE  FALSE
  BY <1>1 DEF Loops
<1>3. ASSUME NEW k \in n .. v.cluster_count PROVE ~InChain(v, f[k])
  BY <1>1, <1>3, ChainLeft
<1>4. a < n /\ b < n
  BY <1>2, <1>3
<1> DEFINE T == {k \in Nat : k =< n - b /\ f[a + k] # f[b + k]}
<1>5. T = {}
  <2>1. SUFFICES ASSUME T # {} PROVE FALSE
    OBVIOUS
  <2>2. PICK k \in T : \A j \in T : k =< j
    <3>1. T \subseteq Nat
      OBVIOUS
    <3> HIDE DEF T
    <3>2. QED
      BY <2>1, <3>1, Least, Zenon
  <2>3. k \in Nat /\ k =< n - b /\ f[a + k] # f[b + k]
    BY <2>2
  <2>4. k # 0
    BY <1>2, <2>3
  <2>5. /\ k - 1 \in Nat /\ a + k \in 1 .. v.cluster_count /\ b + k \in 1 .. v.cluster_count
        /\ k - 1 =< n - b /\ (a + k) - 1 = a + (k - 1) /\ (b + k) - 1 = b + (k - 1)
    BY <1>2, <1>4, <2>3, <2>4
  <2>6. f[a + (k - 1)] = f[b + (k - 1)]
    <3>1. k - 1 \notin T
      BY <2>2, <2>5
    <3>2. QED
      BY <2>5, <3>1
  <2>7. f[a + k] = Follow(d, v, f[(a + k) - 1]) /\ f[b + k] = Follow(d, v, f[(b + k) - 1])
    BY <1>1, <2>5, ChainIs
  <2>8. QED
    BY <2>3, <2>5, <2>6, <2>7
<1>6. n - b \in Nat /\ a + (n - b) \in 0 .. n - 1 /\ b + (n - b) = n
  BY <1>2, <1>4
<1>7. f[a + (n - b)] = f[n]
  <2>1. n - b \notin T
    BY <1>5
  <2>2. QED
    BY <1>6, <2>1
<1>8. QED
  BY <1>1, <1>6, <1>7

-----------------------------------------------------------------------------
(* Directories.                                                            *)

\* A sector has room for an entry.
LEMMA EntriesPositive == EntriesPerSector \in Nat \ {0} /\ EntriesPerSector \in Nat
<1>1. PICK q \in Nat : q = EntriesPerSector /\ SectorBytes = EntryBytes * q + 0
  <2>1. PICK sb \in Nat \ {0}, eb \in Nat \ {0} : sb = SectorBytes /\ eb = EntryBytes
    BY SizesAssumption
  <2>2. sb \in Nat /\ sb \div eb \in Nat /\ sb = eb * (sb \div eb) + (sb % eb)
    BY <2>1, DivMod
  <2>3. sb % eb = 0
    BY <2>1, SizesAssumption
  <2>4. QED
    BY <2>1, <2>2, <2>3 DEF EntriesPerSector
<1>2. q # 0
  BY <1>1, SizesAssumption
<1>3. QED
  BY <1>1, <1>2

\* The geometry that lemmas about a volume need.
Measured(v) == v.cluster_count \in Nat /\ v.sectors_per_cluster \in Nat \ {0}

\* A sector of the volume's chain by cluster and sector in it.
LEMMA SectorOfChain ==
  ASSUME NEW v, Measured(v), NEW f, NEW n \in Nat, NEW s \in 0 .. v.sectors_per_cluster - 1
  PROVE  LET q == v.sectors_per_cluster * n + s IN
         /\ q \in Nat
         /\ Reaches(v, f, q) <=> n \in 0 .. v.cluster_count /\ InChain(v, f[n])
         /\ SectorAt(v, f, q) = v.volume_start + v.data_start
                                  + (f[n] - 2) * v.sectors_per_cluster + s
<1>1. PICK spc \in Nat \ {0} : spc = v.sectors_per_cluster
  BY DEF Measured
<1>2. PICK q : q = spc * n + s
  OBVIOUS
<1>3. q \in Nat /\ q \div spc = n /\ q % spc = s
  BY <1>1, <1>2, Blocks
<1>4. QED
  BY <1>1, <1>2, <1>3 DEF Reaches, SectorAt

\* Slot i of sector q.
LEMMA SlotOfSector ==
  ASSUME NEW d, NEW v, NEW f, NEW q \in Nat, NEW i \in 0 .. EntriesPerSector - 1
  PROVE  LET k == EntriesPerSector * q + i IN
         /\ k \in Nat
         /\ Slot(d, v, f, k) = Raw(d, SectorAt(v, f, q), i)
         /\ Over(d, v, f, k) <=> ~Reaches(v, f, q) \/ Raw(d, SectorAt(v, f, q), i).kind = "end"
<1>1. PICK per \in Nat \ {0} : per = EntriesPerSector
  BY EntriesPositive
<1>2. PICK k : k = per * q + i
  OBVIOUS
<1>3. k \in Nat /\ k \div per = q /\ k % per = i
  BY <1>1, <1>2, Blocks
<1>4. Slot(d, v, f, k) = Raw(d, SectorAt(v, f, q), i)
  BY <1>1, <1>3 DEF Slot
<1>5. Over(d, v, f, k) <=> ~Reaches(v, f, q) \/ Raw(d, SectorAt(v, f, q), i).kind = "end"
  BY <1>1, <1>3, <1>4 DEF Over
<1>6. QED
  BY <1>1, <1>2, <1>3, <1>4, <1>5

\* A directory is over behind the last cluster the volume has, if not before.
LEMMA ExtentIs ==
  ASSUME NEW d, NEW v, Measured(v), NEW f
  PROVE  /\ Extent(d, v, f) \in Nat /\ Over(d, v, f, Extent(d, v, f))
         /\ \A j \in 0 .. Extent(d, v, f) - 1 : ~Over(d, v, f, j)
<1>1. PICK N \in Nat, spc \in Nat \ {0} : N = v.cluster_count /\ spc = v.sectors_per_cluster
  BY DEF Measured
<1>2. PICK per \in Nat \ {0} : per = EntriesPerSector
  BY EntriesPositive
<1>3. PICK q : q = spc * (N + 1) + 0
  OBVIOUS
<1>4. q \in Nat /\ ~Reaches(v, f, q)
  <2>1. N + 1 \in Nat /\ 0 \in 0 .. spc - 1 /\ N + 1 \notin 0 .. N
    BY <1>1
  <2>2. QED
    BY <1>1, <1>3, <2>1, SectorOfChain
<1>5. PICK last : last = per * q + 0
  OBVIOUS
<1>6. last \in Nat /\ Over(d, v, f, last)
  <2>1. 0 \in 0 .. per - 1
    BY <1>2
  <2>2. QED
    BY <1>2, <1>4, <1>5, <2>1, SlotOfSector
<1>7. last = (v.cluster_count + 1) * v.sectors_per_cluster * EntriesPerSector
  <2>1. spc * (N + 1) \in Nat /\ (N + 1) * spc \in Nat /\ spc * (N + 1) = (N + 1) * spc
    BY <1>1
  <2>2. PICK w \in Nat : w = (N + 1) * spc
    BY <2>1
  <2>3. q = w
    BY <1>3, <2>1, <2>2
  <2>4. last = w * per
    BY <1>2, <1>5, <2>3
  <2>5. QED
    BY <1>1, <1>2, <2>2, <2>4
<1> DEFINE T == {k \in Nat : Over(d, v, f, k)}
<1>8. PICK k \in T : \A j \in T : k =< j
  <2>1. T \subseteq Nat /\ T # {}
    BY <1>6
  <2> HIDE DEF T
  <2>2. QED
    BY <2>1, Least, Zenon
<1>9. k \in 0 .. last /\ k \in Nat /\ Over(d, v, f, k)
  BY <1>6, <1>8
<1>10. \A j \in 0 .. k - 1 : ~Over(d, v, f, j)
  BY <1>8, <1>9
<1>11. PICK x : x = Extent(d, v, f)
  OBVIOUS
<1>12. x = CHOOSE i \in 0 .. last : Over(d, v, f, i) /\ \A j \in 0 .. i - 1 : ~Over(d, v, f, j)
  BY <1>7, <1>11 DEF Extent
<1>13. x \in 0 .. last /\ Over(d, v, f, x) /\ \A j \in 0 .. x - 1 : ~Over(d, v, f, j)
  BY <1>9, <1>10, <1>12, Zenon
<1>14. QED
  BY <1>6, <1>11, <1>13

\* The first slot that is over is where the directory ends.
LEMMA ExtentAt ==
  ASSUME NEW d, NEW v, Measured(v), NEW f, NEW k \in Nat, Over(d, v, f, k),
         \A j \in 0 .. k - 1 : ~Over(d, v, f, j)
  PROVE  Extent(d, v, f) = k
<1>1. PICK x \in Nat : x = Extent(d, v, f)
  BY ExtentIs
<1>2. Over(d, v, f, x) /\ \A j \in 0 .. x - 1 : ~Over(d, v, f, j)
  BY <1>1, ExtentIs
<1>3. ~(x < k) /\ ~(k < x)
  BY <1>2
<1>4. QED
  BY <1>1, <1>3

\* A slot with a name.
Bears(d, v, f, k, name) == Slot(d, v, f, k).kind = "entry" /\ Slot(d, v, f, k).name = name

\* The entry a search finds, and that it finds none.
LEMMA EntryFound ==
  ASSUME NEW d, NEW v, Measured(v), NEW c, NEW f, f = Chain(d, v, c), NEW k \in Nat, NEW name,
         \A j \in 0 .. k : ~Over(d, v, f, j), Bears(d, v, f, k, name),
         \A j \in 0 .. k - 1 : ~Bears(d, v, f, j, name)
  PROVE  EntryIn(d, v, c, name) = Slot(d, v, f, k)
<1>1. PICK x \in Nat : x = Extent(d, v, f) /\ Over(d, v, f, x)
  BY ExtentIs
<1>2. k \in 0 .. x - 1
  BY <1>1
<1> DEFINE hits == {j \in 0 .. x - 1 : Bears(d, v, f, j, name)}
<1>3. k \in hits /\ \A j \in hits : k =< j
  BY <1>1, <1>2
<1>4. PICK i : i = CHOOSE j \in hits : \A m \in hits : j =< m
  OBVIOUS
<1>5. i \in hits /\ \A m \in hits : i =< m
  BY <1>3, <1>4, Zenon
<1>6. i = k
  BY <1>1, <1>3, <1>5
<1>7. hits # {}
  BY <1>3
<1>8. hits = {j \in 0 .. Extent(d, v, f) - 1 :
                Slot(d, v, f, j).kind = "entry" /\ Slot(d, v, f, j).name = name}
  BY <1>1 DEF Bears
<1> HIDE DEF hits
<1>9. EntryIn(d, v, c, name)
        = IF hits = {} THEN Missing
          ELSE Slot(d, v, f, CHOOSE j \in hits : \A m \in hits : j =< m)
  BY <1>8 DEF EntryIn
<1>10. QED
  BY <1>4, <1>6, <1>7, <1>9, Zenon

\* A name that no slot up to the end of the directory bears.
LEMMA EntryMissing ==
  ASSUME NEW d, NEW v, Measured(v), NEW c, NEW f, f = Chain(d, v, c), NEW k \in Nat, NEW name,
         Over(d, v, f, k), \A j \in 0 .. k - 1 : ~Over(d, v, f, j) /\ ~Bears(d, v, f, j, name)
  PROVE  EntryIn(d, v, c, name) = Missing
<1>1. Extent(d, v, f) = k
  BY ExtentAt
<1> DEFINE hits == {j \in 0 .. Extent(d, v, f) - 1 :
                      Slot(d, v, f, j).kind = "entry" /\ Slot(d, v, f, j).name = name}
<1>2. hits = {}
  BY <1>1 DEF Bears
<1> HIDE DEF hits
<1>3. EntryIn(d, v, c, name)
        = IF hits = {} THEN Missing
          ELSE Slot(d, v, f, CHOOSE j \in hits : \A m \in hits : j =< m)
  BY DEF EntryIn, hits
<1>4. QED
  BY <1>2, <1>3

\* The entries among the first n of some slots.
More(raws, f, n) ==
  IF n = 0 THEN <<>>
  ELSE IF raws[n].kind = "entry" THEN Append(f[n - 1], raws[n]) ELSE f[n - 1]
EntriesTo(raws) == CHOOSE f : f = [n \in 0 .. Len(raws) |-> More(raws, f, n)]

\* The equations behind EntriesOf.
LEMMA EntriesToIs ==
  ASSUME NEW raws, Len(raws) \in Nat
  PROVE  /\ EntriesOf(raws) = EntriesTo(raws)[Len(raws)]
         /\ \A n \in 0 .. Len(raws) : EntriesTo(raws)[n] = More(raws, EntriesTo(raws), n)
<1> DEFINE Fits(n) == \E f : f = [m \in 0 .. n |-> More(raws, f, m)]
           T == {n \in Nat : ~Fits(n)}
<1>1. T = {}
  <2>1. SUFFICES ASSUME T # {} PROVE FALSE
    OBVIOUS
  <2>2. PICK n \in T : \A m \in T : n =< m
    <3>1. T \subseteq Nat
      OBVIOUS
    <3> HIDE DEF T
    <3>2. QED
      BY <2>1, <3>1, Least, Zenon
  <2>3. n # 0
    <3>1. Fits(0)
      <4>1. WITNESS [m \in 0 .. 0 |-> <<>>]
      <4>2. QED
        BY DEF More
    <3>2. QED
      BY <2>2, <3>1
  <2>4. PICK f : f = [m \in 0 .. n - 1 |-> More(raws, f, m)]
    BY <2>2, <2>3
  <2>5. PICK g : g = [m \in 0 .. n |-> IF m = n THEN More(raws, f, n) ELSE f[m]]
    OBVIOUS
  <2>6. g = [m \in 0 .. n |-> More(raws, g, m)]
    <3>1. n \in Nat \ {0}
      BY <2>2, <2>3
    <3>2. \A m \in 0 .. n - 1 : g[m] = f[m]
      BY <3>1, <2>5
    <3>3. ASSUME NEW m \in 0 .. n PROVE g[m] = More(raws, g, m)
      <4>1. More(raws, g, m) = More(raws, f, m)
        BY <3>1, <3>2 DEF More
      <4>2. g[m] = More(raws, f, m)
        BY <3>1, <2>4, <2>5
      <4>3. QED
        BY <4>1, <4>2
    <3>4. QED
      BY <2>5, <3>3
  <2>7. Fits(n)
    BY <2>6
  <2>8. QED
    BY <2>2, <2>7
<1>2. PICK N \in Nat : N = Len(raws)
  OBVIOUS
<1>3. Fits(N)
  BY <1>1
<1>4. PICK h : h = EntriesTo(raws)
  OBVIOUS
<1>5. h = CHOOSE f : f = [m \in 0 .. N |-> More(raws, f, m)]
  BY <1>2, <1>4 DEF EntriesTo
<1>6. h = [m \in 0 .. N |-> More(raws, h, m)]
  BY <1>3, <1>5, Zenon
<1>7. \A n \in 0 .. N : h[n] = More(raws, h, n)
  BY <1>6
<1>8. EntriesOf(raws) = EntriesTo(raws)[Len(raws)]
  BY DEF EntriesOf, EntriesTo, More
<1>9. QED
  BY <1>2, <1>4, <1>7, <1>8

\* The entries are some of the slots.
LEMMA EntriesToSeq ==
  ASSUME NEW S, NEW raws \in Seq(S), NEW n \in 0 .. Len(raws)
  PROVE  EntriesTo(raws)[n] \in Seq(S)
<1>1. PICK f : f = EntriesTo(raws)
  OBVIOUS
<1>2. Len(raws) \in Nat /\ \A k \in 0 .. Len(raws) : f[k] = More(raws, f, k)
  BY <1>1, EntriesToIs
<1> DEFINE T == {k \in Nat : k =< Len(raws) /\ f[k] \notin Seq(S)}
<1>3. T = {}
  <2>1. SUFFICES ASSUME T # {} PROVE FALSE
    OBVIOUS
  <2>2. PICK k \in T : \A j \in T : k =< j
    <3>1. T \subseteq Nat
      OBVIOUS
    <3> HIDE DEF T
    <3>2. QED
      BY <2>1, <3>1, Least, Zenon
  <2>3. k \in Nat /\ k \in 0 .. Len(raws) /\ f[k] \notin Seq(S) /\ f[k] = More(raws, f, k)
    BY <1>2, <2>2
  <2>4. k # 0
    BY <2>3 DEF More
  <2>5. f[k - 1] \in Seq(S)
    <3>1. k - 1 \in Nat /\ k - 1 =< Len(raws) /\ k - 1 \notin T
      BY <1>2, <2>2, <2>3, <2>4
    <3>2. QED
      BY <3>1
  <2>6. raws[k] \in S
    BY <2>3, <2>4
  <2>7. QED
    BY <2>3, <2>4, <2>5, <2>6 DEF More
<1>4. QED
  BY <1>1, <1>2, <1>3

\* The entries of two runs of slots.
LEMMA EntriesJoined ==
  ASSUME NEW S, NEW a \in Seq(S), NEW b \in Seq(S)
  PROVE  EntriesOf(a \o b) = EntriesOf(a) \o EntriesOf(b)
<1>1. PICK f : f = EntriesTo(a)
  OBVIOUS
<1>2. PICK g : g = EntriesTo(b)
  OBVIOUS
<1>3. PICK u : u = a \o b
  OBVIOUS
<1>4. PICK h : h = EntriesTo(u)
  OBVIOUS
<1>5. PICK A \in Nat, B \in Nat : A = Len(a) /\ B = Len(b)
  OBVIOUS
<1>6. /\ u \in Seq(S) /\ Len(u) = A + B
      /\ \A k \in 1 .. A : u[k] = a[k]
      /\ \A k \in 1 .. B : u[A + k] = b[k]
  BY <1>3, <1>5
<1>7. /\ \A k \in 0 .. A : f[k] = More(a, f, k)
      /\ \A k \in 0 .. B : g[k] = More(b, g, k)
      /\ \A k \in 0 .. A + B : h[k] = More(u, h, k)
      /\ EntriesOf(a) = f[A] /\ EntriesOf(b) = g[B] /\ EntriesOf(u) = h[A + B]
  <2>1. EntriesOf(a) = f[A] /\ \A k \in 0 .. A : f[k] = More(a, f, k)
    BY <1>1, <1>5, EntriesToIs
  <2>2. EntriesOf(b) = g[B] /\ \A k \in 0 .. B : g[k] = More(b, g, k)
    BY <1>2, <1>5, EntriesToIs
  <2>3. EntriesOf(u) = h[A + B] /\ \A k \in 0 .. A + B : h[k] = More(u, h, k)
    <3>1. Len(u) \in Nat
      BY <1>6
    <3>2. QED
      BY <1>4, <1>6, <3>1, EntriesToIs
  <2>4. QED
    BY <2>1, <2>2, <2>3
<1>8. /\ \A k \in 0 .. A : f[k] \in Seq(S)
      /\ \A k \in 0 .. B : g[k] \in Seq(S)
  BY <1>1, <1>2, <1>5, EntriesToSeq
<1>9. h[A] = f[A]
  <2> DEFINE T == {k \in Nat : k =< A /\ h[k] # f[k]}
  <2>1. T = {}
    <3>1. SUFFICES ASSUME T # {} PROVE FALSE
      OBVIOUS
    <3>2. PICK k \in T : \A j \in T : k =< j
      <4>1. T \subseteq Nat
        OBVIOUS
      <4> HIDE DEF T
      <4>2. QED
        BY <3>1, <4>1, Least, Zenon
    <3>3. k \in Nat /\ k \in 0 .. A /\ k \in 0 .. A + B /\ h[k] # f[k]
      BY <3>2
    <3>4. h[k] = More(u, h, k) /\ f[k] = More(a, f, k)
      BY <1>7, <3>3
    <3>5. k # 0
      BY <3>3, <3>4 DEF More
    <3>6. h[k - 1] = f[k - 1]
      <4>1. k - 1 \in Nat /\ k - 1 =< A /\ k - 1 \notin T
        BY <3>2, <3>3, <3>5
      <4>2. QED
        BY <4>1
    <3>7. u[k] = a[k]
      BY <1>6, <3>3, <3>5
    <3>8. QED
      BY <3>3, <3>4, <3>5, <3>6, <3>7 DEF More
  <2>2. QED
    BY <2>1
<1>10. h[A + B] = f[A] \o g[B]
  <2>0. PICK w : w = [k \in 0 .. B |-> f[A] \o g[k]]
    OBVIOUS
  <2> DEFINE T == {k \in Nat : k =< B /\ h[A + k] # w[k]}
  <2>1. T = {}
    <3>1. SUFFICES ASSUME T # {} PROVE FALSE
      OBVIOUS
    <3>2. PICK k \in T : \A j \in T : k =< j
      <4>1. T \subseteq Nat
        OBVIOUS
      <4> HIDE DEF T
      <4>2. QED
        BY <3>1, <4>1, Least, Zenon
    <3>3. /\ k \in Nat /\ k \in 0 .. B /\ A + k \in 0 .. A + B /\ h[A + k] # w[k]
          /\ f[A] \in Seq(S)
      BY <1>8, <3>2
    <3>4. /\ h[A + k] = More(u, h, A + k) /\ g[k] = More(b, g, k)
          /\ w[k] = f[A] \o g[k] /\ w[0] = f[A] \o g[0]
      <4>1. h[A + k] = More(u, h, A + k) /\ g[k] = More(b, g, k)
        BY <1>7, <3>3
      <4>2. 0 \in 0 .. B
        OBVIOUS
      <4>3. w[k] = f[A] \o g[k] /\ w[0] = f[A] \o g[0]
        BY <2>0, <3>3, <4>2, Zenon
      <4>4. QED
        BY <4>1, <4>3, Zenon
    <3>5. k # 0
      <4>1. g[0] = <<>>
        BY <1>7 DEF More
      <4>2. f[A] \o <<>> = f[A]
        BY <3>3
      <4>3. QED
        BY <1>9, <3>3, <3>4, <4>1, <4>2
    <3>6. h[A + (k - 1)] = f[A] \o g[k - 1] /\ g[k - 1] \in Seq(S)
      <4>1. k - 1 \in Nat /\ k - 1 =< B /\ k - 1 \notin T /\ k - 1 \in 0 .. B
        BY <3>2, <3>3, <3>5
      <4>2. w[k - 1] = f[A] \o g[k - 1]
        BY <2>0, <4>1
      <4>3. QED
        BY <1>8, <4>1, <4>2
    <3>7. u[A + k] = b[k] /\ b[k] \in S /\ (A + k) - 1 = A + (k - 1) /\ A + k # 0
      BY <1>5, <1>6, <3>3, <3>5
    <3>8. Append(f[A] \o g[k - 1], b[k]) = f[A] \o Append(g[k - 1], b[k])
      <4>1. PICK x \in Seq(S), y \in Seq(S), e \in S : x = f[A] /\ y = g[k - 1] /\ e = b[k]
        BY <3>3, <3>6, <3>7, Zenon
      <4>2. PICK z : z = <<e>> /\ z \in Seq(S)
        <5>1. <<e>> \in Seq(S)
          OBVIOUS
        <5>2. QED
          BY <5>1, Zenon
      <4>3. Append(x \o y, e) = (x \o y) \o z
        <5>1. x \o y \in Seq(S)
          OBVIOUS
        <5>2. QED
          BY <4>2, <5>1, AppendIsConcat, Zenon
      <4>4. Append(y, e) = y \o z
        BY <4>2, AppendIsConcat, Zenon
      <4>5. (x \o y) \o z = x \o (y \o z)
        BY <4>2, ConcatAssociative
      <4>6. QED
        BY <4>1, <4>3, <4>4, <4>5, Zenon
    <3>9. QED
      BY <3>3, <3>4, <3>5, <3>6, <3>7, <3>8 DEF More
  <2>2. h[A + B] = w[B]
    BY <2>1
  <2>3. w[B] = f[A] \o g[B]
    <3>1. B \in 0 .. B
      OBVIOUS
    <3>2. QED
      BY <2>0, <3>1, Zenon
  <2>4. QED
    BY <2>2, <2>3, Zenon
<1>11. QED
  BY <1>3, <1>7, <1>10

-----------------------------------------------------------------------------
(* Paths.                                                                  *)

\* The equations of Along.
LEMMA AlongIs ==
  ASSUME NEW d, NEW v, NEW path, Len(path) \in Nat
  PROVE  /\ Along(d, v, path)[0] = Root(v)
         /\ \A n \in 1 .. Len(path) :
              Along(d, v, path)[n] = Beyond(d, v, Along(d, v, path)[n - 1], path[n])
<1> DEFINE Fits(n) == \E f : f = [m \in 0 .. n |-> IF m = 0 THEN Root(v) ELSE Beyond(d, v, f[m - 1], path[m])]
           T == {n \in Nat : ~Fits(n)}
<1>1. T = {}
  <2>1. SUFFICES ASSUME T # {} PROVE FALSE
    OBVIOUS
  <2>2. PICK n \in T : \A m \in T : n =< m
    <3>1. T \subseteq Nat
      OBVIOUS
    <3> HIDE DEF T
    <3>2. QED
      BY <2>1, <3>1, Least, Zenon
  <2>3. n # 0
    <3>1. Fits(0)
      <4>1. WITNESS [m \in 0 .. 0 |-> Root(v)]
      <4>2. QED
        OBVIOUS
    <3>2. QED
      BY <2>2, <3>1
  <2>4. PICK f : f = [m \in 0 .. n - 1 |-> IF m = 0 THEN Root(v) ELSE Beyond(d, v, f[m - 1], path[m])]
    BY <2>2, <2>3
  <2>5. PICK g : g = [m \in 0 .. n |-> IF m = n THEN Beyond(d, v, f[n - 1], path[n]) ELSE f[m]]
    OBVIOUS
  <2>6. g = [m \in 0 .. n |-> IF m = 0 THEN Root(v) ELSE Beyond(d, v, g[m - 1], path[m])]
    <3>1. n \in Nat \ {0}
      BY <2>2, <2>3
    <3>2. \A m \in 0 .. n - 1 : g[m] = f[m]
      BY <3>1, <2>5
    <3>3. \A m \in 0 .. n : g[m] = IF m = 0 THEN Root(v) ELSE Beyond(d, v, g[m - 1], path[m])
      <4>1. g[0] = Root(v)
        BY <3>1, <3>2, <2>4
      <4>2. g[n] = Beyond(d, v, g[n - 1], path[n])
        BY <3>1, <3>2, <2>5
      <4>3. ASSUME NEW m \in 1 .. n - 1 PROVE g[m] = Beyond(d, v, g[m - 1], path[m])
        <5>1. g[m] = f[m] /\ g[m - 1] = f[m - 1]
          BY <3>1, <3>2
        <5>2. f[m] = Beyond(d, v, f[m - 1], path[m])
          BY <2>4
        <5>3. QED
          BY <5>1, <5>2
      <4>4. QED
        BY <3>1, <4>1, <4>2, <4>3
    <3>4. QED
      BY <2>5, <3>3
  <2>7. Fits(n)
    BY <2>6
  <2>8. QED
    BY <2>2, <2>7
<1>2. PICK N \in Nat : N = Len(path)
  OBVIOUS
<1>3. Fits(N)
  BY <1>1
<1>4. PICK h : h = Along(d, v, path)
  OBVIOUS
<1>5. h = CHOOSE f : f = [m \in 0 .. N |-> IF m = 0 THEN Root(v) ELSE Beyond(d, v, f[m - 1], path[m])]
  BY <1>2, <1>4 DEF Along
<1>6. h = [m \in 0 .. N |-> IF m = 0 THEN Root(v) ELSE Beyond(d, v, h[m - 1], path[m])]
  BY <1>3, <1>5, Zenon
<1>7. h[0] = Root(v) /\ \A n \in 1 .. N : h[n] = Beyond(d, v, h[n - 1], path[n])
  BY <1>6
<1>8. QED
  BY <1>2, <1>4, <1>7

\* What is no directory leads nowhere.
LEMMA AlongStays ==
  ASSUME NEW d, NEW v, NEW path, Len(path) \in Nat, NEW k \in 0 .. Len(path),
         ~Along(d, v, path)[k].directory, NEW n \in k .. Len(path)
  PROVE  Along(d, v, path)[n] \in {Along(d, v, path)[k], Missing}
<1>1. PICK e : e = Along(d, v, path)
  OBVIOUS
<1> DEFINE T == {j \in Nat : j \in k .. Len(path) /\ e[j] \notin {e[k], Missing}}
<1>2. T = {}
  <2>1. SUFFICES ASSUME T # {} PROVE FALSE
    OBVIOUS
  <2>2. PICK j \in T : \A i \in T : j =< i
    <3>1. T \subseteq Nat
      OBVIOUS
    <3> HIDE DEF T
    <3>2. QED
      BY <2>1, <3>1, Least, Zenon
  <2>3. j \in Nat /\ j \in k .. Len(path) /\ e[j] \notin {e[k], Missing} /\ j # k
    BY <2>2
  <2>4. j - 1 \in Nat /\ j - 1 \in k .. Len(path) /\ j \in 1 .. Len(path)
    BY <2>3
  <2>5. e[j - 1] \in {e[k], Missing}
    <3>1. j - 1 \notin T
      BY <2>2, <2>4
    <3>2. QED
      BY <2>4, <3>1
  <2>6. e[j] = Beyond(d, v, e[j - 1], path[j])
    BY <1>1, <2>4, AlongIs
  <2>7. ~e[j - 1].directory
    <3>1. ~e[k].directory /\ ~Missing.directory
      BY <1>1 DEF Missing
    <3>2. QED
      BY <2>5, <3>1
  <2>8. QED
    BY <2>3, <2>5, <2>6, <2>7 DEF Beyond
<1>3. QED
  BY <1>1, <1>2

\* What a concatenation holds.
LEMMA JoinedElements ==
  ASSUME NEW S, NEW a \in Seq(S), NEW b \in Seq(S)
  PROVE  /\ a \o b \in Seq(S) /\ Len(a \o b) = Len(a) + Len(b)
         /\ \A k \in 1 .. Len(a) : (a \o b)[k] = a[k]
         /\ \A k \in 1 .. Len(b) : (a \o b)[Len(a) + k] = b[k]
OBVIOUS

\* The first slots of a directory.
Prefix(d, v, f, n) == [k \in 1 .. n |-> Slot(d, v, f, k - 1)]

Continues(d, v, f, n, more) == \A i \in 1 .. Len(more) : more[i] = Slot(d, v, f, n + i - 1)

\* The entries of more slots of the directory.
LEMMA PrefixGrows ==
  ASSUME NEW d, NEW v, NEW f, NEW n \in Nat, NEW R, NEW more \in Seq(R),
         Continues(d, v, f, n, more)
  PROVE  EntriesOf(Prefix(d, v, f, n)) \o EntriesOf(more)
           = EntriesOf(Prefix(d, v, f, n + Len(more)))
<1>0. PICK m \in Nat : Len(more) = m /\ \A i \in 1 .. m : more[i] = Slot(d, v, f, n + i - 1)
  BY DEF Continues
<1> DEFINE S == {Slot(d, v, f, k) : k \in Nat}
<1>1. PICK a : a = Prefix(d, v, f, n)
  OBVIOUS
<1>2. PICK u : u = Prefix(d, v, f, n + m)
  OBVIOUS
<1>3. \A k \in Nat : Slot(d, v, f, k) \in S
  OBVIOUS
<1> HIDE DEF S
<1>4. a \in Seq(S) /\ Len(a) = n /\ \A k \in 1 .. n : a[k] = Slot(d, v, f, k - 1)
  <2>1. \A k \in 1 .. n : Slot(d, v, f, k - 1) \in S
    BY <1>3
  <2>2. QED
    BY <1>1, <2>1 DEF Prefix
<1>5. /\ more \in Seq(S) /\ Len(more) = m
      /\ \A k \in 1 .. m : more[k] = Slot(d, v, f, n + k - 1)
  <2>1. \A k \in 1 .. m : Slot(d, v, f, n + k - 1) \in S
    BY <1>3
  <2>2. \A k \in 1 .. Len(more) : more[k] \in S
    BY <1>0, <2>1
  <2>3. QED
    BY <1>0, <2>2
<1>6. /\ u \in Seq(S) /\ Len(u) = n + m
      /\ \A k \in 1 .. n + m : u[k] = Slot(d, v, f, k - 1)
  <2>1. \A k \in 1 .. n + m : Slot(d, v, f, k - 1) \in S
    BY <1>3
  <2>2. n + m \in Nat
    OBVIOUS
  <2>3. QED
    BY <1>2, <2>1, <2>2 DEF Prefix
<1>7. PICK w : w = a \o more
  OBVIOUS
<1>8. /\ w \in Seq(S) /\ Len(w) = n + m /\ \A k \in 1 .. n : w[k] = a[k]
      /\ \A k \in 1 .. m : w[n + k] = more[k]
  <2>1. PICK b \in Seq(S) : b = more
    BY <1>5
  <2>2. a \in Seq(S)
    BY <1>4
  <2>3. /\ a \o b \in Seq(S) /\ Len(a \o b) = Len(a) + Len(b)
        /\ \A k \in 1 .. Len(a) : (a \o b)[k] = a[k]
        /\ \A k \in 1 .. Len(b) : (a \o b)[Len(a) + k] = b[k]
    BY <2>2, JoinedElements
  <2>4. w = a \o b
    BY <1>7, <2>1, Zenon
  <2>5. /\ w \in Seq(S) /\ Len(w) = Len(a) + Len(b) /\ \A k \in 1 .. Len(a) : w[k] = a[k]
        /\ \A k \in 1 .. Len(b) : w[Len(a) + k] = b[k]
    BY <2>3, <2>4, Zenon
  <2>6. QED
    BY <1>4, <1>5, <2>1, <2>5
<1>9. ASSUME NEW k \in 1 .. n + m PROVE w[k] = u[k]
  <2>1. CASE k =< n
    BY <1>4, <1>6, <1>8, <2>1
  <2>2. CASE ~(k =< n)
    <3>1. PICK i \in 1 .. m : k = n + i
      BY <2>2
    <3>2. w[n + i] = more[i] /\ more[i] = Slot(d, v, f, n + i - 1)
      BY <1>5, <1>8
    <3>3. u[n + i] = Slot(d, v, f, n + i - 1)
      BY <1>6, <3>1
    <3>4. QED
      BY <3>1, <3>2, <3>3
  <2>3. QED
    BY <2>1, <2>2
<1>10. w = u
  BY <1>6, <1>8, <1>9
<1>11. EntriesOf(w) = EntriesOf(a) \o EntriesOf(more)
  BY <1>4, <1>5, <1>7, EntriesJoined
<1>12. QED
  BY <1>0, <1>1, <1>2, <1>10, <1>11, Zenon

-----------------------------------------------------------------------------
(* A directory sector by sector.  raws are the slots of sector n.          *)

\* raws are the slots from slot b on.
SlotsAre(d, v, f, b, raws) ==
  \A i \in 1 .. EntriesPerSector :
    /\ Slot(d, v, f, b + i - 1) = raws[i]
    /\ Over(d, v, f, b + i - 1) <=> raws[i].kind = "end"

\* A sector of the chain gives the slots of the directory that it holds.
LEMMA SlotsOfSector ==
  ASSUME NEW d, NEW v, NEW f, NEW n \in Nat, Reaches(v, f, n), NEW raws,
         raws = [i \in 1 .. EntriesPerSector |-> Raw(d, SectorAt(v, f, n), i - 1)]
  PROVE  SlotsAre(d, v, f, EntriesPerSector * n, raws)
<1>1. PICK per \in Nat \ {0} : per = EntriesPerSector
  BY EntriesPositive
<1>2. PICK b \in Nat : b = per * n
  OBVIOUS
<1>3. ASSUME NEW i \in 1 .. per
      PROVE  /\ Slot(d, v, f, b + i - 1) = raws[i]
             /\ Over(d, v, f, b + i - 1) <=> raws[i].kind = "end"
  <2>1. PICK j \in 0 .. per - 1 : j = i - 1
    OBVIOUS
  <2>2. per * n + j = b + i - 1
    BY <1>2, <2>1
  <2>3. /\ Slot(d, v, f, per * n + j) = Raw(d, SectorAt(v, f, n), j)
        /\ Over(d, v, f, per * n + j)
             <=> ~Reaches(v, f, n) \/ Raw(d, SectorAt(v, f, n), j).kind = "end"
    BY <1>1, SlotOfSector
  <2>4. raws[i] = Raw(d, SectorAt(v, f, n), j)
    BY <1>1, <2>1
  <2>5. QED
    BY <2>2, <2>3, <2>4
<1>4. QED
  BY <1>1, <1>2, <1>3 DEF SlotsAre

\* A search for a name that has got through the first n slots, a listing of
\* them.
Sought(d, v, f, n, name) ==
  \A j \in 0 .. n - 1 : ~Over(d, v, f, j) /\ ~Bears(d, v, f, j, name)
Collected(d, v, f, n, out) ==
  (\A j \in 0 .. n - 1 : ~Over(d, v, f, j)) /\ out = EntriesOf(Prefix(d, v, f, n))

\* The first m slots of a sector have neither the end mark nor the name.
LEMMA SoughtOn ==
  ASSUME NEW d, NEW v, NEW f, NEW b \in Nat, NEW raws, SlotsAre(d, v, f, b, raws), NEW name,
         Sought(d, v, f, b, name),
         NEW m \in 0 .. EntriesPerSector,
         \A i \in 1 .. m : raws[i].kind # "end" /\ ~(raws[i].kind = "entry" /\ raws[i].name = name)
  PROVE  Sought(d, v, f, b + m, name)
<1>1. PICK per \in Nat \ {0} : per = EntriesPerSector
  BY EntriesPositive
<1>2. \A i \in 1 .. per : /\ Slot(d, v, f, b + i - 1) = raws[i]
                          /\ Over(d, v, f, b + i - 1) <=> raws[i].kind = "end"
  BY <1>1 DEF SlotsAre
<1>3. ASSUME NEW j \in 0 .. b + m - 1 PROVE ~Over(d, v, f, j) /\ ~Bears(d, v, f, j, name)
  <2>1. CASE j < b
    <3>1. j \in 0 .. b - 1
      BY <2>1
    <3>2. QED
      BY <1>1, <1>2, <3>1 DEF Sought
  <2>2. CASE ~(j < b)
    <3>1. PICK i \in 1 .. m : j = b + i - 1
      <4>1. j - b + 1 \in 1 .. m /\ j = b + (j - b + 1) - 1
        BY <1>1, <2>2
      <4>2. QED
        BY <4>1
    <3>2. i \in 1 .. per
      BY <1>1
    <3>3. Slot(d, v, f, j) = raws[i] /\ (Over(d, v, f, j) <=> raws[i].kind = "end")
      BY <1>2, <3>1, <3>2
    <3>4. QED
      BY <3>3 DEF Bears
  <2>3. QED
    BY <2>1, <2>2
<1>4. QED
  BY <1>1, <1>2, <1>3 DEF Sought

\* The slot that ends a search.
LEMMA SearchEnds ==
  ASSUME NEW d, NEW v, Measured(v), NEW c, NEW f, f = Chain(d, v, c), NEW b \in Nat, NEW raws,
         SlotsAre(d, v, f, b, raws), NEW name, Sought(d, v, f, b, name),
         NEW i \in 1 .. EntriesPerSector,
         \A j \in 1 .. i - 1 :
           raws[j].kind # "end" /\ ~(raws[j].kind = "entry" /\ raws[j].name = name)
  PROVE  /\ raws[i].kind = "end" => EntryIn(d, v, c, name) = Missing
         /\ raws[i].kind = "entry" /\ raws[i].name = name => EntryIn(d, v, c, name) = raws[i]
<1>1. PICK per \in Nat \ {0} : per = EntriesPerSector
  BY EntriesPositive
<1>2. \A j \in 1 .. per : /\ Slot(d, v, f, b + j - 1) = raws[j]
                          /\ Over(d, v, f, b + j - 1) <=> raws[j].kind = "end"
  BY <1>1 DEF SlotsAre
<1>3. PICK m \in 0 .. per : m = i - 1
  BY <1>1
<1>4. PICK k \in Nat : k = b + m
  OBVIOUS
<1>5. /\ Slot(d, v, f, k) = raws[i] /\ (Over(d, v, f, k) <=> raws[i].kind = "end")
  <2>1. k = b + i - 1
    BY <1>1, <1>3, <1>4
  <2>2. QED
    BY <1>1, <1>2, <2>1
<1>6. Sought(d, v, f, k, name)
  <2>1. Sought(d, v, f, b + m, name)
    BY <1>1, <1>3, SoughtOn
  <2>2. QED
    BY <1>2, <1>4, <2>1
<1>7. \A j \in 0 .. k - 1 : ~Over(d, v, f, j) /\ ~Bears(d, v, f, j, name)
  BY <1>6 DEF Sought
<1>8. ASSUME raws[i].kind = "end" PROVE EntryIn(d, v, c, name) = Missing
  BY <1>5, <1>7, <1>8, EntryMissing
<1>9. ASSUME raws[i].kind = "entry", raws[i].name = name
      PROVE  EntryIn(d, v, c, name) = raws[i]
  <2>1. Bears(d, v, f, k, name) /\ ~Over(d, v, f, k)
    BY <1>5, <1>9 DEF Bears
  <2>2. \A j \in 0 .. k : ~Over(d, v, f, j)
    BY <1>7, <2>1
  <2>3. EntryIn(d, v, c, name) = Slot(d, v, f, k)
    BY <1>7, <2>1, <2>2, EntryFound
  <2>4. QED
    BY <1>5, <2>3
<1>10. QED
  BY <1>8, <1>9

\* Some slots join a listing.
LEMMA CollectedOn ==
  ASSUME NEW d, NEW v, NEW f, NEW b \in Nat, NEW raws, SlotsAre(d, v, f, b, raws), NEW out,
         Collected(d, v, f, b, out), NEW R, NEW some \in Seq(R), Len(some) =< EntriesPerSector,
         \A i \in 1 .. Len(some) : raws[i].kind # "end" /\ some[i] = raws[i]
  PROVE  Collected(d, v, f, b + Len(some), out \o EntriesOf(some))
<1>1. PICK per \in Nat \ {0} : per = EntriesPerSector
  BY EntriesPositive
<1>2. \A i \in 1 .. per : /\ Slot(d, v, f, b + i - 1) = raws[i]
                          /\ Over(d, v, f, b + i - 1) <=> raws[i].kind = "end"
  BY <1>1 DEF SlotsAre
<1>3. PICK m \in Nat : m = Len(some) /\ m =< per
  BY <1>1
<1>4. ASSUME NEW j \in 0 .. b + m - 1 PROVE ~Over(d, v, f, j)
  <2>1. CASE j < b
    <3>1. j \in 0 .. b - 1
      BY <2>1
    <3>2. QED
      BY <3>1 DEF Collected
  <2>2. CASE ~(j < b)
    <3>1. PICK i \in 1 .. m : j = b + i - 1
      <4>1. j - b + 1 \in 1 .. m /\ j = b + (j - b + 1) - 1
        BY <2>2
      <4>2. QED
        BY <4>1
    <3>2. i \in 1 .. per
      BY <1>3
    <3>3. Over(d, v, f, j) <=> raws[i].kind = "end"
      BY <1>2, <3>1, <3>2
    <3>4. QED
      BY <1>3, <3>3
  <2>3. QED
    BY <2>1, <2>2
<1>5. Continues(d, v, f, b, some)
  BY <1>2, <1>3 DEF Continues
<1>6. out = EntriesOf(Prefix(d, v, f, b))
  BY DEF Collected
<1>7. EntriesOf(Prefix(d, v, f, b)) \o EntriesOf(some)
        = EntriesOf(Prefix(d, v, f, b + Len(some)))
  BY <1>5, PrefixGrows
<1>8. out \o EntriesOf(some) = EntriesOf(Prefix(d, v, f, b + Len(some)))
  BY <1>6, <1>7, Zenon
<1>9. PICK n \in Nat : n = b + Len(some)
  BY <1>3
<1>10. \A j \in 0 .. n - 1 : ~Over(d, v, f, j)
  BY <1>3, <1>4, <1>9
<1>11. PICK e : e = out \o EntriesOf(some)
  BY Zenon
<1>12. e = EntriesOf(Prefix(d, v, f, n))
  BY <1>8, <1>9, <1>11, Zenon
<1>13. Collected(d, v, f, n, e)
  BY <1>10, <1>12, Zenon DEF Collected
<1>14. QED
  BY <1>9, <1>11, <1>13, Zenon

\* A listing that has got to the end of the directory is complete.
LEMMA ListingEnds ==
  ASSUME NEW d, NEW v, Measured(v), NEW c, NEW f, f = Chain(d, v, c), NEW k \in Nat, NEW out,
         Collected(d, v, f, k, out), Over(d, v, f, k)
  PROVE  out = Listing(d, v, c)
<1>1. Extent(d, v, f) = k
  BY ExtentAt DEF Collected
<1>2. QED
  BY <1>1 DEF Collected, Listing, Prefix

\* Where the chain is left the directory is over.
LEMMA OverAtEnd ==
  ASSUME NEW d, NEW v, Measured(v), NEW f, NEW m \in Nat, ~InChain(v, f[m])
  PROVE  LET k == EntriesPerSector * (v.sectors_per_cluster * m) IN
         k \in Nat /\ Over(d, v, f, k)
<1>1. PICK per \in Nat \ {0} : per = EntriesPerSector
  BY EntriesPositive
<1>2. PICK spc \in Nat \ {0} : spc = v.sectors_per_cluster
  BY DEF Measured
<1>3. PICK q \in Nat : q = spc * m
  OBVIOUS
<1>4. ~Reaches(v, f, q)
  <2>1. 0 \in 0 .. spc - 1 /\ q = spc * m + 0
    BY <1>3
  <2>2. QED
    BY <1>2, <2>1, SectorOfChain
<1>5. PICK k \in Nat : k = per * q
  OBVIOUS
<1>6. Over(d, v, f, k)
  <2>1. 0 \in 0 .. per - 1 /\ k = per * q + 0
    BY <1>5
  <2>2. QED
    BY <1>1, <1>4, <2>1, SlotOfSector
<1>7. QED
  BY <1>1, <1>2, <1>3, <1>5, <1>6

-----------------------------------------------------------------------------
(* Files, sector by sector.                                                *)

ByteAt(d, v, f, k) == Byte(d, SectorAt(v, f, k \div SectorBytes), k % SectorBytes)

\* The first n bytes have been copied.
Copied(d, v, f, n, out) ==
  /\ out \in Seq({ByteAt(d, v, f, k) : k \in Nat}) /\ Len(out) = n
  /\ \A k \in 0 .. n - 1 :
       Reaches(v, f, k \div SectorBytes) /\ out[k + 1] = ByteAt(d, v, f, k)

\* A position in the second of two parts.
LEMMA SecondPart ==
  ASSUME NEW b \in Nat, NEW m \in Nat, NEW n, n = b + m, NEW k \in 0 .. n - 1, ~(k < b)
  PROVE  \E i \in 1 .. m : k = b + i - 1 /\ k + 1 = b + i
<1>1. k - b + 1 \in 1 .. m /\ k = b + (k - b + 1) - 1 /\ k + 1 = b + (k - b + 1)
  OBVIOUS
<1>2. QED
  BY <1>1

\* Bytes that come next join a copy.
LEMMA CopiedJoin ==
  ASSUME NEW d, NEW v, NEW f, NEW b \in Nat, NEW out, Copied(d, v, f, b, out),
         NEW m \in Nat, NEW some, DOMAIN some = 1 .. m, some = [i \in 1 .. m |-> some[i]],
         \A i \in 1 .. m : /\ some[i] = ByteAt(d, v, f, b + i - 1) /\ b + i - 1 \in Nat
                           /\ Reaches(v, f, (b + i - 1) \div SectorBytes)
  PROVE  Copied(d, v, f, b + m, out \o some)
<1> DEFINE S == {ByteAt(d, v, f, k) : k \in Nat}
<1>1. \A k \in Nat : ByteAt(d, v, f, k) \in S
  OBVIOUS
<1>2. out \in Seq(S) /\ Len(out) = b
  BY DEF Copied
<1> HIDE DEF S
<1>3. some \in Seq(S) /\ Len(some) = m
  <2>1. \A i \in 1 .. m : some[i] \in S
    BY <1>1
  <2>2. QED
    BY <2>1
<1>4. PICK x \in Seq(S), y \in Seq(S) : x = out /\ y = some
  BY <1>2, <1>3, Zenon
<1>5. PICK e : e = x \o y
  BY Zenon
<1>6. /\ e \in Seq(S) /\ Len(e) = Len(x) + Len(y)
      /\ \A k \in 1 .. Len(x) : e[k] = x[k]
      /\ \A k \in 1 .. Len(y) : e[Len(x) + k] = y[k]
  <2>1. /\ x \o y \in Seq(S) /\ Len(x \o y) = Len(x) + Len(y)
        /\ \A k \in 1 .. Len(x) : (x \o y)[k] = x[k]
        /\ \A k \in 1 .. Len(y) : (x \o y)[Len(x) + k] = y[k]
    BY JoinedElements
  <2>2. QED
    BY <1>5, <2>1, Zenon
<1>7. PICK n \in Nat : n = b + m
  OBVIOUS
<1>8. Len(e) = n
  BY <1>2, <1>3, <1>4, <1>6, <1>7
<1>9. ASSUME NEW k \in 0 .. n - 1
      PROVE  Reaches(v, f, k \div SectorBytes) /\ e[k + 1] = ByteAt(d, v, f, k)
  <2>1. CASE k < b
    <3>1. k \in 0 .. b - 1 /\ k + 1 \in 1 .. Len(x)
      BY <1>2, <1>4, <2>1
    <3>2. Reaches(v, f, k \div SectorBytes) /\ out[k + 1] = ByteAt(d, v, f, k)
      BY <3>1 DEF Copied
    <3>3. QED
      BY <1>4, <1>6, <3>1, <3>2
  <2>2. CASE ~(k < b)
    <3>1. PICK i \in 1 .. m : k = b + i - 1 /\ k + 1 = b + i
      BY <1>7, <2>2, SecondPart
    <3>2. e[b + i] = some[i]
      BY <1>2, <1>3, <1>4, <1>6
    <3>3. QED
      BY <3>1, <3>2
  <2>3. QED
    BY <2>1, <2>2
<1>10. Copied(d, v, f, n, e)
  BY <1>6, <1>8, <1>9, Zenon DEF Copied, S
<1>11. QED
  BY <1>4, <1>5, <1>7, <1>10, Zenon

\* The first m bytes of sector q come next.
LEMMA CopiedOn ==
  ASSUME NEW d, NEW v, NEW f, NEW q \in Nat, Reaches(v, f, q), NEW b \in Nat,
         b = SectorBytes * q, NEW out, Copied(d, v, f, b, out), NEW m \in 1 .. SectorBytes,
         NEW some, some = [i \in 1 .. m |-> Byte(d, SectorAt(v, f, q), i - 1)]
  PROVE  Copied(d, v, f, b + m, out \o some)
<1>1. PICK sb \in Nat \ {0} : sb = SectorBytes
  BY SizesAssumption
<1>2. ASSUME NEW i \in 1 .. m
      PROVE  /\ some[i] = ByteAt(d, v, f, b + i - 1) /\ b + i - 1 \in Nat
             /\ Reaches(v, f, (b + i - 1) \div SectorBytes)
  <2>1. PICK j \in 0 .. sb - 1 : j = i - 1
    BY <1>1
  <2>2. (sb * q + j) \div sb = q /\ (sb * q + j) % sb = j /\ sb * q + j \in Nat
    BY Blocks
  <2>3. sb * q + j = b + i - 1
    BY <1>1, <2>1
  <2>4. some[i] = Byte(d, SectorAt(v, f, q), j)
    BY <2>1
  <2>5. PICK p \in Nat : p = b + i - 1 /\ p \div sb = q /\ p % sb = j
    BY <2>2, <2>3
  <2>6. QED
    BY <1>1, <2>4, <2>5 DEF ByteAt
<1>3. m \in Nat /\ DOMAIN some = 1 .. m /\ some = [i \in 1 .. m |-> some[i]]
  BY <1>1
<1>4. QED
  BY <1>2, <1>3, CopiedJoin, Zenon

\* Copy, search and listing before the first sector, and a copy of all of a file.
LEMMA NothingCopied ==
  ASSUME NEW d, NEW v, NEW f
  PROVE  Copied(d, v, f, 0, <<>>)
BY DEF Copied

LEMMA WholeCopied ==
  ASSUME NEW d, NEW v, NEW c, NEW size, NEW out, Copied(d, v, Chain(d, v, c), size, out)
  PROVE  Holds(d, v, c, size, out)
BY DEF Copied, Holds, ByteAt

LEMMA NothingSought ==
  ASSUME NEW d, NEW v, NEW f, NEW name
  PROVE  Sought(d, v, f, 0, name)
BY DEF Sought

LEMMA NothingCollected ==
  ASSUME NEW d, NEW v, NEW f
  PROVE  Collected(d, v, f, 0, <<>>)
<1>1. PICK raws : raws = Prefix(d, v, f, 0)
  OBVIOUS
<1>2. Len(raws) = 0
  BY <1>1 DEF Prefix
<1>3. EntriesOf(raws) = EntriesTo(raws)[0] /\ EntriesTo(raws)[0] = More(raws, EntriesTo(raws), 0)
  BY <1>2, EntriesToIs
<1>4. QED
  BY <1>1, <1>3 DEF Collected, More

-----------------------------------------------------------------------------
(* A call that has met no failing read.                                    *)

\* A result that is right: the contents, the listing, or an error that is there
\* (the clauses of FileContents, ListingExact and ErrorsDeserved).
Deserved(d, v, r, result) ==
  LET named == Named(d, v, r.path)
      onPath == OnPath(d, v, r.path)
  IN /\ result # "EIO"
     /\ result = "OK" /\ r.op = "read" =>
          /\ named # Missing /\ ~named.directory
          /\ Holds(d, v, named.first_cluster, named.size, r.out)
     /\ result = "OK" /\ r.op = "list" =>
          named.directory /\ r.out = Listing(d, v, named.first_cluster)
     /\ result = "ELOOP" => \E c \in onPath : Loops(d, v, c)
     /\ result = "EBADFS" =>
          \/ \E c \in onPath : Breaks(d, v, c)
          \/ /\ r.op = "read" /\ ~named.directory /\ named.size > 0
             /\ ~Loops(d, v, named.first_cluster)
             /\ ~Reaches(v, Chain(d, v, named.first_cluster), (named.size - 1) \div SectorBytes)
     /\ result = "ENOTFOUND" =>
          \/ named = Missing
          \/ /\ r.path # <<>> /\ r.path[Len(r.path)] = Dot
             /\ named.first_cluster # v.root_cluster
     /\ result = "ENOTDIR" => ~named.directory
     /\ result = "EISDIR" => named.directory
     /\ result = "ENOSPC" => named.size > r.capacity
     /\ result = "EINVAL" => \E k \in 1 .. Len(r.path) : r.path[k] = TooLong

\* lookup has followed all but the rest of the path, to a directory.
Stands(d, v, r, k) ==
  LET e == Along(d, v, r.path)[k] IN
  /\ r.rest \in Seq(Names) /\ Len(r.path) = k + Len(r.rest)
  /\ \A i \in 1 .. Len(r.rest) : r.rest[i] = r.path[k + i]
  /\ e.directory /\ e.first_cluster = r.directory /\ InChain(v, r.directory)
Followed(d, v, r) == r.out = <<>> /\ \E k \in 0 .. Len(r.path) : Stands(d, v, r, k)

\* A loop over clusters is at a sector of the chain that starts at c; Done sectors
\* of it have been read.
Walked(d, v, r, c) ==
  /\ r.visited \in 1 .. v.cluster_count
  /\ \A i \in 0 .. r.visited - 1 : InChain(v, Chain(d, v, c)[i])
  /\ r.cluster = Chain(d, v, c)[r.visited - 1]
  /\ r.sector \in 0 .. v.sectors_per_cluster - 1
  /\ r.pc \in {"scan_next", "copy_next"} => r.sector = v.sectors_per_cluster - 1
Done(v, r) ==
  v.sectors_per_cluster * (r.visited - 1)
    + (IF r.pc \in {"scan", "copy"} THEN r.sector ELSE r.sector + 1)

\* The three loops: a component is looked for, a directory listed, a file copied.
Finding(d, v, r) ==
  /\ Followed(d, v, r) /\ r.rest # <<>> /\ r.rest[1] # Dot /\ Walked(d, v, r, r.directory)
  /\ Sought(d, v, Chain(d, v, r.directory), EntriesPerSector * Done(v, r), r.rest[1])
Collecting(d, v, r) ==
  LET c == Named(d, v, r.path).first_cluster IN
  /\ r.op = "list" /\ r.purpose = "list"
  /\ Named(d, v, r.path).directory /\ Walked(d, v, r, c)
  /\ Collected(d, v, Chain(d, v, c), EntriesPerSector * Done(v, r), r.out)
Copying(d, v, r) ==
  LET named == Named(d, v, r.path)
      c == named.first_cluster
  IN /\ r.op = "read" /\ ~named.directory /\ named.size \in Nat /\ Walked(d, v, r, c)
     /\ Copied(d, v, Chain(d, v, c), SectorBytes * Done(v, r), r.out)
     /\ r.remaining \in Nat \ {0} /\ named.size = SectorBytes * Done(v, r) + r.remaining

\* Where a call has got to, in terms of what the disk holds.
Course(d, v, r) ==
  /\ r.path \in Seq(Names)
  /\ r.pc = "idle" => Deserved(d, v, r, r.result)
  /\ r.pc = "lookup" =>
       /\ Followed(d, v, r)
       /\ r.rest = <<>> => r.path = <<>> \/ r.path[Len(r.path)] = Dot
  /\ r.pc \in {"scan", "scan_next"} =>
       IF r.purpose = "find" THEN Finding(d, v, r) ELSE Collecting(d, v, r)
  /\ r.pc \in {"copy", "copy_next"} => Copying(d, v, r)

\* The inductive invariant: only a volume that is mounted is searched, and a call
\* that has met a failing read has returned.
Served ==
  call.op \in {"list", "read"} =>
    IF ~fs.mounted THEN call.pc = "idle" /\ call.result = "EBADFS"
    ELSE IF faulted THEN call.pc = "idle" /\ call.result \in {"EIO", "EBADFS"}
    ELSE Course(disk, fs, call)

-----------------------------------------------------------------------------
(* The sectors and the links the loops read are those of the chain.        *)

\* valid_cluster lets the clusters of the volume through, and none of them has a
\* number that marks the end of a chain (fat32.c:60-64, 401).
LEMMA ClustersAre ==
  ASSUME Volume(fs)
  PROVE  /\ Measured(fs) /\ EndMark \in Nat /\ ReservedMark \in Nat /\ ReservedMark < EndMark
         /\ ReservedMark > 0
         /\ \A c : InChain(fs, c) => c \in Nat /\ c < EndMark
         /\ \A c \in Nat : valid_cluster(c) <=> InChain(fs, c)
<1>1. Clusters28 \in Nat /\ Clusters28 > 16 /\ fs.cluster_count \in Nat
      /\ fs.cluster_count =< Clusters28 - 11
  BY SizesFacts DEF Volume
<1>2. QED
  BY <1>1 DEF Measured, Volume, EndMark, ReservedMark, InChain, valid_cluster

\* Sector Done of the chain is read next (fat32.c:213, 476).
LEMMA SectorIs ==
  ASSUME Volume(fs), disk \in Disks, fs.mounted, NEW r, Placed(r), r.pc \in {"scan", "copy"},
         NEW c, Walked(disk, fs, r, c)
  PROVE  /\ Done(fs, r) \in Nat /\ Reaches(fs, Chain(disk, fs, c), Done(fs, r))
         /\ fs.volume_start + DataSector(r) = SectorAt(fs, Chain(disk, fs, c), Done(fs, r))
<1>1. PICK f : f = Chain(disk, fs, c)
  OBVIOUS
<1>2. /\ r.visited \in 1 .. fs.cluster_count /\ r.cluster = f[r.visited - 1]
      /\ \A i \in 0 .. r.visited - 1 : InChain(fs, f[i])
      /\ r.sector \in 0 .. fs.sectors_per_cluster - 1
  BY <1>1 DEF Walked
<1>3. PICK n \in 0 .. fs.cluster_count : n = r.visited - 1 /\ n \in Nat
  BY <1>2 DEF Volume
<1>4. InChain(fs, f[n]) /\ r.cluster = f[n]
  BY <1>2, <1>3
<1>5. Done(fs, r) = fs.sectors_per_cluster * n + r.sector
  BY <1>3 DEF Done
<1>6. Measured(fs)
  BY ClustersAre
<1>7. /\ Done(fs, r) \in Nat
      /\ Reaches(fs, f, Done(fs, r)) <=> n \in 0 .. fs.cluster_count /\ InChain(fs, f[n])
      /\ SectorAt(fs, f, Done(fs, r)) = fs.volume_start + fs.data_start
                                          + (f[n] - 2) * fs.sectors_per_cluster + r.sector
  BY <1>2, <1>3, <1>5, <1>6, SectorOfChain
<1>8. DataSector(r) = fs.data_start + ((r.cluster - 2) * fs.sectors_per_cluster + r.sector)
  BY DataSectorInside DEF Walking
<1>9. PICK x \in Nat : x = (r.cluster - 2) * fs.sectors_per_cluster
  <2>1. r.cluster - 2 \in Nat
    BY <1>4 DEF InChain, Volume
  <2>2. QED
    BY <2>1 DEF Volume
<1>10. /\ fs.volume_start + DataSector(r) = fs.volume_start + (fs.data_start + (x + r.sector))
       /\ SectorAt(fs, f, Done(fs, r)) = fs.volume_start + fs.data_start + x + r.sector
  BY <1>4, <1>7, <1>8, <1>9
<1>11. fs.volume_start + DataSector(r) = SectorAt(fs, f, Done(fs, r))
  BY <1>2, <1>10 DEF Volume
<1>12. QED
  BY <1>1, <1>3, <1>4, <1>7, <1>11

\* What next_cluster reads leads where the chain goes on (fat32.c:76-95).
LEMMA LinkIs ==
  ASSUME Volume(fs), disk \in Disks, fs.mounted, NEW c, InChain(fs, c)
  PROVE  Follow(disk, fs, c) =
           IF LinkRead(c) >= ReservedMark /\ LinkRead(c) < EndMark THEN 0 ELSE LinkRead(c)
<1>1. c \in 2 .. fs.cluster_count + 1
  BY DEF InChain
<1>2. /\ LinkSector(c) = fs.fat_start + c \div PerSector
      /\ (LinkOffset(c) % SectorBytes) \div LinkBytes = c % PerSector
  BY <1>1, LinkInside, Zenon
<1>3. c \div PerSector \in Int
  <2>1. (LinkOffset(c) % SectorBytes) \div LinkBytes \in 0 .. PerSector - 1
    BY <1>1, LinkInside, Zenon
  <2>2. PerSector \in Nat \ {0} /\ c \in Nat
    BY <1>1, <2>1, SizesFacts
  <2>3. QED
    BY <2>2, DivMod, Zenon
<1>4. fs.volume_start + LinkSector(c) = fs.volume_start + fs.fat_start + c \div PerSector
  BY <1>2, <1>3 DEF Volume
<1>5. LinkRead(c) = Link(disk, fs.volume_start + fs.fat_start + c \div PerSector, c % PerSector)
                      % Clusters28
  BY <1>2, <1>4, Zenon DEF LinkRead
<1>6. QED
  BY <1>5, Zenon DEF Follow, LinkOf

-----------------------------------------------------------------------------
(* The loops.                                                              *)

\* The head of either loop: the chain goes round, or the walk goes on with its
\* next cluster (fat32.c:208-212, 470-475).
LEMMA LoopHeadOn ==
  ASSUME Volume(fs), NEW r, Shape(r), r.pc \in {"scan", "copy"}, NEW c, NEW m \in Nat,
         r.visited = m, m =< fs.cluster_count,
         \A i \in 0 .. m : InChain(fs, Chain(disk, fs, c)[i])
  PROVE  LET t == LoopHead(r, Chain(disk, fs, c)[m]) IN
         \/ t = Return(r, "ELOOP") /\ Loops(disk, fs, c)
         \/ /\ Walked(disk, fs, t, c) /\ Done(fs, t) = fs.sectors_per_cluster * m
            /\ t.pc = r.pc /\ t.op = r.op /\ t.path = r.path /\ t.out = r.out
            /\ t.capacity = r.capacity /\ t.rest = r.rest /\ t.directory = r.directory
            /\ t.purpose = r.purpose /\ t.remaining = r.remaining
<1>1. PICK f : f = Chain(disk, fs, c)
  OBVIOUS
<1>2. fs.cluster_count \in Nat /\ fs.sectors_per_cluster \in Nat \ {0}
  BY DEF Volume
<1>3. CASE m + 1 > fs.cluster_count
  <2>1. m = fs.cluster_count
    BY <1>2, <1>3
  <2>2. Loops(disk, fs, c)
    BY <1>2, <2>1, ChainTurns
  <2>3. LoopHead(r, f[m]) = Return(r, "ELOOP")
    BY <1>3 DEF LoopHead
  <2>4. QED
    BY <1>1, <2>2, <2>3
<1>4. CASE ~(m + 1 > fs.cluster_count)
  <2> DEFINE t == [r EXCEPT !.cluster = f[m], !.visited = m + 1, !.sector = 0]
  <2>1. /\ t.pc = r.pc /\ t.op = r.op /\ t.path = r.path /\ t.out = r.out
        /\ t.capacity = r.capacity /\ t.rest = r.rest /\ t.directory = r.directory
        /\ t.purpose = r.purpose /\ t.remaining = r.remaining
        /\ t.cluster = f[m] /\ t.visited = m + 1 /\ t.sector = 0
    BY DEF Shape
  <2>2. LoopHead(r, f[m]) = t
    BY <1>4 DEF LoopHead
  <2> HIDE DEF t
  <2>3. (m + 1) - 1 = m /\ m + 1 \in 1 .. fs.cluster_count
    BY <1>2, <1>4
  <2>4. Walked(disk, fs, t, c)
    BY <1>1, <1>2, <2>1, <2>3 DEF Walked
  <2>5. Done(fs, t) = fs.sectors_per_cluster * m
    BY <1>2, <2>1, <2>3 DEF Done
  <2>6. QED
    BY <1>1, <2>1, <2>2, <2>4, <2>5
<1>5. QED
  BY <1>3, <1>4

\* The next sector of the cluster, or the FAT (fat32.c:211-212, 228, 473-475, 488).
LEMMA NextSectorOn ==
  ASSUME Volume(fs), NEW r, Shape(r), NEW c, Walked(disk, fs, r, c), NEW next,
         <<r.pc, next>> \in {<<"scan", "scan_next">>, <<"copy", "copy_next">>}
  PROVE  LET t == NextSector(r, next) IN
         /\ Walked(disk, fs, t, c) /\ Done(fs, t) = Done(fs, r) + 1
         /\ t.pc \in {r.pc, next} /\ t.op = r.op /\ t.path = r.path /\ t.out = r.out
         /\ t.capacity = r.capacity /\ t.rest = r.rest /\ t.directory = r.directory
         /\ t.purpose = r.purpose /\ t.remaining = r.remaining
<1>1. PICK spc \in Nat \ {0}, q \in Nat : spc = fs.sectors_per_cluster /\ q = spc * (r.visited - 1)
  BY DEF Volume, Walked
<1>2. r.sector \in 0 .. spc - 1 /\ r.visited \in 1 .. fs.cluster_count
  BY <1>1 DEF Walked
<1>3. CASE r.sector + 1 < fs.sectors_per_cluster
  <2> DEFINE t == [r EXCEPT !.sector = r.sector + 1]
  <2>1. /\ t.pc = r.pc /\ t.op = r.op /\ t.path = r.path /\ t.out = r.out
        /\ t.capacity = r.capacity /\ t.rest = r.rest /\ t.directory = r.directory
        /\ t.purpose = r.purpose /\ t.remaining = r.remaining
        /\ t.cluster = r.cluster /\ t.visited = r.visited /\ t.sector = r.sector + 1
    BY DEF Shape
  <2>2. NextSector(r, next) = t
    BY <1>3 DEF NextSector
  <2> HIDE DEF t
  <2>3. Walked(disk, fs, t, c)
    BY <1>1, <1>2, <1>3, <2>1 DEF Walked
  <2>4. Done(fs, t) = q + (r.sector + 1) /\ Done(fs, r) = q + r.sector
    BY <1>1, <2>1 DEF Done
  <2>5. QED
    BY <1>2, <2>1, <2>2, <2>3, <2>4
<1>4. CASE ~(r.sector + 1 < fs.sectors_per_cluster)
  <2> DEFINE t == [r EXCEPT !.pc = next]
  <2>1. /\ t.pc = next /\ t.op = r.op /\ t.path = r.path /\ t.out = r.out
        /\ t.capacity = r.capacity /\ t.rest = r.rest /\ t.directory = r.directory
        /\ t.purpose = r.purpose /\ t.remaining = r.remaining
        /\ t.cluster = r.cluster /\ t.visited = r.visited /\ t.sector = r.sector
    BY DEF Shape
  <2>2. NextSector(r, next) = t
    BY <1>4 DEF NextSector
  <2> HIDE DEF t
  <2>3. Walked(disk, fs, t, c)
    BY <1>1, <1>2, <1>4, <2>1 DEF Walked
  <2>4. Done(fs, t) = q + (r.sector + 1) /\ Done(fs, r) = q + r.sector
    BY <1>1, <2>1 DEF Done
  <2>5. QED
    BY <1>2, <2>1, <2>2, <2>3, <2>4
<1>5. QED
  BY <1>3, <1>4

-----------------------------------------------------------------------------
(* Returns.                                                                *)

\* The fields of a call that has returned.
LEMMA ReturnIs ==
  ASSUME NEW r, NEW result
  PROVE  LET t == Return(r, result) IN
         /\ t.pc = "idle" /\ t.op = r.op /\ t.path = r.path /\ t.result = result
         /\ t.capacity = r.capacity /\ (result = "OK" => t.out = r.out)
BY DEF Return, Ended

\* A call may return what is right (fat32.c:415-499).
LEMMA ReturnDeserved ==
  ASSUME NEW d, NEW v, NEW r, r.path \in Seq(Names), NEW result, Deserved(d, v, r, result)
  PROVE  Course(d, v, Return(r, result))
<1>1. PICK t : t = Return(r, result)
  OBVIOUS
<1>2. /\ t.pc = "idle" /\ t.op = r.op /\ t.path = r.path /\ t.result = result
      /\ t.capacity = r.capacity /\ (result = "OK" => t.out = r.out)
  BY <1>1, ReturnIs
<1>3. Deserved(d, v, t, result)
  BY <1>2, Zenon DEF Deserved
<1>4. Course(d, v, t)
  BY <1>2, <1>3 DEF Course
<1>5. QED
  BY <1>1, <1>4

\* What a path leads through is on it.
LEMMA OnThePath ==
  ASSUME NEW d, NEW v, NEW path, NEW k \in 0 .. Len(path), Len(path) \in Nat,
         Along(d, v, path)[k] # Missing
  PROVE  Along(d, v, path)[k].first_cluster \in OnPath(d, v, path)
BY DEF OnPath

\* What is missing is no directory and has no size.
LEMMA MissingIs == Missing.directory = FALSE /\ Missing.size = -1
BY DEF Missing

\* A chain on the path that loops or breaks may be reported.
LEMMA LoopDeserved ==
  ASSUME NEW d, NEW v, NEW r, NEW c \in OnPath(d, v, r.path), Loops(d, v, c)
  PROVE  Deserved(d, v, r, "ELOOP")
BY DEF Deserved

LEMMA BreakDeserved ==
  ASSUME NEW d, NEW v, NEW r, NEW c \in OnPath(d, v, r.path), Breaks(d, v, c)
  PROVE  Deserved(d, v, r, "EBADFS")
BY DEF Deserved

\* The component is not there, and so nothing behind it (fat32.c:269-270).
LEMMA GoneDeserved ==
  ASSUME NEW d, NEW v, NEW r, r.path \in Seq(Names), NEW k \in 1 .. Len(r.path),
         Along(d, v, r.path)[k] = Missing
  PROVE  Deserved(d, v, r, "ENOTFOUND")
<1>1. Len(r.path) \in Nat /\ k \in 0 .. Len(r.path) /\ Len(r.path) \in k .. Len(r.path)
  OBVIOUS
<1>2. Along(d, v, r.path)[Len(r.path)] \in {Along(d, v, r.path)[k], Missing}
  <2>1. ~Along(d, v, r.path)[k].directory
    BY MissingIs
  <2>2. QED
    BY <1>1, <2>1, AlongStays
<1>3. Named(d, v, r.path) = Missing
  BY <1>2 DEF Named
<1>4. QED
  BY <1>3 DEF Deserved

\* A file on the way (fat32.c:276-278).
LEMMA FileDeserved ==
  ASSUME NEW d, NEW v, NEW r, r.path \in Seq(Names), NEW k \in 1 .. Len(r.path),
         ~Along(d, v, r.path)[k].directory
  PROVE  Deserved(d, v, r, "ENOTDIR")
<1>1. Len(r.path) \in Nat /\ k \in 0 .. Len(r.path) /\ Len(r.path) \in k .. Len(r.path)
  OBVIOUS
<1>2. Along(d, v, r.path)[Len(r.path)] \in {Along(d, v, r.path)[k], Missing}
  BY <1>1, AlongStays
<1>3. ~Named(d, v, r.path).directory
  BY <1>2, MissingIs DEF Named
<1>4. QED
  BY <1>3 DEF Deserved

-----------------------------------------------------------------------------
(* Where the loops start.                                                  *)

\* Followed depends on these fields only.
LEMMA FollowedSame ==
  ASSUME NEW d, NEW v, NEW r, NEW t, Followed(d, v, r), t.out = r.out, t.path = r.path,
         t.rest = r.rest, t.directory = r.directory
  PROVE  Followed(d, v, t)
BY DEF Followed, Stands

\* The directory that is searched is on the path.
LEMMA DirectoryOnPath ==
  ASSUME NEW d, NEW v, NEW r, r.path \in Seq(Names), Followed(d, v, r)
  PROVE  r.directory \in OnPath(d, v, r.path) /\ InChain(v, r.directory)
<1>1. PICK k \in 0 .. Len(r.path) : Stands(d, v, r, k)
  BY DEF Followed
<1>2. Along(d, v, r.path)[k] # Missing /\ Along(d, v, r.path)[k].first_cluster = r.directory
      /\ InChain(v, r.directory)
  BY <1>1, MissingIs DEF Stands
<1>3. QED
  BY <1>2, OnThePath

\* The search for a component starts (fat32.c:197-208, 267-268).
LEMMA StartFind ==
  ASSUME Volume(fs), NEW r, Shape(r), r.path \in Seq(Names), Followed(disk, fs, r),
         r.rest # <<>>, r.rest[1] # Dot
  PROVE  Course(disk, fs, StartScan(r, r.directory, "find"))
<1> DEFINE t == [r EXCEPT !.pc = "scan", !.purpose = "find", !.visited = 0]
<1>1. /\ Shape(t) /\ t.pc = "scan" /\ t.op = r.op /\ t.path = r.path /\ t.out = r.out
      /\ t.rest = r.rest /\ t.directory = r.directory /\ t.purpose = "find" /\ t.visited = 0
  BY DEF Shape
<1>2. StartScan(r, r.directory, "find")
        = IF ~valid_cluster(r.directory) THEN Return(r, "EBADFS") ELSE LoopHead(t, r.directory)
  BY DEF StartScan
<1> HIDE DEF t
<1>3. r.directory \in OnPath(disk, fs, r.path) /\ InChain(fs, r.directory)
  BY DirectoryOnPath
<1>4. StartScan(r, r.directory, "find") = LoopHead(t, r.directory)
  BY <1>2, <1>3, ClustersAre
<1>5. PICK f : f = Chain(disk, fs, r.directory)
  OBVIOUS
<1>6. f[0] = r.directory
  BY <1>5, ChainIs DEF Volume
<1>7. PICK u : u = LoopHead(t, r.directory)
  OBVIOUS
<1>8. \/ u = Return(t, "ELOOP") /\ Loops(disk, fs, r.directory)
      \/ /\ Walked(disk, fs, u, r.directory) /\ Done(fs, u) = fs.sectors_per_cluster * 0
         /\ u.pc = t.pc /\ u.op = t.op /\ u.path = t.path /\ u.out = t.out
         /\ u.rest = t.rest /\ u.directory = t.directory /\ u.purpose = t.purpose
  <2>1. \A i \in 0 .. 0 : InChain(fs, f[i])
    BY <1>3, <1>6
  <2>2. 0 \in Nat /\ t.visited = 0 /\ 0 =< fs.cluster_count
    BY <1>1 DEF Volume
  <2>3. t.pc \in {"scan", "copy"} /\ u = LoopHead(t, f[0])
    BY <1>1, <1>6, <1>7
  <2>4. QED
    BY <1>1, <1>5, <2>1, <2>2, <2>3, LoopHeadOn
<1>9. ASSUME u = Return(t, "ELOOP"), Loops(disk, fs, r.directory) PROVE Course(disk, fs, u)
  <2>1. Deserved(disk, fs, t, "ELOOP")
    BY <1>1, <1>3, <1>9, LoopDeserved
  <2>2. QED
    BY <1>1, <1>9, <2>1, ReturnDeserved
<1>10. ASSUME Walked(disk, fs, u, r.directory), Done(fs, u) = fs.sectors_per_cluster * 0,
              u.pc = t.pc, u.path = t.path, u.out = t.out, u.rest = t.rest,
              u.directory = t.directory, u.purpose = t.purpose
       PROVE  Course(disk, fs, u)
  <2>1. Followed(disk, fs, u)
    BY <1>1, <1>10, FollowedSame
  <2>2. EntriesPerSector * Done(fs, u) = 0
    BY <1>10, SizesFacts DEF Volume
  <2>3. Finding(disk, fs, u)
    BY <1>1, <1>10, <2>1, <2>2, NothingSought DEF Finding
  <2>4. QED
    BY <1>1, <1>10, <2>3 DEF Course
<1>11. Course(disk, fs, u)
  BY <1>8, <1>9, <1>10
<1>12. QED
  BY <1>4, <1>7, <1>11

\* Two entries are as good for the same call.
Alike(e, named) ==
  /\ named.directory <=> e.directory
  /\ named.first_cluster = e.first_cluster /\ e.first_cluster \in Nat
  /\ e.size \in Nat /\ (~e.directory => named.size = e.size)

\* The directory to list has been found (fat32.c:424-432).
LEMMA StartList ==
  ASSUME Volume(fs), NEW r, Shape(r), r.path \in Seq(Names), r.op = "list", r.out = <<>>,
         NEW c \in Nat, Named(disk, fs, r.path).directory,
         Named(disk, fs, r.path).first_cluster = c
  PROVE  Course(disk, fs, StartScan(r, c, "list"))
<1> DEFINE t == [r EXCEPT !.pc = "scan", !.purpose = "list", !.visited = 0]
<1>1. /\ Shape(t) /\ t.pc = "scan" /\ t.op = r.op /\ t.path = r.path /\ t.out = r.out
      /\ t.purpose = "list" /\ t.visited = 0
  BY DEF Shape
<1>2. StartScan(r, c, "list")
        = IF ~valid_cluster(c) THEN Return(r, "EBADFS") ELSE LoopHead(t, c)
  BY DEF StartScan
<1> HIDE DEF t
<1>3. c \in OnPath(disk, fs, r.path)
  <2>1. Len(r.path) \in Nat /\ Len(r.path) \in 0 .. Len(r.path)
    OBVIOUS
  <2>2. Along(disk, fs, r.path)[Len(r.path)] # Missing
    BY MissingIs DEF Named
  <2>3. QED
    BY <2>1, <2>2, OnThePath DEF Named
<1>4. CASE ~valid_cluster(c)
  <2>1. Breaks(disk, fs, c)
    BY <1>4, ClustersAre DEF Breaks
  <2>2. QED
    BY <1>2, <1>3, <1>4, <2>1, BreakDeserved, ReturnDeserved
<1>5. CASE valid_cluster(c)
  <2>1. InChain(fs, c)
    BY <1>5, ClustersAre
  <2>2. PICK f : f = Chain(disk, fs, c)
    OBVIOUS
  <2>3. f[0] = c
    BY <2>2, ChainIs DEF Volume
  <2>4. PICK u : u = LoopHead(t, c)
    OBVIOUS
  <2>5. \/ u = Return(t, "ELOOP") /\ Loops(disk, fs, c)
        \/ /\ Walked(disk, fs, u, c) /\ Done(fs, u) = fs.sectors_per_cluster * 0
           /\ u.pc = t.pc /\ u.op = t.op /\ u.path = t.path /\ u.out = t.out
           /\ u.purpose = t.purpose
    <3>1. \A i \in 0 .. 0 : InChain(fs, f[i])
      BY <2>1, <2>3
    <3>2. 0 \in Nat /\ t.visited = 0 /\ 0 =< fs.cluster_count
      BY <1>1 DEF Volume
    <3>3. t.pc \in {"scan", "copy"} /\ u = LoopHead(t, f[0])
      BY <1>1, <2>3, <2>4
    <3>4. QED
      BY <1>1, <2>2, <3>1, <3>2, <3>3, LoopHeadOn
  <2>6. ASSUME u = Return(t, "ELOOP"), Loops(disk, fs, c) PROVE Course(disk, fs, u)
    <3>1. Deserved(disk, fs, t, "ELOOP")
      BY <1>1, <1>3, <2>6, LoopDeserved
    <3>2. QED
      BY <1>1, <2>6, <3>1, ReturnDeserved
  <2>7. ASSUME Walked(disk, fs, u, c), Done(fs, u) = fs.sectors_per_cluster * 0,
               u.pc = t.pc, u.op = t.op, u.path = t.path, u.out = t.out, u.purpose = t.purpose
        PROVE  Course(disk, fs, u)
    <3>1. EntriesPerSector * Done(fs, u) = 0
      BY <2>7, SizesFacts DEF Volume
    <3>2. Collecting(disk, fs, u)
      BY <1>1, <2>7, <3>1, NothingCollected DEF Collecting
    <3>3. QED
      BY <1>1, <2>7, <3>2 DEF Course
  <2>8. QED
    BY <1>2, <1>5, <2>4, <2>5, <2>6, <2>7
<1>6. QED
  BY <1>4, <1>5

\* The file to read has been found and fits (fat32.c:466-472).
LEMMA StartCopy ==
  ASSUME Volume(fs), NEW r, Shape(r), r.path \in Seq(Names), r.op = "read", r.out = <<>>,
         NEW e, Alike(e, Named(disk, fs, r.path)), ~e.directory, e.size # 0,
         valid_cluster(e.first_cluster)
  PROVE  Course(disk, fs, LoopHead([r EXCEPT !.pc = "copy", !.visited = 0, !.remaining = e.size],
                                   e.first_cluster))
<1> DEFINE t == [r EXCEPT !.pc = "copy", !.visited = 0, !.remaining = e.size]
           c == e.first_cluster
<1>1. /\ Shape(t) /\ t.pc = "copy" /\ t.op = r.op /\ t.path = r.path /\ t.out = r.out
      /\ t.visited = 0 /\ t.remaining = e.size
  BY DEF Shape
<1> HIDE DEF t
<1>2. PICK named : named = Named(disk, fs, r.path)
  OBVIOUS
<1>3. /\ ~named.directory /\ named.first_cluster = c /\ c \in Nat
      /\ named.size = e.size /\ e.size \in Nat
  BY <1>2 DEF Alike
<1> HIDE DEF c
<1>4. c \in OnPath(disk, fs, r.path)
  <2>1. Len(r.path) \in Nat /\ Len(r.path) \in 0 .. Len(r.path)
    OBVIOUS
  <2>2. named # Missing
    BY <1>3, MissingIs
  <2>3. QED
    BY <1>2, <1>3, <2>1, <2>2, OnThePath DEF Named
<1>5. InChain(fs, c)
  BY <1>3, ClustersAre DEF c
<1>6. PICK f : f = Chain(disk, fs, c)
  OBVIOUS
<1>7. f[0] = c
  BY <1>6, ChainIs DEF Volume
<1>8. PICK u : u = LoopHead(t, c)
  OBVIOUS
<1>9. \/ u = Return(t, "ELOOP") /\ Loops(disk, fs, c)
      \/ /\ Walked(disk, fs, u, c) /\ Done(fs, u) = fs.sectors_per_cluster * 0
         /\ u.pc = t.pc /\ u.op = t.op /\ u.path = t.path /\ u.out = t.out
         /\ u.remaining = t.remaining
  <2>1. \A i \in 0 .. 0 : InChain(fs, f[i])
    BY <1>5, <1>7
  <2>2. 0 \in Nat /\ t.visited = 0 /\ 0 =< fs.cluster_count
    BY <1>1 DEF Volume
  <2>3. t.pc \in {"scan", "copy"} /\ u = LoopHead(t, f[0])
    BY <1>1, <1>7, <1>8
  <2>4. QED
    BY <1>1, <1>6, <2>1, <2>2, <2>3, LoopHeadOn
<1>10. ASSUME u = Return(t, "ELOOP"), Loops(disk, fs, c) PROVE Course(disk, fs, u)
  <2>1. Deserved(disk, fs, t, "ELOOP")
    BY <1>1, <1>4, <1>10, LoopDeserved
  <2>2. QED
    BY <1>1, <1>10, <2>1, ReturnDeserved
<1>11. ASSUME Walked(disk, fs, u, c), Done(fs, u) = fs.sectors_per_cluster * 0,
              u.pc = t.pc, u.op = t.op, u.path = t.path, u.out = t.out,
              u.remaining = t.remaining
       PROVE  Course(disk, fs, u)
  <2>1. PICK b \in Nat : b = SectorBytes * Done(fs, u) /\ b = 0
    BY <1>11, SizesAssumption DEF Volume
  <2>2. Copied(disk, fs, Chain(disk, fs, c), b, u.out)
    BY <1>1, <1>11, <2>1, NothingCopied
  <2>3. u.remaining \in Nat \ {0} /\ named.size = b + u.remaining
    BY <1>1, <1>3, <1>11, <2>1
  <2>4. u.op = "read" /\ u.path = r.path /\ u.pc = "copy"
    BY <1>1, <1>11
  <2>5. Copying(disk, fs, u)
    BY <1>2, <1>3, <1>11, <2>1, <2>2, <2>3, <2>4 DEF Copying
  <2>6. QED
    BY <2>4, <2>5 DEF Course
<1>12. Course(disk, fs, u)
  BY <1>9, <1>10, <1>11
<1>13. QED
  BY <1>8, <1>12 DEF t, c

\* lookup has found what the path names (fat32.c:424-472).
LEMMA ResolvedOn ==
  ASSUME Volume(fs), NEW r, Shape(r), r.path \in Seq(Names), r.op \in {"list", "read"},
         r.out = <<>>, NEW e, Alike(e, Named(disk, fs, r.path))
  PROVE  Course(disk, fs, Resolved(r, e))
<1>1. PICK named : named = Named(disk, fs, r.path)
  OBVIOUS
<1>2. Alike(e, named)
  BY <1>1
<1> DEFINE t == [r EXCEPT !.pc = "copy", !.visited = 0, !.remaining = e.size]
<1>3. CASE r.op = "list" /\ e.directory
  <2>1. Resolved(r, e) = StartScan(r, e.first_cluster, "list")
    BY <1>3 DEF Resolved
  <2>2. QED
    BY <1>1, <1>2, <1>3, <2>1, StartList DEF Alike
<1>4. CASE r.op = "list" /\ ~e.directory
  <2>1. Resolved(r, e) = Return(r, "ENOTDIR")
    BY <1>4 DEF Resolved
  <2>2. Deserved(disk, fs, r, "ENOTDIR")
    BY <1>1, <1>2, <1>4 DEF Deserved, Alike
  <2>3. QED
    BY <2>1, <2>2, ReturnDeserved
<1>5. CASE r.op = "read" /\ e.directory
  <2>1. Resolved(r, e) = Return(r, "EISDIR")
    BY <1>5 DEF Resolved
  <2>2. Deserved(disk, fs, r, "EISDIR")
    BY <1>1, <1>2, <1>5 DEF Deserved, Alike
  <2>3. QED
    BY <2>1, <2>2, ReturnDeserved
<1>6. CASE r.op = "read" /\ ~e.directory /\ r.capacity < e.size
  <2>1. Resolved(r, e) = Return(r, "ENOSPC")
    BY <1>6 DEF Resolved
  <2>2. named.size > r.capacity
    BY <1>2, <1>6 DEF Alike
  <2>3. Deserved(disk, fs, r, "ENOSPC")
    BY <1>1, <2>2 DEF Deserved
  <2>4. QED
    BY <2>1, <2>3, ReturnDeserved
<1>7. CASE r.op = "read" /\ ~e.directory /\ ~(r.capacity < e.size) /\ e.size = 0
  <2>1. Resolved(r, e) = Return(r, "OK")
    BY <1>7 DEF Resolved
  <2>2. named # Missing /\ ~named.directory /\ named.size = 0
    BY <1>2, <1>7, MissingIs DEF Alike
  <2>3. Holds(disk, fs, named.first_cluster, named.size, r.out)
    BY <2>2, NothingCopied, WholeCopied
  <2>4. Deserved(disk, fs, r, "OK")
    BY <1>1, <1>7, <2>2, <2>3 DEF Deserved
  <2>5. QED
    BY <2>1, <2>4, ReturnDeserved
<1>8. CASE /\ r.op = "read" /\ ~e.directory /\ ~(r.capacity < e.size) /\ e.size # 0
           /\ ~valid_cluster(e.first_cluster)
  <2>1. Resolved(r, e) = Return(r, "EBADFS")
    BY <1>8 DEF Resolved
  <2>2. named # Missing /\ named.first_cluster = e.first_cluster /\ e.first_cluster \in Nat
    BY <1>2, <1>8, MissingIs DEF Alike
  <2>3. Breaks(disk, fs, e.first_cluster)
    BY <1>8, <2>2, ClustersAre DEF Breaks
  <2>4. e.first_cluster \in OnPath(disk, fs, r.path)
    <3>1. Len(r.path) \in Nat /\ Len(r.path) \in 0 .. Len(r.path)
      OBVIOUS
    <3>2. QED
      BY <1>1, <2>2, <3>1, OnThePath DEF Named
  <2>5. QED
    BY <2>1, <2>3, <2>4, BreakDeserved, ReturnDeserved
<1>9. CASE /\ r.op = "read" /\ ~e.directory /\ ~(r.capacity < e.size) /\ e.size # 0
           /\ valid_cluster(e.first_cluster)
  <2>1. Resolved(r, e) = LoopHead(t, e.first_cluster)
    BY <1>9 DEF Resolved
  <2>2. QED
    BY <1>1, <1>2, <1>9, <2>1, StartCopy
<1>10. QED
  BY <1>3, <1>4, <1>5, <1>6, <1>7, <1>8, <1>9

-----------------------------------------------------------------------------
(* lookup.                                                                 *)

\* What a path is made of.
LEMMA TailIs ==
  ASSUME NEW S, NEW s \in Seq(S), s # <<>>
  PROVE  /\ Head(s) = s[1] /\ s[1] \in S /\ Len(s) \in Nat \ {0}
         /\ Tail(s) \in Seq(S) /\ Len(Tail(s)) = Len(s) - 1
         /\ \A i \in 1 .. Len(s) - 1 : Tail(s)[i] = s[i + 1]
OBVIOUS

\* One component further on, with what it leads to.
LEMMA StandsOn ==
  ASSUME NEW d, NEW v, NEW r, r.path \in Seq(Names), NEW k \in Nat, Stands(d, v, r, k),
         r.rest # <<>>, NEW t, t.path = r.path, t.rest = Tail(r.rest),
         Along(d, v, r.path)[k + 1].directory,
         Along(d, v, r.path)[k + 1].first_cluster = t.directory, InChain(v, t.directory)
  PROVE  k + 1 \in 1 .. Len(r.path) /\ Stands(d, v, t, k + 1)
<1>1. /\ r.rest \in Seq(Names) /\ Len(r.path) = k + Len(r.rest) /\ Len(r.path) \in Nat
      /\ \A i \in 1 .. Len(r.rest) : r.rest[i] = r.path[k + i]
  BY DEF Stands
<1>2. PICK rest \in Seq(Names), n \in Nat \ {0}, s \in Seq(Names) :
        /\ rest = r.rest /\ n = Len(rest) /\ s = Tail(rest) /\ Len(s) = n - 1
        /\ \A i \in 1 .. n - 1 : s[i] = rest[i + 1]
  <2>1. PICK rest \in Seq(Names) : rest = r.rest /\ rest # <<>>
    BY <1>1
  <2>2. /\ Len(rest) \in Nat \ {0} /\ Tail(rest) \in Seq(Names)
        /\ Len(Tail(rest)) = Len(rest) - 1
        /\ \A i \in 1 .. Len(rest) - 1 : Tail(rest)[i] = rest[i + 1]
    BY <2>1, TailIs
  <2>3. QED
    BY <2>1, <2>2, Zenon
<1>3. ASSUME NEW i \in 1 .. n - 1 PROVE s[i] = r.path[(k + 1) + i]
  <2>1. i + 1 \in 1 .. n /\ k + (i + 1) = (k + 1) + i
    OBVIOUS
  <2>2. s[i] = rest[i + 1] /\ rest[i + 1] = r.path[k + (i + 1)]
    BY <1>1, <1>2, <2>1
  <2>3. QED
    BY <2>1, <2>2
<1>4. Len(r.path) = (k + 1) + (n - 1)
  BY <1>1, <1>2
<1>5. t.rest = s
  BY <1>2
<1>6. k + 1 \in 1 .. Len(r.path)
  BY <1>1, <1>4
<1>7. Len(t.path) = (k + 1) + Len(t.rest)
  BY <1>2, <1>4, <1>5
<1>8. \A i \in 1 .. Len(t.rest) : t.rest[i] = t.path[(k + 1) + i]
  BY <1>2, <1>3, <1>5
<1>9. t.rest \in Seq(Names)
  BY <1>5
<1>10. QED
  BY <1>6, <1>7, <1>8, <1>9, Zenon DEF Stands

\* The head of lookup's loop (fat32.c:247-268).
LEMMA LookupNextOn ==
  ASSUME Volume(fs), NEW r, Shape(r), r.pc = "lookup", r.op \in {"list", "read"},
         Course(disk, fs, r)
  PROVE  Course(disk, fs, LookupNext(r))
<1>1. /\ r.path \in Seq(Names) /\ Followed(disk, fs, r) /\ r.out = <<>>
      /\ r.rest = <<>> => r.path = <<>> \/ r.path[Len(r.path)] = Dot
  BY DEF Course, Followed
<1>2. PICK k \in 0 .. Len(r.path) : Stands(disk, fs, r, k)
  BY <1>1 DEF Followed
<1>3. PICK e : e = Along(disk, fs, r.path)
  OBVIOUS
<1>4. /\ r.rest \in Seq(Names) /\ Len(r.path) = k + Len(r.rest)
      /\ \A i \in 1 .. Len(r.rest) : r.rest[i] = r.path[k + i]
      /\ e[k].directory /\ e[k].first_cluster = r.directory /\ InChain(fs, r.directory)
  BY <1>2, <1>3 DEF Stands
<1>5. /\ e[0] = Root(fs) /\ Len(r.path) \in Nat /\ k \in Nat
      /\ \A n \in 1 .. Len(r.path) : e[n] = Beyond(disk, fs, e[n - 1], r.path[n])
  BY <1>1, <1>3, AlongIs
<1>6. CASE r.rest = <<>>
  <2>1. component(r.rest) = None /\ k = Len(r.path)
    BY <1>4, <1>6 DEF component
  <2>2. Named(disk, fs, r.path) = e[k]
    BY <1>3, <2>1 DEF Named
  <2>3. CASE r.directory = fs.root_cluster
    <3>1. LookupNext(r) = Resolved(r, RootEntry)
      BY <2>1, <2>3 DEF LookupNext
    <3>2. Alike(RootEntry, e[k])
      BY <1>4, <2>3 DEF Alike, RootEntry, Volume
    <3>3. QED
      BY <1>1, <2>2, <3>1, <3>2, ResolvedOn
  <2>4. CASE r.directory # fs.root_cluster
    <3>1. LookupNext(r) = Return(r, "ENOTFOUND")
      BY <2>1, <2>4 DEF LookupNext
    <3>2. r.path # <<>>
      <4>1. SUFFICES ASSUME r.path = <<>> PROVE FALSE
        OBVIOUS
      <4>2. k = 0
        BY <2>1, <4>1
      <4>3. QED
        BY <1>4, <1>5, <2>4, <4>2 DEF Root
    <3>3. Deserved(disk, fs, r, "ENOTFOUND")
      BY <1>1, <1>4, <1>6, <2>2, <2>4, <3>2 DEF Deserved
    <3>4. QED
      BY <1>1, <3>1, <3>3, ReturnDeserved
  <2>5. QED
    BY <2>3, <2>4
<1>7. CASE r.rest # <<>>
  <2>1. /\ component(r.rest) = r.rest[1] /\ r.rest[1] # None /\ Len(r.rest) \in Nat \ {0}
    <3>1. Head(r.rest) = r.rest[1] /\ r.rest[1] \in Names /\ Len(r.rest) \in Nat \ {0}
      BY <1>4, <1>7, TailIs
    <3>2. QED
      BY <1>7, <3>1, PathsAssumption DEF component
  <2>2. k + 1 \in 1 .. Len(r.path) /\ r.rest[1] = r.path[k + 1]
    BY <1>4, <1>5, <2>1
  <2>3. CASE r.rest[1] = TooLong
    <3>1. LookupNext(r) = Return(r, "EINVAL")
      BY <2>1, <2>3 DEF LookupNext
    <3>2. Deserved(disk, fs, r, "EINVAL")
      BY <2>2, <2>3 DEF Deserved
    <3>3. QED
      BY <1>1, <3>1, <3>2, ReturnDeserved
  <2>4. CASE r.rest[1] # TooLong /\ r.rest[1] = Dot
    <3> DEFINE t == [r EXCEPT !.rest = Tail(r.rest)]
    <3>1. /\ t.pc = "lookup" /\ t.path = r.path /\ t.out = r.out /\ t.rest = Tail(r.rest)
          /\ t.directory = r.directory
      BY DEF Shape
    <3>2. LookupNext(r) = t
      BY <2>1, <2>4 DEF LookupNext, names_equal
    <3> HIDE DEF t
    <3>3. e[k + 1] = e[k]
      <4>1. e[k + 1] = Beyond(disk, fs, e[(k + 1) - 1], r.path[k + 1]) /\ (k + 1) - 1 = k
        BY <1>5, <2>2
      <4>2. QED
        BY <2>2, <2>4, <4>1 DEF Beyond
    <3>4. k + 1 \in 1 .. Len(r.path) /\ Stands(disk, fs, t, k + 1)
      BY <1>1, <1>2, <1>3, <1>4, <1>5, <1>7, <3>1, <3>3, StandsOn
    <3>5. Followed(disk, fs, t)
      BY <1>1, <3>1, <3>4 DEF Followed
    <3>6. ASSUME t.rest = <<>> PROVE t.path[Len(t.path)] = Dot
      <4>1. Len(r.path) = (k + 1) + Len(t.rest)
        BY <3>1, <3>4 DEF Stands
      <4>2. k + 1 = Len(r.path)
        BY <1>5, <3>6, <4>1
      <4>3. QED
        BY <2>2, <2>4, <3>1, <4>2
    <3>7. QED
      BY <1>1, <3>1, <3>2, <3>5, <3>6 DEF Course
  <2>5. CASE r.rest[1] # TooLong /\ r.rest[1] # Dot
    <3>1. LookupNext(r) = StartScan(r, r.directory, "find")
      BY <2>1, <2>5 DEF LookupNext, names_equal
    <3>2. QED
      BY <1>1, <1>7, <2>5, <3>1, StartFind
  <2>6. QED
    BY <2>3, <2>4, <2>5
<1>8. QED
  BY <1>6, <1>7

\* The entry of the component in the directory that was reached.
LEMMA EntryAlong ==
  ASSUME NEW d, NEW v, NEW r, r.path \in Seq(Names), NEW k \in Nat, Stands(d, v, r, k),
         r.rest # <<>>, r.rest[1] # Dot
  PROVE  /\ k + 1 \in 1 .. Len(r.path) /\ Len(r.path) = k + Len(r.rest)
         /\ Len(r.rest) \in Nat \ {0}
         /\ Along(d, v, r.path)[k + 1] = EntryIn(d, v, r.directory, r.rest[1])
<1>1. PICK e : e = Along(d, v, r.path)
  OBVIOUS
<1>2. /\ r.rest \in Seq(Names) /\ Len(r.path) = k + Len(r.rest) /\ Len(r.path) \in Nat
      /\ \A i \in 1 .. Len(r.rest) : r.rest[i] = r.path[k + i]
      /\ e[k].directory /\ e[k].first_cluster = r.directory /\ InChain(v, r.directory)
  BY <1>1 DEF Stands
<1>3. Len(r.rest) \in Nat \ {0}
  BY <1>2, TailIs
<1>4. k + 1 \in 1 .. Len(r.path) /\ r.rest[1] = r.path[k + 1] /\ (k + 1) - 1 = k
  BY <1>2, <1>3
<1>5. e[k + 1] = Beyond(d, v, e[(k + 1) - 1], r.path[k + 1])
  <2>1. \A n \in 1 .. Len(r.path) : e[n] = Beyond(d, v, e[n - 1], r.path[n])
    BY <1>1, <1>2, AlongIs
  <2>2. QED
    BY <1>4, <2>1
<1>6. e[k + 1] = Beyond(d, v, e[k], r.rest[1])
  BY <1>4, <1>5
<1>7. QED
  BY <1>1, <1>2, <1>3, <1>4, <1>6 DEF Beyond

\* find_callback has found the component (fat32.c:267-283).
LEMMA FoundOn ==
  ASSUME Volume(fs), NEW r, Shape(r), r.op \in {"list", "read"}, r.path \in Seq(Names),
         Followed(disk, fs, r), r.rest # <<>>, r.rest[1] # Dot, NEW e,
         e = EntryIn(disk, fs, r.directory, r.rest[1]),
         e.first_cluster \in Nat, e.size \in Nat
  PROVE  Course(disk, fs, Found(r, e))
<1>1. PICK k \in Nat : Stands(disk, fs, r, k)
  BY DEF Followed
<1>2. /\ k + 1 \in 1 .. Len(r.path) /\ Len(r.path) = k + Len(r.rest)
      /\ Len(r.rest) \in Nat \ {0} /\ Along(disk, fs, r.path)[k + 1] = e
  BY <1>1, EntryAlong
<1>3. e # Missing
  BY MissingIs
<1>4. CASE Len(r.rest) = 1
  <2>1. Found(r, e) = Resolved(r, e)
    BY <1>4 DEF Found
  <2>2. Named(disk, fs, r.path) = e
    BY <1>2, <1>4 DEF Named
  <2>3. Alike(e, Named(disk, fs, r.path)) /\ r.out = <<>>
    BY <2>2 DEF Alike, Followed
  <2>4. QED
    BY <2>1, <2>3, ResolvedOn
<1>5. CASE Len(r.rest) # 1 /\ ~e.directory
  <2>1. Found(r, e) = Return(r, "ENOTDIR")
    BY <1>5 DEF Found
  <2>2. Deserved(disk, fs, r, "ENOTDIR")
    BY <1>2, <1>5, FileDeserved
  <2>3. QED
    BY <2>1, <2>2, ReturnDeserved
<1>6. CASE Len(r.rest) # 1 /\ e.directory /\ ~valid_cluster(e.first_cluster)
  <2>1. Found(r, e) = Return(r, "EBADFS")
    BY <1>6 DEF Found
  <2>2. e.first_cluster \in OnPath(disk, fs, r.path)
    <3>1. k + 1 \in 0 .. Len(r.path) /\ Len(r.path) \in Nat
      BY <1>2
    <3>2. QED
      BY <1>2, <1>3, <3>1, OnThePath
  <2>3. Breaks(disk, fs, e.first_cluster)
    BY <1>6, ClustersAre DEF Breaks
  <2>4. QED
    BY <2>1, <2>2, <2>3, BreakDeserved, ReturnDeserved
<1>7. CASE Len(r.rest) # 1 /\ e.directory /\ valid_cluster(e.first_cluster)
  <2> DEFINE t == [r EXCEPT !.pc = "lookup", !.rest = Tail(r.rest),
                            !.directory = e.first_cluster]
  <2>1. /\ t.pc = "lookup" /\ t.path = r.path /\ t.out = r.out /\ t.rest = Tail(r.rest)
        /\ t.directory = e.first_cluster
    BY DEF Shape
  <2>2. Found(r, e) = t
    BY <1>7 DEF Found
  <2> HIDE DEF t
  <2>3. InChain(fs, e.first_cluster)
    BY <1>7, ClustersAre
  <2>4. k + 1 \in 1 .. Len(r.path) /\ Stands(disk, fs, t, k + 1)
    BY <1>1, <1>2, <1>7, <2>1, <2>3, StandsOn
  <2>5. Followed(disk, fs, t)
    BY <2>1, <2>4 DEF Followed
  <2>6. t.rest # <<>>
    <3>1. Len(r.path) = (k + 1) + Len(t.rest)
      BY <2>1, <2>4 DEF Stands
    <3>2. SUFFICES ASSUME t.rest = <<>> PROVE FALSE
      OBVIOUS
    <3>3. Len(t.rest) = 0
      BY <3>2
    <3>4. PICK n \in Nat : n = Len(r.rest) /\ n # 1 /\ Len(r.path) = k + n
      BY <1>2, <1>7
    <3>5. k + n = (k + 1) + 0
      BY <3>1, <3>3, <3>4, Zenon
    <3>6. \A a, b \in Nat : a + b = (a + 1) + 0 => b = 1
      OBVIOUS
    <3>7. QED
      BY <3>4, <3>5, <3>6, Zenon
  <2>7. QED
    BY <2>1, <2>2, <2>5, <2>6 DEF Course
<1>8. QED
  BY <1>4, <1>5, <1>6, <1>7

-----------------------------------------------------------------------------
(* A sector of a directory.                                                *)

\* The entry at which the scan of a sector stops is the first that it can stop at.
LEMMA FirstStop ==
  ASSUME NEW n \in Nat, NEW S \in SUBSET (1 .. n), S # {}, NEW stop,
         stop = CHOOSE i \in S : \A j \in S : i =< j
  PROVE  stop \in S /\ stop \in 1 .. n /\ \A j \in 1 .. stop - 1 : j \notin S
<1>1. \E i \in S : \A j \in S : i =< j
  <2>1. S \subseteq Nat
    OBVIOUS
  <2>2. QED
    BY <2>1, Least, Zenon
<1>2. stop \in S /\ \A j \in S : stop =< j
  BY <1>1, Zenon
<1>3. PICK x \in S : x = stop /\ \A j \in S : x =< j
  BY <1>2, Zenon
<1>4. x \in 1 .. n /\ \A j \in 1 .. x - 1 : j \notin S
  <2>1. \A x_ \in 1 .. n : (\A j \in S : x_ =< j) => \A j \in 1 .. x_ - 1 : j \notin S
    OBVIOUS
  <2>2. x \in 1 .. n
    OBVIOUS
  <2>3. QED
    BY <1>3, <2>1, <2>2, Zenon
<1>5. QED
  BY <1>3, <1>4, Zenon

\* raws are the slots of the sector that is read.
Delivered(d, v, r, raws) ==
  \A c : Walked(d, v, r, c) =>
    SlotsAre(d, v, Chain(d, v, c), EntriesPerSector * Done(v, r), raws)

\* The search for a component goes through a sector (fat32.c:218-228, 269-270).
LEMMA FindOn ==
  ASSUME Volume(fs), NEW r, Shape(r), r.pc = "scan", r.op \in {"list", "read"},
         r.path \in Seq(Names), r.purpose = "find", Finding(disk, fs, r), Done(fs, r) \in Nat,
         NEW raws, Delivered(disk, fs, r, raws),
         \A i \in 1 .. EntriesPerSector : raws[i].kind = "entry" =>
           raws[i].first_cluster \in Nat /\ raws[i].size \in Nat
  PROVE  Course(disk, fs, ScanEntries(r, raws))
<1> DEFINE stops == {i \in 1 .. EntriesPerSector : Stops(r, raws[i])}
           stop == CHOOSE i \in stops : \A j \in stops : i =< j
           f == Chain(disk, fs, r.directory)
<1>1. ScanEntries(r, raws) =
        IF stops = {} THEN NextSector(r, "scan_next")
        ELSE IF raws[stop].kind = "entry" THEN Found(r, raws[stop])
        ELSE Return(r, "ENOTFOUND")
  BY DEF ScanEntries
<1>2. PICK per \in Nat \ {0} : per = EntriesPerSector
  BY EntriesPositive
<1>3. PICK b \in Nat : b = per * Done(fs, r)
  OBVIOUS
<1>4. /\ Followed(disk, fs, r) /\ r.rest # <<>> /\ r.rest[1] # Dot
      /\ Walked(disk, fs, r, r.directory) /\ Sought(disk, fs, f, b, r.rest[1])
  BY <1>2, <1>3 DEF Finding
<1>5. SlotsAre(disk, fs, f, b, raws)
  BY <1>2, <1>3, <1>4 DEF Delivered
<1>6. component(r.rest) = r.rest[1]
  <2>1. r.rest \in Seq(Names)
    BY <1>4 DEF Followed, Stands
  <2>2. Head(r.rest) = r.rest[1]
    BY <1>4, <2>1, TailIs
  <2>3. QED
    BY <1>4, <2>2 DEF component
<1>7. \A i \in 1 .. per : i \in stops <=>
        raws[i].kind = "end" \/ (raws[i].kind = "entry" /\ raws[i].name = r.rest[1])
  BY <1>2, <1>6 DEF Stops, find_callback, names_equal
<1>8. stops \in SUBSET (1 .. per)
  BY <1>2
<1>9. Measured(fs)
  BY ClustersAre
<1> HIDE DEF stops, f
<1>10. CASE stops = {}
  <2>1. PICK t : t = NextSector(r, "scan_next")
    OBVIOUS
  <2>2. /\ Walked(disk, fs, t, r.directory) /\ Done(fs, t) = Done(fs, r) + 1
        /\ t.pc \in {"scan", "scan_next"} /\ t.op = r.op /\ t.path = r.path /\ t.out = r.out
        /\ t.rest = r.rest /\ t.directory = r.directory /\ t.purpose = r.purpose
    <3>1. <<r.pc, "scan_next">> \in {<<"scan", "scan_next">>, <<"copy", "copy_next">>}
      OBVIOUS
    <3>2. QED
      BY <1>4, <2>1, <3>1, NextSectorOn
  <2>3. Sought(disk, fs, f, b + per, r.rest[1])
    <3>1. \A i \in 1 .. per : raws[i].kind # "end"
            /\ ~(raws[i].kind = "entry" /\ raws[i].name = r.rest[1])
      BY <1>7, <1>10
    <3>2. per \in 0 .. EntriesPerSector
      BY <1>2
    <3>3. QED
      BY <1>4, <1>5, <3>1, <3>2, SoughtOn
  <2>4. EntriesPerSector * Done(fs, t) = b + per
    BY <1>2, <1>3, <2>2
  <2>5. Followed(disk, fs, t)
    BY <1>4, <2>2, FollowedSame
  <2>6. Finding(disk, fs, t)
    BY <1>4, <2>2, <2>3, <2>4, <2>5 DEF Finding, f
  <2>7. Course(disk, fs, t)
    BY <2>2, <2>6 DEF Course
  <2>8. QED
    BY <1>1, <1>10, <2>1, <2>7
<1>11. CASE stops # {}
  <2>1. stop \in stops /\ stop \in 1 .. per /\ \A j \in 1 .. stop - 1 : j \notin stops
    BY <1>8, <1>11, FirstStop
  <2> HIDE DEF stop
  <2>2. \A j \in 1 .. stop - 1 :
          raws[j].kind # "end" /\ ~(raws[j].kind = "entry" /\ raws[j].name = r.rest[1])
    BY <1>7, <2>1
  <2>3. /\ raws[stop].kind = "end" =>
             EntryIn(disk, fs, r.directory, r.rest[1]) = Missing
        /\ raws[stop].kind = "entry" /\ raws[stop].name = r.rest[1] =>
             EntryIn(disk, fs, r.directory, r.rest[1]) = raws[stop]
    BY <1>2, <1>4, <1>5, <1>9, <2>1, <2>2, SearchEnds DEF f
  <2>4. CASE raws[stop].kind = "entry"
    <3>1. raws[stop].name = r.rest[1] /\ raws[stop].first_cluster \in Nat
          /\ raws[stop].size \in Nat
      BY <1>2, <1>7, <2>1, <2>4
    <3>2. QED
      BY <1>1, <1>4, <1>11, <2>3, <2>4, <3>1, FoundOn
  <2>5. CASE raws[stop].kind # "entry"
    <3>1. EntryIn(disk, fs, r.directory, r.rest[1]) = Missing
      BY <1>7, <2>1, <2>3, <2>5
    <3>2. PICK k \in Nat : Stands(disk, fs, r, k)
      BY <1>4 DEF Followed
    <3>3. k + 1 \in 1 .. Len(r.path) /\ Along(disk, fs, r.path)[k + 1] = Missing
      BY <1>4, <3>1, <3>2, EntryAlong
    <3>4. QED
      BY <1>1, <1>11, <2>5, <3>3, GoneDeserved, ReturnDeserved
  <2>6. QED
    BY <2>4, <2>5
<1>12. QED
  BY <1>10, <1>11

\* The listing of a directory goes through a sector (fat32.c:218-228).
LEMMA ListOn ==
  ASSUME Volume(fs), NEW r, Shape(r), r.pc = "scan", r.path \in Seq(Names),
         r.purpose = "list", Collecting(disk, fs, r), Done(fs, r) \in Nat,
         NEW S, NEW raws \in Seq(S), Len(raws) = EntriesPerSector, Delivered(disk, fs, r, raws)
  PROVE  Course(disk, fs, ScanEntries(r, raws))
<1> DEFINE stops == {i \in 1 .. EntriesPerSector : Stops(r, raws[i])}
           stop == CHOOSE i \in stops : \A j \in stops : i =< j
           seen == IF stops = {} THEN raws ELSE SubSeq(raws, 1, stop - 1)
           listed == [r EXCEPT !.out = r.out \o EntriesOf(seen)]
<1>1. ScanEntries(r, raws) =
        IF stops = {} THEN NextSector(listed, "scan_next")
        ELSE IF raws[stop].kind = "entry" THEN Found(r, raws[stop])
        ELSE Return(listed, "OK")
  BY DEF ScanEntries
<1>2. PICK per \in Nat \ {0} : per = EntriesPerSector
  BY EntriesPositive
<1>3. PICK b \in Nat : b = per * Done(fs, r)
  OBVIOUS
<1>4. PICK named, c, f : /\ named = Named(disk, fs, r.path) /\ c = named.first_cluster
                         /\ f = Chain(disk, fs, c)
  OBVIOUS
<1>5. /\ r.op = "list" /\ named.directory /\ Walked(disk, fs, r, c)
      /\ Collected(disk, fs, f, b, r.out)
  BY <1>2, <1>3, <1>4 DEF Collecting
<1>6. SlotsAre(disk, fs, f, b, raws)
  BY <1>2, <1>3, <1>4, <1>5 DEF Delivered
<1>7. \A i \in 1 .. per : i \in stops <=> raws[i].kind = "end"
  BY <1>2 DEF Stops, find_callback
<1>8. stops \in SUBSET (1 .. per)
  BY <1>2
<1>9. Measured(fs)
  BY ClustersAre
<1> HIDE DEF stops
<1>10. PICK m \in 0 .. per :
         /\ m \in Nat /\ seen \in Seq(S) /\ Len(seen) = m
         /\ \A i \in 1 .. m : raws[i].kind # "end" /\ seen[i] = raws[i]
         /\ stops = {} => m = per
         /\ stops # {} => stop \in 1 .. per /\ m = stop - 1 /\ raws[stop].kind = "end"
  <2>1. CASE stops = {}
    <3>1. seen = raws
      BY <2>1
    <3>2. per \in 0 .. per /\ per \in Nat /\ Len(raws) = per
      BY <1>2
    <3>3. \A i \in 1 .. per : raws[i].kind # "end"
      BY <1>7, <2>1
    <3>4. QED
      BY <2>1, <3>1, <3>2, <3>3
  <2>2. CASE stops # {}
    <3>1. stop \in stops /\ stop \in 1 .. per /\ \A j \in 1 .. stop - 1 : j \notin stops
      BY <1>8, <2>2, FirstStop
    <3>2. seen = SubSeq(raws, 1, stop - 1)
      BY <2>2
    <3> HIDE DEF stop, seen
    <3>3. PICK m \in 0 .. per : m = stop - 1 /\ m \in Nat /\ m =< Len(raws)
      BY <1>2, <3>1
    <3>4. /\ SubSeq(raws, 1, m) \in Seq(S) /\ Len(SubSeq(raws, 1, m)) = m
          /\ \A i \in 1 .. m : SubSeq(raws, 1, m)[i] = raws[i]
      BY <3>3
    <3>5. seen = SubSeq(raws, 1, m)
      BY <3>2, <3>3, Zenon
    <3>6. /\ seen \in Seq(S) /\ Len(seen) = m /\ \A i \in 1 .. m : seen[i] = raws[i]
      BY <3>4, <3>5, Zenon
    <3>7. \A i \in 1 .. m : raws[i].kind # "end"
      BY <1>7, <3>1, <3>3
    <3>8. raws[stop].kind = "end"
      BY <1>7, <3>1
    <3>9. QED
      BY <2>2, <3>1, <3>3, <3>6, <3>7, <3>8
  <2>3. QED
    BY <2>1, <2>2
<1> HIDE DEF stop, seen
<1>11. PICK out : out = r.out \o EntriesOf(seen)
  BY Zenon
<1>12. Collected(disk, fs, f, b + m, out)
  <2>1. Collected(disk, fs, f, b + Len(seen), r.out \o EntriesOf(seen))
    <3>1. Len(seen) =< EntriesPerSector
      BY <1>2, <1>10
    <3>2. \A i \in 1 .. Len(seen) : raws[i].kind # "end" /\ seen[i] = raws[i]
      BY <1>10
    <3>3. QED
      BY <1>5, <1>6, <1>10, <3>1, <3>2, CollectedOn, Zenon
  <2>2. QED
    BY <1>10, <1>11, <2>1, Zenon
<1>13. /\ Shape(listed) /\ listed.pc = "scan" /\ listed.op = r.op /\ listed.path = r.path
       /\ listed.out = out /\ listed.purpose = "list" /\ listed.visited = r.visited
       /\ listed.cluster = r.cluster /\ listed.sector = r.sector
  <2>1. listed = [r EXCEPT !.out = out]
    BY <1>11, Zenon
  <2>2. QED
    BY <2>1 DEF Shape
<1> HIDE DEF listed
<1>14. Walked(disk, fs, listed, c) /\ Done(fs, listed) = Done(fs, r)
  BY <1>5, <1>13 DEF Walked, Done
<1>15. CASE stops = {}
  <2>1. PICK t : t = NextSector(listed, "scan_next")
    OBVIOUS
  <2>2. /\ Walked(disk, fs, t, c) /\ Done(fs, t) = Done(fs, r) + 1
        /\ t.pc \in {"scan", "scan_next"} /\ t.op = r.op /\ t.path = r.path /\ t.out = out
        /\ t.purpose = "list"
    <3>1. <<listed.pc, "scan_next">> \in {<<"scan", "scan_next">>, <<"copy", "copy_next">>}
      BY <1>13
    <3>2. QED
      BY <1>13, <1>14, <2>1, <3>1, NextSectorOn
  <2>3. EntriesPerSector * Done(fs, t) = b + m
    BY <1>2, <1>3, <1>10, <1>15, <2>2
  <2>4. Collecting(disk, fs, t)
    BY <1>4, <1>5, <1>12, <2>2, <2>3 DEF Collecting
  <2>5. Course(disk, fs, t)
    BY <2>2, <2>4 DEF Course
  <2>6. QED
    BY <1>1, <1>15, <2>1, <2>5
<1>16. CASE stops # {}
  <2>1. ScanEntries(r, raws) = Return(listed, "OK")
    BY <1>1, <1>10, <1>16
  <2>2. Over(disk, fs, f, b + m)
    <3>1. stop \in 1 .. EntriesPerSector /\ b + stop - 1 = b + m
      BY <1>2, <1>10, <1>16
    <3>2. QED
      BY <1>6, <1>10, <1>16, <3>1 DEF SlotsAre
  <2>3. out = Listing(disk, fs, c)
    <3>1. b + m \in Nat
      BY <1>10
    <3>2. QED
      BY <1>4, <1>9, <1>12, <2>2, <3>1, ListingEnds
  <2>4. Deserved(disk, fs, listed, "OK")
    BY <1>4, <1>5, <1>13, <2>3 DEF Deserved
  <2>5. QED
    BY <1>13, <2>1, <2>4, ReturnDeserved
<1>17. QED
  BY <1>15, <1>16

-----------------------------------------------------------------------------
(* A sector of a file.                                                     *)

\* bytes are those of the sector that is read, and the file has that sector.
Given(d, v, r, bytes) ==
  \A c : Walked(d, v, r, c) =>
    /\ Reaches(v, Chain(d, v, c), Done(v, r))
    /\ bytes = [i \in 1 .. SectorBytes |->
                  Byte(d, SectorAt(v, Chain(d, v, c), Done(v, r)), i - 1)]

\* The first bytes of a sector.
LEMMA FirstBytes ==
  ASSUME NEW d, NEW s, NEW n \in Nat, NEW bytes, NEW m \in 1 .. n,
         bytes = [i \in 1 .. n |-> Byte(d, s, i - 1)]
  PROVE  SubSeq(bytes, 1, m) = [i \in 1 .. m |-> Byte(d, s, i - 1)]
OBVIOUS

\* The copy of a sector, or of what is left of the file (fat32.c:473-488, 498).
LEMMA CopyOn ==
  ASSUME Volume(fs), NEW r, Shape(r), r.pc = "copy", r.path \in Seq(Names),
         Copying(disk, fs, r), Done(fs, r) \in Nat, NEW bytes, Given(disk, fs, r, bytes)
  PROVE  Course(disk, fs, CopySector(r, bytes))
<1> DEFINE some == SubSeq(bytes, 1, Amount(r))
           left == IF Amount(r) < r.remaining THEN r.remaining - Amount(r) ELSE 0
           copied == [r EXCEPT !.out = r.out \o some, !.remaining = left]
<1>1. CopySector(r, bytes) = IF copied.remaining = 0 THEN Return(copied, "OK")
                             ELSE NextSector(copied, "copy_next")
  BY DEF CopySector
<1>2. PICK sb \in Nat \ {0}, q \in Nat : sb = SectorBytes /\ q = Done(fs, r)
  BY SizesAssumption
<1>3. PICK b \in Nat : b = sb * q
  OBVIOUS
<1>4. PICK named, c, f : /\ named = Named(disk, fs, r.path) /\ c = named.first_cluster
                         /\ f = Chain(disk, fs, c)
  OBVIOUS
<1>5. /\ r.op = "read" /\ ~named.directory /\ named.size \in Nat /\ Walked(disk, fs, r, c)
      /\ Copied(disk, fs, f, b, r.out)
      /\ r.remaining \in Nat \ {0} /\ named.size = b + r.remaining
  BY <1>2, <1>3, <1>4 DEF Copying
<1>6. PICK s : s = SectorAt(fs, f, q)
  OBVIOUS
<1>7. Reaches(fs, f, q) /\ bytes = [i \in 1 .. sb |-> Byte(disk, s, i - 1)]
  BY <1>2, <1>4, <1>5, <1>6 DEF Given
<1>8. PICK n \in 1 .. sb : n = Amount(r) /\ n =< r.remaining /\ (n < r.remaining => n = sb)
  BY <1>2, <1>5 DEF Amount
<1>9. PICK more : more = [i \in 1 .. n |-> Byte(disk, s, i - 1)]
  OBVIOUS
<1>10. some = more
  <2>1. SubSeq(bytes, 1, n) = more
    BY <1>2, <1>7, <1>9, FirstBytes
  <2>2. QED
    BY <1>8, <2>1, Zenon
<1> HIDE DEF some
<1>11. PICK out : out = r.out \o more
  BY Zenon
<1>12. Copied(disk, fs, f, b + n, out)
  <2>1. Copied(disk, fs, f, b + n, r.out \o more)
    <3>1. n \in 1 .. SectorBytes /\ b = SectorBytes * q
      BY <1>2, <1>3
    <3>2. more = [i \in 1 .. n |-> Byte(disk, SectorAt(fs, f, q), i - 1)]
      BY <1>6, <1>9, Zenon
    <3>3. QED
      BY <1>5, <1>7, <3>1, <3>2, CopiedOn, Zenon
  <2>2. QED
    BY <1>11, <2>1, Zenon
<1>13. PICK rem \in Nat : rem = left /\ rem = r.remaining - n
  BY <1>5, <1>8
<1> HIDE DEF left
<1>14. /\ Shape(copied) /\ copied.pc = "copy" /\ copied.op = r.op /\ copied.path = r.path
       /\ copied.out = out /\ copied.remaining = rem /\ copied.visited = r.visited
       /\ copied.cluster = r.cluster /\ copied.sector = r.sector
  <2>1. copied = [r EXCEPT !.out = out, !.remaining = rem]
    BY <1>10, <1>11, <1>13, Zenon
  <2>2. QED
    BY <2>1 DEF Shape
<1> HIDE DEF copied
<1>15. Walked(disk, fs, copied, c) /\ Done(fs, copied) = q
  BY <1>2, <1>5, <1>14 DEF Walked, Done
<1>16. CASE rem = 0
  <2>1. named.size = b + n
    BY <1>5, <1>13, <1>16
  <2>2. Holds(disk, fs, c, named.size, out)
    BY <1>4, <1>12, <2>1, WholeCopied
  <2>3. named # Missing
    BY <1>5, MissingIs
  <2>4. Deserved(disk, fs, copied, "OK")
    BY <1>4, <1>5, <1>14, <2>2, <2>3 DEF Deserved
  <2>5. QED
    BY <1>1, <1>14, <1>16, <2>4, ReturnDeserved
<1>17. CASE rem # 0
  <2>1. PICK t : t = NextSector(copied, "copy_next")
    OBVIOUS
  <2>2. /\ Walked(disk, fs, t, c) /\ Done(fs, t) = q + 1
        /\ t.pc \in {"copy", "copy_next"} /\ t.op = "read" /\ t.path = r.path /\ t.out = out
        /\ t.remaining = rem
    <3>1. <<copied.pc, "copy_next">> \in {<<"scan", "scan_next">>, <<"copy", "copy_next">>}
      BY <1>14
    <3>2. QED
      BY <1>5, <1>14, <1>15, <2>1, <3>1, NextSectorOn
  <2>3. n = sb
    BY <1>5, <1>8, <1>13, <1>17
  <2>4. PICK e \in Nat : e = SectorBytes * Done(fs, t) /\ e = b + n
    BY <1>2, <1>3, <2>2, <2>3
  <2>5. named.size = e + rem /\ rem \in Nat \ {0}
    BY <1>5, <1>13, <1>17, <2>4
  <2>6. Copied(disk, fs, f, e, out)
    BY <1>12, <2>4
  <2>7. Copying(disk, fs, t)
    BY <1>4, <1>5, <2>2, <2>4, <2>5, <2>6 DEF Copying
  <2>8. Course(disk, fs, t)
    BY <2>2, <2>7 DEF Course
  <2>9. QED
    BY <1>1, <1>14, <1>17, <2>1, <2>8
<1>18. QED
  BY <1>16, <1>17

-----------------------------------------------------------------------------
(* The FAT entry after the last sector of a cluster.                       *)

\* Two records of a call have got as far.
Same(t, r) ==
  /\ t.op = r.op /\ t.path = r.path /\ t.out = r.out /\ t.capacity = r.capacity
  /\ t.rest = r.rest /\ t.directory = r.directory /\ t.purpose = r.purpose
  /\ t.remaining = r.remaining

\* The chain ends, breaks, has gone round, or goes on (fat32.c:87-98, 229-234, 489-495).
LEMMA LinkOn ==
  ASSUME Volume(fs), disk \in Disks, fs.mounted, NEW r, Shape(r),
         r.pc \in {"scan_next", "copy_next"}, NEW c, Walked(disk, fs, r, c),
         LinkRead(r.cluster) \in Nat, NEW ended
  PROVE  LET t == AfterLink(r, LinkRead(r.cluster), ended) IN
         \/ t = Return(r, ended) /\ ~InChain(fs, Chain(disk, fs, c)[r.visited])
         \/ t = Return(r, "EBADFS") /\ Breaks(disk, fs, c)
         \/ \E u : Same(u, r) /\ t = Return(u, "ELOOP") /\ Loops(disk, fs, c)
         \/ /\ Same(t, r) /\ Walked(disk, fs, t, c) /\ Done(fs, t) = Done(fs, r)
            /\ t.pc = IF r.pc = "scan_next" THEN "scan" ELSE "copy"
<1>1. PICK f, link : f = Chain(disk, fs, c) /\ link = LinkRead(r.cluster)
  OBVIOUS
<1>2. /\ r.visited \in 1 .. fs.cluster_count /\ r.cluster = f[r.visited - 1]
      /\ \A i \in 0 .. r.visited - 1 : InChain(fs, f[i])
      /\ r.sector = fs.sectors_per_cluster - 1
      /\ fs.cluster_count \in Nat /\ fs.sectors_per_cluster \in Nat \ {0}
  BY <1>1 DEF Walked, Volume
<1>3. PICK m \in Nat : m = r.visited /\ m \in 1 .. fs.cluster_count
  BY <1>2
<1>4. f[m] = IF link >= ReservedMark /\ link < EndMark THEN 0 ELSE link
  <2>1. f[m] = Follow(disk, fs, f[m - 1])
    BY <1>1, <1>2, <1>3, ChainIs
  <2>2. InChain(fs, f[m - 1]) /\ f[m - 1] = r.cluster
    BY <1>2, <1>3
  <2>3. QED
    BY <1>1, <2>1, <2>2, LinkIs
<1>5. /\ EndMark \in Nat /\ ReservedMark \in Nat /\ ReservedMark < EndMark
      /\ ReservedMark > 0 /\ link \in Nat
      /\ \A x : InChain(fs, x) => x \in Nat /\ x < EndMark
      /\ \A x \in Nat : valid_cluster(x) <=> InChain(fs, x)
  BY <1>1, ClustersAre
<1> DEFINE u == [r EXCEPT !.pc = IF r.pc = "scan_next" THEN "scan" ELSE "copy"]
<1>6. /\ Shape(u) /\ u.pc = (IF r.pc = "scan_next" THEN "scan" ELSE "copy") /\ Same(u, r)
      /\ u.visited = r.visited
  BY DEF Shape, Same
<1>7. AfterLink(r, link, ended) =
        IF link >= EndMark THEN Return(r, ended)
        ELSE IF link >= ReservedMark \/ ~valid_cluster(link) THEN Return(r, "EBADFS")
        ELSE LoopHead(u, link)
  BY DEF AfterLink
<1> HIDE DEF u
<1>8. CASE link >= EndMark
  <2>1. f[m] = link /\ ~InChain(fs, f[m])
    BY <1>4, <1>5, <1>8
  <2>2. QED
    BY <1>1, <1>3, <1>7, <1>8, <2>1
<1>9. CASE link < EndMark /\ (link >= ReservedMark \/ ~valid_cluster(link))
  <2>1. ~InChain(fs, f[m]) /\ f[m] < EndMark
    <3>1. CASE link >= ReservedMark
      <4>1. f[m] = 0
        BY <1>4, <1>9, <3>1
      <4>2. QED
        BY <1>5, <4>1 DEF InChain
    <3>2. CASE link < ReservedMark /\ ~valid_cluster(link)
      <4>1. f[m] = link
        BY <1>4, <1>5, <3>2
      <4>2. QED
        BY <1>5, <1>9, <3>2, <4>1
    <3>3. QED
      BY <1>5, <1>9, <3>1, <3>2
  <2>2. m \in 0 .. fs.cluster_count
    BY <1>3
  <2>3. Breaks(disk, fs, c)
    BY <1>1, <2>1, <2>2 DEF Breaks
  <2>4. AfterLink(r, link, ended) = Return(r, "EBADFS")
    BY <1>5, <1>7, <1>9
  <2>5. QED
    BY <1>1, <2>3, <2>4
<1>10. CASE link < ReservedMark /\ valid_cluster(link)
  <2>1. f[m] = link /\ InChain(fs, f[m])
    BY <1>4, <1>5, <1>10
  <2>2. \A i \in 0 .. m : InChain(fs, f[i])
    BY <1>2, <1>3, <2>1
  <2>3. PICK t : t = LoopHead(u, f[m])
    OBVIOUS
  <2>4. \/ t = Return(u, "ELOOP") /\ Loops(disk, fs, c)
        \/ /\ Walked(disk, fs, t, c) /\ Done(fs, t) = fs.sectors_per_cluster * m
           /\ t.pc = u.pc /\ t.op = u.op /\ t.path = u.path /\ t.out = u.out
           /\ t.capacity = u.capacity /\ t.rest = u.rest /\ t.directory = u.directory
           /\ t.purpose = u.purpose /\ t.remaining = u.remaining
    <3>1. u.visited = m /\ m =< fs.cluster_count /\ u.pc \in {"scan", "copy"}
      BY <1>2, <1>3, <1>6
    <3>2. QED
      BY <1>1, <1>6, <2>2, <2>3, <3>1, LoopHeadOn
  <2>5. Done(fs, r) = fs.sectors_per_cluster * m
    <3>1. PICK spc \in Nat \ {0} : spc = fs.sectors_per_cluster
      BY <1>2
    <3>2. Done(fs, r) = spc * (m - 1) + ((spc - 1) + 1)
      BY <1>2, <1>3, <3>1 DEF Done
    <3>3. QED
      BY <1>3, <3>1, <3>2
  <2>6. AfterLink(r, link, ended) = t
    BY <1>5, <1>7, <1>10, <2>1, <2>3
  <2>7. QED
    BY <1>1, <1>6, <2>4, <2>5, <2>6 DEF Same
<1>11. QED
  BY <1>5, <1>8, <1>9, <1>10

\* A search ends with the chain: the component is not there (fat32.c:229-234, 269-270).
LEMMA FindEnds ==
  ASSUME Volume(fs), NEW r, r.pc = "scan_next", r.path \in Seq(Names), Finding(disk, fs, r),
         ~InChain(fs, Chain(disk, fs, r.directory)[r.visited])
  PROVE  Deserved(disk, fs, r, "ENOTFOUND")
<1>1. PICK f : f = Chain(disk, fs, r.directory)
  OBVIOUS
<1>2. PICK n \in Nat : n = r.visited /\ Done(fs, r) = fs.sectors_per_cluster * n
  <2>1. PICK n \in Nat, spc \in Nat \ {0} : n = r.visited /\ spc = fs.sectors_per_cluster
    BY DEF Finding, Walked, Volume
  <2>2. Done(fs, r) = spc * (n - 1) + ((spc - 1) + 1)
    BY <2>1 DEF Done, Finding, Walked
  <2>3. Done(fs, r) = spc * n
    BY <2>1, <2>2
  <2>4. QED
    BY <2>1, <2>3
<1>3. PICK k \in Nat : k = EntriesPerSector * (fs.sectors_per_cluster * n) /\ Over(disk, fs, f, k)
  BY <1>1, <1>2, ClustersAre, OverAtEnd
<1>4. Sought(disk, fs, f, k, r.rest[1])
  BY <1>1, <1>2, <1>3 DEF Finding
<1>5. EntryIn(disk, fs, r.directory, r.rest[1]) = Missing
  <2>1. \A j \in 0 .. k - 1 : ~Over(disk, fs, f, j) /\ ~Bears(disk, fs, f, j, r.rest[1])
    BY <1>4 DEF Sought
  <2>2. Measured(fs)
    BY ClustersAre
  <2>3. QED
    BY <1>1, <1>3, <2>1, <2>2, EntryMissing
<1>6. PICK j \in Nat : Stands(disk, fs, r, j)
  BY DEF Finding, Followed
<1>7. j + 1 \in 1 .. Len(r.path) /\ Along(disk, fs, r.path)[j + 1] = Missing
  BY <1>5, <1>6, EntryAlong DEF Finding
<1>8. QED
  BY <1>7, GoneDeserved

\* A listing ends with the chain.
LEMMA ListEnds ==
  ASSUME Volume(fs), NEW r, r.pc = "scan_next", Collecting(disk, fs, r),
         ~InChain(fs, Chain(disk, fs, Named(disk, fs, r.path).first_cluster)[r.visited])
  PROVE  Deserved(disk, fs, r, "OK")
<1>1. PICK named, c, f : /\ named = Named(disk, fs, r.path) /\ c = named.first_cluster
                         /\ f = Chain(disk, fs, c)
  OBVIOUS
<1>2. PICK n \in Nat : n = r.visited /\ Done(fs, r) = fs.sectors_per_cluster * n
  <2>1. PICK n \in Nat, spc \in Nat \ {0} : n = r.visited /\ spc = fs.sectors_per_cluster
    BY DEF Collecting, Walked, Volume
  <2>2. Done(fs, r) = spc * (n - 1) + ((spc - 1) + 1)
    BY <2>1 DEF Done, Collecting, Walked
  <2>3. Done(fs, r) = spc * n
    BY <2>1, <2>2
  <2>4. QED
    BY <2>1, <2>3
<1>3. PICK k \in Nat : k = EntriesPerSector * (fs.sectors_per_cluster * n) /\ Over(disk, fs, f, k)
  BY <1>1, <1>2, ClustersAre, OverAtEnd
<1>4. r.op = "list" /\ named.directory /\ Collected(disk, fs, f, k, r.out)
  BY <1>1, <1>2, <1>3 DEF Collecting
<1>5. r.out = Listing(disk, fs, c)
  BY <1>1, <1>3, <1>4, ClustersAre, ListingEnds
<1>6. QED
  BY <1>1, <1>4, <1>5 DEF Deserved

\* A number from d * m on has a quotient from m on.
LEMMA QuotientLeast ==
  ASSUME NEW d \in Nat \ {0}, NEW n \in Nat, NEW m \in Nat, n >= d * m
  PROVE  n \div d \in Nat /\ n \div d >= m
<1>1. PICK p \in Nat, y \in 0 .. d - 1 : p = n \div d /\ n = d * p + y
  BY DivMod
<1>2. SUFFICES ASSUME p < m PROVE FALSE
  BY <1>1
<1>3. PICK e \in Nat : m = p + 1 + e
  <2>1. m - p - 1 \in Nat /\ m = p + 1 + (m - p - 1)
    BY <1>2
  <2>2. QED
    BY <2>1
<1>4. d * m = d * p + d + d * e /\ d * e \in Nat /\ d * p \in Nat
  BY <1>3
<1>5. n = d * p + y
  BY <1>1
<1>6. QED
  BY <1>4, <1>5

\* A chain that is left after n clusters has no sector from there on.
LEMMA NotReached ==
  ASSUME NEW d, NEW v, Measured(v), NEW c, NEW n \in 0 .. v.cluster_count,
         ~InChain(v, Chain(d, v, c)[n]), NEW q \in Nat, q >= v.sectors_per_cluster * n
  PROVE  ~Reaches(v, Chain(d, v, c), q)
<1>1. PICK spc \in Nat \ {0}, count \in Nat, m \in Nat :
        spc = v.sectors_per_cluster /\ count = v.cluster_count /\ m = n
  BY DEF Measured
<1>2. PICK p \in Nat : p = q \div spc /\ p >= m
  BY <1>1, QuotientLeast
<1>3. SUFFICES ASSUME p \in 0 .. count, InChain(v, Chain(d, v, c)[p]) PROVE FALSE
  BY <1>1, <1>2 DEF Reaches
<1>4. p \in n .. v.cluster_count
  BY <1>1, <1>2, <1>3
<1>5. Chain(d, v, c)[p] = Chain(d, v, c)[n]
  BY <1>1, <1>4, ChainLeft
<1>6. QED
  BY <1>3, <1>5

\* A chain that ends before the file does is too short (fat32.c:491-495).
LEMMA CopyEnds ==
  ASSUME Volume(fs), NEW r, r.pc = "copy_next", Copying(disk, fs, r),
         ~InChain(fs, Chain(disk, fs, Named(disk, fs, r.path).first_cluster)[r.visited])
  PROVE  Deserved(disk, fs, r, "EBADFS")
<1>1. PICK named, c, f : /\ named = Named(disk, fs, r.path) /\ c = named.first_cluster
                         /\ f = Chain(disk, fs, c)
  OBVIOUS
<1>2. /\ r.op = "read" /\ ~named.directory /\ named.size \in Nat /\ Walked(disk, fs, r, c)
      /\ r.remaining \in Nat \ {0} /\ named.size = SectorBytes * Done(fs, r) + r.remaining
  BY <1>1 DEF Copying
<1>3. PICK n \in Nat, spc \in Nat \ {0}, sb \in Nat \ {0} :
        /\ n = r.visited /\ n \in 0 .. fs.cluster_count /\ spc = fs.sectors_per_cluster
        /\ sb = SectorBytes
  BY <1>2, SizesAssumption DEF Walked, Volume
<1>4. PICK q \in Nat : q = Done(fs, r) /\ q = spc * n
  <2>1. Done(fs, r) = spc * (n - 1) + ((spc - 1) + 1)
    BY <1>2, <1>3 DEF Done, Walked
  <2>2. Done(fs, r) = spc * n
    BY <1>3, <2>1
  <2>3. QED
    BY <1>3, <2>2
<1>5. ~InChain(fs, f[n]) /\ \A i \in 0 .. n - 1 : InChain(fs, f[i])
  BY <1>1, <1>2, <1>3 DEF Walked
<1>6. ~Loops(disk, fs, c)
  BY <1>1, <1>3, <1>5, ChainStraight DEF Volume
<1>7. PICK last \in Nat : last = named.size - 1 /\ last >= sb * q
  <2>1. PICK x \in Nat : x = sb * q
    OBVIOUS
  <2>2. named.size = x + r.remaining
    BY <1>2, <1>3, <1>4, <2>1
  <2>3. QED
    BY <1>2, <2>1, <2>2
<1>8. PICK p \in Nat : p = last \div sb /\ p >= q
  BY <1>7, QuotientLeast
<1>9. ~Reaches(fs, f, p)
  <2>1. Measured(fs)
    BY ClustersAre
  <2>2. QED
    BY <1>1, <1>3, <1>4, <1>5, <1>8, <2>1, NotReached
<1>10. ~Reaches(fs, f, (named.size - 1) \div SectorBytes) /\ named.size > 0
  BY <1>2, <1>3, <1>7, <1>8, <1>9
<1>11. QED
  BY <1>1, <1>2, <1>6, <1>10 DEF Deserved

\* The walk goes on behind the FAT entry (fat32.c:229-234, 489-495).
LEMMA FindLinkOn ==
  ASSUME Volume(fs), disk \in Disks, fs.mounted, NEW r, Shape(r), r.pc = "scan_next",
         r.path \in Seq(Names), r.purpose = "find", Finding(disk, fs, r),
         LinkRead(r.cluster) \in Nat
  PROVE  Course(disk, fs, AfterLink(r, LinkRead(r.cluster), "ENOTFOUND"))
<1>1. PICK t, c : t = AfterLink(r, LinkRead(r.cluster), "ENOTFOUND") /\ c = r.directory
  OBVIOUS
<1>2. Followed(disk, fs, r) /\ Walked(disk, fs, r, c) /\ c \in OnPath(disk, fs, r.path)
  BY <1>1, DirectoryOnPath DEF Finding
<1>3. \/ t = Return(r, "ENOTFOUND") /\ ~InChain(fs, Chain(disk, fs, c)[r.visited])
      \/ t = Return(r, "EBADFS") /\ Breaks(disk, fs, c)
      \/ \E u : Same(u, r) /\ t = Return(u, "ELOOP") /\ Loops(disk, fs, c)
      \/ /\ Same(t, r) /\ Walked(disk, fs, t, c) /\ Done(fs, t) = Done(fs, r)
         /\ t.pc = "scan"
  BY <1>1, <1>2, LinkOn
<1>4. CASE t = Return(r, "ENOTFOUND") /\ ~InChain(fs, Chain(disk, fs, c)[r.visited])
  BY <1>1, <1>4, FindEnds, ReturnDeserved
<1>5. CASE t = Return(r, "EBADFS") /\ Breaks(disk, fs, c)
  BY <1>1, <1>2, <1>5, BreakDeserved, ReturnDeserved
<1>6. CASE \E u : Same(u, r) /\ t = Return(u, "ELOOP") /\ Loops(disk, fs, c)
  <2>1. PICK u : Same(u, r) /\ t = Return(u, "ELOOP") /\ Loops(disk, fs, c)
    BY <1>6
  <2>2. u.path = r.path
    BY <2>1 DEF Same
  <2>3. Deserved(disk, fs, u, "ELOOP")
    BY <1>2, <2>1, <2>2, LoopDeserved
  <2>4. QED
    BY <1>1, <2>1, <2>2, <2>3, ReturnDeserved
<1>7. CASE /\ Same(t, r) /\ Walked(disk, fs, t, c) /\ Done(fs, t) = Done(fs, r)
           /\ t.pc = "scan"
  <2>1. Followed(disk, fs, t)
    BY <1>2, <1>7, FollowedSame DEF Same
  <2>2. t.rest = r.rest /\ t.directory = r.directory /\ t.purpose = "find" /\ t.path = r.path
    BY <1>7 DEF Same
  <2>3. Finding(disk, fs, t)
    BY <1>1, <1>7, <2>1, <2>2 DEF Finding
  <2>4. QED
    BY <1>1, <1>7, <2>2, <2>3 DEF Course
<1>8. QED
  BY <1>3, <1>4, <1>5, <1>6, <1>7

\* The chain of what the path names is on the path.
LEMMA NamedOnPath ==
  ASSUME NEW d, NEW v, NEW path \in Seq(Names), Named(d, v, path) # Missing
  PROVE  Named(d, v, path).first_cluster \in OnPath(d, v, path)
<1>1. Len(path) \in Nat /\ Len(path) \in 0 .. Len(path)
  OBVIOUS
<1>2. QED
  BY <1>1, OnThePath DEF Named

\* A walk of what the path names: it ends, or it is not over.
LEMMA NamedLinkOn ==
  ASSUME Volume(fs), disk \in Disks, fs.mounted, NEW r, Shape(r),
         r.pc \in {"scan_next", "copy_next"}, r.path \in Seq(Names),
         NEW c, c = Named(disk, fs, r.path).first_cluster, Named(disk, fs, r.path) # Missing,
         Walked(disk, fs, r, c), LinkRead(r.cluster) \in Nat, NEW ended,
         ~InChain(fs, Chain(disk, fs, c)[r.visited]) => Deserved(disk, fs, r, ended),
         NEW t, t = AfterLink(r, LinkRead(r.cluster), ended)
  PROVE  \/ Course(disk, fs, t)
         \/ /\ Same(t, r) /\ Walked(disk, fs, t, c) /\ Done(fs, t) = Done(fs, r)
            /\ t.pc = IF r.pc = "scan_next" THEN "scan" ELSE "copy"
<1>1. c \in OnPath(disk, fs, r.path)
  BY NamedOnPath
<1>2. \/ t = Return(r, ended) /\ ~InChain(fs, Chain(disk, fs, c)[r.visited])
      \/ t = Return(r, "EBADFS") /\ Breaks(disk, fs, c)
      \/ \E u : Same(u, r) /\ t = Return(u, "ELOOP") /\ Loops(disk, fs, c)
      \/ /\ Same(t, r) /\ Walked(disk, fs, t, c) /\ Done(fs, t) = Done(fs, r)
         /\ t.pc = IF r.pc = "scan_next" THEN "scan" ELSE "copy"
  BY LinkOn
<1>3. CASE t = Return(r, ended) /\ ~InChain(fs, Chain(disk, fs, c)[r.visited])
  BY <1>3, ReturnDeserved
<1>4. CASE t = Return(r, "EBADFS") /\ Breaks(disk, fs, c)
  BY <1>1, <1>4, BreakDeserved, ReturnDeserved
<1>5. CASE \E u : Same(u, r) /\ t = Return(u, "ELOOP") /\ Loops(disk, fs, c)
  <2>1. PICK u : Same(u, r) /\ t = Return(u, "ELOOP") /\ Loops(disk, fs, c)
    BY <1>5
  <2>2. u.path = r.path
    BY <2>1 DEF Same
  <2>3. Deserved(disk, fs, u, "ELOOP")
    BY <1>1, <2>1, <2>2, LoopDeserved
  <2>4. QED
    BY <2>1, <2>2, <2>3, ReturnDeserved
<1>6. QED
  BY <1>2, <1>3, <1>4, <1>5

\* A listing goes on, or ends with the chain.
LEMMA ListLinkOn ==
  ASSUME Volume(fs), disk \in Disks, fs.mounted, NEW r, Shape(r), r.pc = "scan_next",
         r.path \in Seq(Names), Collecting(disk, fs, r), LinkRead(r.cluster) \in Nat
  PROVE  Course(disk, fs, AfterLink(r, LinkRead(r.cluster), "OK"))
<1>1. PICK t, named, c : /\ t = AfterLink(r, LinkRead(r.cluster), "OK")
                         /\ named = Named(disk, fs, r.path) /\ c = named.first_cluster
  OBVIOUS
<1>2. /\ r.op = "list" /\ r.purpose = "list" /\ named.directory /\ Walked(disk, fs, r, c)
      /\ Collected(disk, fs, Chain(disk, fs, c), EntriesPerSector * Done(fs, r), r.out)
  BY <1>1 DEF Collecting
<1>3. named # Missing
  BY <1>2, MissingIs
<1>4. ~InChain(fs, Chain(disk, fs, c)[r.visited]) => Deserved(disk, fs, r, "OK")
  BY <1>1, ListEnds
<1>5. \/ Course(disk, fs, t)
      \/ /\ Same(t, r) /\ Walked(disk, fs, t, c) /\ Done(fs, t) = Done(fs, r)
         /\ t.pc = IF r.pc = "scan_next" THEN "scan" ELSE "copy"
  BY <1>1, <1>2, <1>3, <1>4, NamedLinkOn
<1>6. ASSUME Same(t, r), Walked(disk, fs, t, c), Done(fs, t) = Done(fs, r), t.pc = "scan"
      PROVE  Course(disk, fs, t)
  <2>1. /\ t.op = "list" /\ t.purpose = "list" /\ t.path = r.path /\ t.out = r.out
    BY <1>2, <1>6 DEF Same
  <2>2. Collecting(disk, fs, t)
    BY <1>1, <1>2, <1>6, <2>1 DEF Collecting
  <2>3. QED
    BY <1>6, <2>1, <2>2 DEF Course
<1>7. QED
  BY <1>1, <1>5, <1>6

\* A copy goes on, or the file is cut off.
LEMMA CopyLinkOn ==
  ASSUME Volume(fs), disk \in Disks, fs.mounted, NEW r, Shape(r), r.pc = "copy_next",
         r.path \in Seq(Names), Copying(disk, fs, r), LinkRead(r.cluster) \in Nat
  PROVE  Course(disk, fs, AfterLink(r, LinkRead(r.cluster), "EBADFS"))
<1>1. PICK t, named, c : /\ t = AfterLink(r, LinkRead(r.cluster), "EBADFS")
                         /\ named = Named(disk, fs, r.path) /\ c = named.first_cluster
  OBVIOUS
<1>2. named.size \in Nat /\ Walked(disk, fs, r, c)
  BY <1>1 DEF Copying
<1>3. named # Missing
  BY <1>2, MissingIs
<1>4. ~InChain(fs, Chain(disk, fs, c)[r.visited]) => Deserved(disk, fs, r, "EBADFS")
  BY <1>1, CopyEnds
<1>5. \/ Course(disk, fs, t)
      \/ /\ Same(t, r) /\ Walked(disk, fs, t, c) /\ Done(fs, t) = Done(fs, r)
         /\ t.pc = IF r.pc = "scan_next" THEN "scan" ELSE "copy"
  BY <1>1, <1>2, <1>3, <1>4, NamedLinkOn
<1>6. ASSUME Same(t, r), Walked(disk, fs, t, c), Done(fs, t) = Done(fs, r), t.pc = "copy"
      PROVE  Course(disk, fs, t)
  <2>1. t.op = r.op /\ t.path = r.path /\ t.out = r.out /\ t.remaining = r.remaining
    BY <1>6 DEF Same
  <2>2. Copying(disk, fs, t)
    BY <1>1, <1>6, <2>1 DEF Copying
  <2>3. QED
    BY <1>6, <2>1, <2>2 DEF Course
<1>7. QED
  BY <1>1, <1>5, <1>6

-----------------------------------------------------------------------------
(* The steps of the calls.                                                 *)

\* A call that goes on as it should.
LEMMA ServedKept ==
  ASSUME disk' = disk, fs' = fs, fs.mounted, ~faulted', Course(disk, fs, call')
  PROVE  Served'
<1>1. Course(disk', fs', call')
  BY Zenon
<1>2. QED
  BY <1>1, Zenon DEF Served

\* A call that ends with a failing read.
LEMMA FailureServed ==
  ASSUME fs' = fs, fs.mounted, faulted', NEW result \in {"EIO", "EBADFS"},
         call' = Return(call, result)
  PROVE  Served'
<1>1. call'.pc = "idle" /\ call'.result = result
  BY ReturnIs
<1>2. call'.pc = "idle" /\ call'.result \in {"EIO", "EBADFS"}
  BY <1>1
<1>3. QED
  BY <1>2, Zenon DEF Served

\* A read of a sector that read_sector does not refuse fails on the device
\* (fat32.c:49-58, block.c:9-11).
LEMMA FailureSeen ==
  ASSUME disk \in Disks, fs.mounted, Volume(fs), NEW s \in Nat, ~Refused(s), ReadFails(s)
  PROVE  faulted'
<1>1. BlockReadFails(fs.volume_start + s)
  BY DEF ReadFails
<1>2. InDevice(fs.volume_start + s)
  <2>1. Count(disk) \in Nat
    BY DisksAssumption
  <2>2. QED
    BY <2>1 DEF Refused, InDevice, Volume
<1>3. QED
  BY <1>1, <1>2 DEF BlockReadFails

\* A call that is under way has met no failing read.
LEMMA UnderWay ==
  ASSUME Inv, Told, Served, call.pc \in {"lookup"} \cup Walking
  PROVE  /\ disk \in Disks /\ fs.mounted /\ Volume(fs) /\ Shape(call) /\ Placed(call)
         /\ call.op \in {"list", "read"} /\ ~faulted /\ Course(disk, fs, call)
         /\ call.path \in Seq(Names)
<1>1. fs.mounted /\ Volume(fs) /\ disk \in Disks /\ Shape(call) /\ Placed(call)
  BY DEF Inv, Sound, Placed, Walking
<1>2. call.op \in {"list", "read"} /\ call.pc # "idle"
  BY DEF Told, Typed, Walking
<1>3. ~faulted /\ Course(disk, fs, call)
  BY <1>1, <1>2, Zenon DEF Served
<1>4. QED
  BY <1>1, <1>2, <1>3 DEF Course

\* lookup (fat32.c:237-284).
LEMMA LookupServed ==
  ASSUME Inv, Told, Served, Lookup
  PROVE  Served'
<1>1. /\ call.pc = "lookup" /\ call' = LookupNext(call) /\ disk' = disk /\ fs' = fs
      /\ UNCHANGED device
  BY DEF Lookup
<1>2. /\ fs.mounted /\ Volume(fs) /\ Shape(call) /\ call.op \in {"list", "read"}
      /\ ~faulted /\ Course(disk, fs, call)
  BY <1>1, UnderWay
<1>3. Course(disk, fs, LookupNext(call))
  BY <1>1, <1>2, LookupNextOn
<1>4. ~faulted'
  BY <1>1, <1>2, Zenon DEF device
<1>5. QED
  BY <1>1, <1>2, <1>3, <1>4, ServedKept

\* A sector of a directory (fat32.c:211-228).
LEMMA ScanServed ==
  ASSUME Inv, Told, Served, Scan
  PROVE  Served'
<1>1. PICK s : s = DataSector(call)
  OBVIOUS
<1>2. call.pc = "scan" /\ disk' = disk /\ fs' = fs
  BY DEF Scan
<1>3. /\ disk \in Disks /\ fs.mounted /\ Volume(fs) /\ Shape(call) /\ Placed(call)
      /\ call.op \in {"list", "read"} /\ ~faulted /\ Course(disk, fs, call)
      /\ call.path \in Seq(Names)
  BY <1>2, UnderWay DEF Walking
<1>4. s \in Nat /\ fs.volume_start \in Nat /\ ~Refused(s)
  <2>1. call.pc \in Walking
    BY <1>2 DEF Walking
  <2>2. s \in fs.data_start .. fs.total_sectors - 1 /\ ~Refused(s)
    BY <1>1, <1>3, <2>1, DataSectorInside, Zenon
  <2>3. QED
    BY <1>3, <2>2 DEF Volume
<1>5. \/ ReadOk(s) /\ call' = ScanEntries(call, RawsOf(s))
      \/ ReadFails(s) /\ call' = Return(call, "EIO")
  BY <1>1, Zenon DEF Scan
<1>6. CASE ReadOk(s) /\ call' = ScanEntries(call, RawsOf(s))
  <2>1. fs.volume_start + s \in 0 .. Sectors(disk) - 1
    BY <1>3, <1>4, <1>6, DisksAssumption DEF ReadOk, BlockReadOk
  <2>2. PICK raws : raws = RawsOf(s)
    OBVIOUS
  <2>3. \A k \in 0 .. EntriesPerSector - 1 :
          Raw(disk, fs.volume_start + s, k).kind = "entry"
            => /\ Raw(disk, fs.volume_start + s, k).first_cluster \in Nat
               /\ Raw(disk, fs.volume_start + s, k).size \in Nat
    BY <1>3, <2>1, DisksAssumption, Zenon
  <2>4. \A k \in 1 .. EntriesPerSector :
          raws[k].kind = "entry" => raws[k].first_cluster \in Nat /\ raws[k].size \in Nat
    <3>1. SUFFICES ASSUME NEW k \in 1 .. EntriesPerSector
                   PROVE  raws[k].kind = "entry"
                            => raws[k].first_cluster \in Nat /\ raws[k].size \in Nat
      OBVIOUS
    <3>2. k - 1 \in 0 .. EntriesPerSector - 1
      BY SizesFacts
    <3>3. raws[k] = Raw(disk, fs.volume_start + s, k - 1)
      BY <2>2 DEF RawsOf
    <3>4. QED
      BY <2>3, <3>2, <3>3, Zenon
  <2>5. Delivered(disk, fs, call, raws)
    <3>1. SUFFICES ASSUME NEW c, Walked(disk, fs, call, c)
                   PROVE  SlotsAre(disk, fs, Chain(disk, fs, c),
                                   EntriesPerSector * Done(fs, call), raws)
      BY DEF Delivered
    <3>2. call.pc \in {"scan", "copy"}
      BY <1>2
    <3>3. /\ Done(fs, call) \in Nat /\ Reaches(fs, Chain(disk, fs, c), Done(fs, call))
          /\ fs.volume_start + DataSector(call) = SectorAt(fs, Chain(disk, fs, c), Done(fs, call))
      BY <1>3, <3>1, <3>2, SectorIs
    <3>4. raws = [i \in 1 .. EntriesPerSector |->
                    Raw(disk, SectorAt(fs, Chain(disk, fs, c), Done(fs, call)), i - 1)]
      BY <1>1, <2>2, <3>3, Zenon DEF RawsOf
    <3>5. QED
      BY <3>3, <3>4, SlotsOfSector, Zenon
  <2>6. PICK S : raws \in Seq(S) /\ Len(raws) = EntriesPerSector
    <3>1. EntriesPerSector \in Nat
      BY SizesFacts
    <3>2. PICK S : S = {Raw(disk, fs.volume_start + s, k - 1) : k \in 1 .. EntriesPerSector}
      OBVIOUS
    <3>3. raws = [i \in 1 .. EntriesPerSector |-> Raw(disk, fs.volume_start + s, i - 1)]
      BY <2>2 DEF RawsOf
    <3>4. \A i \in 1 .. EntriesPerSector : Raw(disk, fs.volume_start + s, i - 1) \in S
      BY <3>2, Zenon
    <3>5. raws \in Seq(S) /\ Len(raws) = EntriesPerSector
      BY <3>1, <3>3, <3>4
    <3>6. QED
      BY <3>5
  <2>7. CASE call.purpose = "find"
    <3>1. Finding(disk, fs, call)
      BY <1>2, <1>3, <2>7 DEF Course
    <3>2. Done(fs, call) \in Nat
      BY <1>2, <1>3, <3>1, SectorIs DEF Finding
    <3>3. Course(disk, fs, ScanEntries(call, raws))
      BY <1>2, <1>3, <2>4, <2>5, <2>7, <3>1, <3>2, FindOn
    <3>4. QED
      BY <1>2, <1>3, <1>6, <2>2, <3>3, ServedKept, Zenon DEF ReadOk, BlockReadOk
  <2>8. CASE call.purpose # "find"
    <3>1. Collecting(disk, fs, call)
      BY <1>2, <1>3, <2>8 DEF Course
    <3>2. call.purpose = "list" /\ Done(fs, call) \in Nat
      BY <1>2, <1>3, <3>1, SectorIs DEF Collecting
    <3>3. Course(disk, fs, ScanEntries(call, raws))
      BY <1>2, <1>3, <2>5, <2>6, <3>1, <3>2, ListOn
    <3>4. QED
      BY <1>2, <1>3, <1>6, <2>2, <3>3, ServedKept, Zenon DEF ReadOk, BlockReadOk
  <2>9. QED
    BY <2>7, <2>8
<1>7. CASE ReadFails(s) /\ call' = Return(call, "EIO")
  BY <1>2, <1>3, <1>4, <1>7, FailureSeen, FailureServed
<1>8. QED
  BY <1>5, <1>6, <1>7

\* A sector of a file (fat32.c:473-488).
LEMMA CopyServed ==
  ASSUME Inv, Told, Served, Copy
  PROVE  Served'
<1>1. PICK s : s = DataSector(call)
  OBVIOUS
<1>2. call.pc = "copy" /\ disk' = disk /\ fs' = fs
  BY DEF Copy
<1>3. /\ disk \in Disks /\ fs.mounted /\ Volume(fs) /\ Shape(call) /\ Placed(call)
      /\ ~faulted /\ Course(disk, fs, call) /\ call.path \in Seq(Names)
  BY <1>2, UnderWay DEF Walking
<1>4. s \in Nat /\ ~Refused(s)
  <2>1. call.pc \in Walking
    BY <1>2 DEF Walking
  <2>2. s \in fs.data_start .. fs.total_sectors - 1 /\ ~Refused(s)
    BY <1>1, <1>3, <2>1, DataSectorInside, Zenon
  <2>3. QED
    BY <1>3, <2>2 DEF Volume
<1>5. \/ ReadOk(s) /\ call' = CopySector(call, BytesOf(s))
      \/ ReadFails(s) /\ call' = Return(call, "EIO")
  BY <1>1, Zenon DEF Copy
<1>6. CASE ReadOk(s) /\ call' = CopySector(call, BytesOf(s))
  <2>1. Copying(disk, fs, call)
    BY <1>2, <1>3 DEF Course
  <2>2. ASSUME NEW c, Walked(disk, fs, call, c)
        PROVE  /\ Done(fs, call) \in Nat /\ Reaches(fs, Chain(disk, fs, c), Done(fs, call))
               /\ fs.volume_start + DataSector(call)
                    = SectorAt(fs, Chain(disk, fs, c), Done(fs, call))
    BY <1>2, <1>3, <2>2, SectorIs
  <2>3. PICK bytes : bytes = BytesOf(s)
    OBVIOUS
  <2>4. Given(disk, fs, call, bytes)
    BY <1>1, <2>2, <2>3, Zenon DEF Given, BytesOf
  <2>5. Done(fs, call) \in Nat
    BY <2>1, <2>2 DEF Copying
  <2>6. Course(disk, fs, CopySector(call, bytes))
    BY <1>2, <1>3, <2>1, <2>4, <2>5, CopyOn
  <2>7. QED
    BY <1>2, <1>3, <1>6, <2>3, <2>6, ServedKept, Zenon DEF ReadOk, BlockReadOk
<1>7. CASE ReadFails(s) /\ call' = Return(call, "EIO")
  BY <1>2, <1>3, <1>4, <1>7, FailureSeen, FailureServed
<1>8. QED
  BY <1>5, <1>6, <1>7

\* The FAT, in either loop (fat32.c:68-98, 229-234, 489-495).
LEMMA NextClusterServed ==
  ASSUME Inv, Told, Served, NEW pc \in {"scan_next", "copy_next"}, NEW ended,
         NEW fault \in {"EIO", "EBADFS"}, next_cluster(pc, ended, fault),
         LinkRead(call.cluster) \in Nat
           => Course(disk, fs, AfterLink(call, LinkRead(call.cluster), ended))
  PROVE  Served'
<1>1. PICK c, s : c = call.cluster /\ s = LinkSector(c)
  OBVIOUS
<1>2. call.pc = pc /\ disk' = disk /\ fs' = fs
  BY DEF next_cluster
<1>3. /\ disk \in Disks /\ fs.mounted /\ Volume(fs) /\ Placed(call) /\ ~faulted
  BY <1>2, UnderWay DEF Walking
<1>4. c \in 2 .. fs.cluster_count + 1
  BY <1>1, <1>2, <1>3 DEF Placed, Walking
<1>5. PICK k : /\ k = (LinkOffset(c) % SectorBytes) \div LinkBytes /\ k \in 0 .. PerSector - 1
               /\ LinkInFat(c) /\ s \in fs.fat_start .. fs.data_start - 1 /\ ~Refused(s)
  BY <1>1, <1>3, <1>4, LinkInside, Zenon
<1>6. s \in Nat /\ fs.volume_start \in Nat
  BY <1>3, <1>5 DEF Volume
<1>7. \/ ReadOk(s) /\ call' = AfterLink(call, LinkRead(c), ended)
      \/ ReadFails(s) /\ call' = Return(call, fault)
  BY <1>1, <1>5, Zenon DEF next_cluster
<1>8. CASE ReadOk(s) /\ call' = AfterLink(call, LinkRead(c), ended)
  <2>1. fs.volume_start + s \in 0 .. Sectors(disk) - 1
    BY <1>3, <1>6, <1>8, DisksAssumption DEF ReadOk, BlockReadOk
  <2>2. Link(disk, fs.volume_start + s, k) \in Nat
    BY <1>3, <1>5, <2>1, DisksAssumption, Zenon
  <2>3. LinkRead(c) = Link(disk, fs.volume_start + s, k) % Clusters28
    BY <1>1, <1>5, Zenon DEF LinkRead
  <2>4. LinkRead(c) \in Nat
    BY <2>2, <2>3, SizesFacts
  <2>5. QED
    BY <1>1, <1>2, <1>3, <1>8, <2>4, ServedKept, Zenon DEF ReadOk, BlockReadOk
<1>9. CASE ReadFails(s) /\ call' = Return(call, fault)
  BY <1>2, <1>3, <1>5, <1>6, <1>9, FailureSeen, FailureServed
<1>10. QED
  BY <1>7, <1>8, <1>9

\* next_cluster for a directory and for a file.
LEMMA LinkServed ==
  ASSUME Inv, Told, Served, ScanNext \/ CopyNext
  PROVE  Served'
<1>1. call.pc \in {"scan_next", "copy_next"}
  BY DEF ScanNext, CopyNext, next_cluster
<1>2. /\ disk \in Disks /\ fs.mounted /\ Volume(fs) /\ Shape(call) /\ Course(disk, fs, call)
      /\ call.path \in Seq(Names)
  BY <1>1, UnderWay DEF Walking
<1>3. CASE ScanNext
  <2>1. PICK ended : ended = IF call.purpose = "find" THEN "ENOTFOUND" ELSE "OK"
    OBVIOUS
  <2>2. next_cluster("scan_next", ended, "EBADFS")
    BY <1>3, <2>1, Zenon DEF ScanNext, ScanFault
  <2>3. call.pc = "scan_next"
    BY <2>2 DEF next_cluster
  <2>4. ASSUME LinkRead(call.cluster) \in Nat
        PROVE  Course(disk, fs, AfterLink(call, LinkRead(call.cluster), ended))
    <3>1. CASE call.purpose = "find"
      <4>1. Finding(disk, fs, call)
        BY <1>2, <2>3, <3>1 DEF Course
      <4>2. QED
        BY <1>2, <2>1, <2>3, <2>4, <3>1, <4>1, FindLinkOn
    <3>2. CASE call.purpose # "find"
      <4>1. Collecting(disk, fs, call)
        BY <1>2, <2>3, <3>2 DEF Course
      <4>2. QED
        BY <1>2, <2>1, <2>3, <2>4, <3>2, <4>1, ListLinkOn
    <3>3. QED
      BY <3>1, <3>2
  <2>5. "scan_next" \in {"scan_next", "copy_next"} /\ "EBADFS" \in {"EIO", "EBADFS"}
    OBVIOUS
  <2>6. QED
    BY <2>2, <2>4, <2>5, NextClusterServed
<1>4. CASE CopyNext
  <2>1. next_cluster("copy_next", "EBADFS", "EIO")
    BY <1>4 DEF CopyNext
  <2>2. call.pc = "copy_next"
    BY <2>1 DEF next_cluster
  <2>3. Copying(disk, fs, call)
    BY <1>2, <2>2 DEF Course
  <2>4. LinkRead(call.cluster) \in Nat
          => Course(disk, fs, AfterLink(call, LinkRead(call.cluster), "EBADFS"))
    BY <1>2, <2>2, <2>3, CopyLinkOn
  <2>5. "copy_next" \in {"scan_next", "copy_next"} /\ "EIO" \in {"EIO", "EBADFS"}
    OBVIOUS
  <2>6. QED
    BY <2>1, <2>4, <2>5, NextClusterServed
<1>5. QED
  BY <1>3, <1>4

\* Mounting is none of these calls (fat32.c:286-413).
LEMMA MountServed ==
  ASSUME Inv, Told, MountBoot \/ MountPartition
  PROVE  Served'
<1> DEFINE t == [call EXCEPT !.pc = "partition"]
           u == [call EXCEPT !.candidate = call.candidate + 1]
<1>1. call.op = "mount" /\ Shape(call)
  BY DEF Inv, Sound, Told, Typed, MountBoot, MountPartition
<1>2. t.op = call.op /\ u.op = call.op
  BY <1>1 DEF Shape
<1>3. ASSUME NEW b, NEW start, NEW size, FinishMount(b, start, size)
      PROVE  call' \in {Return(call, "OK"), Return(call, "EBADFS")}
  BY <1>3 DEF FinishMount
<1>4. ASSUME NextCandidate PROVE call' \in {Return(call, "EBADFS"), u}
  BY <1>4 DEF NextCandidate
<1>5. call' \in {Return(call, "OK"), Return(call, "EBADFS"), Return(call, "EIO"), t, u}
  <2>1. CASE MountBoot
    BY <2>1, <1>3, Zenon DEF MountBoot
  <2>2. CASE MountPartition
    BY <2>2, <1>3, <1>4, Zenon DEF MountPartition
  <2>3. QED
    BY <2>1, <2>2
<1> HIDE DEF t, u
<1>6. call'.op = "mount"
  BY <1>1, <1>2, <1>5, ReturnIs
<1>7. QED
  BY <1>6 DEF Served

\* Every step of the file system.
LEMMA StepServed == Inv /\ Told /\ Served /\ Step => Served'
BY MountServed, LookupServed, ScanServed, CopyServed, LinkServed DEF Step, FsStep

\* ls and cat make a call (shell.c:183-197, fat32.c:415-452).
LEMMA EnterServed ==
  ASSUME Inv, NEW name, NEW op \in {"list", "read"}, NEW path \in Paths, Enter(name, op, path)
  PROVE  Served'
<1> DEFINE r == Ended(op, path, "OK", <<>>)
           t == [r EXCEPT !.pc = "lookup", !.capacity = CatBuffer, !.rest = path,
                          !.directory = fs.root_cluster]
<1>1. disk' = disk /\ fs' = fs /\ call' = Called(op, path, CatBuffer) /\ faulted' = FALSE
  BY DEF Enter
<1>2. Called(op, path, CatBuffer) = IF ~fs.mounted THEN Return(r, "EBADFS") ELSE t
  BY Zenon DEF Called
<1>3. t.pc = "lookup" /\ t.path = path /\ t.rest = path /\ t.out = <<>>
      /\ t.directory = fs.root_cluster
  BY DEF Ended
<1> HIDE DEF r, t
<1>4. CASE ~fs.mounted
  <2>1. call'.pc = "idle" /\ call'.result = "EBADFS"
    BY <1>1, <1>2, <1>4, ReturnIs
  <2>2. QED
    BY <1>1, <1>4, <2>1, Zenon DEF Served
<1>5. CASE fs.mounted
  <2>1. Volume(fs) /\ InChain(fs, fs.root_cluster)
    BY <1>5 DEF Inv, Volume, InChain
  <2>2. path \in Seq(Names) /\ Len(path) \in Nat
    BY PathsAssumption
  <2>3. PICK e : e = Along(disk, fs, path)[0]
    OBVIOUS
  <2>4. e = Root(fs)
    BY <2>2, <2>3, AlongIs
  <2>5. e.directory /\ e.first_cluster = fs.root_cluster
    BY <2>4 DEF Root
  <2>6. Stands(disk, fs, t, 0)
    <3>1. \A i \in 1 .. Len(path) : path[i] = path[0 + i]
      BY <2>2
    <3>2. Len(path) = 0 + Len(path)
      BY <2>2
    <3>3. QED
      BY <1>3, <2>1, <2>2, <2>3, <2>5, <3>1, <3>2, Zenon DEF Stands
  <2>7. Followed(disk, fs, t)
    BY <1>3, <2>2, <2>6 DEF Followed
  <2>8. Course(disk, fs, t)
    BY <1>3, <2>2, <2>7 DEF Course
  <2>9. call' = t /\ ~faulted'
    BY <1>1, <1>2, <1>5, Zenon
  <2>10. QED
    BY <1>1, <1>5, <2>8, <2>9, ServedKept
<1>6. QED
  BY <1>4, <1>5

\* No list or read is under way when the kernel starts.
LEMMA InitServed == Init => Served
<1>1. fat32_mount.op = "mount" /\ NoCall.op = "none"
  BY DEF fat32_mount, NoCall, Ended
<1>2. Init => call.op \in {"mount", "none"}
  BY <1>1 DEF Init
<1>3. QED
  BY <1>2 DEF Served

\* With Inv and Told, Served is inductive.
LEMMA NextServed == Inv /\ Told /\ Served /\ [Next]_vars => Served'
<1> SUFFICES ASSUME Inv, Told, Served, [Next]_vars PROVE Served'
  OBVIOUS
<1>1. CASE Banner \/ Report
  <2>1. call'.op = "none"
    BY <1>1 DEF Banner, Report, NoCall, Ended
  <2>2. QED
    BY <2>1 DEF Served
<1>2. CASE ls
  BY <1>2, EnterServed DEF ls
<1>3. CASE cat
  BY <1>3, EnterServed DEF cat
<1>4. CASE Step
  BY <1>4, StepServed
<1>5. CASE UNCHANGED vars
  <2>1. disk' = disk /\ fs' = fs /\ call' = call /\ faulted' = faulted
    BY <1>5, Zenon DEF vars, fsvars, device
  <2>2. QED
    BY <2>1, Zenon DEF Served
<1>6. QED
  BY <1>1, <1>2, <1>3, <1>4, <1>5 DEF Next

\* A call that has ended gives what is right.
LEMMA ServedGives == Told /\ Served => FileContents /\ ListingExact /\ ErrorsDeserved
<1> SUFFICES ASSUME Told, Served PROVE FileContents /\ ListingExact /\ ErrorsDeserved
  OBVIOUS
<1>1. ASSUME call.pc = "idle", call.op \in {"list", "read"}, call.result = "OK"
      PROVE  Deserved(disk, fs, call, call.result)
  <2>1. ~(call.result = "EBADFS") /\ ~(call.result \in {"EIO", "EBADFS"})
    BY <1>1
  <2>2. Course(disk, fs, call)
    BY <1>1, <2>1, Zenon DEF Served
  <2>3. QED
    BY <1>1, <2>2 DEF Course
<1>2. FileContents
  <2>1. SUFFICES ASSUME Answered("read"), call.result = "OK"
                 PROVE  LET named == Named(disk, fs, call.path) IN
                        /\ named # Missing /\ ~named.directory
                        /\ Holds(disk, fs, named.first_cluster, named.size, call.out)
    BY DEF FileContents
  <2>2. QED
    BY <1>1, <2>1 DEF Answered, Deserved
<1>3. ListingExact
  <2>1. SUFFICES ASSUME Answered("list"), call.result = "OK"
                 PROVE  LET named == Named(disk, fs, call.path) IN
                        named.directory /\ call.out = Listing(disk, fs, named.first_cluster)
    BY DEF ListingExact
  <2>2. QED
    BY <1>1, <2>1 DEF Answered, Deserved
<1>4. ErrorsDeserved
  <2>1. CASE ~(call.pc = "idle" /\ call.op \in {"list", "read"} /\ fs.mounted)
    BY <2>1, Zenon DEF ErrorsDeserved
  <2>2. CASE (call.pc = "idle" /\ call.op \in {"list", "read"} /\ fs.mounted) /\ faulted
    <3>1. call.result \in {"EIO", "EBADFS"}
      BY <2>2, Zenon DEF Served
    <3>2. call.result = "EIO" \/ call.result = "EBADFS"
      BY <3>1
    <3>3. QED
      BY <2>2, <3>2, Zenon DEF ErrorsDeserved
  <2>3. CASE (call.pc = "idle" /\ call.op \in {"list", "read"} /\ fs.mounted) /\ ~faulted
    <3>1. Course(disk, fs, call)
      BY <2>3, Zenon DEF Served
    <3>2. Deserved(disk, fs, call, call.result)
      BY <2>3, <3>1 DEF Course
    <3>3. QED
      BY <2>3, <3>2, Zenon DEF ErrorsDeserved, Deserved
  <2>4. QED
    BY <2>1, <2>2, <2>3
<1>5. QED
  BY <1>2, <1>3, <1>4

\* On every disk, whatever its FAT and directories hold, for every path, and
\* wherever the device fails: a read of a file that succeeds has copied exactly the
\* bytes of the file the path names (fat32.c:237-284, 435-499).
THEOREM ReadsTheFile == Spec => []FileContents
<1>1. Inv /\ Told /\ Served /\ [Next]_vars => (Inv /\ Told /\ Served)'
  BY NextKeeps, NextTold, NextServed
<1>2. QED
  BY <1>1, InitSound, InitTold, InitServed, ServedGives, PTL DEF Spec

\* On every disk and for every path, a listing that succeeds is the directory the
\* path names, whole and in order (fat32.c:197-235, 415-433).
THEOREM ListsTheDirectory == Spec => []ListingExact
<1>1. Inv /\ Told /\ Served /\ [Next]_vars => (Inv /\ Told /\ Served)'
  BY NextKeeps, NextTold, NextServed
<1>2. QED
  BY <1>1, InitSound, InitTold, InitServed, ServedGives, PTL DEF Spec

\* On every disk and for every path, an error of ls or cat is what is wrong on the
\* disk, with the path or with the device, and a failed read never passes for an
\* answer (fat32.c:209, 229-230, 237-284, 455-495).
THEOREM ErrorsAreDeserved == Spec => []ErrorsDeserved
<1>1. Inv /\ Told /\ Served /\ [Next]_vars => (Inv /\ Told /\ Served)'
  BY NextKeeps, NextTold, NextServed
<1>2. QED
  BY <1>1, InitSound, InitTold, InitServed, ServedGives, PTL DEF Spec
=============================================================================
