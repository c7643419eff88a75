------------------------------- MODULE MCShell -------------------------------
(* Shell with sectors of two bytes, each two FAT entries or two directory   *)
(* entries.  The volume has six clusters of one or two sectors, at sector 0 *)
(* or in a partition, or as many clusters as fat32_mount accepts.           *)
EXTENDS Shell, TLC

End == 24    \* EndMark of Wide = 512
Bad == 23

None4 == [i \in 1 .. 4 |-> [start |-> 0, size |-> 0, conventional |-> FALSE]]
Blank ==
  [signed |-> TRUE, bytes_per_sector |-> 0, sectors_per_cluster |-> 0,
   reserved_sectors |-> 0, fats |-> 0, legacy_zero |-> FALSE, total_sectors |-> 0,
   fat_size |-> 0, extended_valid |-> FALSE, root_cluster |-> 0, partitions |-> None4]

\* A volume of six clusters of spc sectors, with one FAT.
Record(spc) ==
  [Blank EXCEPT !.bytes_per_sector = 2, !.sectors_per_cluster = spc,
     !.reserved_sectors = 1, !.fats = 1, !.legacy_zero = TRUE, !.fat_size = 4,
     !.total_sectors = 5 + 6 * spc, !.extended_valid = TRUE, !.root_cluster = 2]

Good == [c \in 2 .. 7 |-> CASE c = 2 -> 3 [] c = 4 -> 5 [] OTHER -> End]

\* Clusters 2 and 3 are the root, 4 and 5 the file F, 6 the directory D, 7 a
\* file in it.
Skip == [kind |-> "skip"]
Mark == [kind |-> "end"]
File(name, size, first) == [kind |-> "entry", name |-> name, directory |-> FALSE,
                            size |-> size, first_cluster |-> first]
Dir(name, first) == [kind |-> "entry", name |-> name, directory |-> TRUE,
                     size |-> 0, first_cluster |-> first]
Slots(spc) ==
  IF spc = 1
  THEN << Dir("B", 8), File("F", 3, 4), Dir("D", 6), File("Z", 0, 0), Skip, Skip, Skip, Skip,
          Dir("..", 0), File("F", 2, 7), Mark, Mark >>
  ELSE << Skip, Skip, File("F", 5, 4), Dir("D", 6), File("Z", 0, 0), Dir("B", 8), Mark,
          File("F", 1, 7), Skip, Skip, Skip, Skip, Skip, Skip, Skip, Skip,
          Dir("..", 0), Skip, File("F", 9, 7), Mark, Mark, Mark, Mark, Mark >>

\* A disk is its kind and a few numbers.  <<spc, a, v, b, w>> is a volume at
\* sector 0 whose FAT differs from the good one in the links of a and b.
Damaged == {1, 2} \X (2 .. 7) \X {0, 2, 3, 7, 8, Bad} \X {3, 5, 7} \X {2, 4, 6, End}

\* <<r>> is a volume at sector 0 with the boot record Wrong[r].
Wrong ==
  << [Record(1) EXCEPT !.fat_size = 3, !.total_sectors = 10],
     [Record(1) EXCEPT !.root_cluster = 8], [Record(1) EXCEPT !.root_cluster = 34],
     [Record(1) EXCEPT !.fats = 2], [Record(1) EXCEPT !.total_sectors = 5],
     [Record(1) EXCEPT !.fat_size = 5, !.total_sectors = 12, !.root_cluster = 7],
     [Record(1) EXCEPT !.extended_valid = FALSE],
     [Record(1) EXCEPT !.sectors_per_cluster = 3], [Blank EXCEPT !.signed = FALSE] >>

\* <<count, p, q, r, t>> has a partition table with two partitions in use, at
\* sectors 1 and 13, which hold the boot records r and t; the rest of the
\* volume's sectors is at the first.
Part(start, size, conventional) ==
  [start |-> start, size |-> size, conventional |-> conventional]
First == << Part(1, 11, TRUE), Part(1, 11, FALSE), Part(1, 0, FALSE), Part(1, 9, TRUE) >>
Second == << Part(13, 11, TRUE), Part(13, 11, FALSE), Part(13, 20, TRUE) >>
Records == << Blank, Record(1), [Record(1) EXCEPT !.extended_valid = FALSE],
              [Record(1) EXCEPT !.total_sectors = 15] >>
Partitioned == {0, 20, 25} \X (1 .. 4) \X (1 .. 3) \X (1 .. 4) \X (1 .. 4)

\* A partition with a volume, after a sector 0 that looks like one and is not.
Both == [Record(1) EXCEPT !.extended_valid = FALSE, !.partitions[2] = First[1]]

\* <<a, b>> is a volume of 21 clusters, the last of which, from 16 on, have the
\* numbers of reserved values, and the last two sectors numbers of more than 28
\* bits (32 and 33 here), on a disk that does not say how large it is.  a and b are the links of the file F, at 17, and of
\* the directory D, at 20.
Large == [Record(1) EXCEPT !.fat_size = 12, !.total_sectors = 34]
LargeSlots == <<2, 0>> :> Dir("D", 20) @@ <<2, 1>> :> File("F", 3, 17)
              @@ <<20, 0>> :> Skip @@ <<20, 1>> :> File("F", 2, 22)

MCDisks == {<<"volume">> \o d : d \in Damaged} \cup {<<"wrong", r>> : r \in DOMAIN Wrong}
           \cup {<<"partitioned">> \o d : d \in Partitioned}
           \cup {<<"both">>} \cup {"large"} \X {15, 16, 18, Bad, End} \X {15, 16, 22, End}

Spc(d) == IF d[1] = "volume" THEN d[2] ELSE 1
Base(d) == IF d[1] \in {"partitioned", "both"} THEN 1 ELSE 0
LinksOf(d) == CASE d[1] = "volume" -> [Good EXCEPT ![d[3]] = d[4], ![d[5]] = d[6]]
                [] d[1] = "large" -> [c \in 2 .. 22 |-> CASE c = 17 -> d[2] [] c = 20 -> d[3]
                                                           [] OTHER -> End]
                [] OTHER -> Good

MCSectors(d) == CASE d[1] \in {"partitioned", "both"} -> 25 [] d[1] = "large" -> 34
                  [] OTHER -> 5 + 6 * Spc(d)
MCCount(d) == CASE d[1] = "partitioned" -> d[2] [] d[1] = "large" -> 0
                [] OTHER -> MCSectors(d)
MCBoot(d, s) ==
  CASE d[1] = "volume" /\ s = 0 -> Record(d[2])
    [] d[1] = "large" /\ s = 0 -> Large
    [] d[1] = "wrong" /\ s = 0 -> Wrong[d[2]]
    [] d[1] = "both" /\ s = 0 -> Both
    [] d[1] = "both" /\ s = 1 -> Record(1)
    [] d[1] = "partitioned" /\ s = 0 ->
         [Blank EXCEPT !.partitions = [None4 EXCEPT ![2] = First[d[3]], ![3] = Second[d[4]]]]
    [] d[1] = "partitioned" /\ s = 1 -> Records[d[5]]
    [] d[1] = "partitioned" /\ s = 13 -> Records[d[6]]
    [] OTHER -> Blank
MCLink(d, s, i) ==
  LET c == (s - Base(d) - 1) * 2 + i IN IF c \in DOMAIN LinksOf(d) THEN LinksOf(d)[c] ELSE 0
MCRaw(d, s, i) ==
  LET k == (s - Base(d) - 5) * 2 + i + 1
      slots == Slots(Spc(d))
  IN IF d[1] = "large"
     THEN IF <<s - 11, i>> \in DOMAIN LargeSlots THEN LargeSlots[<<s - 11, i>>] ELSE Mark
     ELSE IF k \in DOMAIN slots THEN slots[k] ELSE Mark
MCByte(d, s, i) == 2 * s + i

MCNames == {"F", "D", "X", "Z", "B", ".", "..", "long"}
MCPaths ==
  {<<>>, <<"F">>, <<"D">>, <<"X">>, <<"Z">>, <<"B">>, <<"D", "F">>, <<"F", "D">>,
   <<".", "F">>, <<"D", ".">>, <<"D", "..">>, <<"D", "..", "F">>, <<"long">>}
=============================================================================
