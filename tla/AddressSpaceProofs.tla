------------------------- MODULE AddressSpaceProofs -------------------------
(***************************************************************************)
(* The page directories and tables for every number of entries, every page *)
(* size, every set of memory pages and any number of processes and of      *)
(* calls of map_page.  Tables are shared between the directories, so what  *)
(* keeps user processes and the kernel apart is an invariant of the whole  *)
(* memory: which pages are directories, which are tables, and which entry  *)
(* of a table may carry USER.                                              *)
(***************************************************************************)
EXTENDS AddressSpace, TLAPS

-----------------------------------------------------------------------------
(* Arithmetic of virtual pages and byte addresses.                         *)

\* A quotient and a remainder are determined by the division they make up.
LEMMA DivisionUnique ==
  ASSUME NEW x \in Nat, NEW b \in Nat \ {0}, NEW q \in Nat, NEW r \in 0 .. b - 1,
         x = b * q + r
  PROVE  x \div b = q /\ x % b = r
<1> DEFINE d == x \div b
           m == x % b
<1>1. d \in Int /\ m \in 0 .. b - 1 /\ x = b * d + m
  OBVIOUS
<1> HIDE DEF d, m
<1>2. ~(d > q)
  <2> SUFFICES ASSUME d > q PROVE FALSE
    OBVIOUS
  <2>1. PICK k \in Nat : d = q + 1 + k
    <3>1. d - (q + 1) \in Nat /\ d = q + 1 + (d - (q + 1))
      BY <1>1
    <3>2. QED
      BY <3>1
  <2>2. b * d = b * q + b + b * k /\ b * k \in Nat /\ b * q \in Nat
    BY <2>1
  <2>3. QED
    BY <1>1, <2>2
<1>3. ~(d < q)
  <2> SUFFICES ASSUME d < q PROVE FALSE
    OBVIOUS
  <2>1. PICK k \in Nat : q = d + 1 + k
    <3>1. q - (d + 1) \in Nat /\ q = d + 1 + (q - (d + 1))
      BY <1>1
    <3>2. QED
      BY <3>1
  <2>2. b * q = b * d + b + b * k /\ b * k \in Nat /\ b * d \in Int
    BY <1>1, <2>1
  <2>3. QED
    BY <1>1, <2>2
<1>4. d = q
  BY <1>1, <1>2, <1>3
<1>5. b * d = b * q
  BY <1>4
<1>6. b * q \in Nat
  OBVIOUS
<1>7. m = r
  BY <1>1, <1>5, <1>6
<1>8. QED
  BY <1>4, <1>7 DEF d, m

\* Every number has a quotient and a remainder.
LEMMA Division ==
  ASSUME NEW x \in Nat, NEW b \in Nat \ {0}
  PROVE  /\ x \div b \in Nat /\ x % b \in 0 .. b - 1
         /\ x = b * (x \div b) + (x % b)
<1> DEFINE q == x \div b
           r == x % b
<1>1. q \in Int /\ r \in 0 .. b - 1 /\ x = b * q + r
  OBVIOUS
<1>2. q >= 0
  OBVIOUS
<1> HIDE DEF q, r
<1>3. q \in Nat /\ r \in 0 .. b - 1 /\ x = b * q + r
  BY <1>1, <1>2
<1>4. QED
  BY <1>3, Zenon DEF q, r

\* The quotient of a number below a multiple is below the factor.
LEMMA QuotientBound ==
  ASSUME NEW x \in Nat, NEW b \in Nat \ {0}, NEW k \in Nat, x < b * k
  PROVE  x \div b < k
<1> DEFINE q == x \div b
           r == x % b
<1>1. q \in Nat /\ r \in 0 .. b - 1 /\ x = b * q + r
  BY Division
<1> HIDE DEF q, r
<1> SUFFICES ASSUME q >= k PROVE FALSE
  BY <1>1 DEF q
<1>2. PICK j \in Nat : q = k + j
  <2>1. q - k \in Nat /\ q = k + (q - k)
    BY <1>1
  <2>2. QED
    BY <2>1
<1>3. b * q = b * k + b * j /\ b * j \in Nat /\ b * k \in Nat
  BY <1>2
<1>4. QED
  BY <1>1, <1>3

\* The number of directory entries below the user limit.
UserEntries == Entries - Entries \div 4

\* The layout in numbers: the limit lies above the identity tables and below
\* the recursive entry (paging.c:50, 106).
LEMMA Layout ==
  /\ Entries \in Nat /\ Entries >= 8 /\ Entries \in Nat \ {0}
  /\ UserEntries \in Nat /\ UserEntries >= 3 /\ UserEntries < Entries - 1
  /\ \A t \in Tables : t \in Nat /\ t < UserEntries - 1
  /\ 0 \in Tables /\ 1 \in Tables /\ Recursive \notin Tables
  /\ Index = 0 .. Entries - 1 /\ Tables \subseteq Index /\ Recursive \in Index
<1>1. Entries \in Nat /\ Entries >= 8 /\ 4 \in Nat \ {0}
  BY LayoutAssumption
<1> DEFINE q == Entries \div 4
           r == Entries % 4
<1>2. q \in Nat /\ r \in 0 .. 4 - 1 /\ Entries = 4 * q + r
  BY <1>1, Division
<1>3. UserEntries = Entries - q /\ Tables \subseteq 0 .. Entries - q - 2
  BY LayoutAssumption DEF UserEntries
<1> HIDE DEF q, r
<1>4. q >= 2 /\ q =< Entries - 3
  BY <1>1, <1>2
<1>5. QED
  BY <1>1, <1>2, <1>3, <1>4, LayoutAssumption DEF Index, Recursive

\* Entry and slot of the pages the processes use, and of any page of a table.
LEMMA PagePlaces ==
  /\ UserCodePage \div Entries = 1 /\ UserCodePage % Entries = 0
  /\ UserStackPage \div Entries = 1 /\ UserStackPage % Entries = Entries - 1
  /\ \A t \in Nat, i \in Index :
       (t * Entries + i) \div Entries = t /\ (t * Entries + i) % Entries = i
<1>1. Entries \in Nat \ {0} /\ Entries >= 8
  BY Layout
<1>2. UserCodePage \div Entries = 1 /\ UserCodePage % Entries = 0
  <2>1. UserCodePage \in Nat /\ UserCodePage = Entries * 1 + 0 /\ 0 \in 0 .. Entries - 1
    BY <1>1 DEF UserCodePage
  <2>2. QED
    BY <1>1, <2>1, DivisionUnique
<1>3. UserStackPage \div Entries = 1 /\ UserStackPage % Entries = Entries - 1
  <2>1. UserStackPage \in Nat /\ UserStackPage = Entries * 1 + (Entries - 1)
        /\ Entries - 1 \in 0 .. Entries - 1
    BY <1>1 DEF UserStackPage
  <2>2. QED
    BY <1>1, <2>1, DivisionUnique
<1>4. ASSUME NEW t \in Nat, NEW i \in Index
      PROVE  (t * Entries + i) \div Entries = t /\ (t * Entries + i) % Entries = i
  <2> DEFINE x == t * Entries + i
  <2>1. x \in Nat /\ x = Entries * t + i /\ i \in 0 .. Entries - 1
    BY <1>1 DEF Index
  <2> HIDE DEF x
  <2>2. x \div Entries = t /\ x % Entries = i
    BY <1>1, <2>1, DivisionUnique
  <2>3. QED
    BY <2>2 DEF x
<1>5. QED
  BY <1>2, <1>3, <1>4

\* Any virtual page has an entry and a slot.
LEMMA VirtualPlace ==
  ASSUME NEW v \in VirtualPages
  PROVE  v \in Nat /\ v \div Entries \in Index /\ v % Entries \in Index
<1>1. Entries \in Nat \ {0} /\ Entries * Entries \in Nat
  BY Layout
<1>2. v \in Nat /\ v < Entries * Entries
  BY <1>1 DEF VirtualPages
<1>3. v \div Entries \in Nat /\ v % Entries \in 0 .. Entries - 1
  BY <1>1, <1>2, Division
<1>4. v \div Entries < Entries
  BY <1>1, <1>2, QuotientBound
<1>5. QED
  BY <1>1, <1>2, <1>3, <1>4 DEF Index

\* The pages map_page is called for lie between the identity tables and the
\* recursive entry.
LEMMA ApiPlaces ==
  /\ UserLimit = PageBytes * (UserEntries * Entries)
  /\ \A v \in ApiPages : /\ v \in VirtualPages
                         /\ v \div Entries \notin Tables \cup {Recursive}
<1>1. /\ Entries \in Nat \ {0} /\ PageBytes \in Nat \ {0}
      /\ UserEntries \in Nat /\ UserEntries >= 3 /\ UserEntries < Entries - 1
  BY Layout, LayoutAssumption
<1> DEFINE K == UserEntries * Entries
<1>2. K \in Nat
  BY <1>1
<1>3. UserLimit = PageBytes * K
  BY <1>1 DEF UserLimit, UserEntries
<1>4. UserLimit \div PageBytes = K
  <2>1. UserLimit \in Nat /\ UserLimit = PageBytes * K + 0 /\ 0 \in 0 .. PageBytes - 1
    <3> HIDE DEF K
    <3>1. QED
      BY <1>1, <1>2, <1>3
  <2> HIDE DEF K
  <2>2. QED
    BY <1>1, <1>2, <2>1, DivisionUnique
<1>5. K - 1 \in Nat /\ K = Entries * UserEntries + 0 /\ K - 1 = Entries * (UserEntries - 1) + (Entries - 1)
  BY <1>1
<1>6. K \div Entries = UserEntries
  <2> HIDE DEF K
  <2>1. 0 \in 0 .. Entries - 1
    BY <1>1
  <2>2. QED
    BY <1>1, <1>2, <1>5, <2>1, DivisionUnique
<1>7. (K - 1) \div Entries = UserEntries - 1
  <2> HIDE DEF K
  <2>1. Entries - 1 \in 0 .. Entries - 1 /\ UserEntries - 1 \in Nat
    BY <1>1
  <2>2. QED
    BY <1>1, <1>2, <1>5, <2>1, DivisionUnique
<1>8. K < Entries * Entries
  <2>1. PICK k \in Nat : Entries = UserEntries + 1 + k
    <3>1. Entries - (UserEntries + 1) \in Nat /\ Entries = UserEntries + 1 + (Entries - (UserEntries + 1))
      BY <1>1
    <3>2. QED
      BY <3>1
  <2>2. Entries * Entries = UserEntries * Entries + Entries + k * Entries /\ k * Entries \in Nat
    BY <1>1, <2>1
  <2>3. QED
    BY <1>1, <2>2
<1>9. K \in VirtualPages /\ K - 1 \in VirtualPages
  <2>1. Entries * Entries \in Nat
    BY <1>1
  <2> HIDE DEF K
  <2>2. QED
    BY <1>2, <1>5, <1>8, <2>1 DEF VirtualPages
<1>10. UserEntries \notin Tables \cup {Recursive} /\ UserEntries - 1 \notin Tables \cup {Recursive}
  BY <1>1, Layout DEF Recursive
<1>11. ApiPages = {K - 1, K}
  BY <1>4 DEF ApiPages
<1> HIDE DEF K
<1>12. \A v \in ApiPages : v \in VirtualPages /\ v \div Entries \notin Tables \cup {Recursive}
  BY <1>6, <1>7, <1>9, <1>10, <1>11
<1>13. QED
  BY <1>3, <1>12 DEF K

-----------------------------------------------------------------------------
(* The inductive invariant.                                                *)

Entry == [page : Nat, present : BOOLEAN, user : BOOLEAN]
Memories == [TablePages -> [Index -> Entry]]

\* The directory entries that init_paging leaves empty.
Spare == Index \ (Tables \cup {Recursive})

\* An entry of a table that ring 3 may use leads to a page granted to it.
OnlyGranted(m, g, t) == \A j \in Index : m[t][j].user => m[t][j].page \in g

\* Directory d maps itself and the identity tables; every other entry is empty
\* or leads to a table that is nothing else besides (paging.c:55-97).
DirectorySound(m, f, D, g, d) ==
  /\ m[d][Recursive] = Mapped(d, FALSE)
  /\ \A t \in Tables : m[d][t].page = IdentityTable[t] /\ m[d][t].present
  /\ \A i \in Spare :
       \/ m[d][i] = Absent
       \/ /\ m[d][i].present /\ m[d][i].page \in PmmPages \ (f \cup g \cup D)
          /\ OnlyGranted(m, g, m[d][i].page)

\* An identity mapping is as init_paging made it, but for the two pages of the
\* user process created last (paging.c:32-53, process.c:134-135).
IdentitySound(m, g, t, i) ==
  \/ m[IdentityTable[t]][i] = IdentityEntry(t, i)
  \/ /\ t = 1 /\ i \in {0, Entries - 1}
     /\ m[IdentityTable[t]][i].present /\ m[IdentityTable[t]][i].page \in g

\* For memory m, free pages f, directories D and granted pages g.
Sound(m, f, D, g) ==
  /\ m \in Memories
  /\ f \subseteq PmmPages
  /\ D \subseteq {PageDirectory} \cup PmmPages /\ D \cap f = {} /\ PageDirectory \in D
  /\ g \subseteq PmmPages /\ g \cap f = {} /\ g \cap D = {}
  /\ \A d \in D : DirectorySound(m, f, D, g, d)
  /\ \A t \in Tables, i \in Index : IdentitySound(m, g, t, i)

Inv == Sound(mem, free, Directories, granted)

-----------------------------------------------------------------------------
(* What each operation on the memory does to it.                           *)

\* The static pages are pages of tables, and none of them is the allocator's.
LEMMA StaticPages ==
  /\ PageDirectory \in TablePages /\ PageDirectory \notin PmmPages /\ PmmPages \subseteq TablePages
  /\ \A t \in Tables : /\ IdentityTable[t] \in TablePages /\ IdentityTable[t] \in Nat
                       /\ IdentityTable[t] \notin PmmPages \cup {PageDirectory}
  /\ \A t, u \in Tables : IdentityTable[t] = IdentityTable[u] => t = u
  /\ TablePages \subseteq Nat \ {0} /\ PmmPages \subseteq Nat \ {0}
BY LayoutAssumption DEF TablePages

\* Entries are entries.
LEMMA EntryTypes ==
  /\ Absent \in Entry
  /\ \A p \in Nat, b \in BOOLEAN : Mapped(p, b) \in Entry
BY DEF Absent, Mapped, Entry, Null

\* Pages leave the allocator, some of them for ring 3.
LEMMA Granting ==
  ASSUME NEW m, NEW f, NEW D, NEW g, Sound(m, f, D, g),
         NEW e \in SUBSET f, NEW x \in SUBSET (f \ e)
  PROVE  Sound(m, e, D, g \cup x)
<1>1. ASSUME NEW d \in D PROVE DirectorySound(m, e, D, g \cup x, d)
  <2>1. DirectorySound(m, f, D, g, d)
    BY DEF Sound
  <2>2. ASSUME NEW i \in Spare, m[d][i].page \in PmmPages \ (f \cup g \cup D)
        PROVE  m[d][i].page \in PmmPages \ (e \cup (g \cup x) \cup D)
    BY <2>2
  <2>3. ASSUME NEW i \in Spare, OnlyGranted(m, g, m[d][i].page)
        PROVE  OnlyGranted(m, g \cup x, m[d][i].page)
    BY <2>3 DEF OnlyGranted
  <2>4. QED
    BY <2>1, <2>2, <2>3 DEF DirectorySound
<1>2. ASSUME NEW t \in Tables, NEW i \in Index PROVE IdentitySound(m, g \cup x, t, i)
  BY DEF Sound, IdentitySound
<1>3. QED
  BY <1>1, <1>2 DEF Sound

\* A page of the allocator is overwritten.
LEMMA WriteFreePage ==
  ASSUME NEW m, NEW f, NEW D, NEW g, Sound(m, f, D, g),
         NEW p \in f, NEW contents \in [Index -> Entry]
  PROVE  Sound([m EXCEPT ![p] = contents], f \ {p}, D, g)
<1> DEFINE n == [m EXCEPT ![p] = contents]
<1>1. /\ m \in Memories /\ p \in TablePages /\ p \in PmmPages /\ p \notin D
  BY StaticPages DEF Sound
<1>2. n \in Memories /\ \A q \in TablePages : q # p => n[q] = m[q]
  BY <1>1 DEF Memories
<1> HIDE DEF n
<1>3. ASSUME NEW d \in D PROVE DirectorySound(n, f \ {p}, D, g, d)
  <2>1. DirectorySound(m, f, D, g, d) /\ d \in TablePages /\ d # p
    BY <1>1, StaticPages DEF Sound
  <2>2. n[d] = m[d]
    BY <1>2, <2>1
  <2>3. ASSUME NEW i \in Spare, m[d][i].page \in PmmPages \ (f \cup g \cup D)
        PROVE  n[m[d][i].page] = m[m[d][i].page] /\ m[d][i].page \in PmmPages \ ((f \ {p}) \cup g \cup D)
    BY <1>1, <1>2, <2>3, StaticPages
  <2>4. ASSUME NEW i \in Spare, m[d][i] # Absent
        PROVE  /\ m[d][i].present /\ m[d][i].page \in PmmPages \ ((f \ {p}) \cup g \cup D)
               /\ OnlyGranted(n, g, m[d][i].page)
    <3>1. /\ m[d][i].present /\ m[d][i].page \in PmmPages \ (f \cup g \cup D)
          /\ OnlyGranted(m, g, m[d][i].page)
      BY <2>1, <2>4 DEF DirectorySound
    <3>2. QED
      BY <2>3, <3>1 DEF OnlyGranted
  <2>5. QED
    BY <2>1, <2>2, <2>4 DEF DirectorySound
<1>4. ASSUME NEW t \in Tables, NEW i \in Index PROVE IdentitySound(n, g, t, i)
  <2>1. n[IdentityTable[t]] = m[IdentityTable[t]]
    BY <1>1, <1>2, StaticPages
  <2>2. QED
    BY <2>1 DEF Sound, IdentitySound
<1>5. QED
  BY <1>2, <1>3, <1>4 DEF Sound, n

\* create_page_directory: the new directory is as sound as page_directory, on
\* whose tables it rests (paging.c:87-97).
LEMMA AddDirectory ==
  ASSUME NEW m, NEW f, NEW D, NEW g, Sound(m, f, D, g), NEW p \in f, NEW contents,
         contents = [m[PageDirectory] EXCEPT ![Recursive] = Mapped(p, FALSE)]
  PROVE  /\ Sound([m EXCEPT ![p] = contents], f \ {p}, D, g)
         /\ Sound([m EXCEPT ![p] = contents], f \ {p}, D \cup {p}, g)
<1> DEFINE n == [m EXCEPT ![p] = contents]
<1>1. /\ m \in Memories /\ p \in TablePages /\ p \in PmmPages /\ p \notin D /\ p \notin g
      /\ p \in Nat /\ Recursive \in Index
  BY StaticPages, Layout DEF Sound
<1>2. /\ contents \in [Index -> Entry] /\ contents[Recursive] = Mapped(p, FALSE)
      /\ \A i \in Index : i # Recursive => contents[i] = m[PageDirectory][i]
  <2>1. m[PageDirectory] \in [Index -> Entry] /\ Mapped(p, FALSE) \in Entry
    BY <1>1, StaticPages, EntryTypes DEF Memories
  <2>2. QED
    BY <1>1, <2>1
<1>3. Sound(n, f \ {p}, D, g)
  BY <1>2, WriteFreePage
<1>4. n \in Memories /\ n[p] = contents /\ \A q \in TablePages : q # p => n[q] = m[q]
  BY <1>1, <1>2 DEF Memories
<1> HIDE DEF n
<1>5. ASSUME NEW d \in D \cup {p} PROVE DirectorySound(n, f \ {p}, D \cup {p}, g, d)
  <2>1. PICK old \in D : /\ n[d][Recursive] = Mapped(d, FALSE)
                         /\ \A i \in Index : i # Recursive => n[d][i] = m[old][i]
    <3>1. CASE d = p
      <4>1. PageDirectory \in D
        BY DEF Sound
      <4>2. QED
        BY <1>2, <1>4, <3>1, <4>1
    <3>2. CASE d # p
      <4>1. d \in D /\ d \in TablePages
        BY <3>2, StaticPages DEF Sound
      <4>2. n[d] = m[d]
        BY <1>4, <3>2, <4>1
      <4>3. n[d][Recursive] = Mapped(d, FALSE)
        BY <1>3, <4>1 DEF Sound, DirectorySound
      <4>4. QED
        BY <4>1, <4>2, <4>3
    <3>3. QED
      BY <3>1, <3>2
  <2>2. DirectorySound(m, f, D, g, old)
    BY <2>1 DEF Sound
  <2>3. ASSUME NEW t \in Tables PROVE n[d][t].page = IdentityTable[t] /\ n[d][t].present
    BY <2>1, <2>2, Layout DEF DirectorySound
  <2>4. ASSUME NEW i \in Spare, n[d][i] # Absent
        PROVE  /\ n[d][i].present /\ n[d][i].page \in PmmPages \ ((f \ {p}) \cup g \cup (D \cup {p}))
               /\ OnlyGranted(n, g, n[d][i].page)
    <3>1. n[d][i] = m[old][i]
      BY <2>1 DEF Spare
    <3>2. /\ n[d][i].present /\ n[d][i].page \in PmmPages \ (f \cup g \cup D)
          /\ OnlyGranted(m, g, n[d][i].page)
      BY <2>2, <2>4, <3>1 DEF DirectorySound
    <3>3. n[n[d][i].page] = m[n[d][i].page]
      BY <1>4, <3>2, StaticPages
    <3>4. QED
      BY <3>2, <3>3 DEF OnlyGranted
  <2>5. QED
    BY <2>1, <2>3, <2>4 DEF DirectorySound
<1>6. Sound(n, f \ {p}, D \cup {p}, g)
  BY <1>1, <1>3, <1>5 DEF Sound
<1>7. QED
  BY <1>3, <1>6 DEF n

\* Memory n is m with entry e in slot ti of table t, and the user flag of
\* directory entry di, which leads to that table, as it may be.
Writes(m, n, d, di, t, ti, e) ==
  /\ n \in Memories
  /\ \A q \in TablePages : q \notin {d, t} => n[q] = m[q]
  /\ \A i \in Index : i # di => n[d][i] = m[d][i]
  /\ n[d][di].page = t /\ n[d][di].present = m[d][di].present
  /\ n[t][ti] = e
  /\ \A j \in Index : j # ti => n[t][j] = m[t][j]

\* map_page_in with a table that is there writes one entry of that table and
\* the user flag of the directory entry (paging.c:64-67, 76).
LEMMA MapInTableEffect ==
  ASSUME NEW m \in Memories, NEW d \in TablePages, NEW v, NEW page \in Nat,
         NEW user \in BOOLEAN, v \div Entries \in Index, v % Entries \in Index,
         m[d][v \div Entries].page \in TablePages \ {d}
  PROVE  Writes(m, MapInTable(m, d, v, page, user), d, v \div Entries,
                m[d][v \div Entries].page, v % Entries, Mapped(page, user))
<1> DEFINE di == v \div Entries
           ti == v % Entries
           t == m[d][di].page
           n == MapInTable(m, d, v, page, user)
           e == [m[d][di] EXCEPT !.user = @ \/ user]
           dir == [m[d] EXCEPT ![di] = e]
           tab == [m[t] EXCEPT ![ti] = Mapped(page, user)]
<1>1. di \in Index /\ ti \in Index /\ t \in TablePages /\ t # d
  OBVIOUS
<1>2. m[d] \in [Index -> Entry] /\ m[t] \in [Index -> Entry] /\ m[d][di] \in Entry
  BY <1>1 DEF Memories
<1>3. e \in Entry /\ e.page = t /\ e.present = m[d][di].present
  BY <1>2 DEF Entry
<1>4. Mapped(page, user) \in Entry
  BY EntryTypes
<1>5. n = [[m EXCEPT ![d] = dir] EXCEPT ![t] = tab]
  <2>1. n = [m EXCEPT ![d][di].user = @ \/ user, ![t][ti] = Mapped(page, user)]
    BY Zenon DEF MapInTable
  <2>2. QED
    BY <1>1, <1>2, <2>1 DEF Memories
<1> HIDE DEF di, ti, t, e, n
<1>6. dir \in [Index -> Entry] /\ dir[di] = e /\ \A i \in Index : i # di => dir[i] = m[d][i]
  BY <1>1, <1>2, <1>3
<1>7. /\ tab \in [Index -> Entry] /\ tab[ti] = Mapped(page, user)
      /\ \A j \in Index : j # ti => tab[j] = m[t][j]
  BY <1>1, <1>2, <1>4
<1> HIDE DEF dir, tab
<1>8. n \in Memories /\ n[d] = dir /\ n[t] = tab /\ \A q \in TablePages : q \notin {d, t} => n[q] = m[q]
  BY <1>1, <1>5, <1>6, <1>7 DEF Memories
<1>9. QED
  BY <1>3, <1>6, <1>7, <1>8 DEF di, ti, t, n, Writes

\* Memory n is m with a new table that holds one entry, e in slot ti, and with
\* directory entry di leading to it.
Installs(m, n, d, di, table, user, ti, e) ==
  /\ n \in Memories
  /\ \A q \in TablePages : q \notin {d, table} => n[q] = m[q]
  /\ \A i \in Index : i # di => n[d][i] = m[d][i]
  /\ n[d][di] = Mapped(table, user)
  /\ n[table][ti] = e
  /\ \A j \in Index : j # ti => n[table][j] = Absent

\* map_page_in that makes a table writes that table and the directory entry
\* (paging.c:68-76).
LEMMA MapInNewTableEffect ==
  ASSUME NEW m \in Memories, NEW d \in TablePages, NEW v, NEW page \in Nat,
         NEW user \in BOOLEAN, v \div Entries \in Index, v % Entries \in Index,
         NEW table \in TablePages \ {d}
  PROVE  Installs(m, MapInNewTable(m, d, v, page, user, table), d, v \div Entries,
                  table, user, v % Entries, Mapped(page, user))
<1> DEFINE di == v \div Entries
           ti == v % Entries
           n == MapInNewTable(m, d, v, page, user, table)
           dir == [m[d] EXCEPT ![di] = Mapped(table, user)]
           tab == [EmptyPage EXCEPT ![ti] = Mapped(page, user)]
<1>1. di \in Index /\ ti \in Index /\ table # d /\ table \in Nat
  BY StaticPages
<1>2. m[d] \in [Index -> Entry] /\ EmptyPage \in [Index -> Entry]
      /\ \A i \in Index : EmptyPage[i] = Absent
  BY EntryTypes DEF Memories, EmptyPage
<1>3. Mapped(page, user) \in Entry /\ Mapped(table, user) \in Entry
  BY <1>1, EntryTypes
<1>4. n = [[m EXCEPT ![d] = dir] EXCEPT ![table] = tab]
  <2>1. n = [m EXCEPT ![d][di] = Mapped(table, user), ![table] = tab]
    BY Zenon DEF MapInNewTable
  <2> HIDE DEF tab
  <2>2. QED
    BY <1>1, <1>2, <2>1 DEF Memories
<1> HIDE DEF di, ti, n
<1>5. /\ dir \in [Index -> Entry] /\ dir[di] = Mapped(table, user)
      /\ \A i \in Index : i # di => dir[i] = m[d][i]
  BY <1>1, <1>2, <1>3
<1>6. /\ tab \in [Index -> Entry] /\ tab[ti] = Mapped(page, user)
      /\ \A j \in Index : j # ti => tab[j] = Absent
  BY <1>1, <1>2, <1>3
<1> HIDE DEF dir, tab
<1>7. n \in Memories /\ n[d] = dir /\ n[table] = tab /\ \A q \in TablePages : q \notin {d, table} => n[q] = m[q]
  BY <1>1, <1>4, <1>5, <1>6 DEF Memories
<1>8. QED
  BY <1>5, <1>6, <1>7 DEF di, ti, n, Installs

\* A change that leaves every directory entry where it leads, and neither a
\* table nor an identity mapping worse than it was, is harmless.
LEMMA HarmlessChange ==
  ASSUME NEW m, NEW f, NEW D, NEW g, Sound(m, f, D, g), NEW n \in Memories,
         \A d \in D : n[d][Recursive] = m[d][Recursive],
         \A d \in D, i \in Index : n[d][i].page = m[d][i].page /\ n[d][i].present = m[d][i].present,
         \A d \in D, i \in Spare : m[d][i] = Absent => n[d][i] = Absent,
         \A t \in PmmPages \ D : OnlyGranted(m, g, t) => OnlyGranted(n, g, t),
         \A t \in Tables, i \in Index : IdentitySound(m, g, t, i) => IdentitySound(n, g, t, i)
  PROVE  Sound(n, f, D, g)
<1>1. ASSUME NEW d \in D PROVE DirectorySound(n, f, D, g, d)
  <2>1. DirectorySound(m, f, D, g, d)
    BY DEF Sound
  <2>2. ASSUME NEW t \in Tables PROVE n[d][t].page = IdentityTable[t] /\ n[d][t].present
    BY <2>1, Layout DEF DirectorySound
  <2>3. ASSUME NEW i \in Spare, n[d][i] # Absent
        PROVE  /\ n[d][i].present /\ n[d][i].page \in PmmPages \ (f \cup g \cup D)
               /\ OnlyGranted(n, g, n[d][i].page)
    <3>1. /\ m[d][i].present /\ m[d][i].page \in PmmPages \ (f \cup g \cup D)
          /\ OnlyGranted(m, g, m[d][i].page)
      BY <2>1, <2>3 DEF DirectorySound
    <3>2. n[d][i].page = m[d][i].page /\ n[d][i].present = m[d][i].present
      BY DEF Spare
    <3>3. m[d][i].page \in PmmPages \ D
      BY <3>1
    <3>4. OnlyGranted(n, g, m[d][i].page)
      BY <3>1, <3>3
    <3>5. QED
      BY <3>1, <3>2, <3>4
  <2>4. QED
    BY <2>1, <2>2, <2>3 DEF DirectorySound
<1>2. QED
  BY <1>1 DEF Sound

\* The user mappings of process_create_user go to the identity table of
\* directory entry 1, which all directories share (paging.c:64-76,
\* process.c:134-135).
LEMMA MapUserPage ==
  ASSUME NEW m, NEW f, NEW D, NEW g, Sound(m, f, D, g), NEW d \in D,
         NEW v \in {UserCodePage, UserStackPage}, NEW page \in g
  PROVE  Sound(MapInTable(m, d, v, page, TRUE), f, D, g)
<1> DEFINE n == MapInTable(m, d, v, page, TRUE)
           t == IdentityTable[1]
<1>1. /\ v \div Entries = 1 /\ v % Entries \in {0, Entries - 1} /\ 1 \in Tables
      /\ v \div Entries \in Index /\ v % Entries \in Index /\ 1 # Recursive /\ 1 \notin Spare
  BY PagePlaces, Layout DEF Spare
<1>2. /\ m \in Memories /\ d \in TablePages /\ page \in Nat /\ m[d][1].page = t
      /\ t \in TablePages \ {d} /\ t \notin D /\ t \notin PmmPages
  <2>1. m \in Memories /\ d \in TablePages /\ page \in Nat
    BY StaticPages DEF Sound
  <2>2. DirectorySound(m, f, D, g, d) /\ D \subseteq {PageDirectory} \cup PmmPages
    BY DEF Sound
  <2>3. m[d][1].page = t
    BY <1>1, <2>2 DEF DirectorySound
  <2>4. t \in TablePages /\ t \notin PmmPages \cup {PageDirectory}
    BY <1>1, StaticPages
  <2>5. QED
    BY <2>1, <2>2, <2>3, <2>4
<1>3. /\ n \in Memories
      /\ \A q \in TablePages : q \notin {d, t} => n[q] = m[q]
      /\ \A i \in Index : i # 1 => n[d][i] = m[d][i]
      /\ n[d][1].page = t /\ n[d][1].present = m[d][1].present
      /\ n[t][v % Entries] = Mapped(page, TRUE)
      /\ \A j \in Index : j # v % Entries => n[t][j] = m[t][j]
  <2> HIDE DEF t
  <2>1. m[d][v \div Entries].page = t /\ m[d][v \div Entries].page \in TablePages \ {d} /\ TRUE \in BOOLEAN
    BY <1>1, <1>2
  <2>2. Writes(m, n, d, v \div Entries, m[d][v \div Entries].page, v % Entries, Mapped(page, TRUE))
    BY <1>1, <1>2, <2>1, MapInTableEffect
  <2> HIDE DEF n
  <2>3. Writes(m, n, d, 1, t, v % Entries, Mapped(page, TRUE))
    BY <1>1, <2>1, <2>2
  <2>4. QED
    BY <2>3 DEF Writes
<1> HIDE DEF n, t
<1>4. ASSUME NEW c \in D PROVE c \in TablePages /\ c # t /\ (c # d => n[c] = m[c])
  BY <1>2, <1>3, StaticPages DEF Sound
<1>5. \A c \in D : n[c][Recursive] = m[c][Recursive]
  BY <1>1, <1>3, <1>4, Layout
<1>6. \A c \in D, i \in Index : n[c][i].page = m[c][i].page /\ n[c][i].present = m[c][i].present
  BY <1>2, <1>3, <1>4
<1>7. \A c \in D, i \in Spare : m[c][i] = Absent => n[c][i] = Absent
  BY <1>1, <1>3, <1>4 DEF Spare
<1>8. \A q \in PmmPages \ D : OnlyGranted(m, g, q) => OnlyGranted(n, g, q)
  <2>1. \A q \in PmmPages \ D : n[q] = m[q]
    BY <1>2, <1>3, StaticPages
  <2>2. QED
    BY <2>1 DEF OnlyGranted
<1>9. ASSUME NEW u \in Tables, NEW i \in Index, IdentitySound(m, g, u, i)
      PROVE  IdentitySound(n, g, u, i)
  <2>1. CASE u = 1 /\ i = v % Entries
    BY <1>1, <1>3, <2>1 DEF IdentitySound, Mapped, t
  <2>2. CASE ~(u = 1 /\ i = v % Entries)
    <3>1. n[IdentityTable[u]][i] = m[IdentityTable[u]][i]
      <4>1. CASE u = 1
        BY <1>3, <2>2, <4>1 DEF t
      <4>2. CASE u # 1
        <5>1. IdentityTable[u] # t
          BY <1>1, <4>2, StaticPages DEF t
        <5>2. IdentityTable[u] \in TablePages /\ IdentityTable[u] # d
          BY StaticPages DEF Sound
        <5>3. QED
          BY <1>3, <5>1, <5>2
      <4>3. QED
        BY <4>1, <4>2
    <3>2. QED
      BY <1>9, <3>1 DEF IdentitySound
  <2>3. QED
    BY <2>1, <2>2
<1>10. Sound(n, f, D, g)
  BY <1>3, <1>5, <1>6, <1>7, <1>8, <1>9, HarmlessChange
<1>11. QED
  BY <1>10 DEF n

\* map_page where a table is there already (paging.c:55-85).
LEMMA MapSparePage ==
  ASSUME NEW m, NEW f, NEW D, NEW g, Sound(m, f, D, g), NEW d \in D, NEW v,
         v \div Entries \in Spare, v % Entries \in Index, m[d][v \div Entries].present,
         NEW page \in Nat, NEW user \in BOOLEAN, user => page \in g
  PROVE  Sound(MapInTable(m, d, v, page, user), f, D, g)
<1> DEFINE n == MapInTable(m, d, v, page, user)
           di == v \div Entries
           t == m[d][di].page
<1>1. di \in Index /\ di # Recursive /\ di \notin Tables
  BY DEF Spare
<1>2. m \in Memories /\ d \in TablePages
  BY StaticPages DEF Sound
<1>3. t \in PmmPages \ (f \cup g \cup D) /\ t \in TablePages \ {d} /\ m[d][di] # Absent
  <2>1. m[d][di] # Absent
    BY DEF Absent
  <2>2. DirectorySound(m, f, D, g, d)
    BY DEF Sound
  <2>3. t \in PmmPages \ (f \cup g \cup D)
    BY <2>1, <2>2 DEF DirectorySound
  <2>4. QED
    BY <2>1, <2>3, StaticPages
<1>4. /\ n \in Memories
      /\ \A q \in TablePages : q \notin {d, t} => n[q] = m[q]
      /\ \A i \in Index : i # di => n[d][i] = m[d][i]
      /\ n[d][di].page = t /\ n[d][di].present = m[d][di].present
      /\ n[t][v % Entries] = Mapped(page, user)
      /\ \A j \in Index : j # v % Entries => n[t][j] = m[t][j]
  <2>1. Writes(m, n, d, di, t, v % Entries, Mapped(page, user))
    BY <1>1, <1>2, <1>3, MapInTableEffect
  <2>2. QED
    BY <2>1 DEF Writes
<1>5. v % Entries \in Index /\ (user => page \in g)
  OBVIOUS
<1> HIDE DEF n, t, di
<1>6. ASSUME NEW c \in D PROVE c \in TablePages /\ c # t /\ (c # d => n[c] = m[c])
  BY <1>3, <1>4, StaticPages DEF Sound
<1>7. \A c \in D : n[c][Recursive] = m[c][Recursive]
  BY <1>1, <1>4, <1>6, Layout
<1>8. \A c \in D, i \in Index : n[c][i].page = m[c][i].page /\ n[c][i].present = m[c][i].present
  BY <1>4, <1>6 DEF t
<1>9. \A c \in D, i \in Spare : m[c][i] = Absent => n[c][i] = Absent
  BY <1>3, <1>4, <1>6 DEF Spare
<1>10. ASSUME NEW q \in PmmPages \ D, OnlyGranted(m, g, q) PROVE OnlyGranted(n, g, q)
  <2>1. CASE q = t
    BY <1>4, <1>5, <1>10, <2>1 DEF OnlyGranted, Mapped
  <2>2. CASE q # t
    <3>1. n[q] = m[q]
      BY <1>4, <2>2, StaticPages
    <3>2. QED
      BY <1>10, <3>1 DEF OnlyGranted
  <2>3. QED
    BY <2>1, <2>2
<1>11. \A u \in Tables, i \in Index : IdentitySound(m, g, u, i) => IdentitySound(n, g, u, i)
  <2>1. \A u \in Tables : n[IdentityTable[u]] = m[IdentityTable[u]]
    BY <1>3, <1>4, StaticPages DEF Sound
  <2>2. QED
    BY <2>1 DEF IdentitySound
<1>12. Sound(n, f, D, g)
  BY <1>4, <1>7, <1>8, <1>9, <1>10, <1>11, HarmlessChange
<1>13. QED
  BY <1>12 DEF n

\* map_page where a table is made first (paging.c:55-85).
LEMMA MapNewTable ==
  ASSUME NEW m, NEW f, NEW D, NEW g, Sound(m, f, D, g), NEW v,
         v \div Entries \in Spare, v % Entries \in Index,
         ~m[PageDirectory][v \div Entries].present,
         NEW page \in Nat, NEW user \in BOOLEAN, user => page \in g, NEW table \in f
  PROVE  Sound(MapInNewTable(m, PageDirectory, v, page, user, table), f \ {table}, D, g)
<1> DEFINE n == MapInNewTable(m, PageDirectory, v, page, user, table)
           di == v \div Entries
           d == PageDirectory
<1>1. di \in Index /\ di # Recursive /\ di \notin Tables /\ v % Entries \in Index
  BY DEF Spare
<1>2. /\ m \in Memories /\ d \in TablePages /\ d \in D /\ table \in TablePages \ {d}
      /\ table \in PmmPages \ ((f \ {table}) \cup g \cup D)
  BY StaticPages DEF Sound
<1>3. /\ n \in Memories
      /\ \A q \in TablePages : q \notin {d, table} => n[q] = m[q]
      /\ \A i \in Index : i # di => n[d][i] = m[d][i]
      /\ n[d][di] = Mapped(table, user)
      /\ n[table][v % Entries] = Mapped(page, user)
      /\ \A j \in Index : j # v % Entries => n[table][j] = Absent
  <2>1. Installs(m, n, d, di, table, user, v % Entries, Mapped(page, user))
    BY <1>1, <1>2, MapInNewTableEffect
  <2>2. QED
    BY <2>1 DEF Installs
<1>4. user => page \in g
  OBVIOUS
<1> HIDE DEF n, di
<1>5. OnlyGranted(n, g, table)
  BY <1>3, <1>4 DEF OnlyGranted, Mapped, Absent
<1>6. ASSUME NEW c \in D PROVE DirectorySound(n, f \ {table}, D, g, c)
  <2>1. DirectorySound(m, f, D, g, c) /\ c \in TablePages /\ c # table
    BY <1>2, StaticPages DEF Sound
  <2>2. \A i \in Index : ~(c = d /\ i = di) => n[c][i] = m[c][i]
    BY <1>3, <2>1
  <2>3. n[c][Recursive] = Mapped(c, FALSE)
    BY <1>1, <2>1, <2>2, Layout DEF DirectorySound
  <2>4. ASSUME NEW t \in Tables PROVE n[c][t].page = IdentityTable[t] /\ n[c][t].present
    BY <1>1, <2>1, <2>2, Layout DEF DirectorySound
  <2>5. ASSUME NEW i \in Spare, n[c][i] # Absent
        PROVE  /\ n[c][i].present /\ n[c][i].page \in PmmPages \ ((f \ {table}) \cup g \cup D)
               /\ OnlyGranted(n, g, n[c][i].page)
    <3>1. CASE c = d /\ i = di
      <4>1. n[c][i].present /\ n[c][i].page = table
        BY <1>3, <3>1 DEF Mapped
      <4>2. QED
        BY <1>2, <1>5, <4>1
    <3>2. CASE ~(c = d /\ i = di)
      <4>1. n[c][i] = m[c][i]
        BY <2>2, <3>2 DEF Spare
      <4>2. /\ m[c][i].present /\ m[c][i].page \in PmmPages \ (f \cup g \cup D)
            /\ OnlyGranted(m, g, m[c][i].page)
        BY <2>1, <2>5, <4>1 DEF DirectorySound
      <4>3. n[m[c][i].page] = m[m[c][i].page]
        BY <1>2, <1>3, <4>2, StaticPages
      <4>4. QED
        BY <4>1, <4>2, <4>3 DEF OnlyGranted
    <3>3. QED
      BY <3>1, <3>2
  <2>6. QED
    BY <2>3, <2>4, <2>5 DEF DirectorySound
<1>7. ASSUME NEW t \in Tables, NEW i \in Index PROVE IdentitySound(n, g, t, i)
  <2>1. n[IdentityTable[t]] = m[IdentityTable[t]]
    BY <1>2, <1>3, StaticPages
  <2>2. QED
    BY <2>1 DEF Sound, IdentitySound
<1>8. Sound(n, f \ {table}, D, g)
  BY <1>3, <1>6, <1>7 DEF Sound
<1>9. QED
  BY <1>8 DEF n

-----------------------------------------------------------------------------
(* The invariant holds.                                                    *)

\* What the allocator returns: a free page, or null when there is none.
LEMMA AllocatedPage ==
  ASSUME NEW f, NEW p \in allocate_page(f), p # Null
  PROVE  p \in f
BY DEF allocate_page

\* init_paging leaves a sound memory (paging.c:32-53).
LEMMA InitInv == Init => Inv
<1> SUFFICES ASSUME Init PROVE Inv
  OBVIOUS
<1>1. Directories = {PageDirectory} /\ free = PmmPages /\ granted = {}
  BY DEF Init, Directories
<1>2. mem[PageDirectory] = [i \in Index |->
            IF i = Recursive THEN Mapped(PageDirectory, FALSE)
            ELSE IF i \in Tables THEN Mapped(IdentityTable[i], FALSE)
            ELSE Absent]
  BY StaticPages DEF Init, init_paging
<1>3. ASSUME NEW t \in Tables
      PROVE  mem[IdentityTable[t]] = [i \in Index |-> IdentityEntry(t, i)]
  <2>1. IdentityTable[t] # PageDirectory /\ IdentityTable[t] \in TablePages
    BY StaticPages
  <2>2. (CHOOSE u \in Tables : IdentityTable[t] = IdentityTable[u]) = t
    BY StaticPages
  <2>3. QED
    BY <2>1, <2>2 DEF Init, init_paging
<1>4. ASSUME NEW p \in PmmPages PROVE mem[p] = EmptyPage
  <2>1. p # PageDirectory /\ p \in TablePages /\ ~\E t \in Tables : p = IdentityTable[t]
    BY StaticPages
  <2>2. QED
    BY <2>1 DEF Init, init_paging
<1>5. ASSUME NEW p \in TablePages PROVE mem[p] \in [Index -> Entry]
  <2>1. CASE p = PageDirectory
    <3>1. \A i \in Index : mem[PageDirectory][i] \in Entry
      <4>1. PageDirectory \in Nat /\ \A t \in Tables : IdentityTable[t] \in Nat
        BY StaticPages
      <4>2. Mapped(PageDirectory, FALSE) \in Entry
        BY <4>1, EntryTypes, Zenon
      <4>3. \A t \in Tables : Mapped(IdentityTable[t], FALSE) \in Entry
        BY <4>1, EntryTypes, Zenon
      <4>4. QED
        BY <1>2, <4>2, <4>3, EntryTypes
    <3>2. QED
      BY <1>2, <2>1, <3>1
  <2>2. ASSUME NEW t \in Tables, p = IdentityTable[t] PROVE mem[p] \in [Index -> Entry]
    <3>1. \A i \in Index : t * Entries + i \in Nat
      BY Layout
    <3>2. \A i \in Index : IdentityEntry(t, i) \in Entry
      BY <3>1, EntryTypes DEF IdentityEntry
    <3>3. QED
      BY <1>3, <2>2, <3>2
  <2>3. CASE p \in PmmPages
    BY <1>4, <2>3, EntryTypes DEF EmptyPage
  <2>4. QED
    BY <2>1, <2>2, <2>3 DEF TablePages
<1>6. mem \in Memories
  <2>1. mem = [p \in TablePages |-> mem[p]]
    BY DEF Init, init_paging
  <2>2. QED
    BY <1>5, <2>1 DEF Memories
<1>7. DirectorySound(mem, PmmPages, {PageDirectory}, {}, PageDirectory)
  BY <1>2, Layout DEF DirectorySound, Spare, Mapped
<1>8. \A t \in Tables, i \in Index : IdentitySound(mem, {}, t, i)
  BY <1>3 DEF IdentitySound
<1>9. QED
  BY <1>1, <1>6, <1>7, <1>8, LayoutAssumption DEF Inv, Sound

\* process_create takes a stack and makes a directory (process.c:76-107).
LEMMA ProcessCreateInv == ASSUME Inv, process_create PROVE Inv'
<1>1. PICK stack \in allocate_page(free) : \E d \in allocate_page(free \ {stack}) :
        /\ Null \notin {stack, d}
        /\ mem' = [mem EXCEPT ![d] = NewDirectory(d)]
        /\ free' = free \ {stack, d}
        /\ kernels' = kernels \cup {d}
        /\ UNCHANGED <<users, granted>>
  BY DEF process_create
<1>2. PICK d \in allocate_page(free \ {stack}) :
        /\ Null \notin {stack, d}
        /\ mem' = [mem EXCEPT ![d] = NewDirectory(d)]
        /\ free' = free \ {stack, d}
        /\ kernels' = kernels \cup {d}
        /\ UNCHANGED <<users, granted>>
  BY <1>1
<1>3. stack \in free /\ d \in free \ {stack}
  <2>1. stack # Null /\ d # Null
    BY <1>2
  <2>2. QED
    BY <2>1, AllocatedPage
<1> DEFINE f == free \ {stack}
<1>4. Sound(mem, f, Directories, granted)
  <2>1. Sound(mem, f, Directories, granted \cup {})
    BY Granting DEF Inv
  <2>2. QED
    BY <2>1
<1>5. Sound([mem EXCEPT ![d] = NewDirectory(d)], f \ {d}, Directories \cup {d}, granted)
  <2>1. d \in f
    BY <1>3
  <2> HIDE DEF f
  <2>2. QED
    BY <1>4, <2>1, AddDirectory DEF NewDirectory
<1>6. free' = f \ {d}
  BY <1>2
<1>7. Directories' = Directories \cup {d} /\ granted' = granted
  BY <1>2 DEF Directories
<1>8. QED
  BY <1>2, <1>5, <1>6, <1>7 DEF Inv

\* process_create_user takes four pages, makes a directory and the two user
\* mappings (process.c:109-160).
LEMMA ProcessCreateUserInv == ASSUME Inv, process_create_user PROVE Inv'
<1>1. PICK stack, code, ustack, d :
        /\ stack \in allocate_page(free) /\ code \in allocate_page(free \ {stack})
        /\ ustack \in allocate_page(free \ {stack, code})
        /\ d \in allocate_page(free \ {stack, code, ustack})
        /\ Null \notin {stack, code, ustack, d}
        /\ LET made == [mem EXCEPT ![d] = NewDirectory(d)]
               coded == MapInTable(made, d, UserCodePage, code, TRUE)
           IN mem' = MapInTable(coded, d, UserStackPage, ustack, TRUE)
        /\ free' = free \ {stack, code, ustack, d}
        /\ users' = users \cup {[directory |-> d, code |-> code, stack |-> ustack]}
        /\ granted' = granted \cup {code, ustack}
        /\ UNCHANGED kernels
  BY Zenon DEF process_create_user
<1> DEFINE made == [mem EXCEPT ![d] = NewDirectory(d)]
           coded == MapInTable(made, d, UserCodePage, code, TRUE)
           f == free \ {stack, code, ustack}
           g == granted \cup {code, ustack}
           D == Directories \cup {d}
<1>2. /\ stack \in free /\ code \in free \ {stack} /\ ustack \in free \ {stack, code}
      /\ d \in free \ {stack, code, ustack}
  <2>1. stack # Null /\ code # Null /\ ustack # Null /\ d # Null
    BY <1>1
  <2>2. QED
    BY <1>1, <2>1, AllocatedPage
<1>3. mem' = MapInTable(coded, d, UserStackPage, ustack, TRUE)
  BY <1>1
<1>4. Sound(mem, f, Directories, g)
  <2>1. f \in SUBSET free /\ {code, ustack} \in SUBSET (free \ f)
    BY <1>2
  <2> HIDE DEF f
  <2>2. QED
    BY <2>1, Granting DEF Inv
<1>5. Sound(made, f \ {d}, D, g)
  <2>1. d \in f
    BY <1>2
  <2> HIDE DEF f, g
  <2>2. QED
    BY <1>4, <2>1, AddDirectory DEF NewDirectory
<1>6. d \in D /\ code \in g /\ ustack \in g
  OBVIOUS
<1> HIDE DEF made, D, g, f
<1>7. Sound(coded, f \ {d}, D, g)
  BY <1>5, <1>6, MapUserPage
<1> HIDE DEF coded
<1>8. Sound(mem', f \ {d}, D, g)
  BY <1>3, <1>6, <1>7, MapUserPage
<1>9. free' = f \ {d}
  BY <1>1 DEF f
<1>10. Directories' = D
  <2>1. users' = users \cup {[directory |-> d, code |-> code, stack |-> ustack]} /\ kernels' = kernels
    BY <1>1
  <2> DEFINE u == [directory |-> d, code |-> code, stack |-> ustack]
  <2>2. u.directory = d
    OBVIOUS
  <2> HIDE DEF u
  <2>3. {w.directory : w \in users \cup {u}} = {w.directory : w \in users} \cup {d}
    BY <2>2
  <2>4. Directories' = {PageDirectory} \cup kernels \cup {w.directory : w \in users \cup {u}}
    BY <2>1 DEF Directories, u
  <2>5. QED
    BY <2>3, <2>4 DEF Directories, D
<1>11. granted' = g
  BY <1>1 DEF g
<1>12. QED
  BY <1>8, <1>9, <1>10, <1>11 DEF Inv

\* map_page takes a page and maps it, or does not when there is no table to
\* be had (paging.c:55-85).
LEMMA MapPageInv == ASSUME Inv, map_page PROVE Inv'
<1>1. PICK v \in ApiPages, user \in BOOLEAN, page \in allocate_page(free) \ {Null} :
        /\ IF mem[PageDirectory][v \div Entries].present
           THEN /\ mem' = MapInTable(mem, PageDirectory, v, page, user)
                /\ free' = free \ {page}
           ELSE \E table \in allocate_page(free \ {page}) :
                  /\ mem' = IF table = Null THEN mem
                            ELSE MapInNewTable(mem, PageDirectory, v, page, user, table)
                  /\ free' = free \ {page, table}
        /\ granted' = IF user THEN granted \cup {page} ELSE granted
        /\ UNCHANGED <<kernels, users>>
  BY Zenon DEF map_page
<1> DEFINE f == free \ {page}
           g == IF user THEN granted \cup {page} ELSE granted
<1>2. page \in free /\ page \in Nat
  <2>1. page \in allocate_page(free) /\ page # Null
    OBVIOUS
  <2>2. page \in free
    BY <2>1, AllocatedPage
  <2>3. QED
    BY <2>2, StaticPages DEF Inv, Sound
<1>3. v \div Entries \in Spare /\ v % Entries \in Index
  BY ApiPlaces, VirtualPlace DEF Spare
<1>4. Sound(mem, f, Directories, g)
  <2>1. g = granted \cup (IF user THEN {page} ELSE {})
    OBVIOUS
  <2>2. f \in SUBSET free /\ (IF user THEN {page} ELSE {}) \in SUBSET (free \ f)
    BY <1>2
  <2> HIDE DEF f
  <2>3. Sound(mem, f, Directories, granted \cup (IF user THEN {page} ELSE {}))
    BY <2>2, Granting DEF Inv
  <2>4. QED
    BY <2>1, <2>3
<1>5. user => page \in g
  OBVIOUS
<1>6. Directories' = Directories /\ granted' = g
  BY <1>1 DEF Directories
<1>7. PageDirectory \in Directories /\ Null \notin free
  BY StaticPages DEF Inv, Sound, Null
<1> HIDE DEF g
<1>8. CASE mem[PageDirectory][v \div Entries].present
  <2>1. mem' = MapInTable(mem, PageDirectory, v, page, user) /\ free' = f
    BY <1>1, <1>8
  <2> HIDE DEF f
  <2>2. Sound(mem', f, Directories, g)
    BY <1>2, <1>3, <1>4, <1>5, <1>7, <1>8, <2>1, MapSparePage
  <2>3. QED
    BY <1>6, <2>1, <2>2 DEF Inv
<1>9. CASE ~mem[PageDirectory][v \div Entries].present
  <2>1. PICK table \in allocate_page(f) :
          /\ mem' = IF table = Null THEN mem
                    ELSE MapInNewTable(mem, PageDirectory, v, page, user, table)
          /\ free' = free \ {page, table}
    BY <1>1, <1>9
  <2>2. CASE table = Null
    <3>1. mem' = mem /\ free' = f
      BY <1>7, <2>1, <2>2
    <3>2. QED
      BY <1>4, <1>6, <3>1 DEF Inv
  <2>3. CASE table # Null
    <3>1. table \in f
      BY <2>3, AllocatedPage
    <3>2. mem' = MapInNewTable(mem, PageDirectory, v, page, user, table) /\ free' = f \ {table}
      BY <2>1, <2>3
    <3> HIDE DEF f
    <3>3. Sound(mem', f \ {table}, Directories, g)
      BY <1>2, <1>3, <1>4, <1>5, <1>9, <3>1, <3>2, MapNewTable
    <3>4. QED
      BY <1>6, <3>2, <3>3 DEF Inv
  <2>4. QED
    BY <2>2, <2>3
<1>10. QED
  BY <1>8, <1>9

\* The invariant holds throughout.
LEMMA Invariance == Spec => []Inv
<1>1. Inv /\ [Next]_vars => Inv'
  <2> SUFFICES ASSUME Inv, [Next]_vars PROVE Inv'
    OBVIOUS
  <2>1. CASE UNCHANGED vars
    BY <2>1 DEF vars, Inv, Directories
  <2>2. QED
    BY <2>1, ProcessCreateInv, ProcessCreateUserInv, MapPageInv DEF Next
<1>2. QED
  BY <1>1, InitInv, PTL DEF Spec

-----------------------------------------------------------------------------
(* What the invariant gives.                                               *)

\* What a page walk finds behind a directory entry that ring 3 may use.
LEMMA UserEntry ==
  ASSUME Inv, NEW d \in Directories, NEW v, v \div Entries \in Index, v % Entries \in Index,
         mem[d][v \div Entries].present, mem[d][v \div Entries].user
  PROVE  /\ TableOf(d, v) \in TablePages /\ Walk(d, v) = mem[TableOf(d, v)][v % Entries]
         /\ Walk(d, v) \in Entry
         /\ Walk(d, v).user => Walk(d, v).page \in granted
<1> DEFINE i == v \div Entries
           j == v % Entries
           t == mem[d][i].page
<1>1. DirectorySound(mem, free, Directories, granted, d) /\ mem \in Memories
  BY DEF Inv, Sound
<1>2. i \in Index /\ j \in Index /\ mem[d][i].present /\ mem[d][i].user
  OBVIOUS
<1> HIDE DEF i, j
<1>3. t \in TablePages /\ (mem[t][j].user => mem[t][j].page \in granted)
  <2>1. CASE i \in Tables
    <3>1. t = IdentityTable[i] /\ IdentitySound(mem, granted, i, j) /\ t \in TablePages
      BY <1>1, <1>2, <2>1, StaticPages DEF DirectorySound, Inv, Sound
    <3>2. mem[t][j] = IdentityEntry(i, j) \/ mem[t][j].page \in granted
      BY <3>1 DEF IdentitySound
    <3>3. ~IdentityEntry(i, j).user
      BY DEF IdentityEntry, Mapped
    <3>4. QED
      BY <3>1, <3>2, <3>3
  <2>2. CASE i = Recursive
    <3>1. mem[d][i] = Mapped(d, FALSE)
      BY <1>1, <2>2 DEF DirectorySound
    <3>2. QED
      BY <1>2, <3>1 DEF Mapped
  <2>3. CASE i \in Spare
    <3>1. mem[d][i] # Absent
      BY <1>2 DEF Absent
    <3>2. t \in PmmPages /\ OnlyGranted(mem, granted, t)
      BY <1>1, <2>3, <3>1 DEF DirectorySound
    <3>3. QED
      BY <1>2, <3>2, StaticPages DEF OnlyGranted
  <2>4. QED
    BY <1>2, <2>1, <2>2, <2>3 DEF Spare
<1>4. TableOf(d, v) = t
  BY DEF TableOf, i
<1>5. Walk(d, v) = mem[t][j]
  BY <1>2, <1>3, <1>4 DEF Walk, i, j
<1>6. mem[t][j] \in Entry
  BY <1>1, <1>2, <1>3 DEF Memories
<1> HIDE DEF t
<1>7. QED
  BY <1>3, <1>4, <1>5, <1>6 DEF j

\* Ring 3 reaches granted pages only, and the pages that user_page_present
\* accepts are exactly those that ring 3 reaches (paging.c:20-30).
LEMMA UserAccess ==
  ASSUME Inv, NEW d \in Directories, NEW v, v \div Entries \in Index, v % Entries \in Index
  PROVE  /\ UserReaches(d, v) \in granted \cup {Null}
         /\ user_page_present(d, v) <=> UserReaches(d, v) # Null
<1>1. mem[d][v \div Entries] \in Entry
  BY StaticPages DEF Inv, Sound, Memories
<1>2. Null \notin granted
  BY StaticPages DEF Inv, Sound, Null
<1>3. CASE ~(mem[d][v \div Entries].present /\ mem[d][v \div Entries].user)
  BY <1>3 DEF UserReaches, KernelReaches, Walk, Absent, user_page_present, Null
<1>4. CASE mem[d][v \div Entries].present /\ mem[d][v \div Entries].user
  <2>1. /\ Walk(d, v) = mem[TableOf(d, v)][v % Entries]
        /\ Walk(d, v).user => Walk(d, v).page \in granted
    BY <1>4, UserEntry
  <2>2. UserReaches(d, v) = IF Walk(d, v).user /\ Walk(d, v).present THEN Walk(d, v).page ELSE Null
    BY <1>4 DEF UserReaches, KernelReaches
  <2>3. user_page_present(d, v) <=> Walk(d, v).present /\ Walk(d, v).user
    BY <1>4, <2>1 DEF user_page_present
  <2>4. QED
    BY <1>2, <2>1, <2>2, <2>3
<1>5. QED
  BY <1>3, <1>4

\* The kernel finds every identity mapped page but the two at its own address,
\* in every directory (paging.c:32-53, 87-97).
LEMMA KernelAccess ==
  ASSUME Inv, NEW d \in Directories, NEW t \in Tables, NEW i \in Index,
         t * Entries + i \notin {UserCodePage, UserStackPage}
  PROVE  KernelReaches(d, t * Entries + i) = t * Entries + i
<1> DEFINE v == t * Entries + i
<1>1. v \div Entries = t /\ v % Entries = i /\ v \in Nat
  BY PagePlaces, Layout
<1>2. ~(t = 1 /\ i \in {0, Entries - 1})
  BY Layout DEF UserCodePage, UserStackPage
<1>3. IdentitySound(mem, granted, t, i) /\ DirectorySound(mem, free, Directories, granted, d)
  BY DEF Inv, Sound
<1>4. mem[IdentityTable[t]][i] = Mapped(v, FALSE)
  BY <1>2, <1>3 DEF IdentitySound, IdentityEntry
<1>5. mem[d][t].present /\ mem[d][t].page = IdentityTable[t] /\ IdentityTable[t] \in TablePages
  BY <1>3, StaticPages DEF DirectorySound
<1> HIDE DEF v
<1>6. Walk(d, v) = Mapped(v, FALSE)
  BY <1>1, <1>4, <1>5 DEF Walk, TableOf
<1>7. KernelReaches(d, v) = v
  BY <1>6 DEF KernelReaches, Mapped
<1>8. QED
  BY <1>7 DEF v

\* No user process reaches from ring 3 a page that was not handed to ring 3,
\* nor is such a page ever a directory or a table, for any number of processes
\* and mappings over the shared tables (paging.c:55-79, 87-97).
THEOREM UsersAreIsolated == Spec => []UserIsolation
<1>1. Inv => UserIsolation
  <2> SUFFICES ASSUME Inv PROVE UserIsolation
    OBVIOUS
  <2>1. ASSUME NEW u \in users, NEW v \in VirtualPages
        PROVE  UserReaches(u.directory, v) \in granted \cup {Null}
    <3>1. u.directory \in Directories
      BY DEF Directories
    <3>2. QED
      BY <3>1, VirtualPlace, UserAccess
  <2>2. granted \cap Directories = {}
    BY DEF Inv, Sound
  <2>3. ASSUME NEW d \in Directories, NEW i \in Index PROVE mem[d][i].page \notin granted
    <3>1. DirectorySound(mem, free, Directories, granted, d) /\ granted \subseteq PmmPages
      BY DEF Inv, Sound
    <3>2. CASE i \in Tables
      BY <3>1, <3>2, StaticPages DEF DirectorySound
    <3>3. CASE i = Recursive
      BY <2>2, <3>1, <3>3 DEF DirectorySound, Mapped
    <3>4. CASE i \in Spare
      <4>1. Absent.page \notin granted
        BY <3>1, StaticPages DEF Absent, Null
      <4>2. QED
        BY <3>1, <3>4, <4>1 DEF DirectorySound
    <3>5. QED
      BY <3>2, <3>3, <3>4 DEF Spare
  <2>4. QED
    BY <2>1, <2>2, <2>3 DEF UserIsolation
<1>2. QED
  BY <1>1, Invariance, PTL

\* The kernel goes on running whichever directory is loaded, the one of a
\* kernel process or of a user process: all but two identity mapped pages are
\* where they were (paging.c:87-97).
THEOREM KernelIsMapped == Spec => []KernelStaysMapped
<1>1. Inv => KernelStaysMapped
  BY KernelAccess DEF KernelStaysMapped
<1>2. QED
  BY <1>1, Invariance, PTL

\* The bytes below the user limit, in numbers (paging.c:106-117).
LEMMA LimitPlaces ==
  /\ UserLimit \in Nat /\ Wide \in Nat \ {0} /\ UserLimit < Wide
  /\ 4 * PageBytes \in Nat /\ 4 * PageBytes =< UserLimit
  /\ \A x \in Nat : x < UserLimit =>
       /\ x \div PageBytes \in Nat
       /\ \A v \in 0 .. x \div PageBytes : v \div Entries \in Index /\ v % Entries \in Index
<1> DEFINE K == UserEntries * Entries
           EE == Entries * Entries
<1>1. /\ Entries \in Nat \ {0} /\ Entries >= 8 /\ PageBytes \in Nat \ {0}
      /\ UserEntries \in Nat /\ UserEntries >= 3 /\ UserEntries < Entries
  BY Layout, LayoutAssumption
<1>2. PICK a \in Nat : UserEntries = 1 + a
  <2>1. UserEntries - 1 \in Nat /\ UserEntries = 1 + (UserEntries - 1)
    BY <1>1
  <2>2. QED
    BY <2>1
<1>3. PICK b \in Nat : Entries = UserEntries + 1 + b
  <2>1. Entries - (UserEntries + 1) \in Nat /\ Entries = UserEntries + 1 + (Entries - (UserEntries + 1))
    BY <1>1
  <2>2. QED
    BY <2>1
<1>4. K \in Nat /\ K >= 4
  <2>1. K = Entries + a * Entries /\ a * Entries \in Nat
    BY <1>1, <1>2
  <2>2. QED
    BY <1>1, <2>1
<1>5. EE \in Nat /\ EE > K
  <2>1. EE = UserEntries * Entries + Entries + b * Entries /\ b * Entries \in Nat /\ UserEntries * Entries \in Nat
    BY <1>1, <1>3
  <2>2. QED
    BY <1>1, <2>1
<1>6. UserLimit = PageBytes * K
  BY ApiPlaces
<1>7. Wide = PageBytes * EE
  BY <1>1 DEF Wide
<1> HIDE DEF K
<1>8. UserLimit \in Nat /\ 4 * PageBytes \in Nat /\ 4 * PageBytes =< UserLimit
  <2>1. PICK k \in Nat : K = 4 + k
    <3>1. K - 4 \in Nat /\ K = 4 + (K - 4)
      BY <1>4
    <3>2. QED
      BY <3>1
  <2>2. PageBytes * K = 4 * PageBytes + PageBytes * k /\ PageBytes * k \in Nat
    BY <1>1, <2>1
  <2>3. QED
    BY <1>1, <1>6, <2>2
<1>9. Wide \in Nat \ {0} /\ UserLimit < Wide
  <2> HIDE DEF EE
  <2>1. PICK k \in Nat : EE = K + 1 + k
    <3>1. EE - (K + 1) \in Nat /\ EE = K + 1 + (EE - (K + 1))
      BY <1>4, <1>5
    <3>2. QED
      BY <3>1
  <2>2. PageBytes * EE = PageBytes * K + PageBytes + PageBytes * k /\ PageBytes * k \in Nat
        /\ PageBytes * K \in Nat
    BY <1>1, <1>4, <2>1
  <2>3. QED
    BY <1>1, <1>6, <1>7, <2>2
<1>10. ASSUME NEW x \in Nat, x < UserLimit
       PROVE  /\ x \div PageBytes \in Nat
              /\ \A v \in 0 .. x \div PageBytes : v \div Entries \in Index /\ v % Entries \in Index
  <2> DEFINE p == x \div PageBytes
  <2>1. p \in Nat
    BY <1>1, Division
  <2>2. p < K
    <3>1. x < PageBytes * K
      BY <1>6, <1>10
    <3>2. QED
      BY <1>1, <1>4, <3>1, QuotientBound
  <2> HIDE DEF p
  <2>3. ASSUME NEW v \in 0 .. p PROVE v \in VirtualPages
    <3> HIDE DEF EE
    <3>1. v \in 0 .. EE - 1
      BY <1>4, <1>5, <2>1, <2>2
    <3>2. QED
      BY <3>1 DEF VirtualPages, EE
  <2>4. \A v \in 0 .. p : v \div Entries \in Index /\ v % Entries \in Index
    BY <2>3, VirtualPlace
  <2>5. QED
    BY <2>1, <2>4 DEF p
<1>11. QED
  BY <1>8, <1>9, <1>10

\* user_range_valid is exact for every address and every length, not only for
\* those at the borders (paging.c:104-123).
LEMMA RangeCheck ==
  ASSUME Inv, NEW d \in Directories, NEW address \in Nat, NEW length \in Nat
  PROVE  user_range_valid(d, address, length) <=>
           /\ address < UserLimit
           /\ address + length =< UserLimit
           /\ length > 0 => \A v \in address \div PageBytes ..
                                     (address + length - 1) \div PageBytes :
                              UserReaches(d, v) # Null
<1>1. UserLimit \in Nat /\ Wide \in Nat \ {0} /\ UserLimit < Wide
  BY LimitPlaces
<1>2. CASE address >= UserLimit
  BY <1>1, <1>2 DEF user_range_valid
<1>3. CASE address < UserLimit /\ length = 0
  BY <1>1, <1>3 DEF user_range_valid
<1>4. CASE address < UserLimit /\ length > 0 /\ length > UserLimit - address
  BY <1>1, <1>4 DEF user_range_valid
<1>5. CASE address < UserLimit /\ length > 0 /\ ~(length > UserLimit - address)
  <2> DEFINE end == address + length - 1
             first == address \div PageBytes
             last == end \div PageBytes
  <2>1. end \in Nat /\ end < UserLimit /\ address + length =< UserLimit
    BY <1>1, <1>5
  <2>2. end % Wide = end
    <3>1. end \in 0 .. Wide - 1 /\ end = Wide * 0 + end
      BY <1>1, <2>1
    <3> HIDE DEF end
    <3>2. QED
      BY <1>1, <2>1, <3>1, DivisionUnique
  <2>3. user_range_valid(d, address, length) <=> \A v \in first .. last : user_page_present(d, v)
    <3>1. ~(address >= UserLimit) /\ length # 0
      BY <1>1, <1>5
    <3>2. user_range_valid(d, address, length) <=>
            \A v \in first .. (end % Wide) \div PageBytes : user_page_present(d, v)
      BY <1>5, <3>1, Zenon DEF user_range_valid
    <3>3. QED
      BY <2>2, <3>2, Zenon
  <2>4. first \in Nat /\ last \in Nat
    <3> HIDE DEF end
    <3>1. QED
      BY <1>5, <2>1, LimitPlaces
  <2>5. ASSUME NEW v \in first .. last PROVE user_page_present(d, v) <=> UserReaches(d, v) # Null
    <3> HIDE DEF end
    <3>1. \A w \in 0 .. last : w \div Entries \in Index /\ w % Entries \in Index
      BY <2>1, LimitPlaces
    <3> HIDE DEF first, last
    <3>2. v \in 0 .. last
      BY <2>4
    <3>3. v \div Entries \in Index /\ v % Entries \in Index
      BY <3>1, <3>2
    <3>4. QED
      BY <3>3, UserAccess
  <2>6. QED
    BY <1>5, <2>1, <2>3, <2>5
<1>6. QED
  BY <1>1, <1>2, <1>3, <1>4, <1>5

\* The addresses and lengths that the run tries are numbers.
LEMMA TriedAreNumbers == Addresses \subseteq Nat /\ Lengths \subseteq Nat
<1>1. /\ UserLimit \in Nat /\ Wide \in Nat \ {0} /\ UserLimit < Wide
      /\ 4 * PageBytes \in Nat /\ 4 * PageBytes =< UserLimit /\ PageBytes \in Nat \ {0}
  BY LimitPlaces, LayoutAssumption
<1> DEFINE Pages == {1, UserCodePage, UserCodePage + 1, UserStackPage, UserStackPage + 1}
           Borders == {PageBytes * p : p \in Pages} \cup {UserLimit - PageBytes, UserLimit}
<1>2. \A p \in Pages : p \in Nat \ {0}
  BY Layout DEF UserCodePage, UserStackPage
<1> HIDE DEF Pages
<1>3. \A b \in Borders : b \in Nat \ {0}
  <2>1. ASSUME NEW p \in Pages PROVE PageBytes * p \in Nat \ {0}
    BY <1>1, <1>2
  <2>2. UserLimit - PageBytes \in Nat \ {0} /\ UserLimit \in Nat \ {0}
    BY <1>1
  <2>3. QED
    BY <2>1, <2>2
<1>4. Addresses = {0, Wide - 1} \cup UNION {{b - 1, b, b + 1} : b \in Borders}
  BY DEF Addresses, Pages
<1> HIDE DEF Borders
<1>5. Addresses \subseteq Nat
  <2>1. \A b \in Borders : {b - 1, b, b + 1} \subseteq Nat
    BY <1>3
  <2>2. UNION {{b - 1, b, b + 1} : b \in Borders} \subseteq Nat
    BY <2>1, Zenon
  <2>3. {0, Wide - 1} \subseteq Nat
    BY <1>1
  <2>4. QED
    BY <1>4, <2>2, <2>3, Zenon
<1>6. Lengths \subseteq Nat
  BY <1>1 DEF Lengths
<1>7. QED
  BY <1>5, <1>6

\* SYS_WRITE's range check accepts exactly what ring 3 could read itself: it
\* neither faults nor lets kernel memory through, also where address + length
\* would wrap around (paging.c:104-123).
THEOREM RangeCheckIsExact == Spec => []RangeCheckExact
<1>1. Inv => RangeCheckExact
  <2> SUFFICES ASSUME Inv, NEW u \in users, NEW address \in Addresses, NEW length \in Lengths
               PROVE  user_range_valid(u.directory, address, length) <=>
                        /\ address < UserLimit
                        /\ address + length =< UserLimit
                        /\ length > 0 => \A v \in address \div PageBytes ..
                                                  (address + length - 1) \div PageBytes :
                                           UserReaches(u.directory, v) # Null
    BY Zenon DEF RangeCheckExact
  <2>1. PICK d \in Directories : d = u.directory
    BY DEF Directories
  <2>2. address \in Nat /\ length \in Nat
    BY TriedAreNumbers
  <2>3. user_range_valid(d, address, length) <=>
          /\ address < UserLimit
          /\ address + length =< UserLimit
          /\ length > 0 => \A v \in address \div PageBytes ..
                                    (address + length - 1) \div PageBytes :
                             UserReaches(d, v) # Null
    BY <2>2, RangeCheck
  <2>4. QED
    BY <2>1, <2>3, Zenon
<1>2. QED
  BY <1>1, Invariance, PTL
=============================================================================
