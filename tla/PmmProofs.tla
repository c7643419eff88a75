------------------------------ MODULE PmmProofs ------------------------------
(***************************************************************************)
(* The page allocator for every memory map in which no entry wraps around  *)
(* 2^64, every page size and MAX_PAGES: its count is exact, it deals only  *)
(* in usable memory, strands no page and implements PageAllocator.  None   *)
(* of this is inductive by itself.  Inv adds that what the walk has still  *)
(* to read comes from the boot loader's map, that no bit past highest_page *)
(* is clear, and what holds after each phase of pmm_init.                  *)
(***************************************************************************)
EXTENDS Pmm, FiniteSetTheorems, SequenceTheorems, TLAPS

-----------------------------------------------------------------------------
(* Pages and bytes.                                                        *)

\* Multiplication by a page size keeps the order of page numbers.
LEMMA Scaled ==
  ASSUME NEW p \in Nat, NEW q \in Nat, p =< q
  PROVE  p * PageSize \in Nat /\ q * PageSize \in Nat /\ p * PageSize =< q * PageSize
<1>1. PageSize \in Nat
  BY PageSizeAssumption
<1>2. q - p \in Nat /\ q = p + (q - p)
  OBVIOUS
<1>3. PICK k \in Nat : q = p + k
  BY <1>2
<1>4. q * PageSize = p * PageSize + k * PageSize
  BY <1>1, <1>3
<1>5. p * PageSize \in Nat /\ k * PageSize \in Nat
  BY <1>1
<1>6. QED
  BY <1>4, <1>5

\* RoundDown gives the page a byte lies in, or the end of the last whole page
\* before it (pmm.c:29-59).
LEMMA RoundDownBound ==
  ASSUME NEW bytes \in Nat
  PROVE  RoundDown(bytes) \in Nat /\ RoundDown(bytes) * PageSize =< bytes
<1>1. PageSize \in Nat \ {0}
  BY PageSizeAssumption
<1> DEFINE d == bytes \div PageSize
           r == bytes % PageSize
<1>2. d \in Int /\ r \in 0 .. PageSize - 1 /\ bytes = PageSize * d + r
  BY <1>1
<1>3. d >= 0
  BY <1>1
<1>4. RoundDown(bytes) = d
  BY DEF RoundDown
<1> HIDE DEF d, r
<1>5. PageSize * d = d * PageSize /\ d * PageSize \in Int
  BY <1>1, <1>2
<1>6. QED
  BY <1>1, <1>2, <1>3, <1>4, <1>5

\* RoundUp gives the first whole page at or after a byte (pmm.c:29-59).
LEMMA RoundUpBound ==
  ASSUME NEW bytes \in Nat
  PROVE  RoundUp(bytes) \in Nat /\ bytes =< RoundUp(bytes) * PageSize
<1>1. PageSize \in Nat \ {0}
  BY PageSizeAssumption
<1> DEFINE n == bytes + PageSize - 1
           d == n \div PageSize
           r == n % PageSize
<1>2. n \in Nat
  BY <1>1
<1>3. d \in Int /\ r \in 0 .. PageSize - 1 /\ n = PageSize * d + r /\ d >= 0
  <2> HIDE DEF n
  <2>1. d \in Int /\ r \in 0 .. PageSize - 1 /\ n = PageSize * d + r
    BY <1>1, <1>2
  <2>2. d >= 0
    BY <1>1, <1>2
  <2>3. QED
    BY <2>1, <2>2
<1>4. RoundUp(bytes) = d
  BY DEF RoundUp
<1> HIDE DEF d, r
<1>5. PageSize * d = d * PageSize /\ d * PageSize \in Int
  BY <1>1, <1>3
<1>6. QED
  BY <1>1, <1>3, <1>4, <1>5

\* Clip never passes MAX_PAGES (pmm.c:33-34, 51-52).
LEMMA ClipBound ==
  ASSUME NEW page \in Nat
  PROVE  Clip(page) \in 0 .. MaxPages /\ Clip(page) =< page
         /\ \A p \in AllPages : p < page => p < Clip(page)
BY MaxPagesAssumption DEF Clip, AllPages

\* The pages free_range frees lie wholly inside its range of bytes.
LEMMA FreedInside ==
  ASSUME NEW start \in Nat, NEW end \in Nat,
         NEW p \in RoundUp(start) .. Clip(RoundDown(end)) - 1
  PROVE  p \in Inside(start, end)
<1>1. /\ RoundUp(start) \in Nat /\ start =< RoundUp(start) * PageSize
      /\ RoundDown(end) \in Nat /\ RoundDown(end) * PageSize =< end
  BY RoundUpBound, RoundDownBound
<1>2. Clip(RoundDown(end)) \in 0 .. MaxPages /\ Clip(RoundDown(end)) =< RoundDown(end)
  BY <1>1, ClipBound
<1>3. p \in AllPages /\ p \in Nat /\ RoundUp(start) =< p /\ p + 1 =< RoundDown(end)
  BY <1>1, <1>2, MaxPagesAssumption DEF AllPages
<1>4. /\ RoundUp(start) * PageSize =< p * PageSize
      /\ (p + 1) * PageSize =< RoundDown(end) * PageSize
      /\ RoundUp(start) * PageSize \in Nat /\ RoundDown(end) * PageSize \in Nat
      /\ p * PageSize \in Nat /\ (p + 1) * PageSize \in Nat
  <2>1. p + 1 \in Nat
    BY <1>3
  <2>2. QED
    BY <1>1, <1>3, <2>1, Scaled
<1>5. start =< p * PageSize /\ (p + 1) * PageSize =< end
  BY <1>1, <1>4
<1>6. QED
  BY <1>3, <1>5 DEF Inside

\* The pages reserve_range takes are all that its range of bytes touches.
LEMMA TouchedReserved ==
  ASSUME NEW start \in Nat, NEW end \in Nat, NEW p \in Touching(start, end)
  PROVE  p \in RoundDown(start) .. Clip(RoundUp(end)) - 1
<1>1. /\ RoundUp(end) \in Nat /\ end =< RoundUp(end) * PageSize
      /\ RoundDown(start) \in Nat /\ RoundDown(start) * PageSize =< start
  BY RoundUpBound, RoundDownBound
<1>2. p \in AllPages /\ start < (p + 1) * PageSize /\ p * PageSize < end
  BY DEF Touching
<1>3. p \in Nat /\ p + 1 \in Nat /\ PageSize \in Nat
  BY <1>2, PageSizeAssumption, MaxPagesAssumption DEF AllPages
<1>4. p >= RoundDown(start)
  <2> SUFFICES ASSUME p + 1 =< RoundDown(start) PROVE FALSE
    BY <1>1, <1>3
  <2>1. (p + 1) * PageSize =< RoundDown(start) * PageSize
        /\ (p + 1) * PageSize \in Nat /\ RoundDown(start) * PageSize \in Nat
    BY <1>1, <1>3, Scaled
  <2>2. QED
    BY <1>1, <1>2, <2>1
<1>5. p < RoundUp(end)
  <2> SUFFICES ASSUME RoundUp(end) =< p PROVE FALSE
    BY <1>1, <1>3
  <2>1. RoundUp(end) * PageSize =< p * PageSize
        /\ RoundUp(end) * PageSize \in Nat /\ p * PageSize \in Nat
    BY <1>1, <1>3, Scaled
  <2>2. QED
    BY <1>1, <1>2, <2>1
<1>6. p < Clip(RoundUp(end)) /\ Clip(RoundUp(end)) \in 0 .. MaxPages
  BY <1>1, <1>2, <1>5, ClipBound
<1>7. QED
  BY <1>1, <1>3, <1>4, <1>6, MaxPagesAssumption

-----------------------------------------------------------------------------
(* The invariant.                                                          *)

\* What the walk has still to look at is part of the boot loader's map.
WalkOfMap ==
  /\ \A k \in DOMAIN tags : \E j \in DOMAIN boot.tags : tags[k] = boot.tags[j]
  /\ \A m \in DOMAIN entries :
       \E j \in DOMAIN boot.tags : \E n \in DOMAIN boot.tags[j].entries :
         entries[m] = boot.tags[j].entries[n]

\* No clear bit is out of the reach of allocate_page, and what is held is
\* marked as used.
Reach ==
  /\ FreePages \subseteq 0 .. highest_page - 1
  /\ held \subseteq used /\ held \subseteq 1 .. highest_page - 1

Dealt == FreePages \cup held

\* What each phase of pmm_init leaves behind.
Phases ==
  /\ phase # "ready" => held = {}
  /\ fell_back => phase \in {"null", "kernel", "ready"}
  /\ IF fell_back THEN Dealt \subseteq Inside(FallbackStart, FallbackEnd)
     ELSE Dealt \subseteq Reported
  /\ phase \in {"fallback", "null", "kernel", "ready"} /\ ~fell_back =>
       Dealt \cap Touching(boot.info_start, boot.info_end) = {}
  /\ phase \in {"kernel", "ready"} => 0 \notin Dealt
  /\ phase = "ready" => Dealt \cap Touching(0, boot.kernel_end) = {}

Inv == TypeOK /\ CountExact /\ WalkOfMap /\ Reach /\ Phases

\* Inv is what the properties need.
LEMMA InvGives == Inv => TypeOK /\ CountExact /\ OnlyUsableMemory /\ NoStrandedPage
<1> SUFFICES ASSUME Inv PROVE OnlyUsableMemory /\ NoStrandedPage
  BY DEF Inv
<1>1. OnlyUsableMemory
  BY DEF Inv, Phases, Dealt, OnlyUsableMemory
<1>2. NoStrandedPage
  BY DEF Inv, TypeOK, Reach, Phases, Dealt, NoStrandedPage
<1>3. QED
  BY <1>1, <1>2

\* The bitmap has finitely many pages.
LEMMA PagesFinite ==
  ASSUME NEW S \in SUBSET AllPages
  PROVE  IsFiniteSet(S) /\ Cardinality(S) \in Nat
<1>1. IsFiniteSet(AllPages)
  BY MaxPagesAssumption, FS_Interval DEF AllPages
<1>2. QED
  BY <1>1, FS_Subset, FS_CardinalityType

\* Two disjoint sets of pages count together as their union.
LEMMA CountTogether ==
  ASSUME NEW S \in SUBSET AllPages, NEW T \in SUBSET AllPages, S \cap T = {}
  PROVE  Cardinality(S \cup T) = Cardinality(S) + Cardinality(T)
<1>1. IsFiniteSet(S) /\ IsFiniteSet(T) /\ Cardinality(S) \in Nat /\ Cardinality(T) \in Nat
  BY PagesFinite
<1>2. Cardinality(S \cup T) = Cardinality(S) + Cardinality(T) - Cardinality(S \cap T)
  BY <1>1, FS_Union
<1>3. Cardinality(S \cap T) = 0
  BY FS_EmptySet
<1>4. QED
  BY <1>1, <1>2, <1>3

-----------------------------------------------------------------------------
(* The two loops over pages.                                               *)

\* free_range keeps the count exact and every clear bit in reach, and clears
\* bits only of pages inside its range (pmm.c:29-43).
LEMMA FreeRangeKeeps ==
  ASSUME TypeOK, CountExact, Reach, NEW start \in Nat, NEW end \in Nat,
         free_range(start, end), held' = held, held = {}
  PROVE  /\ used' \in SUBSET AllPages /\ highest_page' \in 0 .. MaxPages
         /\ free_count' \in Nat /\ CountExact' /\ Reach'
         /\ FreePages' \subseteq FreePages \cup Inside(start, end)
<1> DEFINE last == Clip(RoundDown(end))
           range == RoundUp(start) .. last - 1
<1>1. last \in 0 .. MaxPages /\ RoundUp(start) \in Nat
  BY ClipBound, RoundDownBound, RoundUpBound
<1>2. range \subseteq AllPages
  BY <1>1, MaxPagesAssumption DEF AllPages
<1>3. /\ used' = used \ range
      /\ free_count' = free_count + Cardinality(used \cap range)
      /\ highest_page' = IF last > highest_page THEN last ELSE highest_page
  BY DEF free_range
<1>4. range \subseteq Inside(start, end)
  BY FreedInside
<1>5. \A p \in range : p < last
  BY <1>1
<1> HIDE DEF last, range
<1>6. used \in SUBSET AllPages /\ highest_page \in 0 .. MaxPages
  BY DEF TypeOK
<1>7. FreePages' = FreePages \cup (used \cap range)
  BY <1>2, <1>3 DEF FreePages
<1>8. FreePages \in SUBSET AllPages /\ used \cap range \in SUBSET AllPages
      /\ FreePages \cap (used \cap range) = {}
  BY <1>6 DEF FreePages
<1>9. Cardinality(FreePages') = Cardinality(FreePages) + Cardinality(used \cap range)
  BY <1>7, <1>8, CountTogether
<1>10. CountExact' /\ free_count' \in Nat
  <2>1. CountExact'
    BY <1>3, <1>9 DEF CountExact
  <2>2. FreePages' \in SUBSET AllPages
    BY <1>7, <1>8
  <2>3. Cardinality(FreePages') \in Nat
    BY <2>2, PagesFinite
  <2>4. free_count' = Cardinality(FreePages')
    BY <2>1 DEF CountExact
  <2>5. QED
    BY <2>1, <2>3, <2>4
<1>11. highest_page' \in 0 .. MaxPages /\ highest_page' >= highest_page /\ highest_page' >= last
  BY <1>1, <1>3, <1>6, MaxPagesAssumption
<1>12. Reach'
  <2>1. FreePages \subseteq 0 .. highest_page - 1
    BY DEF Reach
  <2> DEFINE top == highest_page'
  <2>2. top \in Int /\ top >= highest_page /\ top >= last
        /\ highest_page \in Int /\ last \in Int
    BY <1>1, <1>6, <1>11, MaxPagesAssumption
  <2> HIDE DEF top
  <2>3. ASSUME NEW p \in FreePages' PROVE p \in 0 .. top - 1
    <3>1. p \in Nat /\ (p < highest_page \/ p < last)
      BY <1>2, <1>5, <1>6, <1>7, <2>1, MaxPagesAssumption DEF AllPages
    <3>2. QED
      BY <2>2, <3>1
  <2>4. FreePages' \subseteq 0 .. highest_page' - 1
    BY <2>3 DEF top
  <2>5. QED
    BY <2>4 DEF Reach
<1>13. QED
  BY <1>3, <1>4, <1>6, <1>7, <1>10, <1>11, <1>12

\* reserve_range keeps the count exact and leaves no page of its range free
\* (pmm.c:45-59).
LEMMA ReserveRangeKeeps ==
  ASSUME TypeOK, CountExact, Reach, NEW start \in Nat, NEW end \in Nat,
         reserve_range(start, end), held' = held, held = {}
  PROVE  /\ used' \in SUBSET AllPages /\ highest_page' = highest_page
         /\ free_count' \in Nat /\ CountExact' /\ Reach'
         /\ FreePages' \subseteq FreePages
         /\ FreePages' \cap Touching(start, end) = {}
<1> DEFINE range == RoundDown(start) .. Clip(RoundUp(end)) - 1
<1>1. Clip(RoundUp(end)) \in 0 .. MaxPages /\ RoundDown(start) \in Nat
  BY ClipBound, RoundDownBound, RoundUpBound
<1>2. range \subseteq AllPages
  BY <1>1, MaxPagesAssumption DEF AllPages
<1>3. /\ used' = used \cup range
      /\ free_count' = free_count - Cardinality(range \ used)
      /\ highest_page' = highest_page
  BY DEF reserve_range
<1>4. Touching(start, end) \subseteq range
  BY TouchedReserved
<1> HIDE DEF range
<1>5. used \in SUBSET AllPages
  BY DEF TypeOK
<1>6. FreePages = FreePages' \cup (range \ used) /\ FreePages' \cap (range \ used) = {}
      /\ FreePages' \in SUBSET AllPages /\ range \ used \in SUBSET AllPages
  BY <1>2, <1>3, <1>5 DEF FreePages
<1>7. Cardinality(FreePages) = Cardinality(FreePages') + Cardinality(range \ used)
      /\ Cardinality(FreePages') \in Nat /\ Cardinality(range \ used) \in Nat
  BY <1>6, CountTogether, PagesFinite
<1>8. free_count = Cardinality(FreePages)
  BY DEF CountExact
<1>9. free_count' = Cardinality(FreePages')
  BY <1>3, <1>7, <1>8
<1>10. Reach'
  BY <1>3, <1>6 DEF Reach
<1>11. QED
  BY <1>2, <1>3, <1>4, <1>5, <1>6, <1>7, <1>9, <1>10 DEF CountExact, FreePages

-----------------------------------------------------------------------------
(* One lemma for each action.                                              *)

\* What remains of a list after its first element.
LEMMA TailOf ==
  ASSUME NEW S, NEW s \in Seq(S), s # <<>>
  PROVE  /\ Head(s) \in S /\ Tail(s) \in Seq(S)
         /\ 1 \in DOMAIN s /\ Head(s) = s[1]
         /\ \A m \in DOMAIN Tail(s) : m + 1 \in DOMAIN s /\ Tail(s)[m] = s[m + 1]
<1>1. Len(s) \in Nat \ {0} /\ DOMAIN s = 1 .. Len(s)
  BY EmptySeq, LenProperties
<1>2. /\ Head(s) \in S /\ Tail(s) \in Seq(S) /\ Len(Tail(s)) = Len(s) - 1
      /\ \A m \in 1 .. Len(Tail(s)) : Tail(s)[m] = s[m + 1]
  BY HeadTailProperties
<1>3. DOMAIN Tail(s) = 1 .. Len(s) - 1
  BY <1>2, LenProperties
<1>4. Head(s) = s[1]
  OBVIOUS
<1>5. QED
  BY <1>1, <1>2, <1>3, <1>4

\* A boot record is typed.
LEMMA BootTyped ==
  ASSUME TypeOK
  PROVE  /\ boot.info_start \in Nat /\ boot.info_end \in Nat /\ boot.kernel_end \in Nat
         /\ boot.tags \in Seq(Tag)
BY BootsAssumption DEF TypeOK

\* Before the first entry is read every bit is set.
LEMMA InitInv == Init => Inv
<1> SUFFICES ASSUME Init PROVE Inv
  OBVIOUS
<1>1. FreePages = {}
  BY DEF Init, FreePages
<1>2. TypeOK
  <2>1. boot \in Boots /\ tags \in Seq(Tag)
    BY BootsAssumption DEF Init
  <2>2. entries \in Seq(Region)
    BY EmptySeq DEF Init
  <2>3. used \subseteq AllPages /\ highest_page \in 0 .. MaxPages /\ free_count \in Nat
    BY MaxPagesAssumption DEF Init
  <2>4. phase \in {"tags", "info", "fallback", "null", "kernel", "ready"}
        /\ held \subseteq AllPages /\ fell_back \in BOOLEAN
    BY DEF Init
  <2>5. QED
    BY <2>1, <2>2, <2>3, <2>4 DEF TypeOK
<1>3. CountExact
  BY <1>1, FS_EmptySet DEF Init, CountExact
<1>4. WalkOfMap
  BY DEF Init, WalkOfMap
<1>5. Reach
  BY <1>1 DEF Init, Reach
<1>6. Phases
  BY <1>1 DEF Init, Phases, Dealt
<1>7. QED
  BY <1>2, <1>3, <1>4, <1>5, <1>6 DEF Inv

\* An entry of the memory map (pmm.c:83-90).
LEMMA MapEntryKeeps == Inv /\ MapEntry => Inv'
<1> SUFFICES ASSUME Inv, MapEntry PROVE Inv'
  OBVIOUS
<1> DEFINE e == Head(entries)
<1>1. TypeOK /\ CountExact /\ Reach /\ held = {} /\ ~fell_back /\ phase = "tags"
  BY DEF Inv, MapEntry, Phases
<1>2. /\ UNCHANGED <<boot, tags, phase, held, fell_back>> /\ entries' = Tail(entries)
      /\ \/ e.kind = 1 /\ free_range(e.base, e.base + e.length)
         \/ UNCHANGED memory
  BY DEF MapEntry
<1>3. /\ e \in Region /\ entries' \in Seq(Region) /\ 1 \in DOMAIN entries /\ e = entries[1]
      /\ \A m \in DOMAIN entries' : m + 1 \in DOMAIN entries /\ entries'[m] = entries[m + 1]
  BY <1>1, <1>2, TailOf DEF MapEntry, TypeOK
<1>4. WalkOfMap'
  <2>1. \A m \in DOMAIN entries' :
          \E j \in DOMAIN boot.tags : \E n \in DOMAIN boot.tags[j].entries :
            entries'[m] = boot.tags[j].entries[n]
    BY <1>3 DEF Inv, WalkOfMap
  <2>2. QED
    BY <1>2, <2>1 DEF Inv, WalkOfMap
<1>5. CASE UNCHANGED memory
  <2>1. TypeOK' /\ CountExact' /\ Reach' /\ Phases'
    BY <1>2, <1>3, <1>5 DEF Inv, TypeOK, CountExact, Reach, Phases, Dealt, FreePages,
       Reported, memory
  <2>2. QED
    BY <1>4, <2>1 DEF Inv
<1>6. CASE e.kind = 1 /\ free_range(e.base, e.base + e.length)
  <2>1. e.base \in Nat /\ e.base + e.length \in Nat
    BY <1>3 DEF Region
  <2>2. /\ used' \in SUBSET AllPages /\ highest_page' \in 0 .. MaxPages
        /\ free_count' \in Nat /\ CountExact' /\ Reach'
        /\ FreePages' \subseteq FreePages \cup Inside(e.base, e.base + e.length)
    BY <1>1, <1>2, <1>6, <2>1, FreeRangeKeeps
  <2>3. TypeOK'
    BY <1>2, <1>3, <2>2 DEF Inv, TypeOK
  <2>4. Inside(e.base, e.base + e.length) \subseteq Reported
    <3>1. PICK j \in DOMAIN boot.tags : \E n \in DOMAIN boot.tags[j].entries :
            e = boot.tags[j].entries[n]
      BY <1>3 DEF Inv, WalkOfMap
    <3>2. Inside(e.base, e.base + e.length) \subseteq AllPages
      BY DEF Inside
    <3>3. QED
      BY <1>6, <3>1, <3>2 DEF Reported
  <2>5. Phases'
    <3>1. Dealt' \subseteq Reported
      BY <1>1, <1>2, <2>2, <2>4 DEF Inv, Phases, Dealt
    <3>2. QED
      BY <1>1, <1>2, <3>1 DEF Inv, Phases, Reported
  <2>6. QED
    BY <1>4, <2>2, <2>3, <2>5 DEF Inv
<1>7. QED
  BY <1>2, <1>5, <1>6

\* The next tag (pmm.c:71-93).
LEMMA NextTagKeeps == Inv /\ NextTag => Inv'
<1> SUFFICES ASSUME Inv, NextTag PROVE Inv'
  OBVIOUS
<1>1. /\ TypeOK /\ phase = "tags" /\ ~fell_back
      /\ UNCHANGED <<boot, memory, held, fell_back>>
  BY DEF Inv, NextTag, Phases
<1>2. CASE phase' = "info" /\ UNCHANGED <<tags, entries>>
  BY <1>1, <1>2 DEF Inv, TypeOK, CountExact, WalkOfMap, Reach, Phases, Dealt, FreePages,
     Reported, memory
<1>3. CASE /\ tags # <<>> /\ tags' = Tail(tags) /\ phase' = phase
           /\ entries' = IF Head(tags).type = "mmap" THEN Head(tags).entries ELSE <<>>
  <2>1. /\ Head(tags) \in Tag /\ tags' \in Seq(Tag) /\ 1 \in DOMAIN tags /\ Head(tags) = tags[1]
        /\ \A m \in DOMAIN tags' : m + 1 \in DOMAIN tags /\ tags'[m] = tags[m + 1]
    BY <1>1, <1>3, TailOf DEF TypeOK
  <2>2. entries' \in Seq(Region)
    BY <1>3, <2>1, EmptySeq DEF Tag
  <2>3. TypeOK'
    BY <1>1, <1>3, <2>1, <2>2 DEF TypeOK, memory
  <2>4. \A k \in DOMAIN tags' : \E j \in DOMAIN boot.tags : tags'[k] = boot.tags[j]
    BY <2>1 DEF Inv, WalkOfMap
  <2>5. PICK j \in DOMAIN boot.tags : Head(tags) = boot.tags[j]
    BY <2>1 DEF Inv, WalkOfMap
  <2>6. \A m \in DOMAIN entries' : \E n \in DOMAIN boot.tags[j].entries :
          entries'[m] = boot.tags[j].entries[n]
    <3>1. CASE Head(tags).type = "mmap"
      BY <1>3, <2>5, <3>1
    <3>2. CASE Head(tags).type # "mmap"
      BY <1>3, <3>2
    <3>3. QED
      BY <3>1, <3>2
  <2>7. WalkOfMap'
    BY <1>1, <2>4, <2>5, <2>6 DEF WalkOfMap
  <2>8. CountExact' /\ Reach' /\ Phases'
    BY <1>1, <1>3 DEF Inv, CountExact, Reach, Phases, Dealt, FreePages, Reported, memory
  <2>9. QED
    BY <2>3, <2>7, <2>8 DEF Inv
<1>4. QED
  BY <1>2, <1>3 DEF NextTag

\* The boot information becomes used (pmm.c:95-96).
LEMMA ReserveInfoKeeps == Inv /\ ReserveInfo => Inv'
<1> SUFFICES ASSUME Inv, ReserveInfo PROVE Inv'
  OBVIOUS
<1>1. TypeOK /\ CountExact /\ Reach /\ held = {} /\ ~fell_back
  BY DEF Inv, ReserveInfo, Phases
<1>2. phase' = "fallback" /\ UNCHANGED <<boot, tags, entries, held, fell_back>>
      /\ reserve_range(boot.info_start, boot.info_end)
  BY DEF ReserveInfo
<1>3. /\ used' \in SUBSET AllPages /\ highest_page' = highest_page
      /\ free_count' \in Nat /\ CountExact' /\ Reach' /\ FreePages' \subseteq FreePages
      /\ FreePages' \cap Touching(boot.info_start, boot.info_end) = {}
  BY <1>1, <1>2, BootTyped, ReserveRangeKeeps
<1>4. TypeOK' /\ WalkOfMap'
  BY <1>2, <1>3 DEF Inv, TypeOK, WalkOfMap
<1>5. Phases'
  BY <1>1, <1>2, <1>3 DEF Inv, Phases, Dealt, Reported, Touching
<1>6. QED
  BY <1>3, <1>4, <1>5 DEF Inv

\* Without a usable map a fixed range is taken (pmm.c:100-101).
LEMMA FallbackKeeps == Inv /\ Fallback => Inv'
<1> SUFFICES ASSUME Inv, Fallback PROVE Inv'
  OBVIOUS
<1>1. TypeOK /\ CountExact /\ Reach /\ held = {} /\ ~fell_back /\ phase = "fallback"
  BY DEF Inv, Fallback, Phases
<1>2. phase' = "null" /\ UNCHANGED <<boot, tags, entries, held>>
  BY DEF Fallback
<1>3. WalkOfMap'
  BY <1>2 DEF Inv, WalkOfMap
<1>4. CASE highest_page = 0 /\ free_range(FallbackStart, FallbackEnd) /\ fell_back' = TRUE
  <2>1. /\ used' \in SUBSET AllPages /\ highest_page' \in 0 .. MaxPages
        /\ free_count' \in Nat /\ CountExact' /\ Reach'
        /\ FreePages' \subseteq FreePages \cup Inside(FallbackStart, FallbackEnd)
    BY <1>1, <1>2, <1>4, FallbackAssumption, FreeRangeKeeps
  <2>2. FreePages = {}
    BY <1>1, <1>4 DEF Reach
  <2>3. TypeOK'
    BY <1>2, <1>4, <2>1 DEF Inv, TypeOK
  <2>4. Dealt' \subseteq Inside(FallbackStart, FallbackEnd)
    BY <1>1, <1>2, <2>1, <2>2 DEF Dealt
  <2>5. Phases'
    BY <1>1, <1>2, <1>4, <2>4 DEF Phases, Inside
  <2>6. QED
    BY <1>3, <2>1, <2>3, <2>5 DEF Inv
<1>5. CASE UNCHANGED <<memory, fell_back>>
  BY <1>1, <1>2, <1>3, <1>5 DEF Inv, TypeOK, CountExact, Reach, Phases, Dealt, FreePages,
     Reported, Touching, memory
<1>6. QED
  BY <1>4, <1>5 DEF Fallback

\* Page 0 becomes used (pmm.c:103).
LEMMA ReserveNullKeeps == Inv /\ ReserveNull => Inv'
<1> SUFFICES ASSUME Inv, ReserveNull PROVE Inv'
  OBVIOUS
<1>1. TypeOK /\ CountExact /\ Reach /\ held = {} /\ phase = "null" /\ PageSize \in Nat \ {0}
  BY PageSizeAssumption DEF Inv, ReserveNull, Phases
<1>2. phase' = "kernel" /\ UNCHANGED <<boot, tags, entries, held, fell_back>>
      /\ reserve_range(0, PageSize)
  BY DEF ReserveNull
<1>3. /\ used' \in SUBSET AllPages /\ highest_page' = highest_page
      /\ free_count' \in Nat /\ CountExact' /\ Reach' /\ FreePages' \subseteq FreePages
      /\ FreePages' \cap Touching(0, PageSize) = {}
  BY <1>1, <1>2, ReserveRangeKeeps
<1>4. TypeOK' /\ WalkOfMap'
  BY <1>2, <1>3 DEF Inv, TypeOK, WalkOfMap
<1>5. 0 \in Touching(0, PageSize)
  BY <1>1, MaxPagesAssumption DEF Touching, AllPages
<1>6. Phases'
  BY <1>1, <1>2, <1>3, <1>5 DEF Inv, Phases, Dealt, Reported, Touching, Inside
<1>7. QED
  BY <1>3, <1>4, <1>6 DEF Inv

\* The kernel's pages become used, and pmm_init returns (pmm.c:104).
LEMMA ReserveKernelKeeps == Inv /\ ReserveKernel => Inv'
<1> SUFFICES ASSUME Inv, ReserveKernel PROVE Inv'
  OBVIOUS
<1>1. TypeOK /\ CountExact /\ Reach /\ held = {} /\ phase = "kernel"
  BY DEF Inv, ReserveKernel, Phases
<1>2. phase' = "ready" /\ UNCHANGED <<boot, tags, entries, held, fell_back>>
      /\ reserve_range(0, boot.kernel_end)
  BY DEF ReserveKernel
<1>3. /\ used' \in SUBSET AllPages /\ highest_page' = highest_page
      /\ free_count' \in Nat /\ CountExact' /\ Reach' /\ FreePages' \subseteq FreePages
      /\ FreePages' \cap Touching(0, boot.kernel_end) = {}
  BY <1>1, <1>2, BootTyped, ReserveRangeKeeps
<1>4. TypeOK' /\ WalkOfMap'
  BY <1>2, <1>3 DEF Inv, TypeOK, WalkOfMap
<1>5. Phases'
  BY <1>1, <1>2, <1>3 DEF Inv, Phases, Dealt, Reported, Touching, Inside
<1>6. QED
  BY <1>3, <1>4, <1>5 DEF Inv

\* What is dealt in does not change once the allocator is up: pages only move
\* between free and held.
LEMMA DealtSame ==
  ASSUME Inv, phase = "ready", Dealt' = Dealt,
         UNCHANGED <<boot, tags, entries, phase, fell_back>>
  PROVE  Phases' /\ WalkOfMap'
BY DEF Inv, Phases, Reported, Touching, Inside, WalkOfMap

\* allocate_page moves one page from free to held (pmm.c:107-117).
LEMMA AllocateKeeps ==
  ASSUME Inv, allocate_page
  PROVE  /\ Inv'
         /\ \E page \in FreePages : FreePages' = FreePages \ {page} /\ held' = held \cup {page}
<1>1. PICK page \in 1 .. highest_page - 1 :
        page \notin used /\ used' = used \cup {page} /\ held' = held \cup {page}
  BY DEF allocate_page
<1>2. /\ phase = "ready" /\ free_count' = free_count - 1
      /\ UNCHANGED <<boot, tags, entries, phase, highest_page, fell_back>>
  BY DEF allocate_page
<1>3. page \in FreePages /\ page \in AllPages
  BY <1>1, MaxPagesAssumption DEF Inv, TypeOK, FreePages, AllPages
<1>4. FreePages' = FreePages \ {page} /\ FreePages \in SUBSET AllPages
  BY <1>1 DEF FreePages
<1>5. CountExact' /\ free_count' \in Nat
  <2>1. IsFiniteSet(FreePages) /\ Cardinality(FreePages \ {page}) \in Nat
    BY <1>4, PagesFinite
  <2>2. Cardinality(FreePages \ {page}) = Cardinality(FreePages) - 1
    BY <1>3, <2>1, FS_RemoveElement
  <2>3. free_count' = Cardinality(FreePages \ {page})
    BY <1>2, <2>2 DEF Inv, CountExact
  <2>4. QED
    BY <1>4, <2>1, <2>3 DEF CountExact
<1>6. TypeOK'
  BY <1>1, <1>2, <1>3, <1>5 DEF Inv, TypeOK
<1>7. Reach'
  BY <1>1, <1>2, <1>4 DEF Inv, Reach
<1>8. Phases' /\ WalkOfMap'
  <2>1. Dealt' = Dealt
    BY <1>1, <1>3, <1>4 DEF Dealt
  <2>2. QED
    BY <1>2, <2>1, DealtSame
<1>9. QED
  BY <1>1, <1>3, <1>4, <1>5, <1>6, <1>7, <1>8 DEF Inv

\* free_page changes nothing or moves one page from held to free (pmm.c:119-126).
LEMMA FreeKeeps ==
  ASSUME Inv, FreePage
  PROVE  /\ Inv'
         /\ \/ FreePages' = FreePages /\ held' = held
            \/ \E page \in held : FreePages' = FreePages \cup {page} /\ held' = held \ {page}
<1>1. PICK page \in held \cup FreePages \cup {0, highest_page} : free_page(page)
  BY DEF FreePage
<1>2. phase = "ready" /\ UNCHANGED <<boot, tags, entries, phase, highest_page, fell_back>>
  BY <1>1 DEF free_page
<1>3. CASE UNCHANGED <<used, free_count, held>>
  <2>1. FreePages' = FreePages /\ Dealt' = Dealt
    BY <1>3 DEF FreePages, Dealt
  <2>2. TypeOK' /\ CountExact' /\ Reach'
    BY <1>2, <1>3, <2>1 DEF Inv, TypeOK, CountExact, Reach
  <2>3. QED
    BY <1>2, <1>3, <2>1, <2>2, DealtSame DEF Inv
<1>4. CASE /\ page # 0 /\ page # highest_page /\ page \in used
           /\ used' = used \ {page} /\ free_count' = free_count + 1 /\ held' = held \ {page}
  <2>1. page \in held /\ page \in AllPages
    BY <1>1, <1>4 DEF FreePages, Inv, TypeOK
  <2>2. FreePages' = FreePages \cup {page} /\ FreePages \in SUBSET AllPages
        /\ page \notin FreePages
    BY <1>4, <2>1 DEF FreePages
  <2>3. CountExact' /\ free_count' \in Nat
    <3>1. IsFiniteSet(FreePages) /\ Cardinality(FreePages) \in Nat
      BY <2>2, PagesFinite
    <3>2. Cardinality(FreePages \cup {page}) = Cardinality(FreePages) + 1
      BY <2>2, <3>1, FS_AddElement
    <3>3. QED
      BY <1>4, <2>2, <3>1, <3>2 DEF Inv, CountExact
  <2>4. TypeOK'
    BY <1>2, <1>4, <2>3 DEF Inv, TypeOK
  <2>5. Reach'
    BY <1>2, <1>4, <2>1, <2>2 DEF Inv, Reach, TypeOK
  <2>6. Phases' /\ WalkOfMap'
    <3>1. Dealt' = Dealt
      BY <1>4, <2>1, <2>2 DEF Dealt
    <3>2. QED
      BY <1>2, <3>1, DealtSame
  <2>7. QED
    BY <1>4, <2>1, <2>2, <2>3, <2>4, <2>5, <2>6 DEF Inv
<1>5. highest_page \in Int
  BY DEF Inv, TypeOK
<1>6. QED
  BY <1>1, <1>3, <1>4, <1>5 DEF free_page

\* Inv is inductive.
LEMMA NextInv == Inv /\ [Next]_vars => Inv'
<1> SUFFICES ASSUME Inv, [Next]_vars PROVE Inv'
  OBVIOUS
<1>1. CASE pmm_init
  BY <1>1, MapEntryKeeps, NextTagKeeps, ReserveInfoKeeps, FallbackKeeps, ReserveNullKeeps,
     ReserveKernelKeeps DEF pmm_init
<1>2. CASE allocate_page
  BY <1>2, AllocateKeeps
<1>3. CASE FreePage
  BY <1>3, FreeKeeps
<1>4. CASE UNCHANGED vars
  BY <1>4 DEF vars, Inv, TypeOK, CountExact, WalkOfMap, Reach, Phases, Dealt, FreePages,
     Reported, Touching, Inside
<1>5. QED
  BY <1>1, <1>2, <1>3, <1>4 DEF Next, allocate_page_fails

\* It holds in every state.
LEMMA Invariance == Spec => []Inv
BY InitInv, NextInv, PTL DEF Spec

-----------------------------------------------------------------------------
(* The results.                                                            *)

\* The bitmap, highest_page and the count keep to their types and to MAX_PAGES
\* whatever the map holds, short of wrapping around 2^64 (pmm.c:29-126).
THEOREM TypeCorrect == Spec => []TypeOK
BY Invariance, InvGives, PTL

\* free_count is always the number of clear bits (pmm.c:29-59, 107-126).
THEOREM CountIsExact == Spec => []CountExact
BY Invariance, InvGives, PTL

\* Only memory the boot loader reports, or the fallback range, is dealt in, and
\* none of the kernel, page 0 or the boot information (pmm.c:61-105).
THEOREM DealsOnlyInUsableMemory == Spec => []OnlyUsableMemory
BY Invariance, InvGives, PTL

\* No free page is out of the reach of allocate_page (pmm.c:41-42, 109).
THEOREM StrandsNoPage == Spec => []NoStrandedPage
BY Invariance, InvGives, PTL

\* pmm_init is silent until it returns, and its last step is the Boot step of
\* the abstract allocator.
LEMMA InitSteps ==
  ASSUME Inv, Inv', pmm_init
  PROVE  PA!Boot \/ UNCHANGED PA!vars
<1>1. phase # "ready" /\ held = {} /\ held' = held
  BY DEF Inv, Phases, pmm_init, MapEntry, NextTag, ReserveInfo, Fallback, ReserveNull,
     ReserveKernel
<1>2. CASE phase' = "ready"
  <2>1. FreePages' \subseteq AllPages \ {0}
    BY <1>2 DEF Inv, Phases, Dealt, FreePages
  <2>2. QED
    BY <1>1, <1>2, <2>1 DEF PA!Boot
<1>3. CASE phase' # "ready"
  BY <1>1, <1>3 DEF PA!vars
<1>4. QED
  BY <1>2, <1>3

\* Every step is a step of the abstract allocator or leaves it as it was.
LEMMA StepSimulates ==
  ASSUME Inv, Inv', [Next]_vars
  PROVE  [PA!Next]_(PA!vars)
<1>1. CASE pmm_init
  BY <1>1, InitSteps DEF PA!Next
<1>2. CASE allocate_page
  <2>1. phase = "ready" /\ phase' = phase
    BY <1>2 DEF allocate_page
  <2>2. PICK page \in FreePages : FreePages' = FreePages \ {page} /\ held' = held \cup {page}
    BY <1>2, AllocateKeeps
  <2>3. PA!Allocate
    BY <2>1, <2>2 DEF PA!Allocate
  <2>4. QED
    BY <2>3 DEF PA!Next
<1>3. CASE FreePage
  <2>1. phase = "ready" /\ phase' = phase
    BY <1>3 DEF FreePage, free_page
  <2>2. CASE FreePages' = FreePages /\ held' = held
    BY <2>1, <2>2 DEF PA!vars
  <2>3. CASE \E page \in held : FreePages' = FreePages \cup {page} /\ held' = held \ {page}
    <3>1. PA!Free
      BY <2>1, <2>3 DEF PA!Free
    <3>2. QED
      BY <3>1 DEF PA!Next
  <2>4. QED
    BY <1>3, <2>2, <2>3, FreeKeeps
<1>4. CASE UNCHANGED vars
  BY <1>4 DEF vars, PA!vars, FreePages
<1>5. QED
  BY <1>1, <1>2, <1>3, <1>4 DEF Next, allocate_page_fails

\* The bitmap implements the abstract allocator: a page is handed out only when
\* it is available, and comes back only when its holder frees it.
THEOREM ImplementsPageAllocator == Spec => Implements
<1>1. Init => PA!Init
  BY DEF Init, PA!Init
<1>2. Inv /\ Inv' /\ [Next]_vars => [PA!Next]_(PA!vars)
  BY StepSimulates
<1>3. QED
  BY <1>1, <1>2, Invariance, PTL DEF Spec, Implements, PA!Spec
=============================================================================
