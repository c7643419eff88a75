--------------------------------- MODULE Pmm ---------------------------------
(***************************************************************************)
(* The physical page allocator (memory/pmm.c): the bitmap, the page count  *)
(* and highest_page, from the walk over the boot loader's memory map to    *)
(* allocate_page and free_page.  pmm_init runs once, alone, at boot; its   *)
(* loops over tags and map entries are steps here, so that no operator has *)
(* to be recursive.  Addresses and sizes are bytes, PageSize of them to a  *)
(* page.                                                                   *)
(***************************************************************************)
EXTENDS Integers, Sequences, FiniteSets

CONSTANTS
  PageSize,       \* PAGE_SIZE
  MaxPages,       \* MAX_PAGES
  FallbackStart,  \* the 0x00100000 of the boot without a usable map
  FallbackEnd,    \* the 0x01000000
  Boots           \* what the boot loader can hand over, see Boot

ASSUME PageSizeAssumption == PageSize \in Nat \ {0}
ASSUME MaxPagesAssumption == MaxPages \in Nat \ {0}
ASSUME FallbackAssumption == FallbackStart \in Nat /\ FallbackEnd \in Nat

\* A map entry: base, length and kind (1 is available memory).  The numbers
\* are unbounded: the model is of maps whose entries end more than a page
\* below 2^64.  For others base + length (pmm.c:88) and the rounding up of a
\* start (pmm.c:31) wrap around in uint64_t.
Region == [base : Nat, length : Nat, kind : Nat]

\* A tag of the boot information.  "mmap" is a tag of type 6 whose entries are
\* at least 24 bytes long; "other" is one the walk steps over, a type 6 tag
\* with shorter entries included; "malformed" has a size that ends the walk.
Tag == [type : {"mmap", "other", "malformed"}, entries : Seq(Region)]

\* The boot information (absent when the boot loader is not multiboot) as the
\* bytes info_start .. info_end - 1 and its tags, and the end of the kernel.
Boot == [present : BOOLEAN, info_start : Nat, info_end : Nat,
         tags : Seq(Tag), kernel_end : Nat]

ASSUME BootsAssumption ==
  \A b \in Boots :
    /\ b.present \in BOOLEAN
    /\ b.info_start \in Nat /\ b.info_end \in Nat /\ b.kernel_end \in Nat
    /\ b.tags \in Seq(Tag)

VARIABLES
  boot,          \* the input of pmm_init
  tags,          \* the tags the walk has still to look at
  entries,       \* the entries of the current tag still to look at
  phase,         \* where pmm_init is, "ready" when it has returned
  used,          \* the pages whose bit in page_bitmap is set
  highest_page,
  free_count,
  held,          \* ghost: the pages handed out and not freed
  fell_back      \* ghost: the memory was taken from the fallback range

memory == <<used, highest_page, free_count>>
vars == <<boot, tags, entries, phase, used, highest_page, free_count, held,
          fell_back>>

AllPages == 0 .. MaxPages - 1
FreePages == AllPages \ used

-----------------------------------------------------------------------------
RoundUp(bytes) == (bytes + PageSize - 1) \div PageSize
RoundDown(bytes) == bytes \div PageSize
Clip(page) == IF page > MaxPages THEN MaxPages ELSE page

\* Mutant: partial pages at both ends are freed too.
free_range_outward(start, end) ==
  LET range == RoundDown(start) .. Clip(RoundUp(end)) - 1 IN
  /\ used' = used \ range
  /\ free_count' = free_count + Cardinality(used \cap range)
  /\ highest_page' = IF Clip(RoundUp(end)) > highest_page
                     THEN Clip(RoundUp(end)) ELSE highest_page

\* Mutant: a range past the last page is not cut off.
free_range_unclipped(start, end) ==
  LET range == RoundUp(start) .. RoundDown(end) - 1 IN
  /\ used' = used \ range
  /\ free_count' = free_count + Cardinality(used \cap range)
  /\ highest_page' = IF RoundDown(end) > highest_page
                     THEN RoundDown(end) ELSE highest_page

\* Mutant: every page of the range is counted, free or not.
free_range_recount(start, end) ==
  LET range == RoundUp(start) .. Clip(RoundDown(end)) - 1 IN
  /\ used' = used \ range
  /\ free_count' = free_count + Cardinality(range)
  /\ highest_page' = IF Clip(RoundDown(end)) > highest_page
                     THEN Clip(RoundDown(end)) ELSE highest_page

\* Mutant: highest_page follows the last range, not the highest one.
free_range_last(start, end) ==
  LET range == RoundUp(start) .. Clip(RoundDown(end)) - 1 IN
  /\ used' = used \ range
  /\ free_count' = free_count + Cardinality(used \cap range)
  /\ highest_page' = Clip(RoundDown(end))

\* free_range: the whole pages inside [start, end) become free.
free_range(start, end) ==
  LET last == Clip(RoundDown(end))
      range == RoundUp(start) .. last - 1
  IN /\ used' = used \ range
     /\ free_count' = free_count + Cardinality(used \cap range)
     /\ highest_page' = IF last > highest_page THEN last ELSE highest_page

\* reserve_range: the pages [start, end) touches become used.
reserve_range(start, end) ==
  LET range == RoundDown(start) .. Clip(RoundUp(end)) - 1 IN
  /\ used' = used \cup range
  /\ free_count' = free_count - Cardinality(range \ used)
  /\ UNCHANGED highest_page

-----------------------------------------------------------------------------
(* pmm_init.                                                               *)

Init ==
  /\ boot \in Boots
  /\ tags = boot.tags /\ entries = <<>>
  /\ phase = IF boot.present THEN "tags" ELSE "fallback"
  /\ used = AllPages /\ highest_page = 0 /\ free_count = 0
  /\ held = {} /\ fell_back = FALSE

\* One entry of the memory map.
MapEntry ==
  /\ phase = "tags" /\ entries # <<>>
  /\ entries' = Tail(entries)
  /\ LET e == Head(entries) IN
     IF e.kind = 1 /\ e.length # 0
     THEN free_range(e.base, e.base + e.length)
     ELSE UNCHANGED memory
  /\ UNCHANGED <<boot, tags, phase, held, fell_back>>

\* The loop test and the next tag.
NextTag ==
  /\ phase = "tags" /\ entries = <<>>
  /\ IF tags = <<>> \/ Head(tags).type = "malformed"
     THEN phase' = "info" /\ UNCHANGED <<tags, entries>>
     ELSE /\ tags' = Tail(tags)
          /\ entries' = IF Head(tags).type = "mmap" THEN Head(tags).entries
                        ELSE <<>>
          /\ UNCHANGED phase
  /\ UNCHANGED <<boot, memory, held, fell_back>>

ReserveInfo ==
  /\ phase = "info" /\ phase' = "fallback"
  /\ reserve_range(boot.info_start, boot.info_end)
  /\ UNCHANGED <<boot, tags, entries, held, fell_back>>

Fallback ==
  /\ phase = "fallback" /\ phase' = "null"
  /\ IF highest_page = 0
     THEN free_range(FallbackStart, FallbackEnd) /\ fell_back' = TRUE
     ELSE UNCHANGED <<memory, fell_back>>
  /\ UNCHANGED <<boot, tags, entries, held>>

ReserveNull ==
  /\ phase = "null" /\ phase' = "kernel"
  /\ reserve_range(0, PageSize)
  /\ UNCHANGED <<boot, tags, entries, held, fell_back>>

ReserveKernel ==
  /\ phase = "kernel" /\ phase' = "ready"
  /\ reserve_range(0, boot.kernel_end)
  /\ UNCHANGED <<boot, tags, entries, held, fell_back>>

pmm_init ==
  MapEntry \/ NextTag \/ ReserveInfo \/ Fallback \/ ReserveNull \/ ReserveKernel

-----------------------------------------------------------------------------
\* Mutant: the bit of the page handed out is not set.
allocate_page_unmarked ==
  /\ phase = "ready"
  /\ \E page \in 1 .. highest_page - 1 :
       /\ page \notin used
       /\ \A q \in 1 .. page - 1 : q \in used
       /\ held' = held \cup {page}
  /\ free_count' = free_count - 1
  /\ UNCHANGED <<boot, tags, entries, phase, used, highest_page, fell_back>>

\* allocate_page hands out the lowest free page above page 0; with none it
\* answers null and changes nothing.
allocate_page ==
  /\ phase = "ready"
  /\ \E page \in 1 .. highest_page - 1 :
       /\ page \notin used
       /\ \A q \in 1 .. page - 1 : q \in used
       /\ used' = used \cup {page}
       /\ held' = held \cup {page}
  /\ free_count' = free_count - 1
  /\ UNCHANGED <<boot, tags, entries, phase, highest_page, fell_back>>

\* ... and with none it answers null and changes nothing.
allocate_page_fails ==
  /\ phase = "ready"
  /\ \A page \in 1 .. highest_page - 1 : page \in used
  /\ UNCHANGED vars

\* free_page of a page the caller holds.  The kernel calls it with pages that
\* allocate_page returned (process.c:74, 126-130); null, a page number past
\* highest_page or a page already free changes nothing.
free_page(page) ==
  /\ phase = "ready"
  /\ IF page = 0 \/ page >= highest_page \/ page \notin used
     THEN UNCHANGED <<used, free_count, held>>
     ELSE /\ used' = used \ {page}
          /\ free_count' = free_count + 1
          /\ held' = held \ {page}
  /\ UNCHANGED <<boot, tags, entries, phase, highest_page, fell_back>>

FreePage ==
  \E page \in held \cup FreePages \cup {0, highest_page} : free_page(page)

Next == pmm_init \/ allocate_page \/ allocate_page_fails \/ FreePage

Spec == Init /\ [][Next]_vars

-----------------------------------------------------------------------------
(* Properties.                                                             *)

\* Types; no page past MAX_PAGES enters the bitmap or highest_page.
TypeOK ==
  /\ boot \in Boots
  /\ tags \in Seq(Tag) /\ entries \in Seq(Region)
  /\ phase \in {"tags", "info", "fallback", "null", "kernel", "ready"}
  /\ used \subseteq AllPages
  /\ highest_page \in 0 .. MaxPages
  /\ free_count \in Nat
  /\ held \subseteq AllPages
  /\ fell_back \in BOOLEAN

\* The pages that lie wholly inside, and those that touch, a byte range.
Inside(start, end) ==
  {p \in AllPages : start =< p * PageSize /\ (p + 1) * PageSize =< end}
Touching(start, end) ==
  {p \in AllPages : start < (p + 1) * PageSize /\ p * PageSize < end}

\* The available memory the boot loader reports.
Reported ==
  {p \in AllPages :
     \E k \in DOMAIN boot.tags : \E m \in DOMAIN boot.tags[k].entries :
       LET e == boot.tags[k].entries[m] IN
       e.kind = 1 /\ p \in Inside(e.base, e.base + e.length)}

\* free_count is the number of clear bits, whatever ranges overlap, lie past
\* MAX_PAGES, or are freed and reserved again (pmm.c:29-59).
CountExact == free_count = Cardinality(FreePages)

\* Once up, the allocator deals only in pages the map reports as available (or
\* in the fallback range), never in page 0, in a page with a byte of the
\* kernel, or, when there is a map, in one with a byte of the boot
\* information (pmm.c:61-105).
OnlyUsableMemory ==
  phase = "ready" =>
    LET dealt == FreePages \cup held IN
    /\ 0 \notin dealt
    /\ dealt \cap Touching(0, boot.kernel_end) = {}
    /\ IF fell_back THEN dealt \subseteq Inside(FallbackStart, FallbackEnd)
       ELSE /\ dealt \subseteq Reported
            /\ dealt \cap Touching(boot.info_start, boot.info_end) = {}

\* Once up, every free page is one allocate_page can reach, so it fails only
\* when free_count is 0 (pmm.c:41, 109).
NoStrandedPage == phase = "ready" => FreePages \subseteq 1 .. highest_page - 1

\* Seen from outside, the bitmap is an allocator that never hands out a page
\* twice and loses none: an up, avail and held that behave like PageAllocator.
PA == INSTANCE PageAllocator WITH
        up <- phase = "ready",
        avail <- IF phase = "ready" THEN FreePages ELSE {},
        held <- held

Implements == PA!Spec
==============================================================================
