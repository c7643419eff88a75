------------------------------- MODULE MCPmm -------------------------------
(* Pmm with 4-byte pages and a 6-page address space.  The map entries      *)
(* overlap, start and end inside pages, reach past the last page, are      *)
(* reserved or empty; the tag lists hold a second map, tags to step over   *)
(* and one that ends the walk; the boot information lies in free memory.   *)
EXTENDS Pmm

MCRegions ==
  {[base |-> 0, length |-> 9, kind |-> 1], [base |-> 3, length |-> 14, kind |-> 1],
   [base |-> 13, length |-> 20, kind |-> 1], [base |-> 6, length |-> 4, kind |-> 1],
   [base |-> 8, length |-> 8, kind |-> 2], [base |-> 8, length |-> 0, kind |-> 1],
   [base |-> 28, length |-> 9, kind |-> 1]}

MapTag(es) == [type |-> "mmap", entries |-> es]
Other == [type |-> "other", entries |-> <<>>]
Malformed == [type |-> "malformed", entries |-> <<>>]

MCTags ==
  {<<>>, <<Other>>, <<Malformed>>}
  \cup {<<Other, MapTag(<<r, s>>)>> : r \in MCRegions, s \in MCRegions}
  \cup {<<MapTag(<<r>>), Other, MapTag(<<s>>)>> : r \in MCRegions, s \in MCRegions}
  \cup {<<MapTag(<<r>>), Malformed, MapTag(<<s>>)>> : r \in MCRegions, s \in MCRegions}

MCBoots ==
  {[present |-> TRUE, info_start |-> i, info_end |-> i + 5, tags |-> t,
    kernel_end |-> k] : i \in {10, 16}, t \in MCTags, k \in {3, 5, 8}}
  \cup {[present |-> FALSE, info_start |-> 0, info_end |-> 0, tags |-> <<>>,
         kernel_end |-> k] : k \in {3, 5, 8}}
============================================================================
