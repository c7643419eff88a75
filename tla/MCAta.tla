------------------------------- MODULE MCAta -------------------------------
(* Ata with two values per address digit, so 16 sectors.  Sectors 1 and 9  *)
(* differ in the drive register only; 9 is the first one past the smaller  *)
(* capacity, 16 the first one past 28 bits.  A wait polls twice.           *)
EXTENDS Ata
============================================================================
