--------------------------- MODULE MCAddressSpace ---------------------------
(* AddressSpace with 16 entries to a table and two identity tables.        *)
(* SmallMachine has memory below USER_CODE_ADDRESS only (page 16 here, 4   *)
(* MB in LevOS); BigMachine has a few pages more.                          *)
EXTENDS AddressSpace

MCIdentityTable == [t \in {0, 1} |-> 2 + t]
SmallMachine == 6 .. 15
BigMachine == 12 .. 18
=============================================================================
