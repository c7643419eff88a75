----------------------------- MODULE AtaProofs -----------------------------
(***************************************************************************)
(* The ATA driver for every poll limit, every width of the address         *)
(* registers and every set of sectors and capacities: what the disk is     *)
(* told to read, what a successful read delivers, and what an error ends.  *)
(***************************************************************************)
EXTENDS Ata, TLAPS

-----------------------------------------------------------------------------
(* Arithmetic of the address registers.                                    *)

\* A quotient and a remainder are determined by the division they make up.
LEMMA DivisionUnique ==
  ASSUME NEW x \in Nat, NEW b \in Nat \ {0}, NEW q \in Nat, NEW r \in 0 .. b - 1,
         x = b * q + r
  PROVE  x \div b = q /\ x % b = r
<1> DEFINE d == x \div b
           m == x % b
<1>1. d \in Int /\ m \in 0 .. b - 1 /\ x = b * d + m
  OBVIOUS
<1> HIDE DEF d, m
<1>2. ~(d > q)
  <2> SUFFICES ASSUME d > q PROVE FALSE
    OBVIOUS
  <2>1. PICK k \in Nat : d = q + 1 + k
    <3>1. d - (q + 1) \in Nat /\ d = q + 1 + (d - (q + 1))
      BY <1>1
    <3>2. QED
      BY <3>1
  <2>2. b * d = b * q + b + b * k /\ b * k \in Nat /\ b * q \in Nat
    BY <2>1
  <2>3. QED
    BY <1>1, <2>2
<1>3. ~(d < q)
  <2> SUFFICES ASSUME d < q PROVE FALSE
    OBVIOUS
  <2>1. PICK k \in Nat : q = d + 1 + k
    <3>1. q - (d + 1) \in Nat /\ q = d + 1 + (q - (d + 1))
      BY <1>1
    <3>2. QED
      BY <3>1
  <2>2. b * q = b * d + b + b * k /\ b * k \in Nat /\ b * d \in Int
    BY <1>1, <2>1
  <2>3. QED
    BY <1>1, <2>2
<1>4. d = q
  BY <1>1, <1>2, <1>3
<1>5. b * d = b * q
  BY <1>4
<1>6. b * q \in Nat
  OBVIOUS
<1>7. m = r
  BY <1>1, <1>5, <1>6
<1>8. QED
  BY <1>4, <1>7 DEF d, m

\* Every number has a quotient and a remainder.
LEMMA Division ==
  ASSUME NEW x \in Nat, NEW b \in Nat \ {0}
  PROVE  \E q \in Nat, r \in 0 .. b - 1 : x = b * q + r
<1> DEFINE q == x \div b
           r == x % b
<1>1. q \in Int /\ r \in 0 .. b - 1 /\ x = b * q + r
  OBVIOUS
<1>2. q >= 0
  OBVIOUS
<1> HIDE DEF q, r
<1>3. QED
  BY <1>1, <1>2

\* Two digits: the number they make is below the product of their bases.
LEMMA TwoDigits ==
  ASSUME NEW a \in Nat \ {0}, NEW b \in Nat \ {0}, NEW hi \in 0 .. b - 1, NEW lo \in 0 .. a - 1
  PROVE  a * hi + lo \in 0 .. a * b - 1 /\ a * b \in Nat \ {0}
<1>1. PICK k \in Nat : b = hi + 1 + k
  <2>1. b - (hi + 1) \in Nat /\ b = hi + 1 + (b - (hi + 1))
    OBVIOUS
  <2>2. QED
    BY <2>1
<1>2. a * b = a * hi + a + a * k /\ a * hi \in Nat /\ a * k \in Nat
  BY <1>1
<1>3. QED
  BY <1>2

\* The four registers hold the whole address of every sector that 28 bits can
\* address: the disk reads the sector that was asked for (ata.c:170-178).
LEMMA AddressComplete ==
  ASSUME NEW s \in Nat, s < Lba28
  PROVE  Addressed(Registers(s)) = s
<1> DEFINE R == Radix
           RR == R * R
           RRR == R * R * R
<1>1. R \in Nat \ {0} /\ High \in Nat \ {0}
  BY LimitsAssumption
<1>2. PICK q1 \in Nat, r0 \in 0 .. R - 1 : s = R * q1 + r0
  BY <1>1, Division
<1>3. PICK q2 \in Nat, r1 \in 0 .. R - 1 : q1 = R * q2 + r1
  BY <1>1, Division
<1>4. PICK q3 \in Nat, r2 \in 0 .. R - 1 : q2 = R * q3 + r2
  BY <1>1, Division
<1> DEFINE l1 == R * r1 + r0
           l2 == RR * r2 + l1
<1>5. Lba28 = RRR * High
  BY DEF Lba28
<1> HIDE DEF R
<1>6. l1 \in 0 .. RR - 1 /\ RR \in Nat \ {0}
  BY <1>1, TwoDigits
<1>7. s = RR * q2 + l1
  BY <1>1, <1>2, <1>3
<1> HIDE DEF l1
<1>8. RRR = RR * R
  BY <1>1
<1>9. s = RRR * q3 + l2
  <2>1. RR * q2 = RRR * q3 + RR * r2
    BY <1>1, <1>4
  <2>2. RR * q2 \in Nat /\ RRR * q3 \in Nat /\ RR * r2 \in Nat /\ l1 \in Nat
    BY <1>1, <1>6
  <2> HIDE DEF RR, RRR
  <2>3. QED
    BY <1>7, <2>1, <2>2
<1> HIDE DEF RR
<1>10. l2 \in 0 .. RRR - 1 /\ RRR \in Nat \ {0}
  <2>1. RR * r2 + l1 \in 0 .. RR * R - 1 /\ RR * R \in Nat \ {0}
    BY <1>1, <1>6, TwoDigits
  <2>2. QED
    BY <1>8, <2>1
<1> HIDE DEF RRR, l2
<1>11. q3 < High
  <2> SUFFICES ASSUME q3 >= High PROVE FALSE
    BY <1>1
  <2>1. PICK k \in Nat : q3 = High + k
    <3>1. q3 - High \in Nat /\ q3 = High + (q3 - High)
      BY <1>1
    <3>2. QED
      BY <3>1
  <2>2. RRR * q3 = RRR * High + RRR * k /\ RRR * k \in Nat /\ RRR * High \in Nat
    BY <1>1, <1>10, <2>1
  <2>3. QED
    BY <1>5, <1>9, <1>10, <2>2
<1>12. s \div R = q1 /\ s % R = r0
  BY <1>1, <1>2, DivisionUnique
<1>13. q1 % R = r1
  BY <1>1, <1>3, DivisionUnique
<1>14. s \div RR = q2
  BY <1>6, <1>7, DivisionUnique
<1>15. q2 % R = r2
  BY <1>1, <1>4, DivisionUnique
<1>16. s \div RRR = q3
  BY <1>9, <1>10, DivisionUnique
<1>17. q3 % High = q3
  <2>1. q3 \in 0 .. High - 1 /\ q3 = High * 0 + q3
    BY <1>1, <1>11
  <2>2. QED
    BY <1>1, <2>1, DivisionUnique
<1>18. Registers(s) = [lba0 |-> r0, lba1 |-> r1, lba2 |-> r2, drive |-> q3]
  <2>1. Registers(s) = [lba0 |-> s % R, lba1 |-> (s \div R) % R,
                        lba2 |-> (s \div RR) % R, drive |-> (s \div RRR) % High]
    BY Zenon DEF Registers, R, RR, RRR
  <2>2. QED
    BY <1>12, <1>13, <1>14, <1>15, <1>16, <1>17, <2>1, Zenon
<1>19. Addressed(Registers(s)) = r0 + R * (r1 + R * (r2 + R * q3))
  BY <1>18 DEF Addressed, R
<1>20. r2 + R * q3 = q2
  BY <1>1, <1>4
<1>21. r1 + R * q2 = q1
  BY <1>1, <1>3
<1>22. r0 + R * q1 = s
  BY <1>1, <1>2
<1>23. QED
  BY <1>19, <1>20, <1>21, <1>22

-----------------------------------------------------------------------------
(* The inductive invariant.                                                *)

Probing == {"probe", "init_wait", "identify", "identify_wait", "identify_data"}
ReadSteps == {"read_wait", "select", "select_wait", "command", "data_wait", "check", "data"}

\* The steps at which no data of an earlier command may be left over.
Settled == {"idle", "read_wait", "select", "select_wait", "command"}

\* What TypeOK leaves open: the disk, the ghosts, and that a wait that goes on
\* has polls left.
Types ==
  /\ TypeOK
  /\ attached \in BOOLEAN /\ timed_out \in BOOLEAN /\ erred \in BOOLEAN
  /\ command \in Int /\ reported \in Nat
  /\ step \in Waits => timeout # 0

\* The sector of a read under way passed both range checks; sector_count is
\* set before the first read (block.c:9-10, ata.c:119-123, 162).
Bounds ==
  /\ step \in Probing => command \in {None, Identify} /\ result # "ok"
  /\ step \in ReadSteps =>
       sector \in Nat /\ sector < Lba28 /\ (sector_count # 0 => sector < sector_count)

\* While no wait has run out, each command has been answered and its answer
\* taken before the next read is given; from then on the command under way is
\* the read of the sector asked for (ata.c:66-69, 167-189).
InStep ==
  attached /\ ~timed_out =>
    /\ step \in Settled => disk # "data" /\ (disk = "busy" => command = None)
    /\ step \in {"data_wait", "check", "data"} => command = sector
    /\ step \in {"identify_data", "check", "data"} => disk = "data"

\* An error that the driver has seen is still in the status register, and the
\* driver does not get past the first wait (ata.c:66-67, 167).
Stuck == erred => disk = "error" /\ step \in {"idle", "read_wait"}

Inv == Types /\ Bounds /\ CommandsInBounds /\ InStep /\ SectorDelivered /\ Stuck /\ ErrorIsFinal

\* The waits of the driver and where it goes on after each (ata.c:51-73).
LEMMA WaitsAre ==
  /\ Waits = {"init_wait", "identify_wait", "read_wait", "select_wait", "data_wait"}
  /\ After["init_wait"] = "identify" /\ After["identify_wait"] = "identify_data"
  /\ After["read_wait"] = "select" /\ After["select_wait"] = "command"
  /\ After["data_wait"] = "check"
BY DEF Waits, After

\* The first sector that 28 bits cannot address.
LEMMA Lba28Natural == Lba28 \in Nat \ {0}
<1>1. Radix \in Nat \ {0} /\ High \in Nat \ {0}
  BY LimitsAssumption
<1>2. Radix * Radix \in Nat \ {0}
  BY <1>1, TwoDigits
<1>3. Radix * Radix * Radix \in Nat \ {0}
  BY <1>1, <1>2, TwoDigits
<1>4. QED
  BY <1>1, <1>3, TwoDigits DEF Lba28

\* The driver before ata_pio_init.
LEMMA InitInv == Init => Inv
<1> SUFFICES ASSUME Init PROVE Inv
  OBVIOUS
<1>1. Types
  <2>1. /\ timed_out \in BOOLEAN /\ erred \in BOOLEAN /\ present \in BOOLEAN
        /\ attached \in BOOLEAN
    BY Zenon DEF Init
  <2>2. /\ step = "probe" /\ timeout = 0 /\ last_error = "ENODEV" /\ result = "ENODEV"
        /\ sector_count = 0 /\ sector = None /\ disk \in {"idle", "busy", "data", "error"} /\ command = None
        /\ reported \in Capacities
    BY DEF Init
  <2>3. QED
    BY <2>1, <2>2, WaitsAre, Lba28Natural, LimitsAssumption DEF Types, TypeOK, Errors, None
<1>2. Bounds /\ CommandsInBounds
  BY DEF Init, Bounds, CommandsInBounds, Probing, ReadSteps, None, Identify
<1>3. InStep /\ SectorDelivered
  BY DEF Init, InStep, SectorDelivered, Settled
<1>4. Stuck /\ ErrorIsFinal
  BY DEF Init, Stuck, ErrorIsFinal
<1>5. QED
  BY <1>1, <1>2, <1>3, <1>4 DEF Inv

\* The disk ends a command.
LEMMA AnswerInv == ASSUME Inv, Answer PROVE Inv'
<1>1. Types'
  BY WaitsAre, Lba28Natural, LimitsAssumption
     DEF Inv, Types, TypeOK, Bounds, Errors, None, Answer, driver
<1>2. Bounds' /\ CommandsInBounds'
  BY WaitsAre, Lba28Natural
     DEF Inv, Types, TypeOK, Bounds, CommandsInBounds, Probing, ReadSteps, None, Identify, Answer, driver
<1>3. InStep' /\ SectorDelivered'
  BY WaitsAre
     DEF Inv, Types, TypeOK, InStep, SectorDelivered, Settled, Errors, Answer, driver
<1>4. Stuck' /\ ErrorIsFinal'
  BY WaitsAre
     DEF Inv, Types, TypeOK, Stuck, ErrorIsFinal, Errors, Answer, driver
<1>5. QED
  BY <1>1, <1>2, <1>3, <1>4 DEF Inv

\* The disk goes away.
LEMMA DetachInv == ASSUME Inv, Detach PROVE Inv'
<1>1. Types'
  <2>1. attached' = FALSE
    BY DEF Detach
  <2>2. UNCHANGED <<step, timeout, driver, disk, command, reported, timed_out, erred>>
    BY DEF Detach
  <2>3. attached' \in BOOLEAN
    BY <2>1, Zenon
  <2>4. QED
    BY <2>2, <2>3 DEF Inv, Types, TypeOK, driver
<1>2. Bounds' /\ CommandsInBounds'
  BY WaitsAre, Lba28Natural
     DEF Inv, Types, TypeOK, Bounds, CommandsInBounds, Probing, ReadSteps, None, Identify, Detach, driver
<1>3. InStep' /\ SectorDelivered'
  BY WaitsAre
     DEF Inv, Types, TypeOK, InStep, SectorDelivered, Settled, Errors, Detach, driver
<1>4. Stuck' /\ ErrorIsFinal'
  BY WaitsAre
     DEF Inv, Types, TypeOK, Stuck, ErrorIsFinal, Errors, Detach, driver
<1>5. QED
  BY <1>1, <1>2, <1>3, <1>4 DEF Inv

\* ata_pio_init looks for the drive (ata.c:98-106).
LEMMA ProbeInv == ASSUME Inv, Probe PROVE Inv'
<1>1. Types'
  BY WaitsAre, Lba28Natural, LimitsAssumption
     DEF Inv, Types, TypeOK, Bounds, Errors, None, Probe, StartWait, driver, device
<1>2. Bounds' /\ CommandsInBounds'
  BY WaitsAre, Lba28Natural
     DEF Inv, Types, TypeOK, Bounds, CommandsInBounds, Probing, ReadSteps, None, Identify, Probe, StartWait, driver, device
<1>3. InStep' /\ SectorDelivered'
  BY WaitsAre
     DEF Inv, Types, TypeOK, InStep, SectorDelivered, Settled, Errors, Probe, StartWait, driver, device
<1>4. Stuck' /\ ErrorIsFinal'
  BY WaitsAre
     DEF Inv, Types, TypeOK, Stuck, ErrorIsFinal, Errors, Probe, StartWait, driver, device
<1>5. QED
  BY <1>1, <1>2, <1>3, <1>4 DEF Inv

\* IDENTIFY is given (ata.c:108-113).
LEMMA IssueIdentifyInv == ASSUME Inv, IssueIdentify PROVE Inv'
<1>1. Types'
  BY WaitsAre, Lba28Natural, LimitsAssumption
     DEF Inv, Types, TypeOK, Bounds, Errors, None, IssueIdentify, StartWait, Accepts, driver, Identify
<1>2. Bounds' /\ CommandsInBounds'
  BY WaitsAre, Lba28Natural
     DEF Inv, Types, TypeOK, Bounds, CommandsInBounds, Probing, ReadSteps, None, Identify, IssueIdentify, StartWait, Accepts, driver, Identify
<1>3. InStep' /\ SectorDelivered'
  BY WaitsAre
     DEF Inv, Types, TypeOK, InStep, SectorDelivered, Settled, Errors, IssueIdentify, StartWait, Accepts, driver, Identify
<1>4. Stuck' /\ ErrorIsFinal'
  BY WaitsAre
     DEF Inv, Types, TypeOK, Stuck, ErrorIsFinal, Errors, IssueIdentify, StartWait, Accepts, driver, Identify
<1>5. QED
  BY <1>1, <1>2, <1>3, <1>4 DEF Inv

\* The words of IDENTIFY and the capacity in them (ata.c:116-127).
LEMMA ReadIdentifyInv == ASSUME Inv, ReadIdentify PROVE Inv'
<1>1. Types'
  BY WaitsAre, Lba28Natural, LimitsAssumption
     DEF Inv, Types, TypeOK, Bounds, Errors, None, ReadIdentify, DataTaken, Capacity
<1>2. Bounds' /\ CommandsInBounds'
  BY WaitsAre, Lba28Natural
     DEF Inv, Types, TypeOK, Bounds, CommandsInBounds, Probing, ReadSteps, None, Identify, ReadIdentify, DataTaken, Capacity
<1>3. InStep' /\ SectorDelivered'
  <2>1. /\ step = "identify_data" /\ step' = "idle" /\ result # "ok" /\ result' = result
        /\ UNCHANGED <<attached, command, timed_out>>
        /\ disk' = IF attached /\ disk = "data" THEN "idle" ELSE disk
    BY DEF Inv, Bounds, Probing, ReadIdentify, DataTaken
  <2>2. QED
    BY <2>1 DEF Inv, InStep, SectorDelivered, Settled
<1>4. Stuck' /\ ErrorIsFinal'
  BY WaitsAre
     DEF Inv, Types, TypeOK, Stuck, ErrorIsFinal, Errors, ReadIdentify, DataTaken, Capacity
<1>5. QED
  BY <1>1, <1>2, <1>3, <1>4 DEF Inv

\* One poll of ata_wait: the call fails, goes on, or polls again (ata.c:51-73).
LEMMA WaitCases ==
  ASSUME Inv, ata_wait
  PROVE  /\ step \in Waits /\ UNCHANGED <<sector_count, sector, buffer, device>>
         /\ \/ /\ ~attached /\ ata_fail("ENODEV") /\ UNCHANGED <<timeout, timed_out, erred>>
            \/ /\ attached /\ disk = "error" /\ ata_fail("ESTATUS")
               /\ erred' = TRUE /\ UNCHANGED <<timeout, timed_out>>
            \/ /\ attached /\ disk \notin {"error", "busy"}
               /\ step \in WantsData => disk = "data"
               /\ step' = After[step]
               /\ UNCHANGED <<timeout, present, last_error, result, timed_out, erred>>
            \/ /\ attached /\ disk # "error" /\ timeout' = timeout - 1 /\ timeout' # 0
               /\ UNCHANGED <<step, present, last_error, result, timed_out, erred>>
            \/ /\ attached /\ disk # "error" /\ timeout' = timeout - 1
               /\ ata_fail("ETIMEOUT") /\ timed_out' = TRUE /\ UNCHANGED erred
BY DEF ata_wait, PollError, PollReady, Counted

\* One poll of ata_wait keeps the invariant (ata.c:51-73).
LEMMA WaitInv == ASSUME Inv, ata_wait PROVE Inv'
<1>1. /\ step \in Waits /\ UNCHANGED <<sector_count, sector, buffer, device>>
      /\ step \in {"init_wait", "identify_wait", "read_wait", "select_wait", "data_wait"}
  BY WaitCases, WaitsAre
<1>2. CASE ~attached /\ ata_fail("ENODEV") /\ UNCHANGED <<timeout, timed_out, erred>>

  <2>1. Types'
    BY <1>1, <1>2, WaitsAre, LimitsAssumption DEF Inv, Types, TypeOK, Errors, ata_fail, device
  <2>2. Bounds' /\ CommandsInBounds'
    BY <1>1, <1>2, WaitsAre DEF Inv, Bounds, CommandsInBounds, Probing, ReadSteps, ata_fail, device
  <2>3. InStep' /\ SectorDelivered'
    BY <1>1, <1>2, WaitsAre DEF Inv, Types, InStep, SectorDelivered, Settled, WantsData, ata_fail, device
  <2>4. Stuck' /\ ErrorIsFinal'
    BY <1>1, <1>2, WaitsAre DEF Inv, Types, Stuck, ErrorIsFinal, ata_fail, device
  <2>5. QED
    BY <2>1, <2>2, <2>3, <2>4 DEF Inv
<1>3. CASE /\ attached /\ disk = "error" /\ ata_fail("ESTATUS")
           /\ erred' = TRUE /\ UNCHANGED <<timeout, timed_out>>

  <2>1. Types'
    BY <1>1, <1>3, WaitsAre, LimitsAssumption DEF Inv, Types, TypeOK, Errors, ata_fail, device
  <2>2. Bounds' /\ CommandsInBounds'
    BY <1>1, <1>3, WaitsAre DEF Inv, Bounds, CommandsInBounds, Probing, ReadSteps, ata_fail, device
  <2>3. InStep' /\ SectorDelivered'
    BY <1>1, <1>3, WaitsAre DEF Inv, Types, InStep, SectorDelivered, Settled, WantsData, ata_fail, device
  <2>4. Stuck' /\ ErrorIsFinal'
    BY <1>1, <1>3, WaitsAre DEF Inv, Types, Stuck, ErrorIsFinal, ata_fail, device
  <2>5. QED
    BY <2>1, <2>2, <2>3, <2>4 DEF Inv
<1>4. CASE /\ attached /\ disk \notin {"error", "busy"}
           /\ step \in WantsData => disk = "data"
           /\ step' = After[step]
           /\ UNCHANGED <<timeout, present, last_error, result, timed_out, erred>>

  <2>1. Types'
    BY <1>1, <1>4, WaitsAre, LimitsAssumption DEF Inv, Types, TypeOK, Errors, ata_fail, device
  <2>2. Bounds' /\ CommandsInBounds'
    BY <1>1, <1>4, WaitsAre DEF Inv, Bounds, CommandsInBounds, Probing, ReadSteps, ata_fail, device
  <2>3. InStep' /\ SectorDelivered'
    BY <1>1, <1>4, WaitsAre DEF Inv, Types, InStep, SectorDelivered, Settled, WantsData, ata_fail, device
  <2>4. Stuck' /\ ErrorIsFinal'
    BY <1>1, <1>4, WaitsAre DEF Inv, Types, Stuck, ErrorIsFinal, ata_fail, device
  <2>5. QED
    BY <2>1, <2>2, <2>3, <2>4 DEF Inv
<1>5. CASE /\ attached /\ disk # "error" /\ timeout' = timeout - 1 /\ timeout' # 0
           /\ UNCHANGED <<step, present, last_error, result, timed_out, erred>>

  <2>1. Types'
    BY <1>1, <1>5, WaitsAre, LimitsAssumption DEF Inv, Types, TypeOK, Errors, ata_fail, device
  <2>2. Bounds' /\ CommandsInBounds'
    BY <1>1, <1>5, WaitsAre DEF Inv, Bounds, CommandsInBounds, Probing, ReadSteps, ata_fail, device
  <2>3. InStep' /\ SectorDelivered'
    BY <1>1, <1>5, WaitsAre DEF Inv, Types, InStep, SectorDelivered, Settled, WantsData, ata_fail, device
  <2>4. Stuck' /\ ErrorIsFinal'
    BY <1>1, <1>5, WaitsAre DEF Inv, Types, Stuck, ErrorIsFinal, ata_fail, device
  <2>5. QED
    BY <2>1, <2>2, <2>3, <2>4 DEF Inv
<1>6. CASE /\ attached /\ disk # "error" /\ timeout' = timeout - 1
           /\ ata_fail("ETIMEOUT") /\ timed_out' = TRUE /\ UNCHANGED erred

  <2>1. Types'
    BY <1>1, <1>6, WaitsAre, LimitsAssumption DEF Inv, Types, TypeOK, Errors, ata_fail, device
  <2>2. Bounds' /\ CommandsInBounds'
    BY <1>1, <1>6, WaitsAre DEF Inv, Bounds, CommandsInBounds, Probing, ReadSteps, ata_fail, device
  <2>3. InStep' /\ SectorDelivered'
    BY <1>1, <1>6, WaitsAre DEF Inv, Types, InStep, SectorDelivered, Settled, WantsData, ata_fail, device
  <2>4. Stuck' /\ ErrorIsFinal'
    BY <1>1, <1>6, WaitsAre DEF Inv, Types, Stuck, ErrorIsFinal, ata_fail, device
  <2>5. QED
    BY <2>1, <2>2, <2>3, <2>4 DEF Inv
<1>7. QED
  BY <1>2, <1>3, <1>4, <1>5, <1>6, WaitCases

\* A call of block_read_sector, refused or begun (block.c:7-12, ata.c:151-167).
LEMMA RequestCases ==
  ASSUME Inv, Request
  PROVE  /\ step = "idle" /\ UNCHANGED <<sector_count, buffer, device, timed_out, erred>>
         /\ sector' \in Sectors
         /\ \/ /\ result' = "EINVAL" /\ UNCHANGED <<step, timeout, present, last_error>>
            \/ /\ ata_fail("ENODEV") /\ UNCHANGED timeout
            \/ /\ sector' < Lba28 /\ (sector_count # 0 => sector' < sector_count)
               /\ step' = "read_wait" /\ timeout' = PollLimit
               /\ UNCHANGED <<present, last_error, result>>
<1>1. PICK s \in Sectors :
        /\ sector' = s
        /\ \/ /\ result' = "EINVAL" /\ UNCHANGED <<step, timeout, present, last_error>>
           \/ /\ ata_fail("ENODEV") /\ UNCHANGED timeout
           \/ /\ ~(OutOfBounds(s) \/ s > Lba28 - 1)
              /\ StartWait("read_wait") /\ UNCHANGED <<present, last_error, result>>
  BY DEF Request
<1>2. s \in Nat /\ Lba28 \in Nat /\ sector_count \in Nat
  BY LimitsAssumption, Lba28Natural DEF Inv, Types, TypeOK
<1>3. ~(OutOfBounds(s) \/ s > Lba28 - 1) =>
         s < Lba28 /\ (sector_count # 0 => s < sector_count)
  BY <1>2 DEF OutOfBounds
<1>4. QED
  BY <1>1, <1>3 DEF Request, StartWait

\* A call of block_read_sector keeps the invariant (block.c:7-12, ata.c:151-167).
LEMMA RequestInv == ASSUME Inv, Request PROVE Inv'
<1>1. /\ step = "idle" /\ UNCHANGED <<sector_count, buffer, device, timed_out, erred>>
      /\ sector' \in Sectors /\ sector' \in Nat
  BY RequestCases, LimitsAssumption
<1>2. CASE result' = "EINVAL" /\ UNCHANGED <<step, timeout, present, last_error>>

  <2>1. Types'
    BY <1>1, <1>2, WaitsAre, LimitsAssumption DEF Inv, Types, TypeOK, Errors, ata_fail, device
  <2>2. Bounds' /\ CommandsInBounds'
    BY <1>1, <1>2, WaitsAre DEF Inv, Bounds, CommandsInBounds, Probing, ReadSteps, ata_fail, device
  <2>3. InStep' /\ SectorDelivered'
    BY <1>1, <1>2, WaitsAre DEF Inv, Types, InStep, SectorDelivered, Settled, WantsData, ata_fail, device
  <2>4. Stuck' /\ ErrorIsFinal'
    BY <1>1, <1>2, WaitsAre DEF Inv, Types, Stuck, ErrorIsFinal, ata_fail, device
  <2>5. QED
    BY <2>1, <2>2, <2>3, <2>4 DEF Inv
<1>3. CASE ata_fail("ENODEV") /\ UNCHANGED timeout

  <2>1. Types'
    BY <1>1, <1>3, WaitsAre, LimitsAssumption DEF Inv, Types, TypeOK, Errors, ata_fail, device
  <2>2. Bounds' /\ CommandsInBounds'
    BY <1>1, <1>3, WaitsAre DEF Inv, Bounds, CommandsInBounds, Probing, ReadSteps, ata_fail, device
  <2>3. InStep' /\ SectorDelivered'
    BY <1>1, <1>3, WaitsAre DEF Inv, Types, InStep, SectorDelivered, Settled, WantsData, ata_fail, device
  <2>4. Stuck' /\ ErrorIsFinal'
    BY <1>1, <1>3, WaitsAre DEF Inv, Types, Stuck, ErrorIsFinal, ata_fail, device
  <2>5. QED
    BY <2>1, <2>2, <2>3, <2>4 DEF Inv
<1>4. CASE /\ sector' < Lba28 /\ (sector_count # 0 => sector' < sector_count)
           /\ step' = "read_wait" /\ timeout' = PollLimit
           /\ UNCHANGED <<present, last_error, result>>

  <2>1. Types'
    BY <1>1, <1>4, WaitsAre, LimitsAssumption DEF Inv, Types, TypeOK, Errors, ata_fail, device
  <2>2. Bounds' /\ CommandsInBounds'
    BY <1>1, <1>4, WaitsAre DEF Inv, Bounds, CommandsInBounds, Probing, ReadSteps, ata_fail, device
  <2>3. InStep' /\ SectorDelivered'
    BY <1>1, <1>4, WaitsAre DEF Inv, Types, InStep, SectorDelivered, Settled, WantsData, ata_fail, device
  <2>4. Stuck' /\ ErrorIsFinal'
    BY <1>1, <1>4, WaitsAre DEF Inv, Types, Stuck, ErrorIsFinal, ata_fail, device
  <2>5. QED
    BY <2>1, <2>2, <2>3, <2>4 DEF Inv
<1>5. QED
  BY <1>2, <1>3, <1>4, RequestCases

\* The drive register is written (ata.c:170-172).
LEMMA SelectInv == ASSUME Inv, Select PROVE Inv'
<1>1. Types'
  BY WaitsAre, Lba28Natural, LimitsAssumption
     DEF Inv, Types, TypeOK, Bounds, Errors, None, Select, StartWait, driver, device
<1>2. Bounds' /\ CommandsInBounds'
  BY WaitsAre, Lba28Natural
     DEF Inv, Types, TypeOK, Bounds, CommandsInBounds, Probing, ReadSteps, None, Identify, Select, StartWait, driver, device
<1>3. InStep' /\ SectorDelivered'
  BY WaitsAre
     DEF Inv, Types, TypeOK, InStep, SectorDelivered, Settled, Errors, Select, StartWait, driver, device
<1>4. Stuck' /\ ErrorIsFinal'
  BY WaitsAre
     DEF Inv, Types, TypeOK, Stuck, ErrorIsFinal, Errors, Select, StartWait, driver, device
<1>5. QED
  BY <1>1, <1>2, <1>3, <1>4 DEF Inv

\* The read command is given (ata.c:174-180).
LEMMA IssueReadInv == ASSUME Inv, IssueRead PROVE Inv'
<1>0. /\ step = "command" /\ step' = "data_wait" /\ timeout' = PollLimit
      /\ UNCHANGED <<driver, attached, reported, timed_out, erred>>
      /\ \/ attached /\ disk' = "busy" /\ command' = sector
         \/ (~attached \/ disk = "data") /\ UNCHANGED <<disk, command>>
  <2>1. step = "command" /\ sector \in Nat /\ sector < Lba28
    BY DEF Inv, Bounds, ReadSteps, IssueRead
  <2>2. Addressed(Registers(sector)) = sector
    BY <2>1, AddressComplete
  <2>3. QED
    BY <2>2 DEF IssueRead, Accepts, StartWait
<1>1. Types'
  BY <1>0, WaitsAre, LimitsAssumption DEF Inv, Types, TypeOK, Bounds, ReadSteps, driver
<1>2. Bounds' /\ CommandsInBounds'
  BY <1>0 DEF Inv, Bounds, CommandsInBounds, Probing, ReadSteps, driver
<1>3. InStep' /\ SectorDelivered'
  BY <1>0 DEF Inv, Types, InStep, SectorDelivered, Settled, driver
<1>4. Stuck' /\ ErrorIsFinal'
  BY WaitsAre
     DEF Inv, Types, TypeOK, Stuck, ErrorIsFinal, Errors, IssueRead, StartWait, Accepts, driver
<1>5. QED
  BY <1>1, <1>2, <1>3, <1>4 DEF Inv

\* The status after the wait for data (ata.c:182-186).
LEMMA CheckStatusInv == ASSUME Inv, CheckStatus PROVE Inv'
<1>1. Types'
  BY WaitsAre, Lba28Natural, LimitsAssumption
     DEF Inv, Types, TypeOK, Bounds, Errors, None, CheckStatus, ata_fail, device
<1>2. Bounds' /\ CommandsInBounds'
  BY WaitsAre, Lba28Natural
     DEF Inv, Types, TypeOK, Bounds, CommandsInBounds, Probing, ReadSteps, None, Identify, CheckStatus, ata_fail, device
<1>3. InStep' /\ SectorDelivered'
  BY WaitsAre
     DEF Inv, Types, TypeOK, InStep, SectorDelivered, Settled, Errors, CheckStatus, ata_fail, device
<1>4. Stuck' /\ ErrorIsFinal'
  BY WaitsAre
     DEF Inv, Types, TypeOK, Stuck, ErrorIsFinal, Errors, CheckStatus, ata_fail, device
<1>5. QED
  BY <1>1, <1>2, <1>3, <1>4 DEF Inv

\* The data of the sector (ata.c:188-192).
LEMMA ReadDataInv == ASSUME Inv, ReadData PROVE Inv'
<1>1. Types'
  BY WaitsAre, Lba28Natural, LimitsAssumption
     DEF Inv, Types, TypeOK, Bounds, Errors, None, ReadData, DataTaken
<1>2. Bounds' /\ CommandsInBounds'
  BY WaitsAre, Lba28Natural
     DEF Inv, Types, TypeOK, Bounds, CommandsInBounds, Probing, ReadSteps, None, Identify, ReadData, DataTaken
<1>3. InStep' /\ SectorDelivered'
  BY WaitsAre
     DEF Inv, Types, TypeOK, InStep, SectorDelivered, Settled, Errors, ReadData, DataTaken
<1>4. Stuck' /\ ErrorIsFinal'
  BY WaitsAre
     DEF Inv, Types, TypeOK, Stuck, ErrorIsFinal, Errors, ReadData, DataTaken
<1>5. QED
  BY <1>1, <1>2, <1>3, <1>4 DEF Inv

\* Every step keeps the invariant.
LEMMA NextInv == Inv /\ [Next]_vars => Inv'
<1> SUFFICES ASSUME Inv, [Next]_vars PROVE Inv'
  OBVIOUS
<1>1. CASE Driver
  BY <1>1, ProbeInv, IssueIdentifyInv, ReadIdentifyInv, WaitInv, SelectInv, IssueReadInv,
     CheckStatusInv, ReadDataInv DEF Driver
<1>2. CASE Request \/ Answer \/ Detach
  BY <1>2, RequestInv, AnswerInv, DetachInv
<1>3. CASE UNCHANGED vars
  BY <1>3 DEF vars, driver, device, Inv, Types, TypeOK, Bounds, CommandsInBounds, InStep,
              SectorDelivered, Stuck, ErrorIsFinal
<1>4. QED
  BY <1>1, <1>2, <1>3 DEF Next

\* The invariant holds throughout.
LEMMA Invariance == Spec => []Inv
<1>1. QED
  BY InitInv, NextInv, PTL DEF Spec

-----------------------------------------------------------------------------
(* The theorems.                                                           *)

\* Types; in particular sector_count never exceeds what 28 bits address, and
\* a wait never counts below zero (ata.c:54, 71, 119-123).
THEOREM TypeCorrect == Spec => []TypeOK
<1>1. Inv => TypeOK
  BY DEF Inv, Types
<1>2. QED
  BY <1>1, Invariance, PTL

\* No sector outside the reported capacity is ever asked of the disk, although
\* the check is two calls and three waits before the command, and the address
\* goes through four registers (block.c:9-10, ata.c:162, 170-178).
THEOREM ReadsInBounds == Spec => []CommandsInBounds
<1>1. Inv => CommandsInBounds
  BY DEF Inv
<1>2. QED
  BY <1>1, Invariance, PTL

\* A read that succeeds delivers the sector asked for, from a disk that is
\* there and has always answered in time (ata.c:167-192).
THEOREM DeliversTheSector == Spec => []SectorDelivered
<1>1. Inv => SectorDelivered
  BY DEF Inv
<1>2. QED
  BY <1>1, Invariance, PTL

\* After the first error the disk reports no read succeeds (ata.c:66-67, 167).
THEOREM ErrorsAreFinal == Spec => []ErrorIsFinal
<1>1. Inv => ErrorIsFinal
  BY DEF Inv
<1>2. QED
  BY <1>1, Invariance, PTL
=============================================================================
