--------------------------------- MODULE Mp ---------------------------------
(***************************************************************************)
(* mp.c of Lab2: how the booting CPU finds the firmware's table of the     *)
(* machine and reads its entries.                                          *)
(*                                                                         *)
(* Of a place where the table's pointer may be, only matters whether there *)
(* is none, one that does not sum to zero ("bad") or a good one.  An entry *)
(* is its type; its place in the table serves as the id in it.  Memory is  *)
(* counted in units of four bytes.                                         *)
(***************************************************************************)
EXTENDS Integers, Sequences

CONSTANTS NCPU,        \* the most CPUs
          MaxEntries   \* bound on the entries of a table

ASSUME MpAssumption == NCPU \in Nat /\ MaxEntries \in Nat

VARIABLES firmware,    \* what is in memory; never changes
          at,          \* where mpinit is
          p,           \* the entry being read
          ismp, cpus, ioapicid,
          masked       \* the external interrupts are

mpVars == <<firmware, at, p, ismp, cpus, ioapicid, masked>>

Types  == {"MPPROC", "MPIOAPIC", "MPBUS", "unknown"}
Tables == UNION {[1..n -> Types] : n \in 0..MaxEntries}
\* The first KB of the EBDA, the last KB of base memory, and the two halves of
\* the BIOS ROM: 0xE0000-0xEFFFF and 0xF0000-0xFFFFF.
Region == {"ebda", "base", "rom_e", "rom_f"}
Places == [Region -> {"none", "bad", "good"}]
Confs  == {"none", "signature", "version", "checksum", "good"}  \* what is wrong with it

\* Any table behind a good pointer, or anything before a fixed one.
Good      == [r \in Region |-> "good"]
Firmwares ==
  [ebda : BOOLEAN, has : Places, conf : Confs, imcrp : {FALSE}, table : {<<"MPPROC">>}]
  \cup [ebda : {TRUE}, has : {Good}, conf : {"good"}, imcrp : BOOLEAN, table : Tables]
NoFirmware == [ebda |-> TRUE, has |-> Good, conf |-> "none", imcrp |-> FALSE, table |-> <<>>]

MpInit(some) ==
  /\ firmware \in some
  /\ at = "mpconfig" /\ p = 0 /\ ismp = TRUE
  /\ cpus = <<>> /\ ioapicid = 0 /\ masked = FALSE

\* The regions that mpsearch looks at: base memory only if there is no EBDA,
\* and of the ROM only the second half.
searched == {IF firmware.ebda THEN "ebda" ELSE "base", "rom_f"}

\* Does mpconfig return a table?
HasTable == firmware.conf = "good" /\ \E r \in searched : firmware.has[r] = "good"

mpconfig ==
  /\ at = "mpconfig"
  /\ at' = IF HasTable THEN "loop" ELSE "panic"
  /\ UNCHANGED <<firmware, p, ismp, cpus, ioapicid, masked>>

\* The size of an entry, where the first n of them end, and the one at an
\* address: none if that is inside another.  Mutant: all have the same size.
OneSize(t)  == 5
SizeOf(t)   == IF t = "MPPROC" THEN 5 ELSE 2
Behind[n \in 0..Len(firmware.table)] ==
  IF n = 0 THEN 0 ELSE Behind[n - 1] + (IF firmware.table[n] = "MPPROC" THEN 5 ELSE 2)
End         == Behind[Len(firmware.table)]
EntryAt     == {i \in DOMAIN firmware.table : Behind[i - 1] = p}
Is(i, t)    == at = "loop" /\ p < End /\ EntryAt = {i} /\ firmware.table[i] = t
Skip(t)     == p' = p + SizeOf(t)

\* Room in cpus.  Mutant: one more.
RoomForOneMore == Len(cpus) <= NCPU
Room           == Len(cpus) < NCPU

Processor(i) ==
  /\ Is(i, "MPPROC") /\ Skip("MPPROC")
  /\ cpus' = IF Room THEN Append(cpus, i) ELSE cpus
  /\ UNCHANGED <<firmware, at, ismp, ioapicid, masked>>
IoApic(i) ==
  /\ Is(i, "MPIOAPIC") /\ Skip("MPIOAPIC")
  /\ ioapicid' = i
  /\ UNCHANGED <<firmware, at, ismp, cpus, masked>>
Other(i) ==
  /\ Is(i, "MPBUS") /\ Skip("MPBUS")
  /\ UNCHANGED <<firmware, at, ismp, cpus, ioapicid, masked>>

\* The default case: its break leaves the switch, and p stays where it is.
Unknown ==
  /\ at = "loop" /\ p < End
  /\ \A i \in EntryAt : firmware.table[i] = "unknown"
  /\ ismp' = FALSE
  /\ UNCHANGED <<firmware, at, p, cpus, ioapicid, masked>>

\* After the loop.
LoopEnd ==
  /\ at = "loop" /\ p >= End
  /\ at' = IF ismp THEN "done" ELSE "panic"
  /\ masked' = (ismp /\ firmware.imcrp)
  /\ UNCHANGED <<firmware, p, ismp, cpus, ioapicid>>

mpinit == \/ mpconfig \/ Unknown \/ LoopEnd
          \/ \E i \in 1..MaxEntries : Processor(i) \/ IoApic(i) \/ Other(i)
=============================================================================
