------------------------------- MODULE Kernel -------------------------------
(***************************************************************************)
(* The sequential parts of the kernels.  In Lab2, what the booting CPU     *)
(* does before there are processes (Mp), and then what one process does to *)
(* its own state by its calls (Syscalls).  In Lab3, how a call copies from *)
(* and to the memory of its process (UserCopy).                            *)
(***************************************************************************)
EXTENDS Mp, Syscalls, UserCopy

CONSTANT Machine   \* the table of the machine whose process is followed

VARIABLE lab

vars == <<mpVars, callVars, copyVars, lab>>

\* What stands for the lab that is not looked at.
NoCall == [fn |-> "none", va |-> 0, len |-> 0, zero |-> -1, user |-> {}]

Init ==
  /\ CallsInit
  /\ \/ lab = "Lab2" /\ MpInit(Firmwares) /\ CopyInit({NoCall})
     \/ lab = "Lab3" /\ MpInit({NoFirmware}) /\ CopyInit(Calls)

\* No process runs before mpinit has returned.  What one does depends on none
\* of the firmware, so that one machine is enough.
Running == at = "done" /\ firmware.table = Machine

Boot == lab = "Lab2" /\ mpinit /\ UNCHANGED <<callVars, copyVars, lab>>
User == Running /\ (syscall \/ Fault) /\ UNCHANGED <<mpVars, copyVars, lab>>
Copy == lab = "Lab3" /\ copy /\ UNCHANGED <<mpVars, callVars, lab>>
Next == Boot \/ User \/ Copy
Spec == Init /\ [][Next]_vars

\* The booting CPU goes on.
FairSpec == Spec /\ WF_vars(Boot)

----------------------------------------------------------------------------
(* Properties                                                              *)

TypeOK ==
  /\ at \in {"mpconfig", "loop", "done", "panic"} /\ p \in 0..End
  /\ ismp \in BOOLEAN /\ masked \in BOOLEAN
  /\ cpus \in UNION {[1..n -> 1..MaxEntries] : n \in 0..NCPU} /\ ioapicid \in 0..MaxEntries
  /\ sz \in 1..KERNBASE /\ tickets \in Nat \ {0} /\ mapped \subseteq Pages(0, KERNBASE)
  /\ eax \in Ints /\ stray \subseteq Addr /\ live \in BOOLEAN

\* When mpinit returns, the CPUs of the kernel are those of the table in its
\* order, as many as there is room for, and the I/O APIC is the last in it.
ListedTo(n) ==
  LET of(t) == {i \in 1..n : firmware.table[i] = t}
      found == {cpus[k] : k \in DOMAIN cpus}
  IN  /\ Len(cpus) <= NCPU /\ found \subseteq of("MPPROC")
      /\ \A k, l \in DOMAIN cpus : k < l => cpus[k] < cpus[l]
      /\ \A i \in of("MPPROC") \ found : Len(cpus) = NCPU /\ \A c \in found : c < i
      /\ IF of("MPIOAPIC") = {} THEN ioapicid = 0
         ELSE ioapicid \in of("MPIOAPIC") /\ \A i \in of("MPIOAPIC") : i <= ioapicid
CpusListed == at = "done" => ListedTo(Len(firmware.table))

\* A table that was found is read to its end and the machine booted: each entry
\* is skipped by its own size, also one for which there is no room in cpus.  Only
\* at an unknown entry, wherever it is, the walk stops short of the end (line 127).
AtUnknown == at = "loop" /\ \E i \in EntryAt : firmware.table[i] = "unknown"
Boots     == at = "loop" ~> (at = "done" \/ AtUnknown)

\* The kernel uses an address that a process gave it only where that process
\* has memory: the tests against sz do not wrap around, and sz never says more
\* than is mapped.
TouchesMapped == stray = {}

\* The size and the pages of a process agree.  Only sbrk(-sz), which fails when
\* it has freed everything, leaves the old size without a page.
SizeMapped == mapped = Pages(0, sz) \/ mapped = {}

\* The bytes a copy is about: all that were asked for, or of a string those up
\* to its zero byte.
Asked == LET n == IF call.zero >= call.va /\ call.zero - call.va < call.len
                  THEN call.zero - call.va + 1 ELSE call.len
         IN  [i \in 1..n |-> add64(call.va, i - 1)]

\* copyin, copyout and copyinstr copy in order and only from pages of the user;
\* they return 0 if all that was asked for is there, and then have copied just
\* that, over the ends of pages; and -1 if not, or if a string has no end.
CopyExact == lab = "Lab3" =>
  LET all == /\ \A i \in DOMAIN Asked : PageOf(Asked[i]) \in call.user
             /\ call.fn = "copyinstr" => call.zero \in {Asked[i] : i \in DOMAIN Asked}
  IN  /\ Len(copied) <= Len(Asked) /\ copied = SubSeq(Asked, 1, Len(copied))
      /\ \A i \in DOMAIN copied : PageOf(copied[i]) \in call.user
      /\ ret # 1 => ret = (IF all THEN 0 ELSE -1) /\ (all => copied = Asked)
=============================================================================
