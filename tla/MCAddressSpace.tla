--------------------------- MODULE MCAddressSpace ---------------------------
(* Instances of AddressSpace for TLC. *)
EXTENDS AddressSpace

Seg(v, m, f, p) == [vaddr |-> v, memsz |-> m, filesz |-> f, perm |-> p]

\* Two pages, and a segment below their end.
Overlap     == <<Seg(0, 3, 3, {"X"}), Seg(0, 1, 1, {"W"})>>
\* Nothing to load at the start of the address space.
Hollow      == <<Seg(0, 0, 0, {"X"})>>
\* One page: memory is enough for a process that runs it and for its child.
Small         == <<Seg(0, 1, 1, {"X"})>>
ThreePrograms == {Overlap, Hollow, Small}
Growths       == {-3, 5}
CopyPages     == {0, USYSCALL}
=============================================================================
