------------------------------ MODULE MCKernel ------------------------------
(* Instances of Kernel for TLC. *)
EXTENDS Kernel

TwoCPUs    == <<"MPPROC", "MPPROC", "MPIOAPIC", "MPBUS">>
TicketArgs == {-1, 0, 1, 5}
=============================================================================
