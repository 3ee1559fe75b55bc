---------------------------- MODULE MCProcTable ----------------------------
(* Instances of ProcTable for TLC. *)
EXTENDS ProcTable, TLC

Symm == Permutations(CPUs)
=============================================================================
