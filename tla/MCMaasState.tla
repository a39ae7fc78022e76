----------------------------- MODULE MCMaasState ------------------------------
(* Small instances of MaasState: the constants are set in the .cfg files.   *)
EXTENDS MaasState, TLC

\* Machines are interchangeable (for the runs that check no liveness).
MachineSymmetry == Permutations(Machines)
===============================================================================
