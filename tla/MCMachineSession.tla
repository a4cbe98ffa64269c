-------------------------- MODULE MCMachineSession --------------------------
(* Model values and symmetry for checking MachineSession. *)
EXTENDS MachineSession, TLC

Symmetry == Permutations(Users) \cup Permutations(Polls)

=============================================================================
