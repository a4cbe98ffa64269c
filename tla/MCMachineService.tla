-------------------------- MODULE MCMachineService --------------------------
(* Model values and symmetry for checking MachineService. *)
EXTENDS MachineService, TLC

Symmetry == Permutations(Clients)

=============================================================================
