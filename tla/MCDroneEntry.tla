---------------------------- MODULE MCDroneEntry ----------------------------
(***************************************************************************)
(* Model values for checking DroneEntry: two inputs, and the ranks of the  *)
(* two languages of the code (cc is compiled, python is not).              *)
(***************************************************************************)
EXTENDS DroneEntry, TLC

CONSTANTS i1, i2

InputSymmetry == Permutations({i1, i2})

=============================================================================
