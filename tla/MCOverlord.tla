----------------------------- MODULE MCOverlord -----------------------------
(***************************************************************************)
(* Model values and bounds for checking Overlord.                          *)
(***************************************************************************)
EXTENDS Overlord

CONSTANTS d1, d2, s1, a1, e1

Drones == {d1, d2}

DroneSymmetry == Permutations(Drones)

=============================================================================
