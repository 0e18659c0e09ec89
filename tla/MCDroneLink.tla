----------------------------- MODULE MCDroneLink ----------------------------
(***************************************************************************)
(* Model values and bounds for checking DroneLink.                         *)
(***************************************************************************)
EXTENDS DroneLink

CONSTANTS e1, e2

=============================================================================
