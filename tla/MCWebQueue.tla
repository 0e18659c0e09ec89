----------------------------- MODULE MCWebQueue -----------------------------
(***************************************************************************)
(* Model values for checking WebQueue.                                     *)
(***************************************************************************)
EXTENDS WebQueue

CONSTANTS w1, w2, s1, s2

=============================================================================
