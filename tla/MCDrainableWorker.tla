------------------------- MODULE MCDrainableWorker -------------------------
(***************************************************************************)
(* Instances of DrainableWorker for TLC.                                   *)
(***************************************************************************)
EXTENDS DrainableWorker

CONSTANTS p1, p2, d1, c1
=============================================================================
