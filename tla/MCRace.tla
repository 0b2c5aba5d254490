------------------------------- MODULE MCRace -------------------------------
(***************************************************************************)
(* Small instances of requests at the same time on D1.                     *)
(***************************************************************************)
EXTENDS MCCrosswalk, D1Race

CONSTANTS p1, p2
=============================================================================
