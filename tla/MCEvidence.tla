----------------------------- MODULE MCEvidence -----------------------------
(***************************************************************************)
(* The instances of MCCrosswalk with the history of the evidence.  Where   *)
(* there are corrections, there is one domain.                             *)
(***************************************************************************)
EXTENDS MCCrosswalk, CrosswalkEvidence

VARIABLE corrected   \* bound: an operator has been at work

Few == Identity \cup {d1}

FewInit == EvidenceInit /\ corrected = FALSE

Serves ==
  /\ EvidenceServe
  /\ corrected => Known' \subseteq Few
  /\ UNCHANGED corrected

Corrects ==
  /\ Known \subseteq Few
  /\ EvidenceCorrect
  /\ Known' \subseteq Few
  /\ corrected' = TRUE

FewSpec == FewInit /\ [][Serves \/ Corrects]_<<vars, asserted, corrected>>
=============================================================================
