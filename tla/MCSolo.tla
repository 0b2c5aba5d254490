------------------------------- MODULE MCSolo -------------------------------
(***************************************************************************)
(* Small instances of one request after another on D1.                     *)
(***************************************************************************)
EXTENDS MCCrosswalk, SoloCommit

CONSTANTS p1, p2

\* Records of up to three keys, and one of an identity key with a phone.
SoloRecords ==
  [ids : {S \in SUBSET StrongKeys : Cardinality(S) <= 3}, phones : {{}}]
    \cup [ids : {{m1}}, phones : {Phones}]
=============================================================================
