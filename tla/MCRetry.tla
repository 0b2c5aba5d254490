------------------------------ MODULE MCRetry ------------------------------
(***************************************************************************)
(* A small instance of a repeated request: any record of up to three keys, *)
(* with the phone or without, after any history of records of two.         *)
(***************************************************************************)
EXTENDS MCCrosswalk, Retry

NoPhonePairs == [ids : {S \in SUBSET StrongKeys : Cardinality(S) <= 2}, phones : {{}}]
=============================================================================
