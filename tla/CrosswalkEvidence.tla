------------------------- MODULE CrosswalkEvidence -------------------------
(***************************************************************************)
(* The crosswalk graph with a history of the evidence it was given, and    *)
(* the refinement of the identity partition: which entity an identity key  *)
(* belongs to is decided by that evidence alone.                           *)
(***************************************************************************)
EXTENDS Crosswalk

VARIABLE asserted   \* the sets of identity keys asserted so far to name one thing

EvidenceInit == Init /\ asserted = {}

\* The evidence S is added, if there is any.
Shown(S) == asserted' = asserted \cup ({S} \ {{}})

\* What an operator who names key k speaks of: its entity, or the key alone.
Meant(k) == IF k \in Known THEN IdMembers(owner[k]) ELSE {k} \cap Identity

\* A split that leaves identity keys on both sides replaces the evidence about the
\* entity; any other says nothing about identity keys.
Separated(D, whole) ==
  IF D = {} \/ D = whole
    THEN asserted' = asserted
    ELSE asserted' = {S \in asserted : S \cap whole = {}} \cup {D, whole \ D}

EvidenceServe ==
  \E r \in Records, strict \in Strict :
    Commit(r, strict) /\ Shown(r.ids \cap Identity)

EvidenceCorrect ==
  \/ \E C \in SUBSET LiveCids, force \in Forced :
       Merge(C, force) /\ Shown(UNION {IdMembers(c) : c \in C})
  \/ \E j, k \in StrongKeys, force \in Forced :
       Link(j, k, force) /\ Shown(Meant(j) \cup Meant(k))
  \/ \E D \in SUBSET StrongKeys :
       Split(D) /\ Separated(D \cap Identity, UNION {Meant(k) : k \in D})

EvidenceSpec == EvidenceInit /\ [][EvidenceServe \/ EvidenceCorrect]_<<vars, asserted>>

-----------------------------------------------------------------------------
\* The things the graph tells apart: the identity keys of each entity.
Blocks == {IdMembers(c) : c \in LiveCids} \ {{}}

Partition == INSTANCE IdentityPartition WITH blocks <- Blocks

\* The graph implements the identity partition: a shared domain, a phone, an anchor or
\* the order of a record's keys never joins or separates identity keys, only records,
\* links, merges and splits that name them do ("Entity grain (no false chain merges)",
\* README.md).  What remembers names leaves nodes and entities alone.
RefinesPartition == Partition!Spec

\* Two identity keys are on one entity exactly if a chain of evidence connects them.
EvidenceDecides == Partition!NoFalseMerge /\ Partition!NoMissedMerge
=============================================================================
