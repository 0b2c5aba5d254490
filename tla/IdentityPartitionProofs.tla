---------------------- MODULE IdentityPartitionProofs ----------------------
(***************************************************************************)
(* The evidence decides the partition, for any set of identity keys.       *)
(***************************************************************************)
EXTENDS IdentityPartition, TLAPS

PartitionInv == IsPartition /\ NoMissedMerge /\ NoFalseMerge

\* Asserting evidence keeps the blocks and the chains in step.
LEMMA AssertInv ==
  ASSUME PartitionInv, NEW S \in SUBSET Identity, Assert(S)
  PROVE  PartitionInv'
<1> DEFINE joined == S \cup UNION Touched(S)
<1>1. blocks' = (blocks \ Touched(S)) \cup {joined} /\ asserted' = asserted \cup {S} /\ S # {}
  BY DEF Assert
<1>2. \A b \in blocks : b \cap joined # {} => b \in Touched(S)
  BY DEF Touched, PartitionInv, IsPartition
<1>3. IsPartition'
  <2>1. joined \in SUBSET Identity /\ joined # {}
    BY <1>1 DEF Touched, PartitionInv, IsPartition
  <2> HIDE DEF joined
  <2> QED BY <1>1, <1>2, <2>1 DEF PartitionInv, IsPartition
<1>4. NoMissedMerge'
  <2> SUFFICES ASSUME NEW T \in asserted' PROVE \E b \in blocks' : T \subseteq b
    BY DEF NoMissedMerge
  <2>1. CASE T = S
    BY <1>1, <2>1
  <2>2. CASE T \in asserted
    <3>1. PICK b \in blocks : T \subseteq b
      BY <2>2 DEF PartitionInv, NoMissedMerge
    <3>2. b \in Touched(S) => b \subseteq joined
      OBVIOUS
    <3> QED BY <1>1, <3>1, <3>2
  <2> QED BY <1>1, <2>1, <2>2
<1>5. NoFalseMerge'
  <2> SUFFICES ASSUME NEW b \in blocks', NEW X \in SUBSET Identity,
                      Closed(X)', X \cap b # {}
               PROVE  b \subseteq X
    BY DEF NoFalseMerge
  <2>1. Closed(X) /\ (S \cap X = {} \/ S \subseteq X)
    BY <1>1 DEF Closed
  <2>2. \A c \in blocks : X \cap c # {} => c \subseteq X
    BY <2>1 DEF PartitionInv, NoFalseMerge
  <2>3. CASE b = joined
    <3>1. S \subseteq X
      BY <2>1, <2>2, <2>3 DEF Touched
    <3>2. \A c \in Touched(S) : c \subseteq X
      BY <2>2, <3>1 DEF Touched
    <3> QED BY <2>3, <3>1, <3>2
  <2>4. CASE b \in blocks
    BY <2>2, <2>4
  <2> QED BY <1>1, <2>3, <2>4
<1> QED BY <1>3, <1>4, <1>5 DEF PartitionInv

\* So does a split.
LEMMA SplitInv ==
  ASSUME PartitionInv, NEW D \in SUBSET Identity, Split(D)
  PROVE  PartitionInv'
<1>1. PICK b \in blocks :
        /\ D # {} /\ D \subseteq b /\ D # b
        /\ blocks' = (blocks \ {b}) \cup {D, b \ D}
        /\ asserted' = {S \in asserted : S \cap b = {}} \cup {D, b \ D}
  BY DEF Split
<1>2. \A c \in blocks : c # b => c \cap b = {}
  BY DEF PartitionInv, IsPartition
<1>3. IsPartition'
  <2>1. b \ D \in SUBSET Identity
    BY DEF PartitionInv, IsPartition
  <2>2. b \ D # {}
    BY <1>1
  <2> DEFINE rest == b \ D
  <2>3. D \cap rest = {} /\ D \subseteq b /\ rest \subseteq b
    BY <1>1
  <2> HIDE DEF rest
  <2>4. blocks' = (blocks \ {b}) \cup {D, rest}
    BY <1>1 DEF rest
  <2>5. \A c, d \in blocks' : c \cap d # {} => c = d
    <3> SUFFICES ASSUME NEW c \in blocks', NEW d \in blocks', c \cap d # {}
                 PROVE  c = d
      OBVIOUS
    <3>1. CASE c \in blocks \ {b} /\ d \in blocks \ {b}
      BY <3>1 DEF PartitionInv, IsPartition
    <3>2. CASE c \in {D, rest} /\ d \in blocks \ {b}
      BY <1>2, <2>3, <3>2
    <3>3. CASE c \in blocks \ {b} /\ d \in {D, rest}
      BY <1>2, <2>3, <3>3
    <3>4. CASE c \in {D, rest} /\ d \in {D, rest}
      BY <2>3, <3>4
    <3> QED BY <2>4, <3>1, <3>2, <3>3, <3>4
  <2>6. blocks' \subseteq SUBSET Identity /\ {} \notin blocks'
    BY <1>1, <2>1, <2>2, <2>4 DEF PartitionInv, IsPartition, rest
  <2> QED BY <2>5, <2>6 DEF IsPartition
<1>4. NoMissedMerge'
  <2> SUFFICES ASSUME NEW T \in asserted' PROVE \E c \in blocks' : T \subseteq c
    BY DEF NoMissedMerge
  <2>1. CASE T \in {D, b \ D}
    BY <1>1, <2>1
  <2>2. CASE T \in asserted /\ T \cap b = {}
    <3>1. PICK c \in blocks : T \subseteq c
      BY <2>2 DEF PartitionInv, NoMissedMerge
    <3>2. CASE c = b
      <4>1. T \subseteq D
        BY <2>2, <3>1, <3>2
      <4> QED BY <1>1, <4>1
    <3>3. CASE c # b
      BY <1>1, <3>1, <3>3
    <3> QED BY <3>2, <3>3
  <2> QED BY <1>1, <2>1, <2>2
<1>5. NoFalseMerge'
  <2> SUFFICES ASSUME NEW c \in blocks', NEW X \in SUBSET Identity,
                      Closed(X)', X \cap c # {}
               PROVE  c \subseteq X
    BY DEF NoFalseMerge
  <2>1. CASE c \in {D, b \ D}
    BY <1>1, <2>1 DEF Closed
  <2>2. CASE c \in blocks /\ c # b
    <3>1. \A S \in asserted : S \cap b # {} => S \subseteq b
      BY <1>2 DEF PartitionInv, NoMissedMerge
    <3>2. Closed(X \ b)
      <4> SUFFICES ASSUME NEW S \in asserted
                   PROVE  S \cap (X \ b) = {} \/ S \subseteq X \ b
        BY DEF Closed
      <4>1. CASE S \cap b = {}
        <5>1. S \in asserted'
          BY <1>1, <4>1
        <5> QED BY <4>1, <5>1 DEF Closed
      <4>2. CASE S \cap b # {}
        BY <3>1, <4>2
      <4> QED BY <4>1, <4>2
    <3>3. (X \ b) \cap c # {}
      BY <1>2, <2>2
    <3> QED BY <2>2, <3>2, <3>3 DEF PartitionInv, NoFalseMerge
  <2> QED BY <1>1, <2>1, <2>2
<1> QED BY <1>3, <1>4, <1>5 DEF PartitionInv

\* Two identity keys are in one block exactly if a chain of the evidence that stands
\* connects them: no merge is missed and none is false, whatever the order in which
\* records, links, merges and splits came.
THEOREM EvidenceDecidesPartition == Spec => []PartitionInv
<1>1. Init => PartitionInv
  BY DEF Init, PartitionInv, IsPartition, NoMissedMerge, NoFalseMerge
<1>2. PartitionInv /\ [Next]_<<blocks, asserted>> => PartitionInv'
  <2> SUFFICES ASSUME PartitionInv, [Next]_<<blocks, asserted>> PROVE PartitionInv'
    OBVIOUS
  <2>1. CASE Next
    BY <2>1, AssertInv, SplitInv DEF Next
  <2>2. CASE UNCHANGED <<blocks, asserted>>
    BY <2>2 DEF PartitionInv, IsPartition, NoMissedMerge, NoFalseMerge, Closed
  <2> QED BY <2>1, <2>2
<1> QED BY <1>1, <1>2, PTL DEF Spec
=============================================================================
