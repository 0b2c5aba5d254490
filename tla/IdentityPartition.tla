------------------------- MODULE IdentityPartition -------------------------
(***************************************************************************)
(* What the crosswalk graph promises, without saying how: the Identity     *)
(* keys seen so far form a partition, every block being one real-world     *)
(* thing, and the partition is decided by the evidence alone.  A set of    *)
(* identity keys asserted to name one thing joins the blocks it touches    *)
(* and nothing else; a split takes part of one block away, and with it the *)
(* evidence that held the block together.  Domains, phones, names, anchors *)
(* and canonical ids do not occur here at all: that they never join two    *)
(* things is what the crosswalk's refinement of this specification shows.  *)
(***************************************************************************)
EXTENDS FiniteSets

CONSTANT Identity

VARIABLES
  blocks,   \* the things: a set of non-empty sets of identity keys
  asserted  \* the evidence: the sets of identity keys asserted to name one thing

Touched(S) == {b \in blocks : b \cap S # {}}

Init == blocks = {} /\ asserted = {}

\* S is asserted to name one thing, by a record, a link or a merge.
Assert(S) ==
  /\ S # {}
  /\ blocks' = (blocks \ Touched(S)) \cup {S \cup UNION Touched(S)}
  /\ asserted' = asserted \cup {S}

\* An operator takes the keys D away from their block b: the evidence about b is
\* replaced by the statement that D is one thing and the rest of b another.
Split(D) ==
  \E b \in blocks :
    /\ D # {} /\ D \subseteq b /\ D # b
    /\ blocks' = (blocks \ {b}) \cup {D, b \ D}
    /\ asserted' = {S \in asserted : S \cap b = {}} \cup {D, b \ D}

Next == \E S \in SUBSET Identity : Assert(S) \/ Split(S)

Spec == Init /\ [][Next]_<<blocks, asserted>>

-----------------------------------------------------------------------------
\* The blocks are disjoint, non-empty sets of identity keys.
IsPartition ==
  /\ blocks \subseteq SUBSET Identity
  /\ {} \notin blocks
  /\ \A b, c \in blocks : b \cap c # {} => b = c

\* No missed merge: keys asserted to name one thing are in one block.
NoMissedMerge == \A S \in asserted : \E b \in blocks : S \subseteq b

\* A set of keys no piece of evidence leads out of.
Closed(X) == \A S \in asserted : S \cap X = {} \/ S \subseteq X

\* No false merge: a block holds no more than the evidence connects, so a part of it
\* that no evidence leads out of is all of it.
NoFalseMerge ==
  \A b \in blocks : \A X \in SUBSET Identity :
    Closed(X) /\ X \cap b # {} => b \subseteq X
=============================================================================
