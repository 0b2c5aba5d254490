---------------------- MODULE CrosswalkEvidenceProofs ----------------------
(***************************************************************************)
(* The crosswalk graph implements the identity partition, for any keys and *)
(* records: which identity keys are one thing is decided by the evidence.  *)
(***************************************************************************)
EXTENDS CrosswalkEvidence, CrosswalkProofs

\* The partition's theorems, about the blocks of the graph.
Abstract == INSTANCE IdentityPartitionProofs WITH blocks <- Blocks

-----------------------------------------------------------------------------
(***************************************************************************)
(* How the blocks change.                                                  *)
(***************************************************************************)

\* Every known identity key is in the block of its owner.
LEMMA OwnerBlock ==
  ASSUME EntityInv, NEW k \in Identity \cap Known
  PROVE  owner[k] \in LiveCids /\ k \in IdMembers(owner[k])
BY HitsLive DEF Hits, IdMembers, Members, Known

\* The block of an entity is one of the blocks, and every block is an entity's.
LEMMA BlockOf ==
  \A X : X \in Blocks <=> X # {} /\ \E c \in LiveCids : X = IdMembers(c)
BY DEF Blocks

\* When the entities L and the identity keys S join w, and each of the entities that
\* has identity keys shares one with S, the blocks S touches become one with it.
LEMMA BlocksJoin ==
  ASSUME EntityInv, NEW S \in SUBSET Identity, S # {},
         NEW w \in Cids, NEW L \in SUBSET LiveCids,
         \A k \in Identity :
            owner'[k] = IF k \in S \/ owner[k] \in L \cup {w} THEN w ELSE owner[k],
         \A c \in Cids : Live(c)' <=> c = w \/ (Live(c) /\ c \notin L),
         \A k \in S : owner[k] \in L \cup {w, NoCid},
         \A c \in L \cup {w} : IdMembers(c) # {} => IdMembers(c) \cap S # {}
  PROVE  Blocks' = (Blocks \ Partition!Touched(S)) \cup {S \cup UNION Partition!Touched(S)}
<1> DEFINE grown == S \cup UNION Partition!Touched(S)
<1>0. Identity \subseteq StrongKeys /\ LiveCids \subseteq Cids /\ NoCid \notin Cids
  BY KeysAssumption DEF StrongKeys, LiveCids
<1>1. \A c : IdMembers(c) = {k \in Identity : owner[k] = c}
  BY <1>0 DEF IdMembers, Members
<1>2. \A c : IdMembers(c)' = {k \in Identity : owner'[k] = c}
  BY <1>0 DEF IdMembers, Members
<1>3. \A c \in LiveCids : IdMembers(c) \cap S # {} => c \in L \cup {w}
  BY <1>0, <1>1
<1>4. w \notin LiveCids => IdMembers(w) = {}
  BY DeadOwnsNothing DEF IdMembers
<1>5. \A X : X \in Partition!Touched(S) <=>
              X # {} /\ \E c \in L \cup {w} : X = IdMembers(c)
  BY <1>3, <1>4, BlockOf DEF Partition!Touched
<1>6. IdMembers(w)' = grown
  <2>1. ASSUME NEW k \in Identity PROVE k \in grown <=> k \in S \/ owner[k] \in L \cup {w}
    <3>1. owner[k] \in L \cup {w} => k \in IdMembers(owner[k])
      BY <1>1
    <3>2. k \in UNION Partition!Touched(S) <=> \E c \in L \cup {w} : k \in IdMembers(c)
      BY <1>5
    <3> QED BY <1>1, <3>1, <3>2
  <2>2. grown \subseteq Identity
    BY <1>1, <1>5
  <2>3. \A k \in Identity : owner'[k] = w <=> k \in S \/ owner[k] \in L \cup {w}
    OBVIOUS
  <2> HIDE DEF grown
  <2> QED BY <1>2, <2>1, <2>2, <2>3
<1>7. \A c \in Cids \ {w} : c \notin L => IdMembers(c)' = IdMembers(c)
  <2> SUFFICES ASSUME NEW c \in Cids \ {w}, c \notin L,
                      NEW k \in Identity
               PROVE  owner'[k] = c <=> owner[k] = c
    BY <1>1, <1>2
  <2> QED BY <1>0
<1>8. \A X : X \in Blocks' <=> X # {} /\ \E c \in LiveCids' : X = IdMembers(c)'
  BY DEF Blocks
<1>9. \A c : c \in LiveCids' <=> c = w \/ c \in LiveCids \ L
  BY <1>0 DEF LiveCids
<1>10. ASSUME NEW X PROVE X \in Blocks' <=> X = grown \/ X \in Blocks \ Partition!Touched(S)
  <2>1. grown # {}
    OBVIOUS
  <2> HIDE DEF grown
  <2>2. X \in Blocks' <=> X = grown \/ (X # {} /\ \E c \in LiveCids \ (L \cup {w}) : X = IdMembers(c))
    BY <1>0, <1>6, <1>7, <1>8, <1>9, <2>1
  <2>3. (X # {} /\ \E c \in LiveCids \ (L \cup {w}) : X = IdMembers(c))
          <=> X \in Blocks \ Partition!Touched(S)
    <3>1. \A c, e : IdMembers(c) = IdMembers(e) /\ IdMembers(c) # {} => c = e
      BY <1>1
    <3> QED BY <1>5, <3>1, BlockOf
  <2> QED BY <2>2, <2>3
<1> QED BY <1>10

\* When none of the entities that join but one has identity keys, and no identity key is
\* added, the blocks stay what they are.
LEMMA BlocksStay ==
  ASSUME EntityInv, NEW w \in Cids, NEW L \in SUBSET LiveCids, NEW first,
         \A k \in Identity : owner'[k] = IF owner[k] \in L THEN w ELSE owner[k],
         \A c \in Cids : Live(c)' <=> c = w \/ (Live(c) /\ c \notin L),
         \A c \in L \cup {w} : c # first => IdMembers(c) = {}
  PROVE  Blocks' = Blocks
<1>0. Identity \subseteq StrongKeys /\ LiveCids \subseteq Cids /\ NoCid \notin Cids
  BY KeysAssumption DEF StrongKeys, LiveCids
<1>1. \A c : IdMembers(c) = {k \in Identity : owner[k] = c}
  BY <1>0 DEF IdMembers, Members
<1>2. \A c : IdMembers(c)' = {k \in Identity : owner'[k] = c}
  BY <1>0 DEF IdMembers, Members
<1>3. \A c : c \in LiveCids' <=> c = w \/ c \in LiveCids \ L
  BY <1>0 DEF LiveCids
<1>4. w \notin LiveCids => IdMembers(w) = {}
  BY DeadOwnsNothing DEF IdMembers
<1>5. ASSUME NEW c, c \notin L \cup {w} PROVE IdMembers(c)' = IdMembers(c)
  <2>1. \A k \in Identity : owner'[k] = c <=> owner[k] = c
    BY <1>5
  <2> QED BY <1>1, <1>2, <2>1
<1>6. IdMembers(w)' = IF first \in L THEN IdMembers(first) ELSE IdMembers(w)
  <2>1. ASSUME NEW k \in Identity
        PROVE  owner'[k] = w <=> owner[k] = IF first \in L THEN first ELSE w
    <3>1. \A c \in L \cup {w} : owner[k] = c => c = first
      BY <1>1
    <3> QED BY <3>1
  <2> QED BY <1>1, <1>2, <2>1
<1>7. \A X : X \in Blocks' <=> X # {} /\ \E c \in LiveCids' : X = IdMembers(c)'
  BY DEF Blocks
<1>8. ASSUME NEW X, X # {}
      PROVE  (\E c \in LiveCids' : X = IdMembers(c)') <=> \E c \in LiveCids : X = IdMembers(c)
  <2>1. ASSUME NEW c \in LiveCids', X = IdMembers(c)'
        PROVE  \E e \in LiveCids : X = IdMembers(e)
    BY <1>3, <1>4, <1>5, <1>6, <1>8, <2>1
  <2>2. ASSUME NEW c \in LiveCids, X = IdMembers(c)
        PROVE  \E e \in LiveCids' : X = IdMembers(e)'
    BY <1>3, <1>5, <1>6, <1>8, <2>2
  <2> QED BY <2>1, <2>2
<1>9. \A X : X \in Blocks' <=> X \in Blocks
  BY <1>7, <1>8, BlockOf
<1> QED BY <1>9

-----------------------------------------------------------------------------
(***************************************************************************)
(* The steps.                                                              *)
(***************************************************************************)

\* A step of the partition, or none.
Implements ==
  \/ Partition!Next
  \/ Blocks' = Blocks /\ asserted' = asserted

\* Joining what S touches and showing S is the partition's Assert.
LEMMA JoinImplements ==
  ASSUME NEW S \in SUBSET Identity, S # {}, Shown(S),
         Blocks' = (Blocks \ Partition!Touched(S)) \cup {S \cup UNION Partition!Touched(S)}
  PROVE  Implements
<1>1. Partition!Assert(S)
  BY DEF Shown, Partition!Assert
<1> QED BY <1>1 DEF Implements, Partition!Next

\* Entities' identity keys are disjoint: a domain's owner that does not contradict some
\* entities with identity keys has none, unless it is one of them.
LEMMA AbsorbedBare ==
  ASSUME NEW C, NEW c, c \notin C, NEW i \in C, IdMembers(i) # {},
         ~ IdentityConflict(UNION {Members(e) : e \in C}, Members(c))
  PROVE  IdMembers(c) = {}
<1> DEFINE united == UNION {Members(e) : e \in C}
<1>1. united \cap Identity # {}
  BY DEF IdMembers
<1>2. united \cap Members(c) = {}
  BY DEF Members
<1> HIDE DEF united
<1> QED BY <1>1, <1>2 DEF IdentityConflict, IdMembers, united

\* A commit's effect on the owners of the identity keys and on which entities live.
LEMMA CommitToOwners ==
  ASSUME EntityInv, NEW r \in AnyRecord, NEW w \in Cids, NEW L \in SUBSET LiveCids, w \notin L,
         CommitTo(r, w, L)
  PROVE  /\ \A k \in Identity :
              owner'[k] = IF k \in r.ids \/ owner[k] \in L \cup {w} THEN w ELSE owner[k]
         /\ \A c \in Cids : Live(c)' <=> c = w \/ (Live(c) /\ c \notin L)
<1> DEFINE merged == Repointed(owner, L, w)
<1>1. \A k \in StrongKeys : merged[k] = IF owner[k] \in L THEN w ELSE owner[k]
  BY DEF EntityInv, TypeOK, Repointed
<1>2. \A k \in StrongKeys : owner'[k] = IF k \in Claims(r, merged) THEN w ELSE merged[k]
  BY DEF CommitTo
<1>3. \A k \in Identity : k \in StrongKeys /\ (k \in Claims(r, merged) <=> k \in r.ids)
  BY DEF Claims, StrongKeys
<1>4. \A c \in Cids : Live(c)' <=> c = w \/ (Live(c) /\ c \notin L)
  BY MergedAnchorsLive DEF CommitTo
<1> HIDE DEF merged
<1> QED BY <1>1, <1>2, <1>3, <1>4

\* A key nobody owns whose canonical id would be minted: the id is free.
LEMMA MintedIsFree ==
  ASSUME HashInjective, EntityInv, NEW k \in StrongKeys, k \notin Known
  PROVE  CidOf(k) \in Cids /\ CidOf(k) \notin LiveCids /\ IdMembers(CidOf(k)) = {}
<1>1. CidOf(k) \in Cids
  BY CidOfType
<1>2. CidOf(k) \notin LiveCids
  BY DEF EntityInv, MintedKeyIsKnown, HashInjective, LiveCids, Known
<1> QED BY <1>1, <1>2, DeadOwnsNothing DEF IdMembers

\* A commit is the evidence of its record, asserted.
LEMMA CommitImplements ==
  ASSUME HashInjective, EntityInv, NEW r \in AnyRecord, NEW strict, Commit(r, strict),
         Shown(r.ids \cap Identity)
  PROVE  Implements
<1> DEFINE S == r.ids \cap Identity
<1>0. /\ TypeOK /\ LiveCids \subseteq Cids /\ NoCid \notin Cids
      /\ r.ids \subseteq StrongKeys /\ S \in SUBSET Identity /\ Identity \subseteq StrongKeys
  BY KeysAssumption DEF EntityInv, LiveCids, AnyRecord, StrongKeys
<1>1. IdHits(r) \subseteq LiveCids /\ AfHits(r) \subseteq LiveCids
  BY HitsLive DEF IdHits, AfHits
<1>2. \A k \in S : owner[k] \in IdHits(r) \cup {NoCid}
  BY <1>0 DEF IdHits, Hits, Known
<1>3. \A c \in IdHits(r) : IdMembers(c) \cap S # {}
  BY DEF IdHits, Hits, IdMembers, Members, Known
<1>4. \A c \in LiveCids : \A k \in Identity : owner[k] = c => k \in IdMembers(c)
  BY <1>0 DEF IdMembers, Members
<1>5. CASE CommitByIdentity(r)
  <2>1. PICK w \in IdHits(r) : CommitTo(r, w, AbsorbedByIdentity(r) \ {w})
    BY <1>5 DEF CommitByIdentity
  <2> DEFINE L == AbsorbedByIdentity(r) \ {w}
  <2>2. L \in SUBSET LiveCids /\ w \in Cids /\ w \notin L /\ IdHits(r) \subseteq L \cup {w}
    BY <1>0, <1>1 DEF AbsorbedByIdentity
  <2>3. S # {} /\ IdMembers(w) # {}
    BY <1>3
  <2>4. \A c \in L \cup {w} : IdMembers(c) # {} => IdMembers(c) \cap S # {}
    <3>1. ASSUME NEW c \in L, c \notin IdHits(r) PROVE IdMembers(c) = {}
      <4>1. ~ IdentityConflict(UNION {Members(e) : e \in IdHits(r)}, Members(c))
        BY <3>1 DEF AbsorbedByIdentity
      <4> QED BY <2>1, <2>3, <3>1, <4>1, AbsorbedBare
    <3> QED BY <1>3, <2>1, <3>1
  <2>5. CommitTo(r, w, L)
    BY <2>1
  <2> HIDE DEF L
  <2>6. /\ \A k \in Identity :
             owner'[k] = IF k \in S \/ owner[k] \in L \cup {w} THEN w ELSE owner[k]
        /\ \A c \in Cids : Live(c)' <=> c = w \/ (Live(c) /\ c \notin L)
    BY <2>2, <2>5, CommitToOwners
  <2>7. \A k \in S : owner[k] \in L \cup {w, NoCid}
    BY <1>2, <2>2
  <2> HIDE DEF S
  <2>8. Blocks' = (Blocks \ Partition!Touched(S)) \cup {S \cup UNION Partition!Touched(S)}
    BY <1>0, <2>2, <2>3, <2>4, <2>6, <2>7, BlocksJoin
  <2> QED BY <1>0, <2>3, <2>8, JoinImplements DEF S
<1>6. CASE CommitByAffiliation(r)
  <2>1. PICK w \in AfHits(r) : \E first \in FirstBearing(w, AfHits(r)) :
          CommitTo(r, w, AbsorbedByAffiliation(r, w, first) \ {w})
    BY <1>6 DEF CommitByAffiliation
  <2>2. PICK first \in FirstBearing(w, AfHits(r)) :
          CommitTo(r, w, AbsorbedByAffiliation(r, w, first) \ {w})
    BY <2>1
  <2> DEFINE L == AbsorbedByAffiliation(r, w, first) \ {w}
  <2>3. /\ L \in SUBSET LiveCids /\ w \in Cids /\ w \notin L
        /\ L \cup {w} \subseteq AfHits(r) /\ first \in AfHits(r)
    BY <1>0, <1>1 DEF AbsorbedByAffiliation, FirstBearing
  <2>4. \A c \in L \cup {w} : c # first => IdMembers(c) = {}
    <3>1. CASE IdMembers(first) # {}
      <4>1. first = w \/ IdMembers(w) = {}
        BY <2>2 DEF FirstBearing
      <4>2. \A c \in L : c # first => ~ IdentityConflict(Members(first), Members(c))
        BY DEF AbsorbedByAffiliation, IdentityConflict, Members
      <4> QED BY <3>1, <4>1, <4>2, MembersApart
    <3>2. CASE IdMembers(first) = {}
      <4>1. \A c \in AfHits(r) : IdMembers(c) = {}
        BY <2>1, <2>2, <3>2 DEF FirstBearing
      <4> QED BY <2>3, <4>1
    <3> QED BY <3>1, <3>2
  <2>5. S = {}
    BY <1>6 DEF CommitByAffiliation
  <2>6. CommitTo(r, w, L)
    BY <2>2
  <2> HIDE DEF L
  <2>7. /\ \A k \in Identity : owner'[k] = IF owner[k] \in L THEN w ELSE owner[k]
        /\ \A c \in Cids : Live(c)' <=> c = w \/ (Live(c) /\ c \notin L)
    BY <2>3, <2>5, <2>6, CommitToOwners
  <2>8. Blocks' = Blocks
    BY <2>3, <2>4, <2>7, BlocksStay
  <2> QED BY <2>5, <2>8 DEF Shown, Implements
<1>7. CASE CommitNew(r)
  <2>1. PICK k \in r.ids : IsEntityAnchor(k, r.ids) /\ CommitTo(r, CidOf(k), {})
    BY <1>7 DEF CommitNew
  <2>2. k \notin Known
    <3>1. CASE S = {}
      BY <1>0, <1>7, <3>1 DEF CommitNew, AfHits, Hits, Known, StrongKeys
    <3>2. CASE S # {}
      <4>1. k \in Identity
        BY <2>1, <3>2 DEF IsEntityAnchor, IsStrongest
      <4> QED BY <1>7, <4>1 DEF CommitNew, IdHits, Hits
    <3> QED BY <3>1, <3>2
  <2>3. PICK w \in Cids : w = CidOf(k) /\ w \notin LiveCids /\ IdMembers(w) = {}
    BY <1>0, <2>1, <2>2, MintedIsFree
  <2>4. /\ \A i \in Identity :
             owner'[i] = IF i \in S \/ owner[i] \in {} \cup {w} THEN w ELSE owner[i]
        /\ \A c \in Cids : Live(c)' <=> c = w \/ (Live(c) /\ c \notin {})
    BY <2>1, <2>3, CommitToOwners
  <2>5. CASE S = {}
    <3>1. \A i \in Identity : owner'[i] = IF owner[i] \in {} THEN w ELSE owner[i]
      BY <2>4, <2>5
    <3>2. Blocks' = Blocks
      BY <2>3, <2>4, <3>1, BlocksStay
    <3> QED BY <2>5, <3>2 DEF Shown, Implements
  <2>6. CASE S # {}
    <3>1. \A i \in S : owner[i] \in {} \cup {w, NoCid}
      BY <1>2, <1>7 DEF CommitNew
    <3> HIDE DEF S
    <3>2. Blocks' = (Blocks \ Partition!Touched(S)) \cup {S \cup UNION Partition!Touched(S)}
      BY <1>0, <2>3, <2>4, <2>6, <3>1, BlocksJoin
    <3> QED BY <1>0, <2>6, <3>2, JoinImplements DEF S
  <2> QED BY <2>5, <2>6
<1> QED BY <1>5, <1>6, <1>7 DEF Commit

\* A merge is the assertion of the keys of its entities.
LEMMA MergeImplements ==
  ASSUME EntityInv, NEW C \in SUBSET LiveCids, NEW force, Merge(C, force),
         Shown(UNION {IdMembers(c) : c \in C})
  PROVE  Implements
<1> DEFINE S == UNION {IdMembers(c) : c \in C}
<1>0. /\ TypeOK /\ LiveCids \subseteq Cids /\ NoCid \notin Cids
      /\ S \in SUBSET Identity /\ Identity \subseteq StrongKeys
  BY KeysAssumption DEF EntityInv, LiveCids, IdMembers, StrongKeys
<1>1. PICK w \in C, a \in StrongKeys :
        /\ owner' = Repointed(owner, C \ {w}, w)
        /\ anchor' = MergedAnchors(w, C \ {w}, a)
  BY DEF Merge
<1> DEFINE L == C \ {w}
<1>2. w \in Cids /\ w \in LiveCids /\ L \in SUBSET LiveCids /\ w \notin L /\ L \cup {w} = C
  BY <1>0
<1>3. \A c \in Cids : Live(c)' <=> c = w \/ (Live(c) /\ c \notin L)
  BY <1>1, <1>2, MergedAnchorsLive
<1>4. \A k \in Identity : owner'[k] = IF owner[k] \in L THEN w ELSE owner[k]
  BY <1>0, <1>1 DEF TypeOK, Repointed
<1>5. \A k \in S : owner[k] \in L \cup {w}
  BY DEF IdMembers, Members
<1>6. \A c \in L \cup {w} : IdMembers(c) \subseteq S
  OBVIOUS
<1> HIDE DEF S, L
<1>7. CASE S = {}
  <2>1. Blocks' = Blocks
    BY <1>2, <1>3, <1>4, <1>6, <1>7, BlocksStay
  <2> QED BY <1>7, <2>1 DEF Shown, Implements, S
<1>8. CASE S # {}
  <2>1. \A k \in Identity :
          owner'[k] = IF k \in S \/ owner[k] \in L \cup {w} THEN w ELSE owner[k]
    BY <1>4, <1>5
  <2>2. \A c \in L \cup {w} : IdMembers(c) # {} => IdMembers(c) \cap S # {}
    BY <1>6
  <2>3. \A k \in S : owner[k] \in L \cup {w, NoCid}
    BY <1>5
  <2>4. Blocks' = (Blocks \ Partition!Touched(S)) \cup {S \cup UNION Partition!Touched(S)}
    BY <1>0, <1>2, <1>3, <1>8, <2>1, <2>2, <2>3, BlocksJoin
  <2> QED BY <1>0, <1>8, <2>4, JoinImplements DEF S
<1> QED BY <1>7, <1>8

\* A link is the assertion of its two keys.
LEMMA LinkImplements ==
  ASSUME HashInjective, EntityInv, NEW j \in StrongKeys, NEW k \in StrongKeys, NEW force,
         Link(j, k, force), Shown(Meant(j) \cup Meant(k))
  PROVE  Implements
<1> DEFINE S == Meant(j) \cup Meant(k)
<1>0. /\ TypeOK /\ RowsLive /\ LiveCids \subseteq Cids
      /\ NoCid \notin Cids /\ NoKey \notin StrongKeys
      /\ S \in SUBSET Identity /\ Identity \subseteq StrongKeys
  BY KeysAssumption DEF EntityInv, LiveCids, Meant, IdMembers, StrongKeys
<1>1. CASE LinkNew(j, k, force)
  <2>1. PICK a \in {j, k} :
          /\ owner' = [owner EXCEPT ![j] = CidOf(a), ![k] = CidOf(a)]
          /\ anchor' = [anchor EXCEPT ![CidOf(a)] = IF Live(CidOf(a)) THEN @ ELSE a]
    BY <1>1 DEF LinkNew
  <2>2. j \notin Known /\ k \notin Known
    BY <1>1 DEF LinkNew
  <2>3. PICK w \in Cids : w = CidOf(a) /\ w \notin LiveCids /\ IdMembers(w) = {}
    BY <2>2, MintedIsFree
  <2>4. S = {j, k} \cap Identity
    BY <2>2 DEF Meant
  <2>5. \A c \in Cids : Live(c)' <=> c = w \/ (Live(c) /\ c \notin {})
    BY <1>0, <2>1, <2>3 DEF Live, TypeOK
  <2>6. \A i \in Identity : owner'[i] = IF i \in S THEN w ELSE owner[i]
    BY <1>0, <2>1, <2>3, <2>4 DEF TypeOK
  <2>7. \A i \in Identity : owner[i] # w
    BY <1>0, <2>3 DEF IdMembers, Members
  <2> HIDE DEF S
  <2>8. CASE S = {}
    <3>1. \A i \in Identity : owner'[i] = IF owner[i] \in {} THEN w ELSE owner[i]
      BY <2>6, <2>8
    <3>2. Blocks' = Blocks
      BY <2>3, <2>5, <3>1, BlocksStay
    <3> QED BY <2>8, <3>2 DEF Shown, Implements, S
  <2>9. CASE S # {}
    <3>1. \A i \in S : owner[i] \in {} \cup {w, NoCid}
      BY <2>2, <2>4 DEF Known
    <3>2. \A i \in Identity : owner'[i] = IF i \in S \/ owner[i] \in {} \cup {w} THEN w ELSE owner[i]
      BY <2>6, <2>7
    <3>3. Blocks' = (Blocks \ Partition!Touched(S)) \cup {S \cup UNION Partition!Touched(S)}
      BY <1>0, <2>3, <2>5, <2>9, <3>1, <3>2, BlocksJoin
    <3> QED BY <1>0, <2>9, <3>3, JoinImplements DEF S
  <2> QED BY <2>8, <2>9
<1>2. CASE LinkAttach(j, k, force)
  <2>1. PICK a \in StrongKeys : anchor' = [anchor EXCEPT ![owner[k]] = a]
    BY <1>2 DEF LinkAttach
  <2>2. /\ j \notin Known /\ k \in Known /\ owner[j] = NoCid
        /\ owner' = [owner EXCEPT ![j] = owner[k]]
    BY <1>2 DEF LinkAttach, Known
  <2>3. PICK w \in Cids : w = owner[k] /\ w \in LiveCids
    BY <1>0, <2>2 DEF Known, TypeOK, RowsLive, LiveCids
  <2>4. S = ({j} \cap Identity) \cup IdMembers(w)
    BY <2>2, <2>3 DEF Meant
  <2>5. \A c \in Cids : Live(c)' <=> c = w \/ (Live(c) /\ c \notin {})
    BY <1>0, <2>1, <2>3 DEF Live, TypeOK, LiveCids
  <2>6. \A i \in Identity : i \in S <=> i = j \/ owner[i] = w
    BY <1>0, <2>4 DEF IdMembers, Members
  <2>7. \A i \in Identity : owner'[i] = IF i = j THEN w ELSE owner[i]
    BY <1>0, <2>2, <2>3 DEF TypeOK
  <2>8. IdMembers(w) \subseteq S
    BY <2>4
  <2> HIDE DEF S
  <2>9. CASE S = {}
    <3>1. \A i \in Identity : owner'[i] = IF owner[i] \in {} THEN w ELSE owner[i]
      BY <2>6, <2>7, <2>9
    <3>2. Blocks' = Blocks
      BY <2>3, <2>5, <2>8, <2>9, <3>1, BlocksStay
    <3> QED BY <2>9, <3>2 DEF Shown, Implements, S
  <2>10. CASE S # {}
    <3> DEFINE L == {}
    <3>1. \A i \in S : owner[i] \in L \cup {w, NoCid}
      BY <1>0, <2>2, <2>6
    <3>2. \A i \in Identity : owner'[i] = IF i \in S \/ owner[i] \in L \cup {w} THEN w ELSE owner[i]
      BY <2>6, <2>7
    <3>3. \A c \in L \cup {w} : IdMembers(c) # {} => IdMembers(c) \cap S # {}
      BY <2>8
    <3>4. Blocks' = (Blocks \ Partition!Touched(S)) \cup {S \cup UNION Partition!Touched(S)}
      <4>1. w \in Cids /\ L \in SUBSET LiveCids
        BY <2>3
      <4>2. \A c \in Cids : Live(c)' <=> c = w \/ (Live(c) /\ c \notin L)
        BY <2>5
      <4> HIDE DEF L
      <4> QED BY <1>0, <2>10, <3>1, <3>2, <3>3, <4>1, <4>2, BlocksJoin
    <3> QED BY <1>0, <2>10, <3>4, JoinImplements DEF S
  <2> QED BY <2>9, <2>10
<1>3. CASE {j, k} \subseteq Known /\ Merge({owner[j], owner[k]}, force)
  <2> DEFINE C == {owner[j], owner[k]}
  <2>1. C \in SUBSET LiveCids
    BY <1>0, <1>3 DEF Known, TypeOK, RowsLive, LiveCids
  <2>2. S = UNION {IdMembers(c) : c \in C}
    BY <1>3 DEF Meant
  <2>3. Shown(UNION {IdMembers(c) : c \in C})
    BY <2>2
  <2> HIDE DEF S
  <2> QED BY <1>3, <2>1, <2>3, MergeImplements
<1> QED BY <1>1, <1>2, <1>3 DEF Link

\* A split that leaves identity keys on both sides is the partition's; any other moves all
\* of the entity's identity keys or none.
LEMMA SplitImplements ==
  ASSUME EntityInv, NEW D \in SUBSET StrongKeys, Split(D),
         Separated(D \cap Identity, UNION {Meant(k) : k \in D})
  PROVE  Implements
<1>1. PICK src, new : SplitsOff(D, src, new)
  BY SplitShape
<1>0. /\ LiveCids \subseteq Cids /\ NoCid \notin Cids /\ Identity \subseteq StrongKeys
      /\ src \in LiveCids /\ new \in Cids /\ new \notin LiveCids
  BY <1>1, KeysAssumption DEF LiveCids, StrongKeys, SplitsOff
<1> DEFINE E == D \cap Identity
           whole == IdMembers(src)
<1>2. UNION {Meant(k) : k \in D} = whole
  <2>1. \A k \in D : k \in Known /\ owner[k] = src
    BY <1>0, <1>1 DEF SplitsOff, Members, Known
  <2>2. \A k \in D : Meant(k) = whole
    BY <2>1 DEF Meant
  <2> HIDE DEF whole
  <2> QED BY <1>1, <2>2 DEF SplitsOff
<1>3. \A c : IdMembers(c) = {k \in Identity : owner[k] = c}
  BY <1>0 DEF IdMembers, Members
<1>4. \A c : IdMembers(c)' = {k \in Identity : owner'[k] = c}
  BY <1>0 DEF IdMembers, Members
<1>5. IdMembers(new) = {}
  BY <1>0, DeadOwnsNothing DEF IdMembers
<1>6. \A k \in Identity : owner'[k] = IF k \in E THEN new ELSE owner[k]
  BY <1>0, <1>1 DEF SplitsOff
<1>7. E \subseteq whole
  BY <1>1 DEF SplitsOff, IdMembers
<1> HIDE DEF E, whole
<1>8. /\ IdMembers(new)' = E
      /\ IdMembers(src)' = whole \ E
      /\ \A c : c # src /\ c # new => IdMembers(c)' = IdMembers(c)
  <2>1. \A k \in Identity : owner'[k] = new <=> k \in E
    BY <1>3, <1>5, <1>6
  <2>2. \A k \in Identity : owner'[k] = src <=> k \in whole \ E
    BY <1>0, <1>3, <1>6 DEF whole
  <2>3. ASSUME NEW c, c # src, c # new PROVE IdMembers(c)' = IdMembers(c)
    <3>1. \A k \in Identity : owner'[k] = c <=> owner[k] = c
      BY <1>3, <1>6, <1>7, <2>3 DEF whole
    <3> QED BY <1>3, <1>4, <3>1
  <2>4. E \subseteq Identity /\ whole \subseteq Identity
    BY <1>3 DEF E, whole
  <2> QED BY <1>4, <2>1, <2>2, <2>3, <2>4
<1>9. \A c : c \in LiveCids' <=> c = new \/ c \in LiveCids
  BY <1>0, <1>1 DEF SplitsOff, LiveCids
<1>10. \A X : X \in Blocks' <=> X # {} /\ \E c \in LiveCids' : X = IdMembers(c)'
  BY DEF Blocks
<1>11. \A X : X \in Blocks' <=>
               /\ X # {}
               /\ X = E \/ X = whole \ E \/ \E c \in LiveCids \ {src} : X = IdMembers(c)
  <2> SUFFICES ASSUME NEW X, X # {}
               PROVE  (\E c \in LiveCids' : X = IdMembers(c)') <=>
                        X = E \/ X = whole \ E \/ \E c \in LiveCids \ {src} : X = IdMembers(c)
    BY <1>10
  <2>1. src # new
    BY <1>0
  <2>2. ASSUME NEW c \in LiveCids', X = IdMembers(c)'
        PROVE  X = E \/ X = whole \ E \/ \E e \in LiveCids \ {src} : X = IdMembers(e)
    BY <1>8, <1>9, <2>2
  <2>3. ASSUME X = E \/ X = whole \ E \/ \E e \in LiveCids \ {src} : X = IdMembers(e)
        PROVE  \E c \in LiveCids' : X = IdMembers(c)'
    BY <1>0, <1>8, <1>9, <2>3
  <2> QED BY <2>2, <2>3
<1>12. \A c \in LiveCids \ {src} : IdMembers(c) = whole => whole = {}
  BY <1>3 DEF whole
<1>13. CASE E = {} \/ E = whole
  <2>1. asserted' = asserted
    BY <1>2, <1>13 DEF Separated, E
  <2>2. \A X : X \in Blocks <=> X # {} /\ (X = whole \/ \E c \in LiveCids \ {src} : X = IdMembers(c))
    BY <1>0, BlockOf DEF whole
  <2>3. \A X : X \in Blocks' <=> X \in Blocks
    BY <1>11, <1>13, <2>2
  <2>4. Blocks' = Blocks
    BY <2>3
  <2> QED BY <2>1, <2>4 DEF Implements
<1>14. CASE E # {} /\ E # whole
  <2>1. asserted' = {T \in asserted : T \cap whole = {}} \cup {E, whole \ E}
    BY <1>2, <1>14 DEF Separated, E
  <2>2. whole \in Blocks
    BY <1>0, <1>7, <1>14, BlockOf DEF whole
  <2>3. \A X : X \in Blocks \ {whole} <=> X # {} /\ \E c \in LiveCids \ {src} : X = IdMembers(c)
    BY <1>0, <1>12, BlockOf DEF whole
  <2>4. whole \ E # {}
    BY <1>7, <1>14
  <2>5. \A X : X \in Blocks' <=> X \in (Blocks \ {whole}) \cup {E, whole \ E}
    BY <1>11, <1>14, <2>3, <2>4
  <2>6. Blocks' = (Blocks \ {whole}) \cup {E, whole \ E}
    BY <2>5
  <2>7. Partition!Split(E)
    BY <1>7, <1>14, <2>1, <2>2, <2>6 DEF Partition!Split
  <2>8. E \in SUBSET Identity
    BY DEF E
  <2> QED BY <2>7, <2>8 DEF Implements, Partition!Next
<1> QED BY <1>13, <1>14

-----------------------------------------------------------------------------
(***************************************************************************)
(* The theorems.                                                           *)
(***************************************************************************)

\* The history of the evidence restricts nothing: an execution with it is one of the
\* crosswalk's.
LEMMA EvidenceIsCrosswalk == EvidenceSpec => Spec
<1>1. EvidenceInit => Init
  BY DEF EvidenceInit
<1>2. [EvidenceServe \/ EvidenceCorrect]_<<vars, asserted>> => [Next]_vars
  BY DEF EvidenceServe, EvidenceCorrect, Next, CommitStep, MergeStep, LinkStep, SplitStep
<1> QED BY <1>1, <1>2, PTL DEF EvidenceSpec, Spec

\* Every commit, link, merge and split is one step of the identity partition on the
\* identity keys of the entities, or none: domains, phones, anchors, ids and the order of
\* keys never join or separate two of them.
THEOREM ImplementsPartition == HashInjective => (EvidenceSpec => RefinesPartition)
<1> SUFFICES ASSUME HashInjective PROVE EvidenceSpec => RefinesPartition
  OBVIOUS
<1>1. EvidenceInit => Partition!Init
  BY KeysAssumption DEF EvidenceInit, Init, Partition!Init, Blocks, LiveCids, Live
<1>2. EntityInv /\ [EvidenceServe \/ EvidenceCorrect]_<<vars, asserted>>
        => [Partition!Next]_<<Blocks, asserted>>
  <2> SUFFICES ASSUME EntityInv, [EvidenceServe \/ EvidenceCorrect]_<<vars, asserted>>
               PROVE  Implements
    BY DEF Implements
  <2>1. CASE EvidenceServe
    BY <2>1, RecordsAssumption, CommitImplements DEF EvidenceServe, AnyRecord
  <2>2. CASE EvidenceCorrect
    BY <2>2, MergeImplements, LinkImplements, SplitImplements DEF EvidenceCorrect
  <2>3. CASE UNCHANGED <<vars, asserted>>
    <3>1. Blocks' = Blocks
      BY <2>3 DEF vars, Blocks, IdMembers, Members, LiveCids, Live
    <3> QED BY <2>3, <3>1 DEF Implements
  <2> QED BY <2>1, <2>2, <2>3
<1>3. GraphInv => EntityInv
  BY GraphParts
<1> QED BY <1>1, <1>2, <1>3, EvidenceIsCrosswalk, GraphCorrect, PTL
        DEF EvidenceSpec, RefinesPartition, Partition!Spec

\* Two identity keys are on one entity exactly if a chain of the evidence that stands
\* connects them, after any commits, links, merges and splits.
THEOREM EvidenceDecidesEntities == HashInjective => (EvidenceSpec => []EvidenceDecides)
<1>1. Partition!Init => Abstract!Init
  BY DEF Partition!Init, Abstract!Init
<1>2. [Partition!Next]_<<Blocks, asserted>> => [Abstract!Next]_<<Blocks, asserted>>
  BY DEF Partition!Next, Partition!Assert, Partition!Split, Partition!Touched,
         Abstract!Next, Abstract!Assert, Abstract!Split, Abstract!Touched
<1>3. Abstract!PartitionInv => EvidenceDecides
  BY DEF EvidenceDecides, Abstract!PartitionInv,
         Partition!NoMissedMerge, Partition!NoFalseMerge, Partition!Closed,
         Abstract!NoMissedMerge, Abstract!NoFalseMerge, Abstract!Closed
<1>4. Partition!Spec => Abstract!Spec
  BY <1>1, <1>2, PTL DEF Partition!Spec, Abstract!Spec
<1> QED BY <1>3, <1>4, Abstract!EvidenceDecidesPartition, ImplementsPartition, PTL
        DEF RefinesPartition
=============================================================================
