-------------------------- MODULE CrosswalkProofs --------------------------
(***************************************************************************)
(* Theorems about Crosswalk, for any keys, records and names.              *)
(***************************************************************************)
EXTENDS Crosswalk, TLAPS

-----------------------------------------------------------------------------
(***************************************************************************)
(* Type correctness.                                                       *)
(***************************************************************************)

\* The unsuffixed id of a key is a canonical id.
LEMMA CidOfType ==
  ASSUME NEW k \in StrongKeys
  PROVE  CidOf(k) \in Cids
BY KeysAssumption DEF CidOf, Cids

\* find() over any keys returns canonical ids.
LEMMA HitsType ==
  ASSUME TypeOK, NEW K
  PROVE  Hits(K) \subseteq Cids
BY DEF TypeOK, Hits, Known

\* Re-pointing a column or a table keeps its type.
LEMMA RepointedType ==
  ASSUME NEW S, NEW column \in [S -> Cids \cup {NoCid}], NEW L, NEW w \in Cids
  PROVE  Repointed(column, L, w) \in [S -> Cids \cup {NoCid}]
BY DEF Repointed

\* ... and so does re-pointing its rows.
LEMMA RepointedRowsType ==
  ASSUME NEW S, NEW rows, rows \subseteq S \X Cids, NEW L, NEW w \in Cids
  PROVE  RepointedRows(rows, L, w) \subseteq S \X Cids
BY DEF RepointedRows

\* The entity rows after a merge have their type.
LEMMA MergedAnchorsType ==
  ASSUME TypeOK, NEW w, NEW L, NEW a \in StrongKeys
  PROVE  MergedAnchors(w, L, a) \in [Cids -> StrongKeys \cup {NoKey}]
BY DEF TypeOK, MergedAnchors

\* A record as a parser or an adapter makes it.
AnyRecord == [ids : SUBSET StrongKeys, phones : SUBSET Phones]

\* Each operation keeps the type of every column: a commit to one target,
LEMMA CommitToType ==
  ASSUME TypeOK, NEW r \in AnyRecord, NEW w \in Cids, NEW L, CommitTo(r, w, L)
  PROVE  TypeOK'
<1> DEFINE merged == Repointed(owner, L, w)
<1>1. merged \in [StrongKeys -> Cids \cup {NoCid}]
  BY RepointedType DEF TypeOK
<1>2. owner' \in [StrongKeys -> Cids \cup {NoCid}]
  BY <1>1 DEF CommitTo
<1>3. anchor' \in [Cids -> StrongKeys \cup {NoKey}]
  BY MergedAnchorsType DEF CommitTo
<1>4. phoneEdge' \subseteq Phones \X Cids
  <2>1. RepointedRows(phoneEdge, L, w) \subseteq Phones \X Cids
    BY RepointedRowsType DEF TypeOK
  <2>2. r.phones \subseteq Phones
    BY DEF AnyRecord
  <2> QED BY <2>1, <2>2 DEF CommitTo
<1>5. nameIndex' \subseteq Names \X Cids
  BY RepointedRowsType DEF TypeOK, CommitTo
<1>6. unique' \in [Names -> Cids \cup {NoCid}]
  BY RepointedType DEF TypeOK, CommitTo
<1> QED BY <1>2, <1>3, <1>4, <1>5, <1>6 DEF TypeOK

\* a commit,
LEMMA CommitType ==
  ASSUME TypeOK, NEW r \in AnyRecord, NEW strict, Commit(r, strict)
  PROVE  TypeOK'
<1>1. CASE CommitByIdentity(r)
  <2>1. IdHits(r) \subseteq Cids
    BY HitsType DEF IdHits
  <2> QED BY <1>1, <2>1, CommitToType DEF CommitByIdentity
<1>2. CASE CommitByAffiliation(r)
  <2>1. AfHits(r) \subseteq Cids
    BY HitsType DEF AfHits
  <2> QED BY <1>2, <2>1, CommitToType DEF CommitByAffiliation
<1>3. CASE CommitNew(r)
  <2>1. r.ids \subseteq StrongKeys
    BY DEF AnyRecord
  <2> QED BY <1>3, <2>1, CidOfType, CommitToType DEF CommitNew
<1> QED BY <1>1, <1>2, <1>3 DEF Commit

\* a merge,
LEMMA MergeType ==
  ASSUME TypeOK, NEW C \in SUBSET Cids, NEW force, Merge(C, force)
  PROVE  TypeOK'
<1>1. PICK w \in C, a \in StrongKeys :
        /\ owner' = Repointed(owner, C \ {w}, w)
        /\ anchor' = MergedAnchors(w, C \ {w}, a)
        /\ phoneEdge' = RepointedRows(phoneEdge, C \ {w}, w)
        /\ nameIndex' = RepointedRows(nameIndex, C \ {w}, w)
        /\ unique' = Repointed(unique, C \ {w}, w)
  BY DEF Merge
<1>2. w \in Cids
  OBVIOUS
<1>3. owner' \in [StrongKeys -> Cids \cup {NoCid}]
  BY <1>1, <1>2, RepointedType DEF TypeOK
<1>4. anchor' \in [Cids -> StrongKeys \cup {NoKey}]
  BY <1>1, MergedAnchorsType
<1>5. phoneEdge' \subseteq Phones \X Cids
  BY <1>1, <1>2, RepointedRowsType DEF TypeOK
<1>6. nameIndex' \subseteq Names \X Cids
  BY <1>1, <1>2, RepointedRowsType DEF TypeOK
<1>7. unique' \in [Names -> Cids \cup {NoCid}]
  BY <1>1, <1>2, RepointedType DEF TypeOK
<1> QED BY <1>3, <1>4, <1>5, <1>6, <1>7 DEF TypeOK

\* a link,
LEMMA LinkType ==
  ASSUME TypeOK, NEW j \in StrongKeys, NEW k \in StrongKeys, NEW force, Link(j, k, force)
  PROVE  TypeOK'
<1>1. CASE LinkNew(j, k, force)
  <2>1. PICK a \in {j, k} :
          /\ owner' = [owner EXCEPT ![j] = CidOf(a), ![k] = CidOf(a)]
          /\ anchor' = [anchor EXCEPT ![CidOf(a)] = IF Live(CidOf(a)) THEN @ ELSE a]
    BY <1>1 DEF LinkNew
  <2>2. CidOf(a) \in Cids
    BY CidOfType
  <2> QED BY <1>1, <2>1, <2>2 DEF TypeOK, LinkNew
<1>2. CASE LinkAttach(j, k, force)
  <2>1. owner[k] \in Cids
    BY <1>2 DEF LinkAttach, Known, TypeOK
  <2>2. PICK a \in StrongKeys : anchor' = [anchor EXCEPT ![owner[k]] = a]
    BY <1>2 DEF LinkAttach
  <2> QED BY <1>2, <2>1, <2>2 DEF TypeOK, LinkAttach
<1>3. CASE {j, k} \subseteq Known /\ Merge({owner[j], owner[k]}, force)
  <2>1. {owner[j], owner[k]} \in SUBSET Cids
    BY <1>3 DEF Known, TypeOK
  <2> QED BY <1>3, <2>1, MergeType
<1> QED BY <1>1, <1>2, <1>3 DEF Link

\* and a split.
LEMMA SplitType ==
  ASSUME TypeOK, NEW D \in SUBSET StrongKeys, Split(D)
  PROVE  TypeOK'
<1>a. PICK src \in LiveCids :
        \E a \in D, b \in Members(src) \ D : \E n \in FreeSuffixes(Hash[a]) :
          ApplySplit(D, src, b, <<Hash[a], n>>, a)
  BY DEF Split
<1>b. PICK a \in D, b \in Members(src) \ D : \E n \in FreeSuffixes(Hash[a]) :
        ApplySplit(D, src, b, <<Hash[a], n>>, a)
  BY <1>a
<1>1. PICK n \in FreeSuffixes(Hash[a]) : ApplySplit(D, src, b, <<Hash[a], n>>, a)
  BY <1>b
<1>2. <<Hash[a], n>> \in Cids
  BY <1>1 DEF FreeSuffixes, Cids
<1>3. owner' \in [StrongKeys -> Cids \cup {NoCid}]
  BY <1>1, <1>2 DEF TypeOK, ApplySplit
<1>4. anchor' \in [Cids -> StrongKeys \cup {NoKey}]
  BY <1>1 DEF TypeOK, ApplySplit, Reanchored, Members
<1>5. nameIndex' \subseteq Names \X Cids
  BY <1>1 DEF TypeOK, ApplySplit, RowsWithout
<1>6. unique' \in [Names -> Cids \cup {NoCid}]
  BY <1>1 DEF TypeOK, ApplySplit
<1> QED BY <1>1, <1>3, <1>4, <1>5, <1>6 DEF TypeOK, ApplySplit

\* Every column keeps its type through commits, names and corrections.
THEOREM TypeCorrect == Spec => []TypeOK
<1>1. Init => TypeOK
  BY DEF Init, TypeOK
<1>2. TypeOK /\ [Next]_vars => TypeOK'
  <2> SUFFICES ASSUME TypeOK, [Next]_vars PROVE TypeOK'
    OBVIOUS
  <2>1. CASE CommitStep
    BY <2>1, CommitType, RecordsAssumption DEF CommitStep, AnyRecord
  <2>2. CASE NameStep
    BY <2>2 DEF NameStep, IndexName, RememberAmbiguous, TypeOK
  <2>3. CASE MergeStep
    BY <2>3, MergeType DEF MergeStep, LiveCids
  <2>4. CASE LinkStep
    BY <2>4, LinkType DEF LinkStep
  <2>5. CASE SplitStep
    BY <2>5, SplitType DEF SplitStep
  <2>6. CASE UNCHANGED vars
    BY <2>6 DEF vars, TypeOK
  <2> QED BY <2>1, <2>2, <2>3, <2>4, <2>5, <2>6 DEF Next
<1> QED BY <1>1, <1>2, PTL DEF Spec

-----------------------------------------------------------------------------
(***************************************************************************)
(* The graph invariant, step by step.                                      *)
(***************************************************************************)

\* No key, phone edge or name row names an entity that is gone ...
RowsLive ==
  /\ \A k \in StrongKeys : owner[k] # NoCid => Live(owner[k])
  /\ \A row \in phoneEdge \cup nameIndex : Live(row[2])

\* ... and no remembered unique name does.
UniqueLive == \A n \in Names : unique[n] # NoCid => Live(unique[n])

\* What the entities need of each other, whoever remembers which names.
EntityInv == TypeOK /\ RowsLive /\ AnchorIsCurrent /\ MintedKeyIsKnown

\* GraphInv is these parts.
LEMMA GraphParts == GraphInv <=> EntityInv /\ UniqueLive
BY DEF GraphInv, NoDanglingRow, EntityInv, RowsLive, UniqueLive

\* The entity anchor over a set of keys is one of them.
LEMMA EntityAnchorIn ==
  ASSUME NEW S, NEW a, IsEntityAnchor(a, S)
  PROVE  a \in S
BY DEF IsEntityAnchor, IsStrongest

\* A live entity owns its anchor.
LEMMA AnchorOwned ==
  ASSUME EntityInv, NEW c \in LiveCids
  PROVE  anchor[c] \in StrongKeys /\ owner[anchor[c]] = c
<1>1. anchor[c] \in Members(c)
  BY EntityAnchorIn DEF EntityInv, AnchorIsCurrent
<1> QED BY <1>1 DEF Members

\* Merging L into w, attaching keys to w and re-anchoring w keeps the invariant,
\* if the keys attached belonged to L, to w or to nobody (claims), and w is an
\* entity or the unsuffixed id of a key attached to it (target).
LEMMA AbsorbInv ==
  ASSUME EntityInv,
         NEW w \in Cids, NEW L \in SUBSET LiveCids, w \notin L,
         NEW K \in SUBSET StrongKeys,
         \A k \in K : owner[k] \in L \cup {w, NoCid},
         w \in LiveCids \/ \E k \in K : CidOf(k) = w,
         TypeOK',
         owner' = [k \in StrongKeys |-> IF k \in K THEN w ELSE Repointed(owner, L, w)[k]],
         NEW a \in StrongKeys,
         Sharpens(a, Members(w)', anchor[w]),
         anchor' = MergedAnchors(w, L, a),
         \A row \in phoneEdge' \cup nameIndex' :
            row[2] = w \/ row[2] \in LiveCids \ L
  PROVE  EntityInv'
<1> USE DEF Live, LiveCids
<1>0. TypeOK /\ NoCid \notin Cids /\ NoKey \notin StrongKeys
  BY KeysAssumption DEF EntityInv
<1>1. \A k \in StrongKeys :
        owner'[k] = IF k \in K \/ owner[k] \in L THEN w ELSE owner[k]
  BY <1>0 DEF Repointed, TypeOK
<1>2. /\ anchor'[w] = a
      /\ \A c \in Cids \ {w} : c \in L => anchor'[c] = NoKey
      /\ \A c \in Cids \ {w} : c \notin L => anchor'[c] = anchor[c]
  BY DEF MergedAnchors
<1>3. \A c \in Cids : c = w \/ c \in LiveCids \ L => anchor'[c] # NoKey
  BY <1>0, <1>2
<1>4. RowsLive'
  <2>1. \A k \in StrongKeys : owner'[k] # NoCid => anchor'[owner'[k]] # NoKey
    BY <1>0, <1>1, <1>3 DEF EntityInv, RowsLive, TypeOK
  <2>2. \A row \in phoneEdge' \cup nameIndex' : anchor'[row[2]] # NoKey
    BY <1>3
  <2> QED BY <2>1, <2>2 DEF RowsLive
<1>5. AnchorIsCurrent'
  <2> SUFFICES ASSUME NEW c \in Cids, anchor'[c] # NoKey
               PROVE  IsEntityAnchor(anchor'[c], Members(c)')
    BY DEF AnchorIsCurrent
  <2>1. CASE c = w
    <3>1. Members(w)' # {}
      <4>1. CASE w \in LiveCids
        <5>1. anchor[w] \in StrongKeys /\ owner[anchor[w]] = w
          BY <4>1, AnchorOwned
        <5> QED BY <5>1, <1>1 DEF Members
      <4>2. CASE \E k \in K : CidOf(k) = w
        BY <4>2, <1>1 DEF Members
      <4> QED BY <4>1, <4>2
    <3> QED BY <2>1, <3>1, <1>2 DEF Sharpens
  <2>2. CASE c # w
    <3>1. c \notin L /\ anchor'[c] = anchor[c] /\ c \in LiveCids
      BY <2>2, <1>2
    <3>2. \A k \in StrongKeys : owner'[k] = c <=> owner[k] = c
      BY <2>2, <3>1, <1>0, <1>1
    <3>3. Members(c)' = Members(c)
      BY <3>2 DEF Members
    <3> QED BY <3>1, <3>3 DEF EntityInv, AnchorIsCurrent
  <2> QED BY <2>1, <2>2
<1>6. MintedKeyIsKnown'
  <2> SUFFICES ASSUME NEW k \in StrongKeys, anchor'[CidOf(k)] # NoKey
               PROVE  \E j \in StrongKeys : owner'[j] # NoCid /\ Hash[j] = Hash[k]
    BY DEF MintedKeyIsKnown, Known
  <2>0. CidOf(k) \in Cids
    BY CidOfType
  <2>1. CASE CidOf(k) \in LiveCids
    <3>1. PICK j \in StrongKeys : owner[j] # NoCid /\ Hash[j] = Hash[k]
      BY <2>1 DEF EntityInv, MintedKeyIsKnown, Known
    <3> QED BY <3>1, <1>0, <1>1
  <2>2. CASE CidOf(k) \notin LiveCids
    <3>1. CidOf(k) = w
      BY <2>0, <2>2, <1>2
    <3>2. PICK j \in K : CidOf(j) = CidOf(k)
      BY <2>2, <3>1
    <3>3. Hash[j] = Hash[k]
      BY <3>2 DEF CidOf
    <3> QED BY <3>3, <1>0, <1>1
  <2> QED BY <2>1, <2>2
<1> QED BY <1>4, <1>5, <1>6 DEF EntityInv

\* Rows re-pointed from L to w name w or an entity that stays.
LEMMA RepointedRowsLive ==
  ASSUME NEW S, NEW rows, rows \subseteq S \X Cids, NEW w, NEW L,
         \A row \in rows : Live(row[2])
  PROVE  \A row \in RepointedRows(rows, L, w) : row[2] = w \/ row[2] \in LiveCids \ L
BY DEF RepointedRows, LiveCids

\* The owners of known keys are entities.
LEMMA HitsLive ==
  ASSUME EntityInv, NEW K
  PROVE  Hits(K) \subseteq LiveCids
BY DEF EntityInv, TypeOK, RowsLive, Hits, Known, LiveCids

\* A commit to w that absorbs L keeps the invariant, if every identity key of the
\* record belonged to w, to L or to nobody.
LEMMA CommitToInv ==
  ASSUME EntityInv, NEW r \in AnyRecord,
         NEW w \in Cids, NEW L \in SUBSET LiveCids, w \notin L,
         \A k \in r.ids \cap Identity : owner[k] \in L \cup {w, NoCid},
         w \in LiveCids \/ \E k \in r.ids : CidOf(k) = w /\ owner[k] = NoCid,
         CommitTo(r, w, L)
  PROVE  EntityInv'
<1> DEFINE merged == Repointed(owner, L, w)
           K == Claims(r, merged)
<1>0. TypeOK /\ RowsLive /\ r.ids \subseteq StrongKeys /\ NoCid \notin Cids
  BY KeysAssumption DEF EntityInv, AnyRecord
<1>1. TypeOK'
  BY <1>0, CommitToType
<1>2. merged \in [StrongKeys -> Cids \cup {NoCid}]
  BY <1>0, RepointedType DEF TypeOK
<1>3. \A k \in StrongKeys : merged[k] = IF owner[k] \in L THEN w ELSE owner[k]
  BY <1>0 DEF Repointed, TypeOK
<1>4. K \in SUBSET StrongKeys /\ \A k \in K : owner[k] \in L \cup {w, NoCid}
  BY <1>0, <1>3 DEF Claims
<1>5. w \in LiveCids \/ \E k \in K : CidOf(k) = w
  BY <1>0, <1>3 DEF Claims, LiveCids
<1>6. owner' = [k \in StrongKeys |-> IF k \in K THEN w ELSE merged[k]]
  BY DEF CommitTo
<1>7. PICK a \in StrongKeys : Sharpens(a, Members(w)', anchor[w]) /\ anchor' = MergedAnchors(w, L, a)
  BY DEF CommitTo
<1>8. \A row \in phoneEdge' \cup nameIndex' : row[2] = w \/ row[2] \in LiveCids \ L
  <2>1. \A row \in RepointedRows(phoneEdge, L, w) : row[2] = w \/ row[2] \in LiveCids \ L
    BY <1>0, RepointedRowsLive DEF TypeOK, RowsLive
  <2>2. \A row \in RepointedRows(nameIndex, L, w) : row[2] = w \/ row[2] \in LiveCids \ L
    BY <1>0, RepointedRowsLive DEF TypeOK, RowsLive
  <2> QED BY <2>1, <2>2 DEF CommitTo
<1> HIDE DEF K
<1> QED BY <1>1, <1>4, <1>5, <1>6, <1>7, <1>8, AbsorbInv

\* What a commit does: it merges entities L into w, an entity or the unsuffixed id of
\* a key nobody owns, and no identity key of the record is outside of them.
LEMMA CommitShape ==
  ASSUME EntityInv, NEW r \in AnyRecord, NEW strict, Commit(r, strict)
  PROVE  \E w \in Cids, L \in SUBSET LiveCids :
           /\ w \notin L
           /\ \A k \in r.ids \cap Identity : owner[k] \in L \cup {w, NoCid}
           /\ \/ w \in LiveCids
              \/ /\ IdHits(r) = {}
                 /\ \E k \in r.ids : CidOf(k) = w /\ owner[k] = NoCid
           /\ CommitTo(r, w, L)
<1>0. /\ TypeOK /\ RowsLive /\ LiveCids \subseteq Cids
      /\ r.ids \subseteq StrongKeys /\ NoCid \notin Cids
  BY KeysAssumption DEF EntityInv, LiveCids, AnyRecord
<1>1. IdHits(r) \subseteq LiveCids /\ AfHits(r) \subseteq LiveCids
  BY HitsLive DEF IdHits, AfHits
<1>2. \A k \in r.ids \cap Identity : owner[k] \in IdHits(r) \cup {NoCid}
  BY <1>0 DEF IdHits, Hits, Known
<1>3. CASE CommitByIdentity(r)
  <2>1. PICK w \in IdHits(r) : CommitTo(r, w, AbsorbedByIdentity(r) \ {w})
    BY <1>3 DEF CommitByIdentity
  <2> DEFINE L == AbsorbedByIdentity(r) \ {w}
  <2>2. L \in SUBSET LiveCids /\ IdHits(r) \subseteq L \cup {w}
    BY <1>1 DEF AbsorbedByIdentity
  <2>3. w \in Cids /\ w \in LiveCids /\ w \notin L
    BY <1>0, <1>1
  <2>4. \A k \in r.ids \cap Identity : owner[k] \in L \cup {w, NoCid}
    BY <1>2, <2>2
  <2>5. CommitTo(r, w, L)
    BY <2>1
  <2> HIDE DEF L
  <2> QED BY <2>2, <2>3, <2>4, <2>5
<1>4. CASE CommitByAffiliation(r)
  <2>1. PICK w \in AfHits(r) : \E first \in FirstBearing(w, AfHits(r)) :
          CommitTo(r, w, AbsorbedByAffiliation(r, w, first) \ {w})
    BY <1>4 DEF CommitByAffiliation
  <2>2. PICK first \in FirstBearing(w, AfHits(r)) :
          CommitTo(r, w, AbsorbedByAffiliation(r, w, first) \ {w})
    BY <2>1
  <2> DEFINE L == AbsorbedByAffiliation(r, w, first) \ {w}
  <2>3. L \in SUBSET LiveCids
    BY <1>1 DEF AbsorbedByAffiliation
  <2>4. w \in Cids /\ w \in LiveCids /\ w \notin L
    BY <1>0, <1>1
  <2>5. r.ids \cap Identity = {}
    BY <1>4 DEF CommitByAffiliation
  <2>6. CommitTo(r, w, L)
    BY <2>2
  <2> HIDE DEF L
  <2> QED BY <2>3, <2>4, <2>5, <2>6
<1>5. CASE CommitNew(r)
  <2>1. PICK k \in r.ids : IsEntityAnchor(k, r.ids) /\ CommitTo(r, CidOf(k), {})
    BY <1>5 DEF CommitNew
  <2>2. owner[k] = NoCid
    <3>1. CASE r.ids \cap Identity = {}
      BY <1>0, <1>5, <3>1 DEF CommitNew, AfHits, Hits, Known, StrongKeys
    <3>2. CASE r.ids \cap Identity # {}
      <4>1. k \in Identity
        BY <2>1, <3>2 DEF IsEntityAnchor, IsStrongest
      <4> QED BY <1>0, <1>5, <4>1 DEF CommitNew, IdHits, Hits, Known
    <3> QED BY <3>1, <3>2
  <2>3. CidOf(k) \in Cids
    BY <1>0, CidOfType
  <2>4. \A j \in r.ids \cap Identity : owner[j] = NoCid
    BY <1>2, <1>5 DEF CommitNew
  <2>5. IdHits(r) = {}
    BY <1>5 DEF CommitNew
  <2> QED BY <2>1, <2>2, <2>3, <2>4, <2>5
<1> QED BY <1>3, <1>4, <1>5 DEF Commit

\* Each of the three cases of a commit keeps the invariant.
LEMMA CommitInv ==
  ASSUME EntityInv, NEW r \in AnyRecord, NEW strict, Commit(r, strict)
  PROVE  EntityInv'
BY CommitShape, CommitToInv

\* A merge keeps the invariant: it absorbs and re-anchors.
LEMMA MergeInv ==
  ASSUME EntityInv, NEW C \in SUBSET LiveCids, NEW force, Merge(C, force)
  PROVE  EntityInv'
<1>0. TypeOK /\ RowsLive /\ LiveCids \subseteq Cids
  BY DEF EntityInv, LiveCids
<1>1. PICK w \in C, a \in StrongKeys :
        /\ owner' = Repointed(owner, C \ {w}, w)
        /\ Sharpens(a, Members(w)', anchor[w])
        /\ anchor' = MergedAnchors(w, C \ {w}, a)
        /\ phoneEdge' = RepointedRows(phoneEdge, C \ {w}, w)
        /\ nameIndex' = RepointedRows(nameIndex, C \ {w}, w)
        /\ unique' = Repointed(unique, C \ {w}, w)
  BY DEF Merge
<1> DEFINE L == C \ {w}
           K == {}
<1>2. w \in Cids /\ w \in LiveCids /\ L \in SUBSET LiveCids /\ w \notin L
  BY <1>0
<1>3. TypeOK'
  <2>1. C \in SUBSET Cids
    BY <1>0
  <2> QED BY <1>0, <2>1, MergeType
<1>4. owner' = [k \in StrongKeys |-> IF k \in K THEN w ELSE Repointed(owner, L, w)[k]]
  BY <1>0, <1>1 DEF Repointed, TypeOK
<1>5. \A row \in phoneEdge' \cup nameIndex' : row[2] = w \/ row[2] \in LiveCids \ L
  <2>1. \A row \in RepointedRows(phoneEdge, L, w) : row[2] = w \/ row[2] \in LiveCids \ L
    BY <1>0, RepointedRowsLive DEF TypeOK, RowsLive
  <2>2. \A row \in RepointedRows(nameIndex, L, w) : row[2] = w \/ row[2] \in LiveCids \ L
    BY <1>0, RepointedRowsLive DEF TypeOK, RowsLive
  <2> QED BY <1>1, <2>1, <2>2
<1>6. Sharpens(a, Members(w)', anchor[w]) /\ anchor' = MergedAnchors(w, L, a)
  BY <1>1
<1>7. K \in SUBSET StrongKeys /\ \A k \in K : owner[k] \in L \cup {w, NoCid}
  OBVIOUS
<1> HIDE DEF L, K
<1> QED BY <1>2, <1>3, <1>4, <1>5, <1>6, <1>7, AbsorbInv

\* An entity with no row owns no key.
LEMMA DeadOwnsNothing ==
  ASSUME EntityInv, NEW c \in Cids, c \notin LiveCids
  PROVE  Members(c) = {}
BY KeysAssumption DEF EntityInv, RowsLive, Members, LiveCids

\* A link keeps it: it mints at a free id, attaches, or merges.
LEMMA LinkInv ==
  ASSUME HashInjective, EntityInv, NEW j \in StrongKeys, NEW k \in StrongKeys,
         NEW force, Link(j, k, force)
  PROVE  EntityInv'
<1>0. TypeOK /\ RowsLive /\ LiveCids \subseteq Cids /\ NoCid \notin Cids
  BY KeysAssumption DEF EntityInv, LiveCids
<1>1. TypeOK'
  BY <1>0, LinkType
<1>2. CASE LinkNew(j, k, force)
  <2>1. PICK a \in {j, k} :
          /\ IsEntityAnchor(a, {j, k})
          /\ owner' = [owner EXCEPT ![j] = CidOf(a), ![k] = CidOf(a)]
          /\ anchor' = [anchor EXCEPT ![CidOf(a)] = IF Live(CidOf(a)) THEN @ ELSE a]
    BY <1>2 DEF LinkNew
  <2> DEFINE w == CidOf(a)
             L == {}
             K == {j, k}
  <2>2. w \in Cids /\ a \in StrongKeys
    BY CidOfType
  <2>3. owner[j] = NoCid /\ owner[k] = NoCid
    BY <1>2 DEF LinkNew, Known
  <2>4. ~ Live(w)
    BY <2>2, <2>3 DEF EntityInv, MintedKeyIsKnown, HashInjective, Known
  <2>5. w \notin LiveCids
    BY <2>4 DEF LiveCids
  <2>6. Members(w)' = {j, k}
    <3>1. Members(w) = {}
      BY <2>2, <2>5, DeadOwnsNothing
    <3>2. \A x \in StrongKeys : owner'[x] = IF x \in {j, k} THEN w ELSE owner[x]
      BY <1>0, <2>1 DEF TypeOK
    <3>3. \A x \in StrongKeys : owner'[x] = w <=> x \in {j, k}
      BY <3>1, <3>2 DEF Members
    <3> QED BY <3>3 DEF Members
  <2>7. Sharpens(a, Members(w)', anchor[w])
    BY <2>1, <2>6 DEF Sharpens
  <2>8. anchor' = MergedAnchors(w, L, a)
    BY <1>0, <2>1, <2>2, <2>4 DEF MergedAnchors, TypeOK
  <2>9. owner' = [x \in StrongKeys |-> IF x \in K THEN w ELSE Repointed(owner, L, w)[x]]
    BY <1>0, <2>1 DEF Repointed, TypeOK
  <2>10. \A row \in phoneEdge' \cup nameIndex' : row[2] = w \/ row[2] \in LiveCids \ L
    BY <1>0, <1>2 DEF LinkNew, TypeOK, RowsLive, LiveCids
  <2>11. \E x \in K : CidOf(x) = w
    OBVIOUS
  <2>12. \A x \in K : owner[x] \in L \cup {w, NoCid}
    BY <2>3
  <2>13. L \in SUBSET LiveCids /\ w \notin L /\ K \in SUBSET StrongKeys
    OBVIOUS
  <2> HIDE DEF w, L, K
  <2> QED BY <1>1, <2>2, <2>7, <2>8, <2>9, <2>10, <2>11, <2>12, <2>13, AbsorbInv
<1>3. CASE LinkAttach(j, k, force)
  <2>1. PICK a \in StrongKeys :
          /\ Sharpens(a, Members(owner[k])', anchor[owner[k]])
          /\ anchor' = [anchor EXCEPT ![owner[k]] = a]
    BY <1>3 DEF LinkAttach
  <2>w. PICK w \in Cids : w = owner[k] /\ w \in LiveCids
    BY <1>0, <1>3 DEF LinkAttach, Known, TypeOK, RowsLive, LiveCids
  <2> DEFINE L == {}
             K == {j}
  <2>2. w \in Cids /\ w \in LiveCids
    BY <2>w
  <2>3. owner[j] = NoCid
    BY <1>3 DEF LinkAttach, Known
  <2>4. Sharpens(a, Members(w)', anchor[w])
    <3>1. owner'[k] = w
      BY <1>0, <1>3, <2>3, <2>w DEF LinkAttach, TypeOK
    <3>2. Members(owner[k])' = Members(w)'
      BY <3>1 DEF Members
    <3> QED BY <2>1, <2>w, <3>2
  <2>5. anchor' = MergedAnchors(w, L, a)
    BY <1>0, <2>1, <2>w DEF MergedAnchors, TypeOK
  <2>6. owner' = [x \in StrongKeys |-> IF x \in K THEN w ELSE Repointed(owner, L, w)[x]]
    BY <1>0, <1>3, <2>w DEF LinkAttach, Repointed, TypeOK
  <2>7. \A row \in phoneEdge' \cup nameIndex' : row[2] = w \/ row[2] \in LiveCids \ L
    BY <1>0, <1>3 DEF LinkAttach, TypeOK, RowsLive, LiveCids
  <2>8. \A x \in K : owner[x] \in L \cup {w, NoCid}
    BY <2>3
  <2>9. L \in SUBSET LiveCids /\ w \notin L /\ K \in SUBSET StrongKeys
    OBVIOUS
  <2> HIDE DEF L, K
  <2> QED BY <1>1, <2>2, <2>4, <2>5, <2>6, <2>7, <2>8, <2>9, AbsorbInv
<1>4. CASE {j, k} \subseteq Known /\ Merge({owner[j], owner[k]}, force)
  <2>1. {owner[j], owner[k]} \in SUBSET LiveCids
    BY <1>0, <1>4 DEF Known, TypeOK, RowsLive, LiveCids
  <2> QED BY <1>4, <2>1, MergeInv
<1> QED BY <1>2, <1>3, <1>4 DEF Link

\* A split keeps it: the new entity has a fresh id and both sides keep a key.
LEMMA SplitInv ==
  ASSUME EntityInv, NEW D \in SUBSET StrongKeys, Split(D)
  PROVE  EntityInv'
<1>0. /\ TypeOK /\ RowsLive /\ LiveCids \subseteq Cids
      /\ NoCid \notin Cids /\ NoKey \notin StrongKeys
  BY KeysAssumption DEF EntityInv, LiveCids
<1>1. TypeOK'
  BY <1>0, SplitType
<1>2. PICK src \in LiveCids :
        /\ D \subseteq Members(src)
        /\ \E a \in D, b \in Members(src) \ D :
             /\ IsEntityAnchor(a, D)
             /\ IsEntityAnchor(b, Members(src) \ D)
             /\ \E n \in FreeSuffixes(Hash[a]) : ApplySplit(D, src, b, <<Hash[a], n>>, a)
  BY DEF Split
<1>3. PICK a \in D, b \in Members(src) \ D :
        /\ IsEntityAnchor(a, D)
        /\ IsEntityAnchor(b, Members(src) \ D)
        /\ \E n \in FreeSuffixes(Hash[a]) : ApplySplit(D, src, b, <<Hash[a], n>>, a)
  BY <1>2
<1>4. PICK n \in FreeSuffixes(Hash[a]) : ApplySplit(D, src, b, <<Hash[a], n>>, a)
  BY <1>3
<1>5. PICK new : new = <<Hash[a], n>>
  OBVIOUS
<1>6. new \in Cids /\ new \notin LiveCids /\ src # new
  <2>1. n \in 0 .. MaxProbes /\ (<<Hash[a], n>> \in LiveCids <=> n < n)
    BY <1>4, KeysAssumption DEF FreeSuffixes
  <2> QED BY <1>5, <2>1 DEF Cids
<1>7. \A k \in StrongKeys : owner'[k] = IF k \in D THEN new ELSE owner[k]
  BY <1>4, <1>5 DEF ApplySplit
<1>8. /\ b \in StrongKeys /\ a \in StrongKeys
      /\ \A c \in Cids : anchor'[c] = IF c = new THEN a ELSE IF c = src THEN b ELSE anchor[c]
  BY <1>0, <1>4, <1>5, <1>6 DEF ApplySplit, Reanchored, TypeOK, Members
<1>9. \A c \in Cids : anchor'[c] # NoKey <=> c = new \/ anchor[c] # NoKey
  BY <1>0, <1>8 DEF LiveCids, Live
<1>10. RowsLive'
  <2>1. \A k \in StrongKeys : owner'[k] # NoCid => anchor'[owner'[k]] # NoKey
    BY <1>0, <1>6, <1>7, <1>9 DEF RowsLive, TypeOK, Live
  <2>2. \A row \in phoneEdge' : anchor'[row[2]] # NoKey
    BY <1>0, <1>4, <1>9 DEF ApplySplit, RowsLive, TypeOK, Live
  <2>3. \A row \in nameIndex' : anchor'[row[2]] # NoKey
    BY <1>0, <1>4, <1>9 DEF ApplySplit, RowsWithout, RowsLive, TypeOK, Live
  <2> QED BY <2>1, <2>2, <2>3 DEF RowsLive, Live
<1>11. AnchorIsCurrent'
  <2> SUFFICES ASSUME NEW c \in Cids, anchor'[c] # NoKey
               PROVE  IsEntityAnchor(anchor'[c], Members(c)')
    BY DEF AnchorIsCurrent, LiveCids, Live
  <2>1. CASE c = new
    <3>1. Members(new) = {}
      BY <1>6, DeadOwnsNothing
    <3>2. \A k \in StrongKeys : owner'[k] = new <=> k \in D
      BY <1>7, <3>1 DEF Members
    <3>3. Members(c)' = D
      BY <2>1, <3>2 DEF Members
    <3> QED BY <1>3, <1>8, <2>1, <3>3
  <2>2. CASE c = src
    <3>1. \A k \in StrongKeys : owner'[k] = src <=> k \in Members(src) \ D
      BY <1>6, <1>7 DEF Members
    <3>2. Members(c)' = Members(src) \ D
      BY <2>2, <3>1 DEF Members
    <3> QED BY <1>3, <1>6, <1>8, <2>2, <3>2
  <2>3. CASE c # new /\ c # src
    <3>1. \A k \in StrongKeys : owner'[k] = c <=> owner[k] = c
      BY <1>2, <1>7, <2>3 DEF Members
    <3>2. Members(c)' = Members(c)
      BY <3>1 DEF Members
    <3>3. c \in LiveCids /\ anchor'[c] = anchor[c]
      BY <1>8, <2>3 DEF LiveCids, Live
    <3> QED BY <3>2, <3>3 DEF EntityInv, AnchorIsCurrent
  <2> QED BY <2>1, <2>2, <2>3
<1>12. MintedKeyIsKnown'
  <2> SUFFICES ASSUME NEW k \in StrongKeys, anchor'[CidOf(k)] # NoKey
               PROVE  \E j \in StrongKeys : owner'[j] # NoCid /\ Hash[j] = Hash[k]
    BY DEF MintedKeyIsKnown, Known, Live
  <2>1. CidOf(k) \in Cids
    BY CidOfType
  <2>2. CASE CidOf(k) = new
    <3>1. Hash[a] = Hash[k]
      BY <1>5, <2>2 DEF CidOf
    <3>2. owner'[a] # NoCid
      BY <1>0, <1>6, <1>7, <1>8
    <3> QED BY <1>8, <3>1, <3>2
  <2>3. CASE CidOf(k) # new
    <3>1. anchor[CidOf(k)] # NoKey
      BY <1>9, <2>1, <2>3
    <3>2. PICK j \in StrongKeys : owner[j] # NoCid /\ Hash[j] = Hash[k]
      BY <3>1 DEF EntityInv, MintedKeyIsKnown, Known, Live
    <3>3. owner'[j] # NoCid
      BY <1>0, <1>6, <1>7, <3>2
    <3> QED BY <3>2, <3>3
  <2> QED BY <2>2, <2>3
<1> QED BY <1>1, <1>10, <1>11, <1>12 DEF EntityInv

\* A name's step does not touch it.
LEMMA NameInv ==
  ASSUME EntityInv, NameStep
  PROVE  EntityInv'
<1>1. TypeOK'
  BY DEF EntityInv, TypeOK, NameStep, IndexName, RememberAmbiguous
<1>2. RowsLive'
  BY DEF EntityInv, TypeOK, RowsLive, NameStep, IndexName, RememberAmbiguous, Live
<1>3. AnchorIsCurrent'
  BY DEF EntityInv, AnchorIsCurrent, NameStep, IndexName, RememberAmbiguous, LiveCids, Live, Members
<1>4. MintedKeyIsKnown'
  BY DEF EntityInv, MintedKeyIsKnown, NameStep, IndexName, RememberAmbiguous, Known, Live
<1> QED BY <1>1, <1>2, <1>3, <1>4 DEF EntityInv

-----------------------------------------------------------------------------
(***************************************************************************)
(* The two shapes of a step.                                               *)
(***************************************************************************)

\* A step that puts entities together: L goes away and w, there before or minted for a
\* new key, takes their keys and rows.  No other key that has an owner changes it.
Absorbs(w, L) ==
  /\ w \in Cids /\ w \notin L /\ L \subseteq LiveCids
  /\ w \in LiveCids \/ \E k \in Known' \ Known : w = CidOf(k)
  /\ \A k \in Known : owner'[k] = IF owner[k] \in L THEN w ELSE owner[k]
  /\ \A c \in Cids : Live(c)' <=> c = w \/ (Live(c) /\ c \notin L)
  /\ RepointedRows(phoneEdge, L, w) \subseteq phoneEdge'
  /\ nameIndex' = RepointedRows(nameIndex, L, w)
  /\ unique' = Repointed(unique, L, w)

\* Writing the entity rows of a merge leaves w and what was not merged.
LEMMA MergedAnchorsLive ==
  ASSUME EntityInv, NEW w \in Cids, NEW L, w \notin L, NEW a \in StrongKeys,
         anchor' = MergedAnchors(w, L, a)
  PROVE  \A c \in Cids : Live(c)' <=> c = w \/ (Live(c) /\ c \notin L)
BY KeysAssumption DEF MergedAnchors, Live

\* Every commit absorbs: a domain that has an owner is never claimed.
LEMMA CommitAbsorbs ==
  ASSUME EntityInv, NEW r \in AnyRecord, NEW strict, Commit(r, strict)
  PROVE  \E w, L : Absorbs(w, L)
<1>1. PICK w \in Cids, L \in SUBSET LiveCids :
        /\ w \notin L
        /\ \A k \in r.ids \cap Identity : owner[k] \in L \cup {w, NoCid}
        /\ w \in LiveCids \/ \E k \in r.ids : CidOf(k) = w /\ owner[k] = NoCid
        /\ CommitTo(r, w, L)
  BY CommitShape
<1> DEFINE merged == Repointed(owner, L, w)
<1>2. \A k \in StrongKeys : merged[k] = IF owner[k] \in L THEN w ELSE owner[k]
  BY DEF EntityInv, TypeOK, Repointed
<1>3. \A k \in StrongKeys : owner'[k] = IF k \in Claims(r, merged) THEN w ELSE merged[k]
  BY <1>1 DEF CommitTo
<1>4. NoCid \notin Cids
  BY KeysAssumption
<1>5. \A k \in Known : owner'[k] = IF owner[k] \in L THEN w ELSE owner[k]
  <2> SUFFICES ASSUME NEW k \in Known
               PROVE  owner'[k] = IF owner[k] \in L THEN w ELSE owner[k]
    OBVIOUS
  <2>1. k \in StrongKeys /\ owner[k] # NoCid
    BY DEF Known
  <2>2. CASE k \in Claims(r, merged)
    <3>1. k \in r.ids /\ (k \in Identity \/ merged[k] = NoCid)
      BY <2>2 DEF Claims
    <3>2. merged[k] # NoCid
      BY <1>1, <1>2, <1>4, <2>1
    <3>3. owner[k] \in L \cup {w}
      BY <1>1, <2>1, <3>1, <3>2
    <3> QED BY <1>3, <2>1, <2>2, <3>3
  <2>3. CASE k \notin Claims(r, merged)
    BY <1>2, <1>3, <2>1, <2>3
  <2> QED BY <2>2, <2>3
<1>6. \A c \in Cids : Live(c)' <=> c = w \/ (Live(c) /\ c \notin L)
  BY <1>1, MergedAnchorsLive DEF CommitTo
<1>7. /\ RepointedRows(phoneEdge, L, w) \subseteq phoneEdge'
      /\ nameIndex' = RepointedRows(nameIndex, L, w)
      /\ unique' = Repointed(unique, L, w)
  BY <1>1 DEF CommitTo
<1>8. w \in LiveCids \/ \E k \in Known' \ Known : w = CidOf(k)
  <2> SUFFICES ASSUME NEW k \in r.ids, CidOf(k) = w, owner[k] = NoCid
               PROVE  k \in Known' \ Known
    BY <1>1
  <2>1. k \in StrongKeys /\ NoCid \notin L
    BY <1>1, <1>4 DEF AnyRecord, LiveCids
  <2>2. k \in Claims(r, merged)
    BY <1>2, <2>1 DEF Claims
  <2>3. owner'[k] = w
    BY <1>3, <2>1, <2>2
  <2> QED BY <1>1, <1>4, <2>1, <2>3 DEF Known
<1> QED BY <1>1, <1>5, <1>6, <1>7, <1>8 DEF Absorbs

\* A merge absorbs.
LEMMA MergeAbsorbs ==
  ASSUME EntityInv, NEW C \in SUBSET LiveCids, NEW force, Merge(C, force)
  PROVE  \E w, L : Absorbs(w, L)
<1>1. PICK w \in C, a \in StrongKeys :
        /\ owner' = Repointed(owner, C \ {w}, w)
        /\ anchor' = MergedAnchors(w, C \ {w}, a)
        /\ phoneEdge' = RepointedRows(phoneEdge, C \ {w}, w)
        /\ nameIndex' = RepointedRows(nameIndex, C \ {w}, w)
        /\ unique' = Repointed(unique, C \ {w}, w)
  BY DEF Merge
<1> DEFINE L == C \ {w}
<1>2. w \in Cids /\ w \notin L /\ L \subseteq LiveCids
  BY DEF LiveCids
<1>3. \A k \in Known : owner'[k] = IF owner[k] \in L THEN w ELSE owner[k]
  BY <1>1 DEF Repointed, EntityInv, TypeOK, Known
<1>4. \A c \in Cids : Live(c)' <=> c = w \/ (Live(c) /\ c \notin L)
  BY <1>1, <1>2, MergedAnchorsLive
<1> HIDE DEF L
<1>5. /\ RepointedRows(phoneEdge, L, w) \subseteq phoneEdge'
      /\ nameIndex' = RepointedRows(nameIndex, L, w)
      /\ unique' = Repointed(unique, L, w)
      /\ w \in LiveCids
  BY <1>1 DEF L
<1> QED BY <1>2, <1>3, <1>4, <1>5 DEF Absorbs

\* Rows re-pointed from no entity are the rows.
LEMMA RepointedFromNone ==
  ASSUME NEW S, NEW rows, rows \subseteq S \X Cids, NEW w
  PROVE  RepointedRows(rows, {}, w) = rows
<1>1. \A row \in rows : <<row[1], IF row[2] \in {} THEN w ELSE row[2]>> = row
  OBVIOUS
<1> QED BY <1>1 DEF RepointedRows

\* A link absorbs.
LEMMA LinkAbsorbs ==
  ASSUME EntityInv, NEW j \in StrongKeys, NEW k \in StrongKeys, NEW force, Link(j, k, force)
  PROVE  \E w, L : Absorbs(w, L)
<1>0. TypeOK /\ RowsLive /\ NoCid \notin Cids /\ NoKey \notin StrongKeys
  BY KeysAssumption DEF EntityInv
<1>a. \A w : /\ RepointedRows(phoneEdge, {}, w) = phoneEdge
             /\ RepointedRows(nameIndex, {}, w) = nameIndex
             /\ Repointed(unique, {}, w) = unique
  BY <1>0, RepointedFromNone DEF TypeOK, Repointed
<1>1. CASE LinkNew(j, k, force)
  <2>1. PICK a \in {j, k} :
          /\ owner' = [owner EXCEPT ![j] = CidOf(a), ![k] = CidOf(a)]
          /\ anchor' = [anchor EXCEPT ![CidOf(a)] = IF Live(CidOf(a)) THEN @ ELSE a]
    BY <1>1 DEF LinkNew
  <2>2. PICK w \in Cids : w = CidOf(a)
    BY CidOfType
  <2>3. \A i \in Known : owner'[i] = owner[i]
    BY <1>0, <1>1, <2>1 DEF LinkNew, Known, TypeOK
  <2>4. \A c \in Cids : Live(c)' <=> c = w \/ Live(c)
    BY <1>0, <2>1, <2>2 DEF Live, TypeOK
  <2>5. phoneEdge' = phoneEdge /\ nameIndex' = nameIndex /\ unique' = unique
    BY <1>1 DEF LinkNew
  <2>6. a \in Known' \ Known
    BY <1>0, <1>1, <2>1, <2>2 DEF LinkNew, Known, TypeOK
  <2>7. Absorbs(w, {})
    BY <1>a, <2>2, <2>3, <2>4, <2>5, <2>6 DEF Absorbs
  <2> QED BY <2>7
<1>2. CASE LinkAttach(j, k, force)
  <2>1. PICK a \in StrongKeys : anchor' = [anchor EXCEPT ![owner[k]] = a]
    BY <1>2 DEF LinkAttach
  <2>2. PICK w \in Cids : w = owner[k] /\ Live(w)
    BY <1>0, <1>2 DEF LinkAttach, Known, TypeOK, RowsLive
  <2>3. \A i \in Known : owner'[i] = owner[i]
    BY <1>0, <1>2 DEF LinkAttach, Known, TypeOK
  <2>4. \A c \in Cids : Live(c)' <=> c = w \/ Live(c)
    BY <1>0, <2>1, <2>2 DEF Live, TypeOK
  <2>5. phoneEdge' = phoneEdge /\ nameIndex' = nameIndex /\ unique' = unique
    BY <1>2 DEF LinkAttach
  <2>6. w \in LiveCids
    BY <2>2 DEF LiveCids
  <2>7. Absorbs(w, {})
    BY <1>a, <2>3, <2>4, <2>5, <2>6 DEF Absorbs
  <2> QED BY <2>7
<1>3. CASE {j, k} \subseteq Known /\ Merge({owner[j], owner[k]}, force)
  <2>1. {owner[j], owner[k]} \in SUBSET LiveCids
    BY <1>0, <1>3 DEF Known, TypeOK, RowsLive, LiveCids
  <2> QED BY <1>3, <2>1, MergeAbsorbs
<1> QED BY <1>1, <1>2, <1>3 DEF Link

\* A split: the keys D of src go to the fresh entity new, and every other entity and
\* every phone edge stays as it is.
SplitsOff(D, src, new) ==
  /\ src \in LiveCids /\ new \in Cids /\ new \notin LiveCids
  /\ D \subseteq Members(src) /\ D # {} /\ Members(src) \ D # {}
  /\ \A k \in StrongKeys : owner'[k] = IF k \in D THEN new ELSE owner[k]
  /\ \A c \in Cids : Live(c)' <=> c = new \/ Live(c)
  /\ phoneEdge' = phoneEdge
  /\ nameIndex' = RowsWithout(nameIndex, src)
  /\ \A x \in Names : unique'[x] = IF unique[x] = src THEN NoCid ELSE unique[x]

\* A split splits off.
LEMMA SplitShape ==
  ASSUME EntityInv, NEW D \in SUBSET StrongKeys, Split(D)
  PROVE  \E src, new : SplitsOff(D, src, new)
<1>0. TypeOK /\ NoCid \notin Cids /\ NoKey \notin StrongKeys
  BY KeysAssumption DEF EntityInv
<1>1. PICK src \in LiveCids :
        /\ D \subseteq Members(src)
        /\ \E a \in D, b \in Members(src) \ D :
             \E n \in FreeSuffixes(Hash[a]) : ApplySplit(D, src, b, <<Hash[a], n>>, a)
  BY DEF Split
<1>2. PICK a \in D, b \in Members(src) \ D :
        \E n \in FreeSuffixes(Hash[a]) : ApplySplit(D, src, b, <<Hash[a], n>>, a)
  BY <1>1
<1>3. PICK n \in FreeSuffixes(Hash[a]) : ApplySplit(D, src, b, <<Hash[a], n>>, a)
  BY <1>2
<1>4. PICK new : new = <<Hash[a], n>>
  OBVIOUS
<1>5. new \in Cids /\ new \notin LiveCids
  <2>1. n \in 0 .. MaxProbes /\ (<<Hash[a], n>> \in LiveCids <=> n < n)
    BY <1>3, KeysAssumption DEF FreeSuffixes
  <2> QED BY <1>4, <2>1 DEF Cids
<1>6. \A k \in StrongKeys : owner'[k] = IF k \in D THEN new ELSE owner[k]
  BY <1>3, <1>4 DEF ApplySplit
<1>7. /\ a \in StrongKeys /\ b \in StrongKeys
      /\ anchor' = [anchor EXCEPT ![src] = b, ![new] = a]
  BY <1>3, <1>4 DEF ApplySplit, Reanchored, Members
<1>8. \A c \in Cids : Live(c)' <=> c = new \/ Live(c)
  BY <1>0, <1>5, <1>7 DEF Live, LiveCids, TypeOK
<1>9. \A x \in Names : unique'[x] = IF unique[x] = src THEN NoCid ELSE unique[x]
  BY <1>0, <1>3 DEF ApplySplit, LiveCids
<1> QED BY <1>1, <1>2, <1>3, <1>5, <1>6, <1>8, <1>9 DEF ApplySplit, SplitsOff

\* A name step leaves entities, keys and phone edges alone and drops no name row.
LEMMA NameShape ==
  ASSUME NameStep
  PROVE  UNCHANGED <<owner, anchor, phoneEdge>> /\ nameIndex \subseteq nameIndex'
BY DEF NameStep, IndexName, RememberAmbiguous

\* A step of the crosswalk absorbs, splits off, or leaves the entities alone.
LEMMA StepShape ==
  ASSUME EntityInv, Next
  PROVE  \/ \E w, L : Absorbs(w, L)
         \/ \E D, src, new : SplitsOff(D, src, new)
         \/ NameStep
<1>1. CASE CommitStep
  BY <1>1, CommitAbsorbs, RecordsAssumption DEF CommitStep, AnyRecord
<1>2. CASE NameStep
  BY <1>2
<1>3. CASE MergeStep
  BY <1>3, MergeAbsorbs DEF MergeStep
<1>4. CASE LinkStep
  BY <1>4, LinkAbsorbs DEF LinkStep
<1>5. CASE SplitStep
  BY <1>5, SplitShape DEF SplitStep
<1> QED BY <1>1, <1>2, <1>3, <1>4, <1>5 DEF Next

\* A live entity owns a key: it has an heir.
LEMMA LiveOwnsSome ==
  ASSUME EntityInv, NEW c \in LiveCids
  PROVE  \E k \in Known : k \in Members(c)
BY AnchorOwned, KeysAssumption DEF Members, Known, LiveCids

-----------------------------------------------------------------------------
(***************************************************************************)
(* The invariant.                                                          *)
(***************************************************************************)

\* Every step keeps what the entities need of each other.
LEMMA EntityStep ==
  ASSUME HashInjective, EntityInv, Next
  PROVE  EntityInv'
<1>1. CASE CommitStep
  BY <1>1, CommitInv, RecordsAssumption DEF CommitStep, AnyRecord
<1>2. CASE NameStep
  BY <1>2, NameInv
<1>3. CASE MergeStep
  BY <1>3, MergeInv DEF MergeStep
<1>4. CASE LinkStep
  BY <1>4, LinkInv DEF LinkStep
<1>5. CASE SplitStep
  BY <1>5, SplitInv DEF SplitStep
<1> QED BY <1>1, <1>2, <1>3, <1>4, <1>5 DEF Next

\* A remembered unique name follows its entity or is forgotten.
LEMMA UniqueStep ==
  ASSUME EntityInv, UniqueLive, Next
  PROVE  UniqueLive'
<1>0. TypeOK /\ NoCid \notin Cids
  BY KeysAssumption DEF EntityInv
<1>1. ASSUME NEW w, NEW L, Absorbs(w, L) PROVE UniqueLive'
  <2>1. \A n \in Names : unique'[n] = IF unique[n] \in L THEN w ELSE unique[n]
    BY <1>0, <1>1 DEF Absorbs, Repointed, TypeOK
  <2> QED BY <1>0, <1>1, <2>1 DEF Absorbs, UniqueLive, TypeOK
<1>2. ASSUME NEW D, NEW src, NEW new, SplitsOff(D, src, new) PROVE UniqueLive'
  BY <1>0, <1>2 DEF SplitsOff, UniqueLive, TypeOK
<1>3. CASE NameStep
  BY <1>0, <1>3 DEF NameStep, IndexName, RememberAmbiguous, UniqueLive, TypeOK, Live
<1> QED BY <1>1, <1>2, <1>3, StepShape

\* When no two keys share a hash, then after any commits, names and corrections,
\* forced or not, no row names an entity that is gone, every stored anchor is the
\* anchor of the current members, and minting never lands on a row in use.
THEOREM GraphCorrect == HashInjective => (Spec => []GraphInv)
<1> SUFFICES ASSUME HashInjective PROVE Spec => []GraphInv
  OBVIOUS
<1>1. Init => GraphInv
  BY KeysAssumption DEF Init, GraphInv, TypeOK, NoDanglingRow, AnchorIsCurrent,
     MintedKeyIsKnown, Live, LiveCids, CidOf, Cids
<1>2. GraphInv /\ [Next]_vars => GraphInv'
  <2> SUFFICES ASSUME EntityInv, UniqueLive, [Next]_vars PROVE EntityInv' /\ UniqueLive'
    BY GraphParts DEF GraphInv, NoDanglingRow, EntityInv, RowsLive, UniqueLive
  <2>1. CASE Next
    BY <2>1, EntityStep, UniqueStep
  <2>2. CASE UNCHANGED vars
    BY <2>2 DEF vars, EntityInv, TypeOK, RowsLive, UniqueLive, AnchorIsCurrent,
       MintedKeyIsKnown, Live, LiveCids, Known, Members
  <2> QED BY <2>1, <2>2
<1> QED BY <1>1, <1>2, PTL DEF Spec

\* Nothing ever names an entity that merges or splits have removed.
THEOREM RowsAreLive == HashInjective => (Spec => []NoDanglingRow)
<1>1. GraphInv => NoDanglingRow
  BY DEF GraphInv
<1> QED BY <1>1, GraphCorrect, PTL

\* The anchor of every entity is the anchor of its current members.
THEOREM AnchorsAreCurrent == HashInjective => (Spec => []AnchorIsCurrent)
<1>1. GraphInv => AnchorIsCurrent
  BY DEF GraphInv
<1> QED BY <1>1, GraphCorrect, PTL

\* An unsuffixed canonical id is never in use without its key.
THEOREM MintedKeysAreKnown == HashInjective => (Spec => []MintedKeyIsKnown)
<1>1. GraphInv => MintedKeyIsKnown
  BY DEF GraphInv
<1> QED BY <1>1, GraphCorrect, PTL

-----------------------------------------------------------------------------
(***************************************************************************)
(* The action properties.                                                  *)
(***************************************************************************)

\* No commit, link, merge or split takes a key from an entity that stays and gives it
\* to another that was there: a shared domain is never stolen.
THEOREM KeysAreNotStolen == HashInjective => (Spec => NoKeyStolen)
<1> DEFINE Kept == \A k \in Known : \/ owner'[k] = owner[k]
                                    \/ anchor'[owner[k]] = NoKey
                                    \/ anchor[owner'[k]] = NoKey
<1>1. GraphInv /\ [Next]_vars => [Kept]_vars
  <2> SUFFICES ASSUME EntityInv, Next PROVE Kept
    BY GraphParts
  <2>0. \A k \in Known : k \in StrongKeys /\ owner[k] \in LiveCids
    BY HitsLive DEF Known, Hits
  <2>1. ASSUME NEW w, NEW L, Absorbs(w, L) PROVE Kept
    BY <2>0, <2>1 DEF Absorbs, Live, LiveCids
  <2>2. ASSUME NEW D, NEW src, NEW new, SplitsOff(D, src, new) PROVE Kept
    BY <2>0, <2>2 DEF SplitsOff, Live, LiveCids
  <2>3. CASE NameStep
    BY <2>3, NameShape
  <2> QED BY <2>1, <2>2, <2>3, StepShape
<1> QED BY <1>1, GraphCorrect, PTL DEF Spec, NoKeyStolen

\* Whatever step takes an entity away, its phone edges and its name rows are its heir's
\* afterwards.
THEOREM RowsAreInherited == HashInjective => (Spec => RowsFollowMerges)
<1> DEFINE Kept ==
      /\ \A row \in phoneEdge : \E h \in Heirs(row[2]) : <<row[1], h>> \in phoneEdge'
      /\ \A row \in nameIndex :
           ~ Live(row[2])' => \E h \in Heirs(row[2]) : <<row[1], h>> \in nameIndex'
<1>1. GraphInv /\ [Next]_vars => [Kept]_vars
  <2> SUFFICES ASSUME EntityInv, Next PROVE Kept
    BY GraphParts
  <2>0. \A row \in phoneEdge \cup nameIndex :
          row = <<row[1], row[2]>> /\ row[2] \in LiveCids
    BY DEF EntityInv, TypeOK, RowsLive, LiveCids
  <2>1. ASSUME NEW w, NEW L, Absorbs(w, L) PROVE Kept
    <3>1. ASSUME NEW c \in LiveCids PROVE (IF c \in L THEN w ELSE c) \in Heirs(c)
      <4>1. CASE c \in L
        <5>1. PICK k \in Known : k \in Members(c)
          BY LiveOwnsSome
        <5>2. owner'[k] = w /\ ~ Live(c)'
          BY <2>1, <4>1, <5>1 DEF Absorbs, Members, LiveCids
        <5> QED BY <4>1, <5>1, <5>2 DEF Heirs
      <4>2. CASE c \notin L
        BY <2>1, <4>2 DEF Absorbs, Heirs, LiveCids
      <4> QED BY <4>1, <4>2
    <3>2. \A row \in phoneEdge : <<row[1], IF row[2] \in L THEN w ELSE row[2]>> \in phoneEdge'
      BY <2>1 DEF Absorbs, RepointedRows
    <3>3. \A row \in nameIndex : <<row[1], IF row[2] \in L THEN w ELSE row[2]>> \in nameIndex'
      BY <2>1 DEF Absorbs, RepointedRows
    <3> QED BY <2>0, <3>1, <3>2, <3>3
  <2>2. ASSUME NEW D, NEW src, NEW new, SplitsOff(D, src, new) PROVE Kept
    <3>1. \A c \in LiveCids : Live(c)' /\ c \in Heirs(c)
      BY <2>2 DEF SplitsOff, Heirs, LiveCids
    <3> QED BY <2>0, <2>2, <3>1 DEF SplitsOff
  <2>3. CASE NameStep
    <3>1. \A c \in LiveCids : Live(c)' /\ c \in Heirs(c)
      BY <2>3, NameShape DEF Heirs, LiveCids, Live
    <3> QED BY <2>0, <2>3, <3>1, NameShape
  <2> QED BY <2>1, <2>2, <2>3, StepShape
<1> QED BY <1>1, GraphCorrect, PTL DEF Spec, RowsFollowMerges

\* An entity that loses a key while it lives has been split, and keeps no row of either
\* name table.
THEOREM SplitsForgetNames == HashInjective => (Spec => SplitForgetsNames)
<1> DEFINE Forgotten ==
      \A c \in LiveCids :
        Live(c)' /\ ~ (Members(c) \subseteq Members(c)')
          => /\ \A row \in nameIndex' : row[2] # c
             /\ \A n \in Names : unique'[n] # c
<1>1. GraphInv /\ [Next]_vars => [Forgotten]_vars
  <2> SUFFICES ASSUME EntityInv, Next PROVE Forgotten
    BY GraphParts
  <2>0. \A c \in LiveCids : Members(c) \subseteq Known
    BY KeysAssumption DEF Members, Known, LiveCids
  <2>1. ASSUME NEW w, NEW L, Absorbs(w, L) PROVE Forgotten
    <3>1. \A c \in LiveCids : Live(c)' => Members(c) \subseteq Members(c)'
      BY <2>0, <2>1 DEF Absorbs, Members, LiveCids
    <3> QED BY <3>1
  <2>2. ASSUME NEW D, NEW src, NEW new, SplitsOff(D, src, new) PROVE Forgotten
    <3>1. \A c \in LiveCids : c # src => Members(c) \subseteq Members(c)'
      BY <2>2 DEF SplitsOff, Members
    <3>2. \A row \in nameIndex' : row[2] # src
      BY <2>2 DEF SplitsOff, RowsWithout
    <3>3. src # NoCid
      BY <2>2, KeysAssumption DEF SplitsOff, LiveCids
    <3> QED BY <2>2, <3>1, <3>2, <3>3 DEF SplitsOff
  <2>3. CASE NameStep
    BY <2>3, NameShape DEF Members
  <2> QED BY <2>1, <2>2, <2>3, StepShape
<1> QED BY <1>1, GraphCorrect, PTL DEF Spec, SplitForgetsNames
-----------------------------------------------------------------------------
(***************************************************************************)
(* One identity key of a kind on an entity.                                *)
(***************************************************************************)
SingleRecords == \A r \in Records : \A j, k \in r.ids \cap Identity : j = k

\* OneKeyPerKind, by the keys.
PureOwners ==
  \A j, k \in Identity \cap Known : owner[j] = owner[k] /\ j # k => Kind[j] # Kind[k]

\* Which is the property, said of the owners.
LEMMA PureIsOneKey ==
  ASSUME EntityInv
  PROVE  PureOwners <=> OneKeyPerKind
<1>1. \A k \in Known : k \in StrongKeys /\ owner[k] \in LiveCids
  BY HitsLive DEF EntityInv, Known, Hits
<1>2. \A c \in LiveCids : Members(c) \subseteq Known
  BY KeysAssumption DEF Members, Known, LiveCids
<1> QED BY <1>1, <1>2 DEF PureOwners, OneKeyPerKind, SameKindConflict, Members

\* A commit to w that absorbs L keeps entities pure, if the identity keys of L and w were
\* on one entity, and the record's is there too, or is new while there are none.
LEMMA CommitToPure ==
  ASSUME EntityInv, PureOwners, NEW r \in AnyRecord, NEW w \in Cids, NEW L \in SUBSET LiveCids,
         \A j, k \in r.ids \cap Identity : j = k,
         \A j, k \in Identity \cap Known :
           owner[j] \in L \cup {w} /\ owner[k] \in L \cup {w} => owner[j] = owner[k],
         \A k \in r.ids \cap Identity :
           \/ owner[k] \in L \cup {w}
           \/ k \notin Known /\ \A j \in Identity \cap Known : owner[j] \notin L \cup {w},
         CommitTo(r, w, L)
  PROVE  PureOwners'
<1>1. /\ owner \in [StrongKeys -> Cids \cup {NoCid}]
      /\ r.ids \subseteq StrongKeys /\ NoCid \notin Cids /\ LiveCids \subseteq Cids
  BY KeysAssumption DEF EntityInv, TypeOK, AnyRecord, LiveCids
<1> DEFINE merged == Repointed(owner, L, w)
<1>2. \A k \in StrongKeys : merged[k] = IF owner[k] \in L THEN w ELSE owner[k]
  BY <1>1 DEF Repointed
<1>3. \A k \in StrongKeys : owner'[k] = IF k \in Claims(r, merged) THEN w ELSE merged[k]
  BY DEF CommitTo
<1>4. \A k \in Identity : k \in Claims(r, merged) <=> k \in r.ids
  BY DEF Claims
<1>5. \A k \in Identity :
        owner'[k] = IF k \in r.ids \/ owner[k] \in L \cup {w} THEN w ELSE owner[k]
  BY <1>2, <1>3, <1>4 DEF StrongKeys
<1>6. ASSUME NEW j \in Identity, NEW k \in Identity, j \in Known', k \in Known',
             owner'[j] = owner'[k], j # k
      PROVE  Kind[j] # Kind[k]
  <2>1. j \in Known \/ j \in r.ids
    BY <1>1, <1>5, <1>6 DEF Known, StrongKeys
  <2>2. k \in Known \/ k \in r.ids
    BY <1>1, <1>5, <1>6 DEF Known, StrongKeys
  <2>3. j \in Known /\ k \in Known /\ owner[j] = owner[k]
    BY <1>1, <1>5, <1>6, <2>1, <2>2 DEF Known, StrongKeys
  <2> QED BY <1>6, <2>3 DEF PureOwners
<1> QED BY <1>6 DEF PureOwners

\* An entity's keys are not another's.
LEMMA MembersApart ==
  ASSUME NEW c, NEW e, ~ IdentityConflict(Members(c), Members(e)), c # e,
         IdMembers(c) # {}
  PROVE  IdMembers(e) = {}
BY DEF IdentityConflict, IdMembers, Members

\* A commit keeps it: what it puts together has no conflict, or it takes nothing together.
LEMMA CommitPure ==
  ASSUME HashInjective, EntityInv, PureOwners, NEW r \in AnyRecord, NEW strict,
         \A j, k \in r.ids \cap Identity : j = k, Commit(r, strict)
  PROVE  PureOwners'
<1>0. /\ TypeOK /\ RowsLive /\ LiveCids \subseteq Cids
      /\ r.ids \subseteq StrongKeys /\ NoCid \notin Cids
  BY KeysAssumption DEF EntityInv, LiveCids, AnyRecord
<1>1. IdHits(r) \subseteq LiveCids /\ AfHits(r) \subseteq LiveCids
  BY HitsLive DEF IdHits, AfHits
<1>2. \A c : \A k \in Identity \cap Known : owner[k] = c => k \in IdMembers(c)
  BY DEF IdMembers, Members, Known
<1>3. CASE CommitByIdentity(r)
  <2>1. PICK w \in IdHits(r) : CommitTo(r, w, AbsorbedByIdentity(r) \ {w})
    BY <1>3 DEF CommitByIdentity
  <2> DEFINE L == AbsorbedByIdentity(r) \ {w}
  <2>2. PICK i \in r.ids \cap Identity : i \in Known /\ owner[i] = w
    BY <2>1 DEF IdHits, Hits
  <2>3. r.ids \cap Identity = {i} /\ IdHits(r) = {w} /\ i \in IdMembers(w)
    BY <1>2, <2>2 DEF IdHits, Hits
  <2>4. L \in SUBSET LiveCids /\ w \in Cids
    BY <1>0, <1>1 DEF AbsorbedByIdentity
  <2>5. \A c \in L : IdMembers(c) = {}
    <3>1. UNION {Members(c) : c \in IdHits(r)} = Members(w)
      BY <2>3
    <3>2. \A c \in L : ~ IdentityConflict(Members(w), Members(c)) /\ c # w
      BY <2>3, <3>1 DEF AbsorbedByIdentity
    <3> QED BY <2>3, <3>2, MembersApart
  <2>6. \A k \in Identity \cap Known : owner[k] \in L \cup {w} => owner[k] = w
    BY <1>2, <2>5
  <2>7. CommitTo(r, w, L)
    BY <2>1
  <2> HIDE DEF L
  <2> QED BY <2>2, <2>3, <2>4, <2>6, <2>7, CommitToPure
<1>4. CASE CommitByAffiliation(r)
  <2>1. PICK w \in AfHits(r) : \E first \in FirstBearing(w, AfHits(r)) :
          CommitTo(r, w, AbsorbedByAffiliation(r, w, first) \ {w})
    BY <1>4 DEF CommitByAffiliation
  <2>2. PICK first \in FirstBearing(w, AfHits(r)) :
          CommitTo(r, w, AbsorbedByAffiliation(r, w, first) \ {w})
    BY <2>1
  <2> DEFINE L == AbsorbedByAffiliation(r, w, first) \ {w}
  <2>3. L \in SUBSET LiveCids /\ w \in Cids /\ L \cup {w} \subseteq AfHits(r)
    BY <1>0, <1>1 DEF AbsorbedByAffiliation
  <2>4. \A c \in L \cup {w} : c # first => IdMembers(c) = {}
    <3>1. CASE IdMembers(first) # {}
      <4>1. first = w \/ IdMembers(w) = {}
        BY <2>2 DEF FirstBearing
      <4>2. \A c \in L : c # first => ~ IdentityConflict(Members(first), Members(c))
        BY DEF AbsorbedByAffiliation, IdentityConflict, Members
      <4> QED BY <3>1, <4>1, <4>2, MembersApart
    <3>2. CASE IdMembers(first) = {}
      <4>1. \A c \in AfHits(r) : IdMembers(c) = {}
        BY <2>1, <2>2, <3>2 DEF FirstBearing
      <4> QED BY <2>3, <4>1
    <3> QED BY <3>1, <3>2
  <2>5. \A k \in Identity \cap Known : owner[k] \in L \cup {w} => owner[k] = first
    BY <1>2, <2>4
  <2>6. r.ids \cap Identity = {}
    BY <1>4 DEF CommitByAffiliation
  <2>7. CommitTo(r, w, L)
    BY <2>2
  <2> HIDE DEF L
  <2> QED BY <2>3, <2>5, <2>6, <2>7, CommitToPure
<1>5. CASE CommitNew(r)
  <2>1. PICK k \in r.ids : IsEntityAnchor(k, r.ids) /\ CommitTo(r, CidOf(k), {})
    BY <1>5 DEF CommitNew
  <2>2. k \notin Known
    <3>1. CASE r.ids \cap Identity = {}
      BY <1>0, <1>5, <3>1 DEF CommitNew, AfHits, Hits, Known, StrongKeys
    <3>2. CASE r.ids \cap Identity # {}
      <4>1. k \in Identity
        BY <2>1, <3>2 DEF IsEntityAnchor, IsStrongest
      <4> QED BY <1>5, <4>1 DEF CommitNew, IdHits, Hits
    <3> QED BY <3>1, <3>2
  <2>3. CidOf(k) \in Cids /\ k \in StrongKeys
    BY <1>0, CidOfType
  <2>4. ~ Live(CidOf(k))
    BY <2>2, <2>3 DEF EntityInv, MintedKeyIsKnown, HashInjective, Known
  <2>5. \A j \in Known : owner[j] # CidOf(k)
    BY <1>0, <2>4 DEF RowsLive, Known
  <2>6. \A j \in r.ids \cap Identity : j \notin Known
    BY <1>5 DEF CommitNew, IdHits, Hits
  <2> QED BY <2>1, <2>3, <2>5, <2>6, CommitToPure
<1> QED BY <1>3, <1>4, <1>5 DEF Commit

\* A merge that is not forced compares every pair.
LEMMA MergePure ==
  ASSUME EntityInv, PureOwners, NEW C \in SUBSET LiveCids, Merge(C, FALSE)
  PROVE  PureOwners'
<1>1. PICK w \in C : owner' = Repointed(owner, C \ {w}, w)
  BY DEF Merge
<1>2. /\ owner \in [StrongKeys -> Cids \cup {NoCid}] /\ NoCid \notin Cids
      /\ LiveCids \subseteq Cids
  BY KeysAssumption DEF EntityInv, TypeOK, LiveCids
<1>3. \A k \in StrongKeys : owner'[k] = IF owner[k] \in C THEN w ELSE owner[k]
  BY <1>1, <1>2 DEF Repointed
<1>4. \A c, e \in C : c # e => ~ SameKindConflict(Members(c), Members(e))
  BY DEF Merge, MergeGuard
<1>5. Known' = Known
  BY <1>2, <1>3 DEF Known
<1>6. ASSUME NEW j \in Identity \cap Known, NEW k \in Identity \cap Known,
             owner'[j] = owner'[k], j # k
      PROVE  Kind[j] # Kind[k]
  <2>1. j \in StrongKeys /\ k \in StrongKeys
    BY DEF StrongKeys
  <2>2. owner[j] = owner[k] \/ (owner[j] \in C /\ owner[k] \in C)
    BY <1>3, <1>6, <2>1
  <2>3. CASE owner[j] \in C /\ owner[k] \in C /\ owner[j] # owner[k]
    BY <1>4, <1>6, <2>1, <2>3 DEF SameKindConflict, Members
  <2> QED BY <1>6, <2>2, <2>3 DEF PureOwners
<1> QED BY <1>5, <1>6 DEF PureOwners

\* A link that is not forced: of new keys, of a new and a known one, of two entities.
LEMMA LinkPure ==
  ASSUME HashInjective, EntityInv, PureOwners, NEW j \in StrongKeys, NEW k \in StrongKeys,
         Link(j, k, FALSE)
  PROVE  PureOwners'
<1>0. /\ owner \in [StrongKeys -> Cids \cup {NoCid}] /\ NoCid \notin Cids
      /\ RowsLive
  BY KeysAssumption DEF EntityInv, TypeOK
<1>1. CASE LinkNew(j, k, FALSE)
  <2>1. PICK a \in {j, k} : owner' = [owner EXCEPT ![j] = CidOf(a), ![k] = CidOf(a)]
    BY <1>1 DEF LinkNew
  <2>2. a \notin Known /\ j \notin Known /\ k \notin Known /\ CidOf(a) \in Cids
    BY <1>1, CidOfType DEF LinkNew
  <2>3. ~ Live(CidOf(a))
    BY <2>2 DEF EntityInv, MintedKeyIsKnown, HashInjective, Known
  <2>4. \A i \in Known : owner[i] # CidOf(a)
    BY <1>0, <2>3 DEF RowsLive, Known
  <2>5. j # k => ~ (j \in Identity /\ k \in Identity /\ Kind[j] = Kind[k])
    BY <1>1 DEF LinkNew, SameKindConflict
  <2>6. \A i \in StrongKeys : owner'[i] = IF i \in {j, k} THEN CidOf(a) ELSE owner[i]
    BY <1>0, <2>1
  <2>7. Known' = Known \cup {j, k}
    BY <1>0, <2>2, <2>6 DEF Known
  <2>8. ASSUME NEW i \in Identity \cap Known', NEW h \in Identity \cap Known',
               owner'[i] = owner'[h], i # h
        PROVE  Kind[i] # Kind[h]
    <3>1. i \in StrongKeys /\ h \in StrongKeys
      BY DEF StrongKeys
    <3>2. CASE i \in {j, k} /\ h \in {j, k}
      BY <2>5, <2>8, <3>2
    <3>3. CASE ~ (i \in {j, k} /\ h \in {j, k})
      <4>1. i \in Known /\ h \in Known /\ owner[i] = owner[h]
        BY <2>4, <2>6, <2>7, <2>8, <3>1, <3>3
      <4> QED BY <2>8, <4>1 DEF PureOwners
    <3> QED BY <3>2, <3>3
  <2> QED BY <2>8 DEF PureOwners
<1>2. CASE LinkAttach(j, k, FALSE)
  <2>1. /\ j \notin Known /\ k \in Known /\ owner' = [owner EXCEPT ![j] = owner[k]]
        /\ ~ SameKindConflict(Members(owner[k]), {j})
    BY <1>2 DEF LinkAttach
  <2>2. \A i \in StrongKeys : owner'[i] = IF i = j THEN owner[k] ELSE owner[i]
    BY <1>0, <2>1
  <2>3. Known' = Known \cup {j}
    BY <1>0, <2>1, <2>2 DEF Known
  <2>4. \A i \in Identity \cap Known : owner[i] = owner[k] /\ j \in Identity => Kind[i] # Kind[j]
    BY <2>1 DEF SameKindConflict, Members, Known
  <2>5. ASSUME NEW i \in Identity \cap Known', NEW h \in Identity \cap Known',
               owner'[i] = owner'[h], i # h
        PROVE  Kind[i] # Kind[h]
    BY <2>1, <2>2, <2>3, <2>4, <2>5 DEF PureOwners, StrongKeys
  <2> QED BY <2>5 DEF PureOwners
<1>3. CASE {j, k} \subseteq Known /\ Merge({owner[j], owner[k]}, FALSE)
  <2>1. {owner[j], owner[k]} \subseteq LiveCids
    BY <1>3, HitsLive DEF Hits
  <2> QED BY <1>3, <2>1, MergePure
<1> QED BY <1>1, <1>2, <1>3 DEF Link

\* The two sides of a split were one.
LEMMA SplitPure ==
  ASSUME EntityInv, PureOwners, NEW D \in SUBSET StrongKeys, Split(D)
  PROVE  PureOwners'
<1>1. PICK src \in LiveCids, new \in Cids :
        /\ D \subseteq Members(src) /\ new \notin LiveCids
        /\ owner' = [k \in StrongKeys |-> IF k \in D THEN new ELSE owner[k]]
  <2>1. PICK src \in LiveCids :
          /\ D \subseteq Members(src)
          /\ \E a \in D, b \in Members(src) \ D :
               \E n \in FreeSuffixes(Hash[a]) : ApplySplit(D, src, b, <<Hash[a], n>>, a)
    BY DEF Split
  <2>2. PICK a \in D, b \in Members(src) \ D :
          \E n \in FreeSuffixes(Hash[a]) : ApplySplit(D, src, b, <<Hash[a], n>>, a)
    BY <2>1
  <2>3. PICK n \in FreeSuffixes(Hash[a]) : ApplySplit(D, src, b, <<Hash[a], n>>, a)
    BY <2>2
  <2>4. <<Hash[a], n>> \in Cids
    BY <2>3 DEF FreeSuffixes, Cids
  <2>5. <<Hash[a], n>> \notin LiveCids
    <3>1. n \in 0 .. n /\ n \in Nat
      BY <2>3, KeysAssumption DEF FreeSuffixes
    <3>2. <<Hash[a], n>> \in LiveCids <=> n < n
      BY <2>3, <3>1 DEF FreeSuffixes
    <3> QED BY <3>1, <3>2
  <2> QED BY <2>1, <2>3, <2>4, <2>5 DEF ApplySplit
<1>2. \A k \in Known : owner[k] # new
  BY <1>1, DeadOwnsNothing DEF Members, Known
<1>3. src # NoCid /\ new # NoCid
  BY <1>1, KeysAssumption DEF LiveCids
<1>4. Known' = Known
  BY <1>1, <1>3 DEF Known, Members
<1>5. ASSUME NEW j \in Identity \cap Known, NEW k \in Identity \cap Known,
             owner'[j] = owner'[k], j # k
      PROVE  Kind[j] # Kind[k]
  <2>1. owner[j] = owner[k]
    BY <1>1, <1>2, <1>5 DEF Members, StrongKeys
  <2> QED BY <1>5, <2>1 DEF PureOwners
<1> QED BY <1>4, <1>5 DEF PureOwners

\* Where no correction is forced and no record has two identity keys, no sequence of
\* commits, links, merges and splits puts two identity keys of a kind on one entity.
THEOREM KeysStaySingle ==
  HashInjective /\ Forced \subseteq {FALSE} /\ SingleRecords => (Spec => []OneKeyPerKind)
<1> SUFFICES ASSUME HashInjective, Forced \subseteq {FALSE}, SingleRecords
             PROVE  Spec => []OneKeyPerKind
  OBVIOUS
<1>1. Init => PureOwners
  BY DEF Init, PureOwners, Known
<1>2. EntityInv /\ PureOwners /\ [Next]_vars => PureOwners'
  <2> SUFFICES ASSUME EntityInv, PureOwners, [Next]_vars PROVE PureOwners'
    OBVIOUS
  <2>1. CASE CommitStep
    <3>1. PICK r \in Records, strict \in Strict : Commit(r, strict)
      BY <2>1 DEF CommitStep
    <3>2. r \in AnyRecord /\ \A j, k \in r.ids \cap Identity : j = k
      BY <3>1, RecordsAssumption DEF AnyRecord, SingleRecords
    <3> QED BY <3>1, <3>2, CommitPure
  <2>2. CASE NameStep \/ UNCHANGED vars
    BY <2>2 DEF NameStep, IndexName, RememberAmbiguous, vars, PureOwners, Known
  <2>3. CASE MergeStep
    BY <2>3, MergePure DEF MergeStep
  <2>4. CASE LinkStep
    BY <2>4, LinkPure DEF LinkStep
  <2>5. CASE SplitStep
    BY <2>5, SplitPure DEF SplitStep
  <2> QED BY <2>1, <2>2, <2>3, <2>4, <2>5 DEF Next
<1>3. EntityInv /\ PureOwners => OneKeyPerKind
  BY PureIsOneKey
<1>4. GraphInv => EntityInv
  BY GraphParts
<1> QED BY <1>1, <1>2, <1>3, <1>4, GraphCorrect, PTL DEF Spec
=============================================================================
