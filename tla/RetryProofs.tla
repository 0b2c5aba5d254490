---------------------------- MODULE RetryProofs ----------------------------
(***************************************************************************)
(* Theorems about a repeated request, for any keys, records and history of *)
(* commits and names, hash collisions included.                            *)
(***************************************************************************)
EXTENDS Retry, CrosswalkProofs

-----------------------------------------------------------------------------
(***************************************************************************)
(* What a record finds when it is committed again.                         *)
(***************************************************************************)

\* Some identity key is with c.
HasIdentity(c) == \E j \in Identity : owner[j] = c

\* After a commit of r: its keys are known, and w has its identity keys and its phones, or
\* all of its domains; or each of its domains is with an entity that has identity keys.
Once(r) ==
  /\ r.ids # {} /\ r.ids \subseteq Known
  /\ \/ \E w \in Cids :
          /\ r.ids \cap Identity \subseteq Members(w)
          /\ r.ids \cap Identity = {} => r.ids \subseteq Members(w)
          /\ r.phones \X {w} \subseteq phoneEdge
     \/ /\ r.ids \cap Identity = {}
        /\ \A k \in r.ids : HasIdentity(owner[k])

\* After two: w is the entity the next commit would choose, it has all there is to attach,
\* and every owner of a domain contradicts it.
SettledOn(r, w) ==
  /\ r.phones \X {w} \subseteq phoneEdge
  /\ r.ids \cap Identity \subseteq Members(w)
  /\ r.ids \cap Identity = {} => IsWinner(w, AfHits(r))
  /\ \A k \in r.ids :
       \/ owner[k] = w
       \/ /\ HasIdentity(owner[k])
          /\ r.ids \cap Identity = {} => HasIdentity(w)

Settled(r) ==
  /\ r.ids # {} /\ r.ids \subseteq Known
  /\ \E w \in Cids : SettledOn(r, w)

-----------------------------------------------------------------------------
(***************************************************************************)
(* What a commit leaves behind.                                            *)
(***************************************************************************)

\* The nodes after a commit to w.
LEMMA CommitOwner ==
  ASSUME TypeOK, NEW r \in AnyRecord, NEW w \in Cids, NEW L \in SUBSET Cids, CommitTo(r, w, L)
  PROVE  /\ \A k \in StrongKeys :
              owner'[k] = IF \/ k \in r.ids /\ (k \in Identity \/ owner[k] = NoCid)
                             \/ owner[k] \in L
                          THEN w ELSE owner[k]
         /\ r.phones \X {w} \subseteq phoneEdge'
<1> DEFINE merged == Repointed(owner, L, w)
<1>0. NoCid \notin Cids /\ r.ids \subseteq StrongKeys
  BY KeysAssumption DEF AnyRecord
<1>1. \A k \in StrongKeys : merged[k] = IF owner[k] \in L THEN w ELSE owner[k]
  BY DEF Repointed, TypeOK
<1>2. \A k \in StrongKeys : owner'[k] = IF k \in Claims(r, merged) THEN w ELSE merged[k]
  BY DEF CommitTo
<1>3. \A k \in StrongKeys : k \in Claims(r, merged) <=> k \in r.ids /\ (k \in Identity \/ merged[k] = NoCid)
  BY DEF Claims
<1>4. r.phones \X {w} \subseteq phoneEdge'
  BY DEF CommitTo
<1> HIDE DEF merged
<1> QED BY <1>0, <1>1, <1>2, <1>3, <1>4

\* What was not absorbed keeps its members, and what was is w's, as are the identity keys
\* of the record and those of its keys that nobody owned.
LEMMA CommitLeaves ==
  ASSUME TypeOK, NEW r \in AnyRecord, NEW w \in Cids, NEW L \in SUBSET Cids,
         \A k \in r.ids \cap Identity : owner[k] \in L \cup {w, NoCid},
         CommitTo(r, w, L)
  PROVE  /\ r.ids \subseteq Known'
         /\ r.ids \cap Identity \subseteq Members(w)'
         /\ \A c \in L \cup {w} : Members(c) \subseteq Members(w)'
         /\ \A c \in Cids \ (L \cup {w}) : Members(c)' = Members(c)
         /\ \A k \in r.ids : \/ owner'[k] = w
                             \/ /\ owner'[k] = owner[k]
                                /\ owner[k] \in AfHits(r) \ (L \cup {w})
<1>0. NoCid \notin Cids /\ r.ids \subseteq StrongKeys
  BY KeysAssumption DEF AnyRecord
<1>1. \A k \in StrongKeys :
        owner'[k] = IF \/ k \in r.ids /\ (k \in Identity \/ owner[k] = NoCid)
                       \/ owner[k] \in L
                    THEN w ELSE owner[k]
  BY CommitOwner
<1>2. \A k \in StrongKeys : owner[k] \in Cids \cup {NoCid}
  BY DEF TypeOK
<1>3. r.ids \subseteq Known'
  BY <1>0, <1>1, <1>2 DEF Known
<1>4. r.ids \cap Identity \subseteq Members(w)'
  BY <1>0, <1>1 DEF Members
<1>5. \A c \in L \cup {w} : Members(c) \subseteq Members(w)'
  BY <1>1 DEF Members
<1>6. ASSUME NEW c \in Cids \ (L \cup {w}) PROVE Members(c)' = Members(c)
  BY <1>0, <1>1, <1>6 DEF Members
<1>7. ASSUME NEW k \in r.ids, owner'[k] # w
      PROVE  owner'[k] = owner[k] /\ owner[k] \in AfHits(r) \ (L \cup {w})
  <2>1. owner'[k] = owner[k] /\ k \notin Identity /\ owner[k] # NoCid /\ owner[k] \notin L \cup {w}
    BY <1>0, <1>1, <1>7
  <2>2. k \in r.ids \cap Affiliation /\ k \in Known
    BY <1>0, <2>1 DEF StrongKeys, Known
  <2> QED BY <2>1, <2>2 DEF AfHits, Hits
<1> QED BY <1>3, <1>4, <1>5, <1>6, <1>7

\* The first commit of a record.
LEMMA FirstCommit ==
  ASSUME EntityInv, NEW r \in AnyRecord, NEW strict, Commit(r, strict)
  PROVE  Once(r)'
<1>0. TypeOK /\ r.ids # {} /\ r.ids \subseteq StrongKeys /\ IdHits(r) \subseteq Cids /\ AfHits(r) \subseteq Cids
  BY HitsType DEF EntityInv, Commit, Refused, AnyRecord, IdHits, AfHits
<1>1. \A k \in r.ids \cap Identity : owner[k] \in IdHits(r) \cup {NoCid}
  BY <1>0 DEF IdHits, Hits, Known
<1>2. CASE CommitByIdentity(r)
  <2> DEFINE A == AbsorbedByIdentity(r)
  <2>1. PICK w \in IdHits(r) : CommitTo(r, w, A \ {w})
    BY <1>2 DEF CommitByIdentity
  <2>2. A \subseteq Cids /\ IdHits(r) \subseteq A
    BY <1>0 DEF AbsorbedByIdentity
  <2>3. w \in Cids /\ \A k \in r.ids \cap Identity : owner[k] \in (A \ {w}) \cup {w, NoCid}
    BY <1>0, <1>1, <2>2
  <2>4. r.ids \subseteq Known' /\ r.ids \cap Identity \subseteq Members(w)'
    BY <1>0, <2>1, <2>2, <2>3, CommitLeaves
  <2>5. r.phones \X {w} \subseteq phoneEdge'
    BY <1>0, <2>1, <2>2, <2>3, CommitOwner
  <2>6. r.ids \cap Identity # {}
    BY <2>1 DEF IdHits, Hits
  <2> QED BY <1>0, <2>3, <2>4, <2>5, <2>6 DEF Once
<1>3. CASE CommitByAffiliation(r)
  <2>0. r.ids \cap Identity = {}
    BY <1>3 DEF CommitByAffiliation
  <2>1. PICK w \in AfHits(r) : \E first \in FirstBearing(w, AfHits(r)) :
          CommitTo(r, w, AbsorbedByAffiliation(r, w, first) \ {w})
    BY <1>3 DEF CommitByAffiliation
  <2>2. PICK first \in FirstBearing(w, AfHits(r)) :
          CommitTo(r, w, AbsorbedByAffiliation(r, w, first) \ {w})
    BY <2>1
  <2> DEFINE A == AbsorbedByAffiliation(r, w, first)
  <2>3. A \subseteq AfHits(r) /\ w \in Cids /\ A \subseteq Cids
    BY <1>0 DEF AbsorbedByAffiliation
  <2>4. /\ r.ids \subseteq Known'
        /\ \A c \in A \cup {w} : Members(c) \subseteq Members(w)'
        /\ \A c \in Cids \ (A \cup {w}) : Members(c)' = Members(c)
        /\ \A k \in r.ids : owner'[k] = w \/ owner'[k] \in AfHits(r) \ (A \cup {w})
    BY <1>0, <2>0, <2>2, <2>3, CommitLeaves
  <2>5. r.phones \X {w} \subseteq phoneEdge'
    BY <1>0, <2>2, <2>3, CommitOwner
  <2>6. CASE \A k \in r.ids : owner'[k] = w
    BY <1>0, <2>0, <2>3, <2>4, <2>5, <2>6 DEF Once, Members
  <2>7. CASE \E k \in r.ids : owner'[k] # w
    <3>1. PICK j \in r.ids : owner'[j] \in AfHits(r) \ (A \cup {w})
      BY <2>4, <2>7
    <3>2. ASSUME NEW c \in AfHits(r) \ A
          PROVE  IdentityConflict(Members(w) \cup Members(first), Members(c))
      BY <3>2 DEF AbsorbedByAffiliation
    <3>3. first \in A \cup {w}
      <4>1. first = w \/ first \in AfHits(r)
        BY <2>2 DEF FirstBearing
      <4>2. ~ IdentityConflict(Members(w) \cup Members(first), Members(first))
        BY DEF IdentityConflict
      <4> QED BY <4>1, <4>2 DEF AbsorbedByAffiliation
    <3>4. (Members(w) \cup Members(first)) \cap Identity # {}
      BY <3>1, <3>2 DEF IdentityConflict
    <3>5. Members(w) \cup Members(first) \subseteq Members(w)'
      BY <2>4, <3>3
    <3>6. \E i \in Identity : owner'[i] = w
      BY <3>4, <3>5 DEF Members
    <3>7. ASSUME NEW c \in AfHits(r) \ (A \cup {w}) PROVE \E i \in Identity : owner'[i] = c
      <4>1. Members(c)' = Members(c) /\ Members(c) \cap Identity # {}
        BY <1>0, <2>4, <3>2, <3>7 DEF IdentityConflict
      <4> QED BY <4>1 DEF Members
    <3>8. \A k \in r.ids : \E i \in Identity : owner'[i] = owner'[k]
      BY <2>4, <3>6, <3>7
    <3> QED BY <1>0, <2>0, <2>4, <3>8 DEF Once, HasIdentity
  <2> QED BY <2>6, <2>7
<1>4. CASE CommitNew(r)
  <2>1. PICK k \in r.ids : CommitTo(r, CidOf(k), {})
    BY <1>4 DEF CommitNew
  <2>2. PICK w \in Cids : w = CidOf(k)
    BY <1>0, CidOfType
  <2>3. \A j \in r.ids \cap Identity : owner[j] \in {} \cup {w, NoCid}
    BY <1>1, <1>4 DEF CommitNew
  <2>4. /\ r.ids \subseteq Known' /\ r.ids \cap Identity \subseteq Members(w)'
        /\ \A j \in r.ids : owner'[j] = w \/ owner[j] \in AfHits(r)
    BY <1>0, <2>1, <2>2, <2>3, CommitLeaves
  <2>5. r.phones \X {w} \subseteq phoneEdge'
    BY <1>0, <2>1, <2>2, CommitOwner
  <2>6. r.ids \cap Identity = {} => r.ids \subseteq Members(w)'
    BY <1>0, <1>4, <2>4 DEF CommitNew, Members
  <2> QED BY <1>0, <2>2, <2>4, <2>5, <2>6 DEF Once
<1> QED BY <1>2, <1>3, <1>4 DEF Commit

-----------------------------------------------------------------------------
(***************************************************************************)
(* A commit that has nothing to do.                                        *)
(***************************************************************************)

\* A set of keys has one anchor.
LEMMA OneAnchor ==
  ASSUME NEW S \in SUBSET StrongKeys, NEW a, NEW b, IsEntityAnchor(a, S), IsEntityAnchor(b, S)
  PROVE  a = b
<1>1. \A j, k \in StrongKeys : ~ (Stronger(j, k) /\ Stronger(k, j))
  <2>1. \A k \in StrongKeys : Rank[k] \in Nat /\ Pos[k] \in Nat
    BY KeysAssumption
  <2> QED BY <2>1 DEF Stronger
<1>2. ASSUME NEW T \in SUBSET StrongKeys, IsStrongest(a, T), IsStrongest(b, T)
      PROVE  a = b
  BY <1>1, <1>2 DEF IsStrongest
<1> QED BY <1>2 DEF IsEntityAnchor

\* A set of entities has one winner.
LEMMA OneWinner ==
  ASSUME EntityInv, NEW C \in SUBSET LiveCids, NEW w, NEW v, IsWinner(w, C), IsWinner(v, C)
  PROVE  w = v
<1>1. \A c \in C : Rank[anchor[c]] \in Nat /\ c[1] \in Nat /\ c[2] \in Nat
  <2>1. \A c \in C : anchor[c] \in StrongKeys
    BY DEF EntityInv, TypeOK, LiveCids, Live
  <2>2. \A c \in Cids : c[1] \in Nat /\ c[2] \in Nat
    BY KeysAssumption DEF Cids
  <2> QED BY <2>1, <2>2, KeysAssumption DEF LiveCids
<1> QED BY <1>1 DEF IsWinner, CidBefore

\* Merging nothing changes no column and no rows.
LEMMA RepointedNone ==
  ASSUME NEW S, NEW T, NEW column \in [S -> T], NEW w
  PROVE  Repointed(column, {}, w) = column
BY DEF Repointed

\* ... nor of a table.
LEMMA RepointedRowsNone ==
  ASSUME NEW S, NEW rows, rows \subseteq S \X Cids, NEW w
  PROVE  RepointedRows(rows, {}, w) = rows
BY DEF RepointedRows

\* A record whose keys are known, the identity keys as w's, adds its phones to w.
LEMMA QuietCommit ==
  ASSUME EntityInv, NEW r \in AnyRecord, NEW w \in LiveCids, CommitTo(r, w, {}),
         r.ids \subseteq Known, r.ids \cap Identity \subseteq Members(w)
  PROVE  /\ UNCHANGED <<owner, anchor, nameIndex, unique>>
         /\ phoneEdge' = phoneEdge \cup (r.phones \X {w})
<1>0. TypeOK /\ w \in Cids /\ r.ids \subseteq StrongKeys
  BY DEF EntityInv, LiveCids, AnyRecord
<1>1. owner' = owner
  <2>1. \A k \in StrongKeys : owner'[k] = owner[k]
    BY <1>0, CommitOwner DEF Known, Members
  <2>2. owner \in [StrongKeys -> Cids \cup {NoCid}] /\ owner' \in [StrongKeys -> Cids \cup {NoCid}]
    BY <1>0, CommitToType DEF TypeOK
  <2> QED BY <2>1, <2>2
<1>2. anchor' = anchor
  <2>1. PICK a \in StrongKeys : Sharpens(a, Members(w)', anchor[w]) /\ anchor' = MergedAnchors(w, {}, a)
    BY DEF CommitTo
  <2>2. Members(w)' = Members(w) /\ Members(w) \subseteq StrongKeys
    BY <1>1 DEF Members
  <2>3. IsEntityAnchor(anchor[w], Members(w))
    BY DEF EntityInv, AnchorIsCurrent
  <2>4. Members(w) # {}
    BY <2>3, EntityAnchorIn
  <2>5. a = anchor[w]
    BY <2>1, <2>2, <2>3, <2>4, OneAnchor DEF Sharpens
  <2>6. anchor \in [Cids -> StrongKeys \cup {NoKey}]
    BY <1>0 DEF TypeOK
  <2> QED BY <2>1, <2>5, <2>6 DEF MergedAnchors
<1>3. nameIndex' = nameIndex /\ unique' = unique
  BY <1>0, RepointedNone, RepointedRowsNone DEF TypeOK, CommitTo
<1>4. phoneEdge' = phoneEdge \cup (r.phones \X {w})
  BY <1>0, RepointedRowsNone DEF TypeOK, CommitTo
<1> QED BY <1>1, <1>2, <1>3, <1>4

\* Owners of a settled record's keys beside w contradict it.
LEMMA SettledConflicts ==
  ASSUME NEW c \in Cids, NEW w \in Cids, c # w, HasIdentity(c), HasIdentity(w), NEW S, S \subseteq Cids,
         w \in S, c \notin S
  PROVE  IdentityConflict(UNION {Members(x) : x \in S}, Members(c))
BY DEF IdentityConflict, HasIdentity, Members, StrongKeys

\* A settled record changes nothing.
LEMMA SettledCommit ==
  ASSUME EntityInv, NEW r \in AnyRecord, Settled(r), NEW strict, Commit(r, strict)
  PROVE  UNCHANGED vars
<1>0. /\ r.ids # {} /\ r.ids \subseteq Known /\ r.ids \subseteq StrongKeys
      /\ IdHits(r) \subseteq LiveCids /\ AfHits(r) \subseteq LiveCids /\ LiveCids \subseteq Cids
  BY HitsLive DEF Settled, AnyRecord, IdHits, AfHits, LiveCids
<1>1. PICK w \in Cids : SettledOn(r, w)
  BY DEF Settled
<1>2. \A c \in IdHits(r) : c = w
  BY <1>1 DEF IdHits, Hits, SettledOn, Members
<1>3. \A c \in AfHits(r) : \/ c = w
                           \/ HasIdentity(c) /\ (r.ids \cap Identity = {} => HasIdentity(w))
  BY <1>1 DEF AfHits, Hits, SettledOn
<1>4. r.ids \cap Identity # {} => HasIdentity(w)
  BY <1>1 DEF SettledOn, HasIdentity, Members
<1>5. ASSUME w \in LiveCids, CommitTo(r, w, {})
      PROVE  UNCHANGED vars
  <2>1. r.ids \cap Identity \subseteq Members(w) /\ r.phones \X {w} \subseteq phoneEdge
    BY <1>1 DEF SettledOn
  <2>2. /\ UNCHANGED <<owner, anchor, nameIndex, unique>>
        /\ phoneEdge' = phoneEdge \cup (r.phones \X {w})
    BY <1>0, <1>5, <2>1, QuietCommit
  <2> QED BY <2>1, <2>2 DEF vars
<1>6. CASE CommitByIdentity(r)
  <2>1. w \in IdHits(r) /\ CommitTo(r, w, AbsorbedByIdentity(r) \ {w})
    BY <1>2, <1>6 DEF CommitByIdentity
  <2>2. IdHits(r) = {w} /\ r.ids \cap Identity # {}
    BY <1>2, <2>1 DEF IdHits, Hits
  <2>3. ASSUME NEW c \in AfHits(r), c # w
        PROVE  IdentityConflict(UNION {Members(x) : x \in IdHits(r)}, Members(c))
    BY <1>0, <1>3, <1>4, <2>2, <2>3, SettledConflicts
  <2>4. AbsorbedByIdentity(r) \ {w} = {}
    BY <2>2, <2>3 DEF AbsorbedByIdentity
  <2> QED BY <1>0, <1>5, <2>1, <2>4
<1>7. CASE CommitByAffiliation(r)
  <2>0. r.ids \cap Identity = {}
    BY <1>7 DEF CommitByAffiliation
  <2>1. PICK v \in AfHits(r) : /\ IsWinner(v, AfHits(r))
                               /\ \E first \in FirstBearing(v, AfHits(r)) :
                                    CommitTo(r, v, AbsorbedByAffiliation(r, v, first) \ {v})
    BY <1>7 DEF CommitByAffiliation
  <2>2. v = w
    <3>1. IsWinner(w, AfHits(r))
      BY <1>1, <2>0 DEF SettledOn
    <3> QED BY <1>0, <2>1, <3>1, OneWinner
  <2>3. PICK first \in FirstBearing(w, AfHits(r)) :
          CommitTo(r, w, AbsorbedByAffiliation(r, w, first) \ {w})
    BY <2>1, <2>2
  <2>4. first = w
    BY <1>0, <1>3, <2>0, <2>3 DEF FirstBearing, HasIdentity, IdMembers, Members, StrongKeys
  <2>5. ASSUME NEW c \in AfHits(r), c # w
        PROVE  IdentityConflict(Members(w) \cup Members(first), Members(c))
    <3>1. IdentityConflict(UNION {Members(x) : x \in {w}}, Members(c))
      BY <1>0, <1>3, <2>0, <2>5, SettledConflicts
    <3> QED BY <2>4, <3>1
  <2>6. AbsorbedByAffiliation(r, w, first) \ {w} = {}
    BY <2>5 DEF AbsorbedByAffiliation
  <2> QED BY <1>0, <1>5, <2>1, <2>2, <2>3, <2>6
<1>8. CASE CommitNew(r)
  <2>1. IdHits(r) = {} /\ (r.ids \cap Identity = {} => AfHits(r) = {})
    BY <1>8 DEF CommitNew
  <2> QED BY <1>0, <2>1 DEF IdHits, AfHits, Hits, StrongKeys
<1> QED BY <1>6, <1>7, <1>8 DEF Commit

-----------------------------------------------------------------------------
(***************************************************************************)
(* The second commit.                                                      *)
(***************************************************************************)

\* A record with identity keys: their entity absorbs every owner of a domain that has none.
LEMMA SecondByIdentity ==
  ASSUME EntityInv, NEW r \in AnyRecord, Once(r), CommitByIdentity(r)
  PROVE  Settled(r)'
<1> DEFINE A == AbsorbedByIdentity(r)
<1>0. /\ TypeOK /\ r.ids # {} /\ r.ids \subseteq Known /\ r.ids \subseteq StrongKeys
      /\ IdHits(r) \subseteq Cids /\ AfHits(r) \subseteq Cids
  BY HitsType DEF EntityInv, Once, AnyRecord, IdHits, AfHits
<1>1. PICK w \in IdHits(r) : CommitTo(r, w, A \ {w})
  BY DEF CommitByIdentity
<1>2. r.ids \cap Identity # {} /\ w \in Cids
  BY <1>0, <1>1 DEF IdHits, Hits
<1>3. r.ids \cap Identity \subseteq Members(w)
  <2>1. PICK v \in Cids : r.ids \cap Identity \subseteq Members(v)
    BY <1>2 DEF Once
  <2>2. v = w
    BY <1>1, <2>1 DEF IdHits, Hits, Members
  <2> QED BY <2>1, <2>2
<1>4. IdHits(r) = {w}
  BY <1>1, <1>3 DEF IdHits, Hits, Members
<1>5. A \subseteq Cids /\ w \in A
  BY <1>0, <1>1 DEF AbsorbedByIdentity
<1>6. /\ r.ids \subseteq Known' /\ r.ids \cap Identity \subseteq Members(w)'
      /\ \A c \in Cids \ A : Members(c)' = Members(c)
      /\ \A k \in r.ids : owner'[k] = w \/ owner'[k] \in AfHits(r) \ A
  <2>1. \A k \in r.ids \cap Identity : owner[k] \in (A \ {w}) \cup {w, NoCid}
    BY <1>3 DEF Members
  <2> QED BY <1>0, <1>1, <1>2, <1>5, <2>1, CommitLeaves
<1>7. r.phones \X {w} \subseteq phoneEdge'
  BY <1>0, <1>1, <1>2, <1>5, CommitOwner
<1>8. ASSUME NEW c \in AfHits(r) \ A PROVE \E j \in Identity : owner'[j] = c
  <2>1. Members(c) \cap Identity # {}
    BY <1>8 DEF AbsorbedByIdentity, IdentityConflict
  <2>2. Members(c)' = Members(c)
    BY <1>0, <1>6, <1>8
  <2> QED BY <2>1, <2>2 DEF Members
<1>9. \A k \in r.ids : owner'[k] = w \/ \E j \in Identity : owner'[j] = owner'[k]
  BY <1>6, <1>8
<1> QED BY <1>0, <1>2, <1>6, <1>7, <1>9 DEF Settled, SettledOn, HasIdentity

\* A record of domains only: one entity has them all, or each is with an entity of its own
\* identity, and none absorbs another.
LEMMA SecondByAffiliation ==
  ASSUME EntityInv, NEW r \in AnyRecord, Once(r), CommitByAffiliation(r)
  PROVE  Settled(r)'
<1>0. /\ TypeOK /\ r.ids # {} /\ r.ids \subseteq Known /\ r.ids \subseteq StrongKeys
      /\ AfHits(r) \subseteq LiveCids /\ LiveCids \subseteq Cids /\ r.ids \cap Identity = {}
  BY HitsLive DEF EntityInv, Once, AnyRecord, AfHits, LiveCids, CommitByAffiliation
<1>1. PICK w \in AfHits(r) : /\ IsWinner(w, AfHits(r))
                             /\ \E first \in FirstBearing(w, AfHits(r)) :
                                  CommitTo(r, w, AbsorbedByAffiliation(r, w, first) \ {w})
  BY DEF CommitByAffiliation
<1>2. PICK first \in FirstBearing(w, AfHits(r)) :
        CommitTo(r, w, AbsorbedByAffiliation(r, w, first) \ {w})
  BY <1>1
<1>3. \A k \in r.ids : owner[k] \in AfHits(r)
  BY <1>0 DEF AfHits, Hits, StrongKeys
<1>4. \A c \in AfHits(r) : c = w \/ (HasIdentity(c) /\ HasIdentity(w))
  <2>1. \A c \in AfHits(r) : \E k \in r.ids : owner[k] = c
    BY DEF AfHits, Hits
  <2>2. CASE \A k \in r.ids : HasIdentity(owner[k])
    BY <2>1, <2>2
  <2>3. CASE \E v \in Cids : r.ids \subseteq Members(v)
    BY <2>1, <2>3 DEF Members
  <2> QED BY <1>0, <2>2, <2>3 DEF Once
<1>5. first = w
  BY <1>0, <1>2, <1>4 DEF FirstBearing, HasIdentity, IdMembers, Members, StrongKeys
<1>6. ASSUME NEW c \in AfHits(r), c # w
      PROVE  IdentityConflict(Members(w) \cup Members(first), Members(c))
  <2>1. IdentityConflict(UNION {Members(x) : x \in {w}}, Members(c))
    BY <1>0, <1>4, <1>6, SettledConflicts
  <2> QED BY <1>5, <2>1
<1>7. AbsorbedByAffiliation(r, w, first) \ {w} = {}
  BY <1>6 DEF AbsorbedByAffiliation
<1>8. /\ UNCHANGED <<owner, anchor, nameIndex, unique>>
      /\ phoneEdge' = phoneEdge \cup (r.phones \X {w})
  BY <1>0, <1>2, <1>7, QuietCommit
<1>9. r.ids \subseteq Known' /\ IsWinner(w, AfHits(r))'
  BY <1>0, <1>1, <1>8 DEF Known, AfHits, Hits, IsWinner
<1>10. \A k \in r.ids : owner'[k] = w \/ (HasIdentity(owner[k]) /\ HasIdentity(w))
  BY <1>3, <1>4, <1>8
<1> QED BY <1>0, <1>8, <1>9, <1>10 DEF Settled, SettledOn, HasIdentity, Members

\* The second commit of a record settles it.
LEMMA SecondCommit ==
  ASSUME EntityInv, NEW r \in AnyRecord, Once(r), NEW strict, Commit(r, strict)
  PROVE  Settled(r)'
<1>1. CASE CommitNew(r)
  <2>1. IdHits(r) = {} /\ (r.ids \cap Identity = {} => AfHits(r) = {})
    BY <1>1 DEF CommitNew
  <2> QED BY <2>1 DEF Once, AnyRecord, IdHits, AfHits, Hits, StrongKeys
<1> QED BY <1>1, SecondByIdentity, SecondByAffiliation DEF Commit

\* A record of one key and no phone is settled by its first commit.
LEMMA LookupSettles ==
  ASSUME EntityInv, NEW r \in AnyRecord, Once(r), r.phones = {}, NEW k, r.ids = {k}
  PROVE  Settled(r)
<1>0. k \in StrongKeys /\ owner[k] # NoCid /\ owner[k] \in Cids
  BY DEF EntityInv, TypeOK, Once, AnyRecord, Known
<1> DEFINE w == owner[k]
<1>1. r.ids \cap Identity = {} => AfHits(r) = {w}
  BY <1>0 DEF AfHits, Hits, Known, StrongKeys
<1>2. SettledOn(r, w)
  BY <1>0, <1>1 DEF SettledOn, Members, IsWinner
<1> QED BY <1>0, <1>2 DEF Settled, Once

-----------------------------------------------------------------------------
(***************************************************************************)
(* The client.                                                             *)
(***************************************************************************)

\* What the graph holds of the record the client repeats.
RetryInv ==
  /\ EntityInv
  /\ \/ times = 0 /\ last = NoRecord
     \/ times = 1 /\ last \in Sent /\ Once(last)
     \/ times = 2 /\ last \in Sent /\ Once(last) /\ Settled(last)

\* Nothing is known and nothing was sent.
LEMMA RetryStarts == RetryInit => RetryInv
<1>1. Init => EntityInv
  BY KeysAssumption DEF Init, EntityInv, TypeOK, RowsLive, AnchorIsCurrent,
     MintedKeyIsKnown, Live, LiveCids, CidOf, Cids
<1> QED BY <1>1 DEF RetryInit, RetryInv

\* Sending a record again.
LEMMA SendAgain ==
  ASSUME RetryInv, Send
  PROVE  /\ RetryInv'
         /\ times = 2 => UNCHANGED vars
         /\ times > 0 /\ last.phones = {} /\ (\E k : last.ids = {k}) => UNCHANGED vars
<1>1. PICK r \in Sent : /\ last \in {NoRecord, r} /\ Commit(r, FALSE) /\ last' = r
                        /\ times' = IF times < 2 THEN times + 1 ELSE times
  BY DEF Send
<1>2. r \in AnyRecord /\ r # NoRecord
  BY RetryAssumption DEF AnyRecord
<1>3. EntityInv'
  BY <1>1, <1>2, CommitInv DEF RetryInv
<1>4. Once(r)'
  BY <1>1, <1>2, FirstCommit DEF RetryInv
<1>5. CASE times = 0
  <2>1. times' = 1
    BY <1>1, <1>5
  <2>2. Once(last)'
    BY <1>1, <1>4, Zenon DEF Once
  <2> QED BY <1>1, <1>3, <1>5, <2>1, <2>2 DEF RetryInv
<1>6. CASE times = 1
  <2>0. last = r /\ Once(last)
    BY <1>1, <1>6, RetryAssumption DEF RetryInv
  <2>1. last = r /\ Once(r)
    BY <2>0, Zenon
  <2>2. times' = 2 /\ last' = last
    BY <1>1, <1>6, <2>1
  <2>3. Settled(last)' /\ Once(last)'
    BY <1>1, <1>2, <1>4, <2>1, <2>2, SecondCommit DEF RetryInv
  <2>4. ASSUME last.phones = {}, NEW k, last.ids = {k}
        PROVE  UNCHANGED vars
    <3>1. Settled(r)
      BY <1>2, <2>1, <2>4, LookupSettles DEF RetryInv
    <3> QED BY <1>1, <1>2, <3>1, SettledCommit DEF RetryInv
  <2> QED BY <1>1, <1>3, <1>6, <2>2, <2>3, <2>4 DEF RetryInv
<1>7. CASE times = 2
  <2>0. last = r /\ Settled(last)
    BY <1>1, <1>7, RetryAssumption DEF RetryInv
  <2>1. last = r /\ Settled(r)
    BY <2>0, Zenon
  <2>2. UNCHANGED vars /\ times' = 2 /\ last' = last
    <3>1. EntityInv /\ Commit(r, FALSE)
      BY <1>1 DEF RetryInv
    <3>2. UNCHANGED vars
      BY <1>2, <2>1, <3>1, SettledCommit, Zenon
    <3> QED BY <1>1, <1>7, <2>1, <3>2
  <2>3. Once(last)' /\ Settled(last)'
    BY <1>7, <2>2 DEF RetryInv, vars, Once, Settled, SettledOn, HasIdentity, Members, Known,
                      IsWinner, AfHits, Hits
  <2> QED BY <1>1, <1>3, <1>7, <2>2, <2>3 DEF RetryInv
<1> QED BY <1>5, <1>6, <1>7 DEF RetryInv

\* While nobody sends, others commit and learn names.
LEMMA AnyoneKeeps ==
  ASSUME RetryInv, Anyone
  PROVE  RetryInv' /\ times = 0 /\ times' = 0
<1>1. times = 0 /\ last = NoRecord /\ UNCHANGED <<last, times>>
  BY RetryAssumption DEF RetryInv, Anyone
<1>2. EntityInv'
  <2>1. CASE NameStep
    BY <2>1, NameInv DEF RetryInv
  <2>2. CASE \E r \in Records : Commit(r, FALSE)
    BY <2>2, CommitInv, RecordsAssumption DEF RetryInv, AnyRecord
  <2> QED BY <2>1, <2>2 DEF Anyone
<1> QED BY <1>1, <1>2 DEF RetryInv

\* A stuttering step.
LEMMA StutterKeeps ==
  ASSUME RetryInv, UNCHANGED retryVars
  PROVE  RetryInv'
BY DEF RetryInv, retryVars, EntityInv, TypeOK, RowsLive, AnchorIsCurrent, MintedKeyIsKnown,
       Live, LiveCids, Members, Known, Once, Settled, SettledOn, HasIdentity, IsWinner,
       AfHits, Hits

\* The invariant of a client that repeats a request.
LEMMA RetryStays == RetrySpec => []RetryInv
<1>1. RetryInv /\ [Anyone \/ Send]_retryVars => RetryInv'
  BY SendAgain, AnyoneKeeps, StutterKeeps
<1> QED BY <1>1, RetryStarts, PTL DEF RetrySpec

\* A third commit of a record changes nothing, and neither does any later one, whatever
\* was in the graph when the first was made (the reconcile step of resolve.rs).
THEOREM RepeatsSettle == RetrySpec => SettlesByTheSecond
<1>1. RetryInv /\ [Anyone \/ Send]_retryVars =>
        [last' = last /\ times = 2 => UNCHANGED vars]_retryVars
  BY SendAgain, AnyoneKeeps
<1> QED BY <1>1, RetryStays, PTL DEF RetrySpec, SettlesByTheSecond

\* Resolving one identifier again writes nothing (resolve, handlers.rs).
THEOREM LookupsRepeat == RetrySpec => LookupWritesNothing
<1>1. RetryInv /\ [Anyone \/ Send]_retryVars =>
        [times > 0 /\ last' = last /\ last.phones = {} /\ (\E k \in StrongKeys : last.ids = {k})
           => UNCHANGED vars]_retryVars
  BY SendAgain, AnyoneKeeps
<1> QED BY <1>1, RetryStays, PTL DEF RetrySpec, LookupWritesNothing

\* Two commits bring a domain to the record's own entity, or it stays with one that has
\* identity keys of its own (Resolving an organization, README.md).
THEOREM DomainsConverge == RetrySpec => []DomainConverges
<1>1. RetryInv => DomainConverges
  BY DEF RetryInv, DomainConverges, Settled, SettledOn, HasIdentity, IdMembers, Members, StrongKeys
<1> QED BY <1>1, RetryStays, PTL
=============================================================================
