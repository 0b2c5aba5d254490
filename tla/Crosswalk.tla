----------------------------- MODULE Crosswalk -----------------------------
(***************************************************************************)
(* The identity crosswalk graph: committing a record (resolve.rs) and the  *)
(* operator's corrections link, merge and split (correct.rs) over the      *)
(* tables of the SQLite store (store/sqlite.rs).                           *)
(*                                                                         *)
(* One action is one whole operation.  That is how the CLI and the ingest  *)
(* path run them, one writer on one connection; D1Commit takes commit      *)
(* apart into the statements a networked store interleaves.                *)
(***************************************************************************)
EXTENDS ExternalKeys, FiniteSets

CONSTANTS
  Names,    \* normalized names, the keys of the name tables
  Records,  \* the records offered: [ids : SUBSET StrongKeys, phones : SUBSET Phones]
  Strict,   \* values of !CommitOpts::allow_affiliation_only: {FALSE}, {TRUE}, BOOLEAN
  Forced    \* values of the --force flag of link and merge

ASSUME RecordsAssumption ==
  /\ Records \subseteq [ids : SUBSET StrongKeys, phones : SUBSET Phones]
  /\ Strict \subseteq BOOLEAN
  /\ Forced \subseteq BOOLEAN

VARIABLES
  owner,      \* nodes: owner[k] is the canonical id of strong key k, or NoCid
  anchor,     \* entities: anchor[c], or NoKey when there is no row c
  phoneEdge,  \* phone_edges: pairs <<phone, cid>>
  nameIndex,  \* name_index: pairs <<name, cid>>
  unique      \* name_cardinality: unique[n] is the canonical_id column of a
              \*   "unique" row, or NoCid when n has none

vars == <<owner, anchor, phoneEdge, nameIndex, unique>>

Init ==
  /\ owner = [k \in StrongKeys |-> NoCid]
  /\ anchor = [c \in Cids |-> NoKey]
  /\ phoneEdge = {}
  /\ nameIndex = {}
  /\ unique = [n \in Names |-> NoCid]

-----------------------------------------------------------------------------
(***************************************************************************)
(* Reading the tables.                                                     *)
(***************************************************************************)
Live(c) == anchor[c] # NoKey
LiveCids == {c \in Cids : Live(c)}
Members(c) == {k \in StrongKeys : owner[k] = c}
IdMembers(c) == Members(c) \cap Identity
Known == {k \in StrongKeys : owner[k] # NoCid}

\* find() over some keys, deduplicated.
Hits(K) == {owner[k] : k \in K \cap Known}

\* pick_winner: the strongest stored anchor rank, ties on the smaller canonical id.
IsWinner(w, C) ==
  /\ w \in C
  /\ \A c \in C \ {w} :
       \/ Rank[anchor[w]] < Rank[anchor[c]]
       \/ Rank[anchor[w]] = Rank[anchor[c]] /\ CidBefore(w, c)

-----------------------------------------------------------------------------
(***************************************************************************)
(* Writing the tables: what merge_into and its callers leave behind when   *)
(* the entities L are merged into w.                                       *)
(***************************************************************************)

\* Mutant: the losers' rows of the column are deleted.
RepointedToNone(column, L, w) ==
  [x \in DOMAIN column |-> IF column[x] \in L THEN NoCid ELSE column[x]]

\* A column of canonical ids (nodes, name_cardinality) after the merge.
Repointed(column, L, w) ==
  [x \in DOMAIN column |-> IF column[x] \in L THEN w ELSE column[x]]

\* Mutant: the rows of the losers are deleted before they are re-pointed.
RowsDropped(rows, L, w) == {row \in rows : row[2] \notin L}

\* Mutant: a table the merge forgets.
RowsForgotten(rows, L, w) == rows

\* A table of <<value, cid>> rows after the merge: re-pointed, collisions
\* ignored, the losers' leftovers deleted.
RepointedRows(rows, L, w) ==
  {<<row[1], IF row[2] \in L THEN w ELSE row[2]>> : row \in rows}

\* The entity rows after the merge: the losers' are gone, w is anchored at a.
MergedAnchors(w, L, a) ==
  [c \in Cids |-> IF c \in L THEN NoKey ELSE IF c = w THEN a ELSE anchor[c]]

\* Mutant: the anchor is kept while it is a member, and chosen anew only when lost.
SharpensWhenLost(a, S, current) ==
  IF current \in S THEN a = current ELSE IsEntityAnchor(a, S)

\* Mutant: the members are taken in the order the table returns them.
SharpensToAny(a, S, current) == IF S = {} THEN a = current ELSE a \in S

\* recompute_anchor: a becomes the anchor over the members S; with no strong
\* member the current one stays.
Sharpens(a, S, current) ==
  IF S = {} THEN a = current ELSE IsEntityAnchor(a, S)

-----------------------------------------------------------------------------
(***************************************************************************)
(* commit_record_with_opts.                                                *)
(***************************************************************************)
IdHits(r) == Hits(r.ids \cap Identity)
AfHits(r) == Hits(r.ids \cap Affiliation)

\* Nothing is written for a record with no strong key or, under the strict
\* grain rule, with no identity key.
Refused(r, strict) ==
  \/ r.ids = {}
  \/ strict /\ r.ids \cap Identity = {}

\* Mutant: the owners of the domains are left alone.
AbsorbsNoDomain(r) == IdHits(r)

\* Mutant: an owner of a domain is compared with the record, not with the entity.
AbsorbsByRecord(r) ==
  IdHits(r) \cup {c \in AfHits(r) : ~ SameKindConflict(r.ids, Members(c))}

\* Some identity key is known: the owners of the identity keys are one thing,
\* and absorb the owners of the domains that do not contradict them.
AbsorbedByIdentity(r) ==
  LET united == UNION {Members(c) : c \in IdHits(r)}
  IN  IdHits(r) \cup {c \in AfHits(r) : ~ IdentityConflict(united, Members(c))}

\* A loop over the domains' owners absorbs what does not contradict the winner
\* as it has grown so far: when the winner has no identity key of its own, the
\* first owner with one, in record order, is adopted and excludes the others.
FirstBearing(w, C) ==
  LET bearing == {c \in C : IdMembers(c) # {}}
  IN  IF IdMembers(w) # {} \/ bearing = {} THEN {w} ELSE bearing

\* Mutant: the winner's members are read once, before the loop.
AbsorbedByStaleWinner(r, w, first) ==
  {c \in AfHits(r) : ~ IdentityConflict(Members(w), Members(c))}

AbsorbedByAffiliation(r, w, first) ==
  {c \in AfHits(r) :
     ~ IdentityConflict(Members(w) \cup Members(first), Members(c))}

\* Mutant: a shared domain is re-pointed to the target like an identity key.
ClaimsStealing(r, column) == r.ids

\* The keys of the record that end up with the target, given the nodes after
\* the merges: every one but a domain that still has an owner.
Claims(r, column) ==
  {k \in r.ids : k \in Identity \/ column[k] = NoCid}

\* Merge L into w, attach the record's keys and phones to w, sharpen its anchor.
CommitTo(r, w, L) ==
  LET merged == Repointed(owner, L, w)
      claimed == Claims(r, merged)
  IN  /\ owner' = [k \in StrongKeys |-> IF k \in claimed THEN w ELSE merged[k]]
      /\ \E a \in StrongKeys :
           /\ Sharpens(a, Members(w)', anchor[w])
           /\ anchor' = MergedAnchors(w, L, a)
      /\ phoneEdge' = RepointedRows(phoneEdge, L, w) \cup (r.phones \X {w})
      /\ nameIndex' = RepointedRows(nameIndex, L, w)
      /\ unique' = Repointed(unique, L, w)

\* Step 3 with a known identity key.
CommitByIdentity(r) ==
  \E w \in IdHits(r) :
    /\ IsWinner(w, IdHits(r))
    /\ CommitTo(r, w, AbsorbedByIdentity(r) \ {w})

\* Step 3 with domains only, some of them known.
CommitByAffiliation(r) ==
  /\ r.ids \cap Identity = {}
  /\ \E w \in AfHits(r) :
       /\ IsWinner(w, AfHits(r))
       /\ \E first \in FirstBearing(w, AfHits(r)) :
            CommitTo(r, w, AbsorbedByAffiliation(r, w, first) \ {w})

\* Mutant: an entity is minted although an identity key is known.
CommitNewAlways(r) ==
  \E k \in r.ids : IsEntityAnchor(k, r.ids) /\ CommitTo(r, CidOf(k), {})

\* Step 3 otherwise: mint_entity.  An INSERT OR IGNORE at the canonical id of the
\* anchor, so a row that is there already is adopted.  (An owner of one of the
\* domains that shares one of the identity keys would be adopted instead, but
\* then that key is known.)
CommitNew(r) ==
  /\ IdHits(r) = {}
  /\ r.ids \cap Identity = {} => AfHits(r) = {}
  /\ \E k \in r.ids : IsEntityAnchor(k, r.ids) /\ CommitTo(r, CidOf(k), {})

Commit(r, strict) ==
  /\ ~ Refused(r, strict)
  /\ CommitByIdentity(r) \/ CommitByAffiliation(r) \/ CommitNew(r)

\* Where an entity goes in a step: itself while its row is there, else the entity
\* that took its keys.
Heirs(c) == IF Live(c)' THEN {c} ELSE {owner'[k] : k \in Members(c)}

\* What a commit answers: the entity c (a record without an identity key is asked
\* about only when it has one domain) ...
Target(r, c) == \E k \in r.ids : owner'[k] = c /\ (k \in Identity \/ r.ids = {k})

\* ... and whether new_edges > 0, for a record with an identity key: it attached a key
\* nobody owned, or a phone edge none of the united entities had.
NewEdges(r) ==
  \/ ~ (r.ids \subseteq Known)
  \/ \E k \in r.ids \cap Identity, ph \in r.phones :
       \A row \in phoneEdge : row[1] = ph => owner'[k] \notin Heirs(row[2])

-----------------------------------------------------------------------------
(***************************************************************************)
(* correct.rs: merge, link and split.                                      *)
(***************************************************************************)

\* Mutant: only the surviving side is compared with, not every pair.
MergeGuardOneSided(C, force) ==
  force \/ \E c \in C : \A d \in C \ {c} : ~ SameKindConflict(Members(c), Members(d))

\* No two of the entities carry different identity keys of one kind.
MergeGuard(C, force) ==
  force \/ \A c, d \in C : c # d => ~ SameKindConflict(Members(c), Members(d))

\* merge: the strongest entity survives, and is re-anchored.
Merge(C, force) ==
  /\ \E c, d \in C : c # d
  /\ MergeGuard(C, force)
  /\ \E w \in C, a \in StrongKeys :
       LET L == C \ {w}
       IN  /\ IsWinner(w, C)
           /\ owner' = Repointed(owner, L, w)
           /\ Sharpens(a, Members(w)', anchor[w])
           /\ anchor' = MergedAnchors(w, L, a)
           /\ phoneEdge' = RepointedRows(phoneEdge, L, w)
           /\ nameIndex' = RepointedRows(nameIndex, L, w)
           /\ unique' = Repointed(unique, L, w)

\* link, neither key known: mint one entity that holds both.
LinkNew(j, k, force) ==
  /\ {j, k} \cap Known = {}
  /\ force \/ ~ SameKindConflict({j}, {k})
  /\ \E a \in {j, k} :
       /\ IsEntityAnchor(a, {j, k})
       /\ owner' = [owner EXCEPT ![j] = CidOf(a), ![k] = CidOf(a)]
       /\ anchor' = [anchor EXCEPT ![CidOf(a)] = IF Live(CidOf(a)) THEN @ ELSE a]
  /\ UNCHANGED <<phoneEdge, nameIndex, unique>>

\* link, one key known: attach the new key j to the owner of k.
LinkAttach(j, k, force) ==
  /\ j \notin Known /\ k \in Known
  /\ force \/ ~ SameKindConflict(Members(owner[k]), {j})
  /\ owner' = [owner EXCEPT ![j] = owner[k]]
  /\ \E a \in StrongKeys :
       /\ Sharpens(a, Members(owner[k])', anchor[owner[k]])
       /\ anchor' = [anchor EXCEPT ![owner[k]] = a]
  /\ UNCHANGED <<phoneEdge, nameIndex, unique>>

Link(j, k, force) ==
  /\ j # k
  /\ \/ LinkNew(j, k, force)
     \/ LinkAttach(j, k, force)
     \/ {j, k} \subseteq Known /\ Merge({owner[j], owner[k]}, force)

\* Mutant: the probe of the suffixed ids runs one past its cap.
FreeSuffixesPastCap(base) ==
  {n \in 0 .. MaxProbes + 1 : \A m \in 0 .. n : <<base, m>> \in LiveCids <=> m < n}

\* The first of base, base_1, base_2, ... that is not taken; none past the cap.
FreeSuffixes(base) ==
  {n \in 0 .. MaxProbes : \A m \in 0 .. n : <<base, m>> \in LiveCids <=> m < n}

\* Mutant: the side that was split is not re-anchored.
ReanchoredNewOnly(src, b, new, a) == [anchor EXCEPT ![new] = a]

\* apply_split re-anchors both sides: the source to b, the new entity to a.
Reanchored(src, b, new, a) == [anchor EXCEPT ![src] = b, ![new] = a]

\* Mutant: the source keeps its name rows.
RowsKept(rows, src) == rows

\* The source's rows of a name table are deleted by a split.
RowsWithout(rows, src) == {row \in rows : row[2] # src}

\* apply_split: the keys D move from src to the fresh entity new; b and a are the
\* two sides' anchors.
ApplySplit(D, src, b, new, a) ==
  /\ owner' = [k \in StrongKeys |-> IF k \in D THEN new ELSE owner[k]]
  /\ anchor' = Reanchored(src, b, new, a)
  /\ nameIndex' = RowsWithout(nameIndex, src)
  /\ unique' = [n \in Names |-> IF unique[n] = src THEN NoCid ELSE unique[n]]
  /\ UNCHANGED phoneEdge

\* split: D is part of one entity, which keeps at least one strong key.
Split(D) ==
  /\ D # {}
  /\ \E src \in LiveCids :
       /\ D \subseteq Members(src)
       /\ \E a \in D, b \in Members(src) \ D :
            /\ IsEntityAnchor(a, D)
            /\ IsEntityAnchor(b, Members(src) \ D)
            /\ \E n \in FreeSuffixes(Hash[a]) : ApplySplit(D, src, b, <<Hash[a], n>>, a)

-----------------------------------------------------------------------------
\* index_resolved_name: a name resolved to the entity c is indexed and, when the hub
\* returned nothing else for it, remembered as unique over what was remembered.
IndexName(n, c, isUnique) ==
  /\ Live(c)
  /\ nameIndex' = nameIndex \cup {<<n, c>>}
  /\ unique' = IF isUnique THEN [unique EXCEPT ![n] = c] ELSE unique
  /\ UNCHANGED <<owner, anchor, phoneEdge>>

\* record_name_cardinality: the row of the name becomes an ambiguous one, which has
\* no canonical id (its candidates are NameMemory's).
RememberAmbiguous(n) ==
  /\ unique' = [unique EXCEPT ![n] = NoCid]
  /\ UNCHANGED <<owner, anchor, phoneEdge, nameIndex>>

CommitStep == \E r \in Records, strict \in Strict : Commit(r, strict)

NameStep ==
  \E n \in Names :
    \/ RememberAmbiguous(n)
    \/ \E c \in Cids, isUnique \in BOOLEAN : IndexName(n, c, isUnique)

MergeStep == \E C \in SUBSET LiveCids, force \in Forced : Merge(C, force)

LinkStep == \E j, k \in StrongKeys, force \in Forced : Link(j, k, force)

SplitStep == \E D \in SUBSET StrongKeys : Split(D)

Next == CommitStep \/ NameStep \/ MergeStep \/ LinkStep \/ SplitStep

Spec == Init /\ [][Next]_vars

-----------------------------------------------------------------------------
(***************************************************************************)
(* Invariants.                                                             *)
(***************************************************************************)

\* Every column holds what its type says (migrations/0001_init.sql).
TypeOK ==
  /\ owner \in [StrongKeys -> Cids \cup {NoCid}]
  /\ anchor \in [Cids -> StrongKeys \cup {NoKey}]
  /\ phoneEdge \subseteq Phones \X Cids
  /\ nameIndex \subseteq Names \X Cids
  /\ unique \in [Names -> Cids \cup {NoCid}]

\* No row of any table names an entity that merges or splits have removed: nodes,
\* phone edges and name rows carry a foreign key, name_cardinality has none and
\* depends on merge_into and apply_split alone ("a merged/deleted id is never
\* served", store/mod.rs).
NoDanglingRow ==
  /\ \A k \in StrongKeys : owner[k] # NoCid => Live(owner[k])
  /\ \A row \in phoneEdge \cup nameIndex : Live(row[2])
  /\ \A n \in Names : unique[n] # NoCid => Live(unique[n])

\* The stored anchor of an entity is exactly the anchor of its current members,
\* whatever merges, attachments and splits led there.  In particular an entity
\* never loses its last strong key, and no anchor names a key another entity owns
\* (the case the comment of step 4 of commit_record_with_opts is about).
AnchorIsCurrent ==
  \A c \in LiveCids : IsEntityAnchor(anchor[c], Members(c))

\* An unsuffixed canonical id is in use only if the key it is derived from is in
\* the graph.  It is why mint_entity's INSERT OR IGNORE never lands on the row of
\* another thing: it runs only for a key that is not.
MintedKeyIsKnown ==
  \A k \in StrongKeys : Live(CidOf(k)) => \E j \in Known : Hash[j] = Hash[k]

\* The four together are inductive, given that the hash has no collision on the
\* keys: each needs the ones before it.
GraphInv == TypeOK /\ NoDanglingRow /\ AnchorIsCurrent /\ MintedKeyIsKnown

\* Where no correction is forced and no record carries two identity keys, no
\* entity ever holds two identity keys of one kind, such as two films' IMDb ids:
\* `link` "can never silently force a false merge" (correct.rs), on any branch.
OneKeyPerKind ==
  \A c \in LiveCids : ~ SameKindConflict(Members(c), Members(c))

-----------------------------------------------------------------------------
(***************************************************************************)
(* Action properties.                                                      *)
(***************************************************************************)

\* A key moves only because its entity was merged away or because a split gave it
\* a fresh entity: no step takes a key, in particular a shared domain, from one
\* entity to another when both are there before and after ("don't steal a shared
\* domain", step 4 of commit_record_with_opts).
NoKeyStolen ==
  [][\A k \in Known : \/ owner'[k] = owner[k]
                      \/ anchor'[owner[k]] = NoKey
                      \/ anchor[owner'[k]] = NoKey]_vars

\* A merge loses no corroboration and no name: every phone edge and every name row
\* of an entity that goes away is found at its heir.
RowsFollowMerges ==
  [][/\ \A row \in phoneEdge : \E h \in Heirs(row[2]) : <<row[1], h>> \in phoneEdge'
     /\ \A row \in nameIndex :
          ~ Live(row[2])' => \E h \in Heirs(row[2]) : <<row[1], h>> \in nameIndex']_vars

\* After a split neither side is reachable by a name cached for the source, "a
\* false-merge-safety break" otherwise (clear_name_caches, store/sqlite.rs): an
\* entity that loses a key while it lives keeps no name row.
SplitForgetsNames ==
  [][\A c \in LiveCids :
       Live(c)' /\ ~ (Members(c) \subseteq Members(c)')
         => /\ \A row \in nameIndex' : row[2] # c
            /\ \A n \in Names : unique'[n] # c]_vars
=============================================================================
