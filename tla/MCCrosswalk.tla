---------------------------- MODULE MCCrosswalk ----------------------------
(***************************************************************************)
(* Small instances of Crosswalk: a film known by a Wikidata id (q) and two *)
(* IMDb ids (m1, m2), and domains (d1, d2, d3) any of them may share.      *)
(***************************************************************************)
EXTENDS Crosswalk, TLC

CONSTANTS q, m1, m2, d1, d2, d3, p, n

\* kind.rs: wikidata 0, domain 2, imdb has no anchor rank (200).
MCKind == (q :> "wikidata") @@ (m1 :> "imdb") @@ (m2 :> "imdb") @@
          (d1 :> "domain") @@ (d2 :> "domain") @@ (d3 :> "domain")
MCRank == (q :> 0) @@ (m1 :> 200) @@ (m2 :> 200) @@
          (d1 :> 2) @@ (d2 :> 2) @@ (d3 :> 2)
MCPos  == (d1 :> 1) @@ (d2 :> 2) @@ (d3 :> 3) @@ (m1 :> 4) @@ (m2 :> 5) @@ (q :> 6)
\* The hash order is not the key order.
MCHash == (d2 :> 1) @@ (m2 :> 2) @@ (q :> 3) @@ (d1 :> 4) @@ (m1 :> 5) @@ (d3 :> 6)

OnKeys(f) == [k \in StrongKeys |-> f[k]]
KindOnKeys == OnKeys(MCKind)
RankOnKeys == OnKeys(MCRank)
PosOnKeys == OnKeys(MCPos)
HashOnKeys == OnKeys(MCHash)

RecordsUpTo(size) ==
  [ids : {S \in SUBSET StrongKeys : Cardinality(S) <= size}, phones : SUBSET Phones]

SmallRecords == RecordsUpTo(3)
PairRecords == RecordsUpTo(2)
=============================================================================
