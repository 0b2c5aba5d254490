------------------------------- MODULE MCNames -------------------------------
(***************************************************************************)
(* Two organizations of one name (q1, q2) and a website (d) they may       *)
(* share, a place of that name (g) and its Placekey (k); a film (t1) and a *)
(* series only a URL stands for (u).                                       *)
(***************************************************************************)
EXTENDS NameRequest, TLC

CONSTANTS t1, q1, q2, d, g, k, u, tel, n, x, y, p1, p2, b

\* kind.rs: wikidata 0, placekey 1, domain 2, google_place_id 3, url 5; tmdb unranked.
MCKind == (t1 :> "tmdb") @@ (q1 :> "wikidata") @@ (q2 :> "wikidata")
  @@ (d :> "domain") @@ (g :> "google_place_id") @@ (k :> "placekey") @@ (u :> "url")
MCRank == (t1 :> 200) @@ (q1 :> 0) @@ (q2 :> 0) @@ (d :> 2) @@ (g :> 3)
  @@ (k :> 1) @@ (u :> 5)
MCPos == (d :> 1) @@ (g :> 2) @@ (k :> 3) @@ (t1 :> 4) @@ (u :> 5)
  @@ (q1 :> 6) @@ (q2 :> 7)

OnKeys(f) == [j \in StrongKeys |-> f[j]]
KindOnKeys == OnKeys(MCKind)
RankOnKeys == OnKeys(MCRank)
PosOnKeys == OnKeys(MCPos)
HashOnKeys == [j \in StrongKeys |-> 9 - MCPos[j]]

OneBucket == [p \in Clients |-> b]
\* The hub describes one of the items by the qualifier x.
Described == [j \in StrongKeys |-> IF j = q1 THEN {x} ELSE {}]

Request(ids, title, quals, type) ==
  [ids |-> ids, title |-> title, quals |-> quals, type |-> type, street |-> type = "place"]

\* An organization by its website and a qualified name, or by the name alone under
\* another qualifier.
SiteAndNameAsks ==
  {Request({d}, n, {x}, "org"), Request({}, n, {y}, "org")}

\* An organization by a name or by its website alone; a place of that name.
CommandAsks ==
  {Request({}, n, {x}, "org"), Request({d}, NoTitle, {}, "org"), Request({}, n, {}, "place")}

Record(ids) == [ids |-> ids, phones |-> {}]
\* A hub says that two items are one thing.
Joins == {Record({q1, q2})}

\* Ingestion: the place with a phone.
Ingested == {[ids |-> {g}, phones |-> {tel}]}

\* Films, one of them a series.
FilmAsks == {Request({}, n, {}, "film")}
=============================================================================
