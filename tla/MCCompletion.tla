---------------------------- MODULE MCCompletion ----------------------------
(***************************************************************************)
(* A film by its three ids (q, m1, t) and a place (g), which may share a   *)
(* domain and a phone.                                                     *)
(***************************************************************************)
EXTENDS Completion, TLC

CONSTANTS q, m1, t, g, d1, p

\* kind.rs: wikidata 0, domain 2, google_place_id 3; imdb and tmdb have no rank (200).
FilmKind == (q :> "wikidata") @@ (m1 :> "imdb") @@ (t :> "tmdb")
              @@ (g :> "google_place_id") @@ (d1 :> "domain")
FilmRank == (q :> 0) @@ (m1 :> 200) @@ (t :> 200) @@ (g :> 3) @@ (d1 :> 2)
FilmPos  == (d1 :> 1) @@ (g :> 2) @@ (m1 :> 3) @@ (t :> 4) @@ (q :> 5)
FilmHash == (t :> 1) @@ (d1 :> 2) @@ (q :> 3) @@ (m1 :> 4) @@ (g :> 5)

OnKeys(f) == [k \in StrongKeys |-> f[k]]
KindOnKeys == OnKeys(FilmKind)
RankOnKeys == OnKeys(FilmRank)
PosOnKeys == OnKeys(FilmPos)
HashOnKeys == OnKeys(FilmHash)

\* The command line asks for three hops and may spend; the Worker's identifier step
\* commits strictly and takes one free hop.
CliAndWorker ==
  {[hops |-> 3, free |-> FALSE, strict |-> FALSE],
   [hops |-> 1, free |-> TRUE, strict |-> TRUE]}

\* One identifier, or the film by two.
SeedRecords == [ids : {{k} : k \in StrongKeys} \cup {{m1, t}}, phones : {{}}]

\* What others commit meanwhile: the film by two of its ids, the domain alone.
OtherRecords == [ids : {{q, m1}, {d1}}, phones : {{}}]

\* Up to three keys; a phone with the place, alone or with the domain.
Answers ==
  [ids : {S \in SUBSET StrongKeys : Cardinality(S) \in 1 .. 3}, phones : {{}}]
    \cup [ids : {{g}, {g, d1}}, phones : {{p}}]
=============================================================================
