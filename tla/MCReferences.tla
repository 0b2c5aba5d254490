---------------------------- MODULE MCReferences ----------------------------
(***************************************************************************)
(* Pages of five services, of a site and one of its tenants, of hosts      *)
(* whose names contain or begin like what a recognizer looks for, and of   *)
(* an address.                                                             *)
(***************************************************************************)
EXTENDS References, TLC

Segment(sep, word, num, tail, upper) ==
  [sep |-> sep, word |-> word, num |-> num, tail |-> tail, upper |-> upper]

Seven == <<0, 7>>
Slug == Segment("/", Nil, <<>>, "slug", FALSE)
SomePaths ==
  {<<>>,
   <<Word("title"), Number("tt", Seven)>>,
   <<Word("title"), Number("tt", <<1, 7>>)>>,
   <<Segment("/", "tt", <<>>, "s", FALSE), Number("tt", Seven)>>,
   <<Word("wiki"), Number("q", Seven)>>,
   <<Word("wiki"), Segment("/", "q", <<>>, "uebec", TRUE)>>,
   <<Word("wiki"), Number("q", <<0, 0>>)>>,
   <<Word("movie"), Number(Nil, Seven)>>,
   <<Word("movie"), Segment("/", Nil, <<1, 7>>, "-slug", FALSE)>>,
   <<Word("tv"), Number(Nil, Seven)>>,
   <<Word("biz"), Slug>>,
   <<Word("biz"), [Slug EXCEPT !.upper = TRUE]>>,
   <<Word("biz"), [Slug EXCEPT !.tail = "%odd"]>>,
   <<Word("imdb.com"), Number("tt", Seven)>>,
   <<Word("yelp.com"), Word("biz"), Slug>>}

\* A position on a page, and a film's path after a "#".
Reviews == <<Segment("#", "reviews", <<>>, Nil, FALSE)>>
FilmInFragment == <<Segment("#", Nil, <<>>, Nil, FALSE), Word("movie"), Number(Nil, <<0, 8>>)>>
InertFragments == {<<>>, Reviews}
FilmFragments == {<<>>, FilmInFragment}

\* Parameters: a plain one, the way back to a film's page, a link to a title, an id.
Parameter(name, value) == <<Segment("?", name, <<>>, Nil, FALSE), [value EXCEPT !.sep = "="]>>
Back == Parameter("back", Word(Nil)) \o <<Word("movie"), Number(Nil, <<0, 8>>)>>
PlaceQuery(id) == Parameter("q", Segment("=", "place_id:", <<>>, id, FALSE))
SomeQueries ==
  {<<>>, Parameter("cid", Number(Nil, Seven)), Back,
   Parameter("u", Word("https:")) \o <<Word(Nil), Word("imdb.com"), Number("tt", <<0, 8>>)>>,
   PlaceQuery("x"), PlaceQuery("%odd")}

OtherHosts == {"site.com", "tenant.site.com", "netflix.com", "notyelp.com", "1.2.3.4"}
SpelledAs ==
  [h \in OtherHosts |->
     Word(CASE h = "netflix.com" -> "x.com" [] h = "notyelp.com" -> "yelp.com" [] OTHER -> h)]
SitesOf ==
  ("tenant.site.com" :> "site.com") @@ ("1.2.3.4" :> NoSite) @@ [h \in OtherHosts |-> h]

\* What the specific pages of MCReferencesRespelled are: a series', one at the end of which
\* a slash makes the text Yelp's, and one where only "www." hides that the host begins with
\* a Q.
MarkedPaths ==
  {<<Word("tv"), Number(Nil, Seven)>>,
   <<Word("biz"), Slug, Word("yelp.com"), Word("biz")>>,
   <<Word("entity"), Word("wikidata.org"), Number("q", Seven)>>}
MarkedHosts == {"site.com", "quora.com"}
MarkedSpelled ==
  ("quora.com" :> Segment("/", "q", <<>>, "uora.com", FALSE)) @@ [h \in MarkedHosts |-> Word(h)]
MarkedSites == [h \in MarkedHosts |-> h]
NoQueries == {<<>>}
=============================================================================
