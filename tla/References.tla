----------------------------- MODULE References -----------------------------
(***************************************************************************)
(* Reading a reference into a key and projecting a key back to a URL: the  *)
(* kind registry (kind.rs), the normalizers (normalize.rs), the guess      *)
(* (resolve.rs) and the request's reader (name_request.rs); and a caller   *)
(* who keeps what it is handed, respells it and sends it again.            *)
(*                                                                         *)
(* A URL is a record of its parts.  Only specific_url, registrable_domain  *)
(* and the place id recognizer parse it; the others look at the whole      *)
(* text, which is a sequence of segments: as much of each as they tell     *)
(* apart.                                                                  *)
(***************************************************************************)
EXTENDS Naturals, Sequences, FiniteSetsExt

CONSTANTS
  Others,     \* hosts of no dedicated kind, none of them Google's
  Spelled,    \* Spelled[h]: h as a segment of a text
  SiteOf,     \* SiteOf[h]: the registrable domain of h, or NoSite (an IP literal)
  Paths, Queries, Fragments,   \* sequences of segments
  NoSite, Unread

Services == {"imdb.com", "wikidata.org", "themoviedb.org", "yelp.com", "google.com"}
Hosts == Services \cup Others

\* SOCIAL.
Networks == {"facebook.com", "twitter.com", "x.com", "instagram.com", "youtube.com",
             "linkedin.com", "tiktok.com", "pinterest.com"}

Nil == "-"   \* no text

\* A segment: the separator before it; its word (the one name it contains or prefix it
\* begins with that a recognizer looks for, or another word); a number as <<leading zeros,
\* the rest>> or <<>>; its tail; whether it has capitals.
Segments ==
  [sep : {"/", "?", "=", "#"}, word : STRING, num : {<<>>} \cup (Nat \X Nat),
   tail : STRING, upper : BOOLEAN]

\* A segment is the word and nothing more.
Plain(s, word) == s.word = word /\ s.num = <<>> /\ s.tail = Nil

Separated(part, sep) ==
  part \in Seq(Segments) /\ \A i \in DOMAIN part : part[i].sep = IF i = 1 THEN sep ELSE "/"

\* A query has one parameter; a host has a dot, so it is no path word.
ASSUME ReferencesAssumption ==
  /\ Others \cap Services = {}
  /\ Spelled \in [Others -> Segments]
  /\ \A h \in Others :
       Spelled[h].sep = "/" /\ Spelled[h].num = <<>> /\ Spelled[h].word \notin {"movie", "tv", "biz"}
  /\ SiteOf \in [Others -> Others \cup {NoSite}]
  /\ \A path \in Paths : Separated(path, "/") /\ \A i \in DOMAIN path : ~ Plain(path[i], Nil)
  /\ \A query \in Queries :
       /\ query \in Seq(Segments)
       /\ \A i \in DOMAIN query :
            /\ query[i].sep = (IF i = 1 THEN "?" ELSE "/") \/ (i = 2 /\ query[i].sep = "=")
            /\ query[i].word = "place_id:" => Len(query) = 2
  /\ \A frag \in Fragments : Separated(frag, "#")
  /\ <<>> \in Queries /\ <<>> \in Fragments

Site(host) == IF host \in Services THEN host ELSE SiteOf[host]

-----------------------------------------------------------------------------
(***************************************************************************)
(* The text of a URL and what is looked for in it.                         *)
(***************************************************************************)
Word(w) == [sep |-> "/", word |-> w, num |-> <<>>, tail |-> Nil, upper |-> FALSE]
Number(prefix, num) ==
  [sep |-> "/", word |-> prefix, num |-> num, tail |-> Nil, upper |-> FALSE]

Web(url) == url.scheme \in {"http", "https"}

HostSegment(url) ==
  LET s == IF url.host \in Services THEN Word(url.host) ELSE Spelled[url.host]
  IN  IF url.port THEN [s EXCEPT !.tail = ":port"] ELSE s

\* What follows the path: the empty segment of a trailing slash, or nothing.
End(slash) == [Word(Nil) EXCEPT !.sep = IF slash THEN "/" ELSE Nil]

Text(url) ==
  <<HostSegment(url)>> \o url.path \o <<End(url.slash)>> \o url.query \o url.frag

\* The name occurs anywhere in the text: contains_host, and the test of SOCIAL.
Mentions(url, name) == \E i \in DOMAIN Text(url) : Text(url)[i].word = name

\* The first of some places, or 0.
First(places) == IF places = {} THEN 0 ELSE Min(places)

\* extract_token: the first segment of the text that begins with the prefix and is longer;
\* a host begins with "www." or with its own name.
Token(url, prefix) ==
  First({i \in DOMAIN Text(url) :
           /\ Text(url)[i].word = prefix /\ ~ Plain(Text(url)[i], prefix)
           /\ i > 1 \/ url.www = 0})

\* Where "/word/" occurs in the text, and the segment after the first.
Places(url, word) ==
  {i \in DOMAIN Text(url) :
     /\ Text(url)[i].sep = "/" /\ Plain(Text(url)[i], word)
     /\ i + 1 \in DOMAIN Text(url) /\ Text(url)[i + 1].sep = "/"}
After(url, word) == Text(url)[First(Places(url, word)) + 1]

\* The number of a segment without leading zeros.
Canonical(num) == <<0, num[2]>>

-----------------------------------------------------------------------------
(***************************************************************************)
(* The normalizers: the value of a kind in a URL, or Unread.               *)
(***************************************************************************)

\* imdb and qid: prefix and digits; zeros are kept; Q0 is not an id.
Imdb(url) ==
  LET i == Token(url, "tt")
  IN  IF i # 0 /\ Text(url)[i].num # <<>> /\ Text(url)[i].tail = Nil
        THEN <<"imdb", Text(url)[i].num>> ELSE Unread

Qid(url) ==
  LET i == Token(url, "q")
  IN  IF i # 0 /\ Text(url)[i].num # <<>> /\ Text(url)[i].tail = Nil /\ Text(url)[i].num[2] # 0
        THEN <<"wikidata", Text(url)[i].num>> ELSE Unread

\* tmdb: the number after the first /movie/, else after the first /tv/, up to a dash.
Tmdb(url) ==
  LET word == IF Places(url, "movie") # {} THEN "movie" ELSE "tv"
      s == After(url, word)
  IN  IF /\ Places(url, word) # {}
         /\ s.word = Nil /\ s.num # <<>> /\ s.tail \in {Nil, "-slug"}
         /\ s.num[2] # 0
        THEN <<"tmdb", Canonical(s.num)>> ELSE Unread

\* yelp: the segment after the first /biz/, in lower case.
Yelp(url) ==
  IF Places(url, "biz") # {} /\ ~ Plain(After(url, "biz"), Nil)
    THEN <<"yelp", [After(url, "biz") EXCEPT !.upper = FALSE]>> ELSE Unread

\* Mutant: any host is a page.
SpecificUrlUnguarded(url) ==
  IF Web(url) /\ Site(url.host) # NoSite
    THEN <<"url", [host |-> url.host, www |-> IF url.www > 0 THEN url.www - 1 ELSE 0,
                   path |-> url.path, query |-> url.query]>>
    ELSE Unread

\* specific_url: host without one "www.", path and query; no fragment, scheme, trailing
\* slash or port, whichever port it is (its comment speaks of the default one).  A bare host
\* or an IP literal is none.
SpecificUrl(url) ==
  IF Web(url) /\ Site(url.host) # NoSite /\ (url.path # <<>> \/ url.query # <<>>)
    THEN <<"url", [host |-> url.host, www |-> IF url.www > 0 THEN url.www - 1 ELSE 0,
                   path |-> url.path, query |-> url.query]>>
    ELSE Unread

\* registrable_domain.
Domain(url) ==
  IF Site(url.host) = NoSite THEN Unread ELSE <<"domain", Site(url.host)>>

\* match_google_place_id: an id in the query of a Google host.
Q == [Word("q") EXCEPT !.sep = "?"]
PlaceId(url) ==
  IF /\ Web(url) /\ url.host = "google.com"
     /\ Len(url.query) = 2 /\ url.query[1] = Q
     /\ url.query[2].sep = "=" /\ url.query[2].word = "place_id:"
     /\ ~ Plain(url.query[2], "place_id:")
    THEN <<"google_place_id", url.query[2]>> ELSE Unread

-----------------------------------------------------------------------------
(***************************************************************************)
(* guess_id_from_url.                                                      *)
(***************************************************************************)

\* match_tmdb: a film's page is known by a "/movie/" anywhere in the text.
MatchesTmdb(url) == Mentions(url, "themoviedb.org") /\ Places(url, "movie") # {}

\* match_yelp: "yelp.com/biz/".
MatchesYelp(url) ==
  \E i \in Places(url, "biz") : i > 1 /\ Plain(Text(url)[i - 1], "yelp.com")

\* The first key of a sequence of readings, or Unread.
FirstOf(readings) ==
  LET i == First({j \in DOMAIN readings : readings[j] # Unread})
  IN  IF i = 0 THEN Unread ELSE readings[i]

When(matches, k) == IF matches THEN k ELSE Unread

\* The dedicated kinds in the order of the registry: the first that matches and
\* normalizes.
Dedicated(url) ==
  FirstOf(<<PlaceId(url),
            When(Mentions(url, "imdb.com"), Imdb(url)),
            When(Mentions(url, "wikidata.org"), Qid(url)),
            When(MatchesTmdb(url), Tmdb(url)),
            When(MatchesYelp(url), Yelp(url))>>)

\* A social network's name occurs anywhere in the text.
Social(url) == \E name \in Networks : Mentions(url, name)

\* Mutant: a URL of no dedicated kind is a domain's.
GuessDomain(url) ==
  When(~ Social(url), FirstOf(<<Dedicated(url), When(Web(url), Domain(url))>>))

Guess(url) ==
  When(~ Social(url),
       FirstOf(<<Dedicated(url), When(Web(url), SpecificUrl(url)), When(Web(url), Domain(url))>>))

\* ExternalId::new of a URL under a kind that was named: what a record of ingestion or
\* --id says.
Typed(tag, url) ==
  CASE tag = "imdb"     -> Imdb(url)
    [] tag = "wikidata" -> Qid(url)
    [] tag = "tmdb"     -> Tmdb(url)
    [] tag = "yelp"     -> Yelp(url)
    [] tag = "url"      -> SpecificUrl(url)
    [] tag = "domain"   -> Domain(url)

\* parse_identifier_ref: kind:value under a registered kind, else a URL.  A stored value
\* normalizes to itself, but a url: value has no scheme and does not parse.
IsUrl(t) == "scheme" \in DOMAIN t
NoText == [ref |-> Unread]

Parse(t) ==
  IF IsUrl(t) THEN Guess(t)
  ELSE IF t.ref[1] = "url" THEN Unread ELSE t.ref

-----------------------------------------------------------------------------
(***************************************************************************)
(* DomainResolver: the identifiers of a home page.  A page is its site and *)
(* the URLs in the fields that are read; its telephones are left out.      *)
(***************************************************************************)
Fields == {"sameAs", "url", "canonical"}

\* A page is asked for by its site; a host without one is an error.
Sites == {SiteOf[host] : host \in Others} \ {NoSite}

\* The page of a site with a URL in one of the fields, in whatever node of its graph.
PageOf(site, field, url) ==
  [site |-> site, links |-> [f \in Fields |-> IF f = field THEN {url} ELSE {}]]

\* The record of a page: its site, what its sameAs links are guessed to be, and the sites of
\* its own URLs, however deep their paths; what cannot be read is skipped.
Harvest(page) ==
  ({<<"domain", page.site>>}
     \cup {Guess(url) : url \in page.links["sameAs"]}
     \cup {Domain(url) : url \in page.links["url"] \cup page.links["canonical"]}) \ {Unread}

-----------------------------------------------------------------------------
(***************************************************************************)
(* url_for_key.                                                            *)
(***************************************************************************)
Https(host, www, path, slash, query) ==
  [scheme |-> "https", www |-> www, host |-> host, port |-> FALSE, path |-> path,
   slash |-> slash, query |-> query, frag |-> <<>>]

\* is_url_safe_token, of a slug and of what follows "place_id:".
Safe(s) == s.tail # "%odd"
SafeSlug(s) == Safe(s) /\ s.word \notin {"https:", "place_id:"}

\* Mutant: the scheme is put back and nothing else is looked at.
UrlOfPageUnchecked(v) == Https(v.host, v.www, v.path, FALSE, v.query)

\* The value has a "://" in it.
Schemed(v) == \E part \in {v.path, v.query} : \E i \in DOMAIN part : part[i].word = "https:"

\* url_specific_url: only if it reads back as that value and no dedicated kind claims it.
UrlOfPage(v) ==
  LET projected == Https(v.host, v.www, v.path, FALSE, v.query)
  IN  IF ~ Schemed(v) /\ SpecificUrl(projected) = <<"url", v>> /\ Dedicated(projected) = Unread
        THEN projected ELSE NoText

UrlFor(key) ==
  LET v == key[2]
  IN  CASE key[1] = "imdb" ->
             Https("imdb.com", 1, <<Word("title"), Number("tt", v)>>, TRUE, <<>>)
        [] key[1] = "wikidata" ->
             Https("wikidata.org", 1, <<Word("wiki"), Number("q", v)>>, FALSE, <<>>)
        [] key[1] = "tmdb" ->
             Https("themoviedb.org", 1, <<Word("movie"), Number(Nil, v)>>, FALSE, <<>>)
        [] key[1] = "yelp" ->
             IF SafeSlug(v) THEN Https("yelp.com", 1, <<Word("biz"), v>>, FALSE, <<>>) ELSE NoText
        [] key[1] = "google_place_id" ->
             IF Safe(v)
               THEN Https("google.com", 1, <<Word("maps"), Word("place")>>, TRUE, <<Q, v>>)
               ELSE NoText
        [] key[1] = "url" -> UrlOfPage(v)
        [] key[1] = "domain" -> NoText

-----------------------------------------------------------------------------
(***************************************************************************)
(* A caller with a reference.                                              *)
(***************************************************************************)
VARIABLES
  text,   \* what it holds
  key,    \* what that was last read as
  home    \* history: the first key it had

refVars == <<text, key, home>>

\* The URLs people write: no fragment and no slash at first, a place id only at Google.
Urls ==
  {url \in [scheme : {"https", "ftp"}, www : {1}, host : Hosts, port : BOOLEAN,
            path : Paths, slash : {FALSE}, query : Queries, frag : {<<>>}] :
     (\E i \in DOMAIN url.query : url.query[i].word = "place_id:") => url.host = "google.com"}

ReferencesInit == text \in Urls /\ key = Unread /\ home = Unread

Reads(k) == key' = k /\ home' = IF home = Unread THEN k ELSE home

\* A request names it.
Read == text # NoText /\ Reads(Parse(text)) /\ UNCHANGED text

\* A record gives the URL under a kind it names, and is ingested; the caller learns of
\* the key from a later answer.
ReadTyped ==
  /\ home = Unread /\ IsUrl(text)
  /\ \E tag \in {"imdb", "wikidata", "tmdb", "yelp", "url", "domain"} :
       Typed(tag, text) # Unread /\ Reads(Typed(tag, text))
  /\ text' = NoText

\* A page that has the URL is harvested and committed (resolve --domain with a fixture or
\* --fetch), and the answer lists the keys.
ReadPage ==
  /\ home = Unread /\ IsUrl(text)
  /\ \E site \in Sites, field \in Fields :
       \E k \in Harvest(PageOf(site, field, text)) : Reads(k)
  /\ text' = NoText

\* It keeps the ref or the URL of the answer.
TakeRef == key # Unread /\ text' = [ref |-> key] /\ UNCHANGED <<key, home>>
TakeUrl ==
  /\ key # Unread
  /\ UrlFor(key) # NoText /\ text' = UrlFor(key)
  /\ UNCHANGED <<key, home>>

\* It writes the URL in another way.
Respell ==
  /\ IsUrl(text) /\ Web(text)
  /\ \/ text' = [text EXCEPT !.scheme = IF @ = "http" THEN "https" ELSE "http"]
     \/ text' = [text EXCEPT !.www = 1 - @]
     \/ text.path # <<>> /\ text' = [text EXCEPT !.slash = ~ @]
     \/ \E frag \in Fragments : text' = [text EXCEPT !.frag = frag]
  /\ UNCHANGED <<key, home>>

ReferencesNext == Read \/ ReadTyped \/ ReadPage \/ TakeRef \/ TakeUrl \/ Respell

ReferencesSpec == ReferencesInit /\ [][ReferencesNext]_refVars

-----------------------------------------------------------------------------
(***************************************************************************)
(* Properties.                                                             *)
(***************************************************************************)

\* Whatever the caller takes from an answer, respells and sends again is read as the key
\* it had first, or not at all: "otherwise a user picking a candidate would silently
\* bind to a different key than the one they chose" (kind.rs).
KeySticks == key \in {Unread, home}

\* ... and it is read: the URL of a key comes back as that key, unless a social
\* network's name occurs in it.
UrlsComeBack ==
  home # Unread /\ UrlFor(home) # NoText /\ ~ Social(UrlFor(home)) =>
    Guess(UrlFor(home)) = home

\* A bare host never names one thing: only the affiliation kind may be read from it, by a
\* request or in any field of a page (specific_url, "THE guard").
SitesNameNoThing ==
  IsUrl(text) /\ text.path = <<>> /\ text.query = <<>> =>
    /\ Guess(text) = Unread \/ Guess(text)[1] = "domain"
    /\ \A site \in Sites, field \in Fields :
         \A k \in Harvest(PageOf(site, field, text)) : k[1] = "domain"
=============================================================================
