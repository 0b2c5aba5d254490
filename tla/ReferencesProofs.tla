-------------------------- MODULE ReferencesProofs --------------------------
(***************************************************************************)
(* Theorems about references, for any hosts, paths and queries: what a URL *)
(* may name, that a key comes back as itself, and on what that depends     *)
(* when the URL is respelled.                                              *)
(***************************************************************************)
EXTENDS References, WellFoundedInduction, SequenceTheorems, TLAPS

-----------------------------------------------------------------------------
(***************************************************************************)
(* The first of several.                                                   *)
(***************************************************************************)

\* First is the least place, or 0 for none.
LEMMA FirstIs ==
  ASSUME NEW n \in Nat, NEW S \in SUBSET (1 .. n)
  PROVE  /\ S = {} => First(S) = 0
         /\ S # {} => First(S) \in S /\ \A i \in S : First(S) <= i
<1>1. CASE S = {}
  BY <1>1 DEF First
<1>2. CASE S # {}
  <2>1. PICK R : R = OpToRel(<, Nat)
    OBVIOUS
  <2>2. IsWellFoundedOn(R, Nat)
    BY <2>1, NatLessThanWellFounded
  <2>3. S \subseteq Nat
    OBVIOUS
  <2>4. PICK m \in S : \A i \in S : ~ (<<i, m>> \in R)
    BY <1>2, <2>2, <2>3, WFMin, Zenon
  <2>5. \A i \in S : i < m => <<i, m>> \in R
    BY <2>1, <2>3 DEF OpToRel
  <2>6. \A i \in S : ~ (i < m)
    BY <2>4, <2>5
  <2>7. \A i \in S : m <= i
    <3>1. m \in Nat /\ \A i \in S : i \in Nat
      BY <2>3
    <3> QED BY <2>6, <3>1
  <2>8. \E x \in S : \A y \in S : x =< y
    BY <2>7
  <2> QED BY <1>2, <2>8 DEF First, Min
<1> QED BY <1>1, <1>2

\* FirstOf is the first reading that is a key.
LEMMA FirstOfThree ==
  ASSUME NEW a, NEW b, NEW c
  PROVE  FirstOf(<<a, b, c>>) = IF a # Unread THEN a ELSE IF b # Unread THEN b ELSE c
<1> DEFINE r == <<a, b, c>>
           S == {j \in DOMAIN r : r[j] # Unread}
           f == First(S)
<1>1. DOMAIN r = 1 .. 3 /\ r[1] = a /\ r[2] = b /\ r[3] = c
  OBVIOUS
<1>2. S \in SUBSET (1 .. 3)
  BY <1>1
<1>3. FirstOf(r) = IF f = 0 THEN Unread ELSE r[f]
  BY DEF FirstOf
<1>4. \A j : j \in S <=> j \in 1 .. 3 /\ r[j] # Unread
  BY <1>1
<1>5. /\ S = {} => f = 0
      /\ S # {} => f \in S /\ \A i \in S : f <= i
  BY <1>2, FirstIs
<1> HIDE DEF S, r, f
<1>6. \A j \in S : j = 1 \/ j = 2 \/ j = 3
  BY <1>4
<1>7. 1 \in S <=> a # Unread
  BY <1>1, <1>4
<1>8. 2 \in S <=> b # Unread
  BY <1>1, <1>4
<1>9. 3 \in S <=> c # Unread
  BY <1>1, <1>4
<1>10. FirstOf(r) = IF a # Unread THEN a ELSE IF b # Unread THEN b ELSE c
  <2>1. CASE S = {}
    BY <1>3, <1>5, <1>7, <1>8, <1>9, <2>1
  <2>2. CASE S # {}
    <3>1. f \in S /\ (\A i \in S : f <= i) /\ (f = 1 \/ f = 2 \/ f = 3)
      BY <1>5, <1>6, <2>2
    <3>2. (1 \in S => f <= 1) /\ (2 \in S => f <= 2)
      BY <3>1
    <3>3. CASE f = 1
      BY <1>1, <1>3, <1>7, <3>1, <3>3
    <3>4. CASE f = 2
      <4>1. 1 \notin S
        BY <3>2, <3>4
      <4> QED BY <1>1, <1>3, <1>7, <1>8, <3>1, <3>4, <4>1
    <3>5. CASE f = 3
      <4>1. 1 \notin S /\ 2 \notin S
        BY <3>2, <3>5
      <4> QED BY <1>1, <1>3, <1>7, <1>8, <1>9, <3>1, <3>5, <4>1
    <3> QED BY <3>1, <3>3, <3>4, <3>5
  <2> QED BY <2>1, <2>2
<1> QED BY <1>10 DEF r

\* The same of five readings.
LEMMA FirstOfFive ==
  ASSUME NEW a, NEW b, NEW c, NEW d, NEW e
  PROVE  FirstOf(<<a, b, c, d, e>>) =
           IF a # Unread THEN a ELSE IF b # Unread THEN b ELSE IF c # Unread THEN c
           ELSE IF d # Unread THEN d ELSE e
<1> DEFINE r == <<a, b, c, d, e>>
           S == {j \in DOMAIN r : r[j] # Unread}
           f == First(S)
<1>1. DOMAIN r = 1 .. 5 /\ r[1] = a /\ r[2] = b /\ r[3] = c /\ r[4] = d /\ r[5] = e
  OBVIOUS
<1>2. S \in SUBSET (1 .. 5)
  BY <1>1
<1>3. FirstOf(r) = IF f = 0 THEN Unread ELSE r[f]
  BY DEF FirstOf
<1>4. \A j : j \in S <=> j \in 1 .. 5 /\ r[j] # Unread
  BY <1>1
<1>5. /\ S = {} => f = 0
      /\ S # {} => f \in S /\ \A i \in S : f <= i
  BY <1>2, FirstIs
<1> HIDE DEF S, r, f
<1>6. \A j \in S : j = 1 \/ j = 2 \/ j = 3 \/ j = 4 \/ j = 5
  BY <1>4
<1>7. /\ 1 \in S <=> a # Unread
      /\ 2 \in S <=> b # Unread
      /\ 3 \in S <=> c # Unread
      /\ 4 \in S <=> d # Unread
      /\ 5 \in S <=> e # Unread
  BY <1>1, <1>4
<1>8. FirstOf(r) =
        IF a # Unread THEN a ELSE IF b # Unread THEN b ELSE IF c # Unread THEN c
        ELSE IF d # Unread THEN d ELSE e
  <2>1. CASE S = {}
    BY <1>3, <1>5, <1>7, <2>1
  <2>2. CASE S # {}
    <3>1. f \in S /\ (\A i \in S : f <= i) /\ (f = 1 \/ f = 2 \/ f = 3 \/ f = 4 \/ f = 5)
      BY <1>5, <1>6, <2>2
    <3>2. (1 \in S => f <= 1) /\ (2 \in S => f <= 2) /\ (3 \in S => f <= 3) /\ (4 \in S => f <= 4)
      BY <3>1
    <3>3. CASE f = 1
      BY <1>1, <1>3, <1>7, <3>1, <3>3
    <3>4. CASE f = 2
      <4>1. 1 \notin S
        BY <3>2, <3>4
      <4> QED BY <1>1, <1>3, <1>7, <3>1, <3>4, <4>1
    <3>5. CASE f = 3
      <4>1. 1 \notin S /\ 2 \notin S
        BY <3>2, <3>5
      <4> QED BY <1>1, <1>3, <1>7, <3>1, <3>5, <4>1
    <3>6. CASE f = 4
      <4>1. 1 \notin S /\ 2 \notin S /\ 3 \notin S
        BY <3>2, <3>6
      <4> QED BY <1>1, <1>3, <1>7, <3>1, <3>6, <4>1
    <3>7. CASE f = 5
      <4>1. 1 \notin S /\ 2 \notin S /\ 3 \notin S /\ 4 \notin S
        BY <3>2, <3>7
      <4> QED BY <1>1, <1>3, <1>7, <3>1, <3>7, <4>1
    <3> QED BY <3>1, <3>3, <3>4, <3>5, <3>6, <3>7
  <2> QED BY <2>1, <2>2
<1> QED BY <1>8 DEF r

-----------------------------------------------------------------------------
(***************************************************************************)
(* What a URL is guessed to be.                                            *)
(***************************************************************************)

\* The guess, unfolded in the order of the registry.
LEMMA GuessUnfolds ==
  ASSUME NEW url
  PROVE  /\ Dedicated(url) =
              IF PlaceId(url) # Unread THEN PlaceId(url)
              ELSE IF Mentions(url, "imdb.com") /\ Imdb(url) # Unread THEN Imdb(url)
              ELSE IF Mentions(url, "wikidata.org") /\ Qid(url) # Unread THEN Qid(url)
              ELSE IF MatchesTmdb(url) /\ Tmdb(url) # Unread THEN Tmdb(url)
              ELSE IF MatchesYelp(url) THEN Yelp(url) ELSE Unread
         /\ Guess(url) =
              IF Social(url) THEN Unread
              ELSE IF Dedicated(url) # Unread THEN Dedicated(url)
              ELSE IF Web(url) /\ SpecificUrl(url) # Unread THEN SpecificUrl(url)
              ELSE IF Web(url) THEN Domain(url) ELSE Unread
<1>1. Dedicated(url) =
        IF PlaceId(url) # Unread THEN PlaceId(url)
        ELSE IF When(Mentions(url, "imdb.com"), Imdb(url)) # Unread
          THEN When(Mentions(url, "imdb.com"), Imdb(url))
        ELSE IF When(Mentions(url, "wikidata.org"), Qid(url)) # Unread
          THEN When(Mentions(url, "wikidata.org"), Qid(url))
        ELSE IF When(MatchesTmdb(url), Tmdb(url)) # Unread
          THEN When(MatchesTmdb(url), Tmdb(url))
        ELSE When(MatchesYelp(url), Yelp(url))
  BY FirstOfFive DEF Dedicated
<1>2. FirstOf(<<Dedicated(url), When(Web(url), SpecificUrl(url)), When(Web(url), Domain(url))>>) =
        IF Dedicated(url) # Unread THEN Dedicated(url)
        ELSE IF When(Web(url), SpecificUrl(url)) # Unread THEN When(Web(url), SpecificUrl(url))
        ELSE When(Web(url), Domain(url))
  BY FirstOfThree
<1>4. Dedicated(url) =
        IF PlaceId(url) # Unread THEN PlaceId(url)
        ELSE IF Mentions(url, "imdb.com") /\ Imdb(url) # Unread THEN Imdb(url)
        ELSE IF Mentions(url, "wikidata.org") /\ Qid(url) # Unread THEN Qid(url)
        ELSE IF MatchesTmdb(url) /\ Tmdb(url) # Unread THEN Tmdb(url)
        ELSE IF MatchesYelp(url) THEN Yelp(url) ELSE Unread
  BY <1>1, Zenon DEF When
<1>3. Guess(url) =
        IF Social(url) THEN Unread
        ELSE IF Dedicated(url) # Unread THEN Dedicated(url)
        ELSE IF Web(url) /\ SpecificUrl(url) # Unread THEN SpecificUrl(url)
        ELSE IF Web(url) THEN Domain(url) ELSE Unread
  BY <1>2, Zenon DEF When, Guess
<1> QED BY <1>3, <1>4

-----------------------------------------------------------------------------
(***************************************************************************)
(* Texts.                                                                  *)
(***************************************************************************)

\* Two sequences one after the other.
Follows(t, a, b) ==
  /\ Len(t) = Len(a) + Len(b)
  /\ \A i \in 1 .. Len(a) + Len(b) : t[i] = IF i <= Len(a) THEN a[i] ELSE b[i - Len(a)]

LEMMA TwoInARow ==
  ASSUME NEW S, NEW a, NEW b, a \in Seq(S), b \in Seq(S)
  PROVE  a \o b \in Seq(S) /\ Follows(a \o b, a, b)
BY ConcatProperties DEF Follows

\* Five, the first and the third of one element.
Together(x, b, y, d, e) == <<x>> \o b \o <<y>> \o d \o e

InOrder(t, x, b, y, d, e) ==
  /\ DOMAIN t = 1 .. Len(b) + Len(d) + Len(e) + 2
  /\ t[1] = x
  /\ \A i \in 1 .. Len(b) : t[i + 1] = b[i]
  /\ t[Len(b) + 2] = y
  /\ \A i \in 1 .. Len(d) : t[Len(b) + 2 + i] = d[i]
  /\ \A i \in 1 .. Len(e) : t[Len(b) + 2 + Len(d) + i] = e[i]

LEMMA FiveInARow ==
  ASSUME NEW S, NEW x, NEW b, NEW y, NEW d, NEW e,
         x \in S, b \in Seq(S), y \in S, d \in Seq(S), e \in Seq(S)
  PROVE  InOrder(Together(x, b, y, d, e), x, b, y, d, e)
<1>1. PICK u : u = <<x>>
  OBVIOUS
<1>2. PICK v : v = <<y>>
  OBVIOUS
<1>3. u \in Seq(S) /\ Len(u) = 1 /\ u[1] = x /\ v \in Seq(S) /\ Len(v) = 1 /\ v[1] = y
  BY <1>1, <1>2
<1>4. PICK p : p = u \o b
  OBVIOUS
<1>5. PICK q : q = p \o v
  OBVIOUS
<1>6. PICK r : r = q \o d
  OBVIOUS
<1>7. PICK t : t = r \o e
  OBVIOUS
<1>8. p \in Seq(S) /\ Follows(p, u, b)
  BY <1>3, <1>4, TwoInARow, Zenon
<1>9. q \in Seq(S) /\ Follows(q, p, v)
  BY <1>3, <1>5, <1>8, TwoInARow, Zenon
<1>10. r \in Seq(S) /\ Follows(r, q, d)
  BY <1>6, <1>9, TwoInARow, Zenon
<1>11. t \in Seq(S) /\ Follows(t, r, e)
  BY <1>7, <1>10, TwoInARow, Zenon
<1>12. Len(b) \in Nat /\ Len(d) \in Nat /\ Len(e) \in Nat
  OBVIOUS
<1>13. Len(p) = Len(b) + 1 /\ Len(q) = Len(b) + 2 /\ Len(r) = Len(b) + 2 + Len(d)
  BY <1>3, <1>8, <1>9, <1>10, <1>12 DEF Follows
<1>14. \A i \in 1 .. Len(b) + 2 + Len(d) : t[i] = r[i]
  BY <1>11, <1>12, <1>13 DEF Follows
<1>15. \A i \in 1 .. Len(b) + 2 : t[i] = q[i]
  BY <1>10, <1>12, <1>13, <1>14 DEF Follows
<1>16. ASSUME NEW i \in 1 .. Len(b) + 1
       PROVE  t[i] = p[i]
  <2>1. i \in 1 .. Len(p) + Len(v) /\ i <= Len(p) /\ i \in 1 .. Len(b) + 2
    BY <1>3, <1>12, <1>13
  <2>2. q[i] = p[i]
    BY <1>9, <2>1 DEF Follows
  <2> QED BY <1>15, <2>1, <2>2
<1>17. t[1] = x
  BY <1>3, <1>8, <1>12, <1>16 DEF Follows
<1>18. ASSUME NEW i \in 1 .. Len(b)
       PROVE  t[i + 1] = b[i]
  <2>1. i + 1 \in 1 .. Len(b) + 1 /\ ~ (i + 1 <= 1) /\ (i + 1) - 1 = i
    BY <1>12
  <2>2. p[i + 1] = b[(i + 1) - 1]
    BY <1>3, <1>8, <1>12, <2>1 DEF Follows
  <2> QED BY <1>16, <2>1, <2>2
<1>19. t[Len(b) + 2] = y
  <2>1. Len(b) + 2 \in 1 .. Len(b) + 2 /\ (Len(b) + 2) - Len(p) = 1 /\ ~ (Len(b) + 2 <= Len(p))
    BY <1>12, <1>13
  <2>2. q[Len(b) + 2] = v[1]
    BY <1>3, <1>9, <1>12, <1>13, <2>1 DEF Follows
  <2> QED BY <1>3, <1>15, <2>1, <2>2
<1>20. ASSUME NEW i \in 1 .. Len(d)
       PROVE  t[Len(b) + 2 + i] = d[i]
  <2>1. PICK j : j = Len(b) + 2 + i
    OBVIOUS
  <2>2. j \in 1 .. Len(b) + 2 + Len(d) /\ j - Len(q) = i /\ ~ (j <= Len(q))
    BY <1>12, <1>13, <2>1
  <2>3. r[j] = d[i]
    BY <1>10, <1>13, <2>2 DEF Follows
  <2>4. t[j] = d[i]
    BY <1>14, <2>2, <2>3
  <2> QED BY <2>1, <2>4
<1>21. ASSUME NEW i \in 1 .. Len(e)
       PROVE  t[Len(b) + 2 + Len(d) + i] = e[i]
  <2>1. PICK j : j = Len(b) + 2 + Len(d) + i
    OBVIOUS
  <2>2. j \in 1 .. Len(r) + Len(e) /\ j - Len(r) = i /\ ~ (j <= Len(r))
    BY <1>12, <1>13, <2>1
  <2>3. t[j] = e[i]
    BY <1>11, <2>2 DEF Follows
  <2> QED BY <2>1, <2>3
<1>22. DOMAIN t = 1 .. Len(b) + Len(d) + Len(e) + 2
  <2>1. DOMAIN t = 1 .. Len(t)
    BY <1>11
  <2>2. Len(t) = Len(b) + Len(d) + Len(e) + 2
    BY <1>11, <1>12, <1>13 DEF Follows
  <2> QED BY <2>1, <2>2
<1>23. t = Together(x, b, y, d, e)
  BY <1>1, <1>2, <1>4, <1>5, <1>6, <1>7, Zenon DEF Together
<1>24. InOrder(t, x, b, y, d, e)
  BY <1>17, <1>18, <1>19, <1>20, <1>21, <1>22 DEF InOrder
<1> QED BY <1>23, <1>24, Zenon

\* A segment, and a row of segments: a path, a query or a fragment.
IsSegment(s) ==
  /\ s = [sep |-> s.sep, word |-> s.word, num |-> s.num, tail |-> s.tail, upper |-> s.upper]
  /\ s.num = <<>> \/ s.num \in Nat \X Nat

IsRow(row) ==
  /\ \E S : row \in Seq(S)
  /\ \A i \in 1 .. Len(row) : IsSegment(row[i])

\* A URL as the caller may hold it.
IsLink(url) ==
  /\ url = [scheme |-> url.scheme, www |-> url.www, host |-> url.host, port |-> url.port,
            path |-> url.path, slash |-> url.slash, query |-> url.query, frag |-> url.frag]
  /\ url.www \in {0, 1} /\ url.host \in Hosts
  /\ IsRow(url.path) /\ IsRow(url.query) /\ url.frag \in Fragments

\* The segments of the model are segments, and so are its sequences.
LEMMA RowsAreRows ==
  ASSUME NEW row \in Seq(Segments)
  PROVE  IsRow(row)
<1>1. \A i \in 1 .. Len(row) : row[i] \in Segments
  OBVIOUS
<1>2. ASSUME NEW s \in Segments
      PROVE  IsSegment(s)
  <2>1. s.num \in {<<>>} \cup (Nat \X Nat)
    BY DEF Segments
  <2>2. s = [sep |-> s.sep, word |-> s.word, num |-> s.num, tail |-> s.tail, upper |-> s.upper]
    BY DEF Segments
  <2> QED BY <2>1, <2>2 DEF IsSegment
<1> QED BY <1>1, <1>2 DEF IsRow

\* A fragment is a row that begins after a "#".
LEMMA FragmentsAreRows ==
  ASSUME NEW frag \in Fragments
  PROVE  IsRow(frag) /\ \A i \in 1 .. Len(frag) : i = 1 => frag[i].sep = "#"
<1>1. frag \in Seq(Segments) /\ \A i \in DOMAIN frag : frag[i].sep = IF i = 1 THEN "#" ELSE "/"
  BY ReferencesAssumption DEF Separated
<1> QED BY <1>1, RowsAreRows

\* A segment with another separator, and with another tail.
LEMMA SeparatorIs ==
  ASSUME NEW a, NEW b, NEW c, NEW d, NEW e, NEW x,
         NEW s, s = [sep |-> a, word |-> b, num |-> c, tail |-> d, upper |-> e]
  PROVE  /\ [s EXCEPT !.sep = x] = [sep |-> x, word |-> b, num |-> c, tail |-> d, upper |-> e]
         /\ [s EXCEPT !.tail = x] = [sep |-> a, word |-> b, num |-> c, tail |-> x, upper |-> e]
         /\ [s EXCEPT !.upper = x] = [sep |-> a, word |-> b, num |-> c, tail |-> d, upper |-> x]
OBVIOUS

\* Words are segments, and so are words with a number.
LEMMA WordIs ==
  ASSUME NEW w, NEW s, s = Word(w)
  PROVE  IsSegment(s) /\ s.sep = "/" /\ s.word = w /\ s.num = <<>> /\ s.tail = Nil
<1>1. s = [sep |-> "/", word |-> w, num |-> <<>>, tail |-> Nil, upper |-> FALSE]
  BY DEF Word
<1>2. s.sep = "/" /\ s.word = w /\ s.num = <<>> /\ s.tail = Nil /\ s.upper = FALSE
  BY <1>1
<1> QED BY <1>1, <1>2 DEF IsSegment

LEMMA NumberIs ==
  ASSUME NEW w, NEW n, n \in Nat \X Nat, NEW s, s = Number(w, n)
  PROVE  IsSegment(s) /\ s.sep = "/" /\ s.word = w /\ s.num = n /\ s.tail = Nil
<1>1. s = [sep |-> "/", word |-> w, num |-> n, tail |-> Nil, upper |-> FALSE]
  BY DEF Number
<1>2. s.sep = "/" /\ s.word = w /\ s.num = n /\ s.tail = Nil /\ s.upper = FALSE
  BY <1>1
<1> QED BY <1>1, <1>2 DEF IsSegment

\* A host is a segment without a number, and not one of the words of a path.
LEMMA HostIsASegment ==
  ASSUME NEW url, url.host \in Hosts
  PROVE  /\ HostSegment(url).num = <<>>
         /\ HostSegment(url).word \notin {"movie", "tv", "biz"}
         /\ url.host \in Services => HostSegment(url).word = url.host
         /\ url.host \in Services /\ ~ url.port => Plain(HostSegment(url), url.host)
<1>1. PICK s : s = IF url.host \in Services THEN Word(url.host) ELSE Spelled[url.host]
  OBVIOUS
<1>2. /\ s = [sep |-> s.sep, word |-> s.word, num |-> s.num, tail |-> s.tail, upper |-> s.upper]
      /\ s.num = <<>> /\ s.word \notin {"movie", "tv", "biz"}
      /\ url.host \in Services => s.word = url.host /\ s.tail = Nil
  <2>1. CASE url.host \in Services
    <3>1. IsSegment(s) /\ s.word = url.host /\ s.num = <<>> /\ s.tail = Nil
      BY <1>1, <2>1, WordIs, Zenon
    <3>2. url.host \notin {"movie", "tv", "biz"}
      BY <2>1 DEF Services
    <3> QED BY <3>1, <3>2 DEF IsSegment
  <2>2. CASE url.host \notin Services
    <3>1. url.host \in Others /\ s = Spelled[url.host]
      BY <1>1, <2>2 DEF Hosts
    <3>2. s \in Segments /\ s.num = <<>> /\ s.word \notin {"movie", "tv", "biz"}
      BY <3>1, ReferencesAssumption
    <3>3. s = [sep |-> s.sep, word |-> s.word, num |-> s.num, tail |-> s.tail, upper |-> s.upper]
      BY <3>2 DEF Segments
    <3> QED BY <2>2, <3>2, <3>3
  <2> QED BY <2>1, <2>2
<1>3. HostSegment(url) = IF url.port THEN [s EXCEPT !.tail = ":port"] ELSE s
  BY <1>1 DEF HostSegment
<1>4. PICK t : t = [s EXCEPT !.tail = ":port"]
  OBVIOUS
<1>5. t = [sep |-> s.sep, word |-> s.word, num |-> s.num, tail |-> ":port", upper |-> s.upper]
  BY <1>2, <1>4, SeparatorIs
<1>6. t.num = s.num /\ t.word = s.word
  BY <1>5
<1> QED BY <1>2, <1>3, <1>4, <1>6 DEF Plain

\* What ends a path is no word.
LEMMA EndIs ==
  ASSUME NEW slash
  PROVE  /\ IsSegment(End(slash))
         /\ End(slash).word = Nil /\ End(slash).num = <<>> /\ End(slash).tail = Nil
<1>1. PICK c : c = IF slash THEN "/" ELSE Nil
  OBVIOUS
<1>2. PICK w : w = Word(Nil)
  OBVIOUS
<1>3. PICK s : s = [w EXCEPT !.sep = c]
  OBVIOUS
<1>4. w = [sep |-> "/", word |-> Nil, num |-> <<>>, tail |-> Nil, upper |-> FALSE]
  BY <1>2 DEF Word
<1>5. s = [sep |-> c, word |-> Nil, num |-> <<>>, tail |-> Nil, upper |-> FALSE]
  BY <1>3, <1>4, SeparatorIs
<1>6. End(slash) = s
  BY <1>1, <1>2, <1>3, Zenon DEF End
<1>7. s.sep = c /\ s.word = Nil /\ s.num = <<>> /\ s.tail = Nil /\ s.upper = FALSE
  BY <1>5
<1>8. IsSegment(s)
  BY <1>5, <1>7 DEF IsSegment
<1> QED BY <1>6, <1>7, <1>8, Zenon

\* A sequence is one of any more elements.
LEMMA SequencesGrow ==
  ASSUME NEW S, NEW T, S \subseteq T, NEW s \in Seq(S)
  PROVE  s \in Seq(T)
OBVIOUS

\* The text of a link, place by place.
LEMMA TextIs ==
  ASSUME NEW url, IsLink(url)
  PROVE  LET t == Text(url)
             n == Len(url.path)
             m == Len(url.query)
             f == Len(url.frag)
         IN  /\ n \in Nat /\ m \in Nat /\ f \in Nat
             /\ DOMAIN t = 1 .. n + m + f + 2
             /\ t[1] = HostSegment(url)
             /\ \A i \in 1 .. n : t[i + 1] = url.path[i]
             /\ t[n + 2] = End(url.slash)
             /\ \A i \in 1 .. m : t[n + 2 + i] = url.query[i]
             /\ \A i \in 1 .. f : t[n + 2 + m + i] = url.frag[i]
<1>1. PICK x, b, y, d, e : /\ x = HostSegment(url) /\ b = url.path /\ y = End(url.slash)
                           /\ d = url.query /\ e = url.frag
  OBVIOUS
<1>2. IsRow(b) /\ IsRow(d) /\ IsRow(e)
  BY <1>1, FragmentsAreRows DEF IsLink
<1>3. PICK B, D, E : b \in Seq(B) /\ d \in Seq(D) /\ e \in Seq(E)
  BY <1>2 DEF IsRow
<1>4. PICK S : S = B \cup D \cup E \cup {x, y}
  OBVIOUS
<1>5. B \subseteq S /\ D \subseteq S /\ E \subseteq S /\ x \in S /\ y \in S
  BY <1>4
<1>6. b \in Seq(S) /\ d \in Seq(S) /\ e \in Seq(S)
  BY <1>3, <1>5, SequencesGrow
<1>7. PICK t : t = Text(url)
  OBVIOUS
<1>8. t = Together(x, b, y, d, e)
  BY <1>1, <1>7, Zenon DEF Text, Together
<1>9. InOrder(t, x, b, y, d, e)
  BY <1>5, <1>6, <1>8, FiveInARow, Zenon
<1>10. Len(b) \in Nat /\ Len(d) \in Nat /\ Len(e) \in Nat
  BY <1>6
<1> QED BY <1>1, <1>7, <1>9, <1>10, Zenon DEF InOrder

\* The segments of a text; the host's has no number.
LEMMA TextSegments ==
  ASSUME NEW url, IsLink(url), NEW i \in DOMAIN Text(url)
  PROVE  /\ i \in Nat /\ i > 0
         /\ i = 1 => Text(url)[i] = HostSegment(url) /\ Text(url)[i].num = <<>>
         /\ i > 1 => IsSegment(Text(url)[i])
         /\ Text(url)[i].num = <<>> \/ Text(url)[i].num \in Nat \X Nat
<1>1. PICK t, n, m, f : /\ t = Text(url) /\ n = Len(url.path) /\ m = Len(url.query)
                        /\ f = Len(url.frag)
  OBVIOUS
<1>2. /\ n \in Nat /\ m \in Nat /\ f \in Nat
      /\ DOMAIN t = 1 .. n + m + f + 2
      /\ t[1] = HostSegment(url)
      /\ \A j \in 1 .. n : t[j + 1] = url.path[j]
      /\ t[n + 2] = End(url.slash)
      /\ \A j \in 1 .. m : t[n + 2 + j] = url.query[j]
      /\ \A j \in 1 .. f : t[n + 2 + m + j] = url.frag[j]
  BY <1>1, TextIs, Zenon
<1>3. /\ \A j \in 1 .. n : IsSegment(url.path[j])
      /\ \A j \in 1 .. m : IsSegment(url.query[j])
      /\ \A j \in 1 .. f : IsSegment(url.frag[j])
  BY <1>1, FragmentsAreRows DEF IsLink, IsRow
<1>4. i \in 1 .. n + m + f + 2
  BY <1>1, <1>2
<1>5. HostSegment(url).num = <<>>
  BY HostIsASegment DEF IsLink
<1>6. IsSegment(End(url.slash))
  BY EndIs
<1>7. i > 1 => IsSegment(t[i])
  <2>1. CASE i \in 2 .. n + 1
    <3>1. i - 1 \in 1 .. n /\ (i - 1) + 1 = i
      BY <1>2, <2>1
    <3> QED BY <1>2, <1>3, <3>1
  <2>2. CASE i = n + 2
    BY <1>2, <1>6, <2>2
  <2>3. CASE i \in n + 3 .. n + 2 + m
    <3>1. i - (n + 2) \in 1 .. m /\ n + 2 + (i - (n + 2)) = i
      BY <1>2, <2>3
    <3> QED BY <1>2, <1>3, <3>1
  <2>4. CASE i \in n + m + 3 .. n + 2 + m + f
    <3>1. i - (n + 2 + m) \in 1 .. f /\ n + 2 + m + (i - (n + 2 + m)) = i
      BY <1>2, <2>4
    <3> QED BY <1>2, <1>3, <3>1
  <2> QED BY <1>2, <1>4, <2>1, <2>2, <2>3, <2>4
<1>8. i \in Nat /\ i > 0
  BY <1>2, <1>4
<1>9. i = 1 => t[i] = HostSegment(url) /\ t[i].num = <<>>
  BY <1>2, <1>5
<1>10. t[i].num = <<>> \/ t[i].num \in Nat \X Nat
  <2>1. i = 1 \/ i > 1
    BY <1>8
  <2> QED BY <1>7, <1>9, <2>1, Zenon DEF IsSegment
<1> QED BY <1>1, <1>7, <1>8, <1>9, <1>10, Zenon

\* What the recognizers look for, and a fragment that has none of it.
Recognized == Services \cup Networks \cup {"tt", "q", "movie", "tv", "biz"}
Inert(frag) == \A i \in 1 .. Len(frag) : frag[i].word \notin Recognized

\* The places of a text that no respelling moves: the host's, the path's and the query's.
Fixed(url, i) ==
  \/ i \in 1 .. Len(url.path) + 1
  \/ i \in Len(url.path) + 3 .. Len(url.path) + 2 + Len(url.query)

LEMMA RecognizedIsFixed ==
  ASSUME NEW url, IsLink(url), Inert(url.frag),
         NEW i \in DOMAIN Text(url), Text(url)[i].word \in Recognized
  PROVE  Fixed(url, i)
<1>1. PICK t, n, m, f : /\ t = Text(url) /\ n = Len(url.path) /\ m = Len(url.query)
                        /\ f = Len(url.frag)
  OBVIOUS
<1>2. /\ n \in Nat /\ m \in Nat /\ f \in Nat
      /\ DOMAIN t = 1 .. n + m + f + 2
      /\ t[n + 2] = End(url.slash)
      /\ \A j \in 1 .. f : t[n + 2 + m + j] = url.frag[j]
  BY <1>1, TextIs, Zenon
<1>3. i \in 1 .. n + m + f + 2 /\ t[i].word \in Recognized
  BY <1>1, <1>2
<1>4. i # n + 2
  <2>1. End(url.slash).word = Nil
    BY EndIs
  <2>2. Nil \notin Recognized
    BY DEF Nil, Recognized, Services, Networks
  <2> QED BY <1>2, <1>3, <2>1, <2>2
<1>5. ~ (i \in n + m + 3 .. n + 2 + m + f)
  <2> SUFFICES ASSUME i \in n + m + 3 .. n + 2 + m + f
               PROVE  FALSE
    OBVIOUS
  <2>1. i - (n + 2 + m) \in 1 .. f /\ n + 2 + m + (i - (n + 2 + m)) = i
    BY <1>2
  <2>2. url.frag[i - (n + 2 + m)].word \notin Recognized
    BY <1>1, <2>1 DEF Inert
  <2> QED BY <1>2, <1>3, <2>1, <2>2
<1>6. i \in 1 .. n + 1 \/ i \in n + 3 .. n + 2 + m
  BY <1>2, <1>3, <1>4, <1>5
<1> QED BY <1>1, <1>6 DEF Fixed

\* The same page, in whatever spelling.
Alike(url, other) ==
  /\ other.host = url.host /\ other.port = url.port
  /\ other.path = url.path /\ other.query = url.query

\* Its fixed places are the same.
LEMMA FixedIsTheSame ==
  ASSUME NEW url, IsLink(url), NEW other, IsLink(other), Alike(url, other),
         NEW i, Fixed(url, i)
  PROVE  /\ Fixed(other, i) /\ i \in DOMAIN Text(url) /\ i \in DOMAIN Text(other)
         /\ Text(other)[i] = Text(url)[i]
<1>1. PICK t, u, n, m, f, g : /\ t = Text(url) /\ u = Text(other)
                              /\ n = Len(url.path) /\ m = Len(url.query)
                              /\ f = Len(url.frag) /\ g = Len(other.frag)
  OBVIOUS
<1>2. /\ n \in Nat /\ m \in Nat /\ f \in Nat
      /\ DOMAIN t = 1 .. n + m + f + 2
      /\ t[1] = HostSegment(url)
      /\ \A j \in 1 .. n : t[j + 1] = url.path[j]
      /\ \A j \in 1 .. m : t[n + 2 + j] = url.query[j]
  BY <1>1, TextIs, Zenon
<1>3. other.path = url.path /\ other.query = url.query
  BY DEF Alike
<1>4. /\ g \in Nat
      /\ DOMAIN u = 1 .. n + m + g + 2
      /\ u[1] = HostSegment(other)
      /\ \A j \in 1 .. n : u[j + 1] = url.path[j]
      /\ \A j \in 1 .. m : u[n + 2 + j] = url.query[j]
  <2>1. LET p == Len(other.path)
            q == Len(other.query)
        IN  /\ g \in Nat
            /\ DOMAIN u = 1 .. p + q + g + 2
            /\ u[1] = HostSegment(other)
            /\ \A j \in 1 .. p : u[j + 1] = other.path[j]
            /\ \A j \in 1 .. q : u[p + 2 + j] = other.query[j]
    BY <1>1, TextIs, Zenon
  <2> QED BY <1>1, <1>3, <2>1, Zenon
<1>5. HostSegment(other) = HostSegment(url)
  BY DEF HostSegment, Alike
<1>6. Fixed(other, i)
  BY <1>3 DEF Fixed
<1>7. i \in 1 .. n + 1 \/ i \in n + 3 .. n + 2 + m
  BY <1>1 DEF Fixed
<1>8. i \in DOMAIN t /\ i \in DOMAIN u
  BY <1>2, <1>4, <1>7
<1>9. t[i] = u[i]
  <2>1. CASE i = 1
    BY <1>2, <1>4, <1>5, <2>1
  <2>2. CASE i \in 2 .. n + 1
    <3>1. i - 1 \in 1 .. n /\ (i - 1) + 1 = i
      BY <1>2, <2>2
    <3> QED BY <1>2, <1>4, <3>1
  <2>3. CASE i \in n + 3 .. n + 2 + m
    <3>1. i - (n + 2) \in 1 .. m /\ n + 2 + (i - (n + 2)) = i
      BY <1>2, <2>3
    <3> QED BY <1>2, <1>4, <3>1
  <2> QED BY <1>2, <1>7, <2>1, <2>2, <2>3
<1> QED BY <1>1, <1>6, <1>8, <1>9, Zenon

\* A text has a length.
LEMMA TextIsFinite ==
  ASSUME NEW url, IsLink(url)
  PROVE  \E n \in Nat : DOMAIN Text(url) = 1 .. n
<1>1. PICK n, m, f : n = Len(url.path) /\ m = Len(url.query) /\ f = Len(url.frag)
  OBVIOUS
<1>2. n \in Nat /\ m \in Nat /\ f \in Nat /\ DOMAIN Text(url) = 1 .. n + m + f + 2
  BY <1>1, TextIs, Zenon
<1>3. n + m + f + 2 \in Nat
  BY <1>2
<1> QED BY <1>2, <1>3, Zenon

\* A token is a place of the text with a number or a tail, or there is none.
Tokens(url, prefix) ==
  {i \in DOMAIN Text(url) :
     /\ Text(url)[i].word = prefix /\ ~ Plain(Text(url)[i], prefix)
     /\ i > 1 \/ url.www = 0}

LEMMA TokenIs ==
  ASSUME NEW url, IsLink(url), NEW prefix
  PROVE  /\ Tokens(url, prefix) = {} => Token(url, prefix) = 0
         /\ Tokens(url, prefix) # {} =>
              /\ Token(url, prefix) \in Tokens(url, prefix)
              /\ Token(url, prefix) # 0
              /\ \A i \in Tokens(url, prefix) : Token(url, prefix) <= i
<1>1. PICK n \in Nat : DOMAIN Text(url) = 1 .. n
  BY TextIsFinite
<1>2. Tokens(url, prefix) \in SUBSET (1 .. n)
  BY <1>1 DEF Tokens
<1>3. Token(url, prefix) = First(Tokens(url, prefix))
  BY DEF Token, Tokens
<1>4. PICK S : S = Tokens(url, prefix)
  OBVIOUS
<1>5. /\ S = {} => First(S) = 0
      /\ S # {} => First(S) \in S /\ \A i \in S : First(S) <= i
  BY <1>2, <1>4, FirstIs
<1>6. \A i \in S : i # 0
  BY <1>2, <1>4
<1> QED BY <1>3, <1>4, <1>5, <1>6

\* So is the first place of a word, which is never the host's.
LEMMA PlaceIs ==
  ASSUME NEW url, IsLink(url), NEW word \in {"movie", "tv", "biz"}
  PROVE  /\ \A i \in Places(url, word) :
              /\ i \in Nat /\ i > 1 /\ i + 1 \in DOMAIN Text(url)
              /\ i \in DOMAIN Text(url) /\ Text(url)[i].word = word
         /\ Places(url, word) # {} =>
              /\ First(Places(url, word)) \in Places(url, word)
              /\ \A i \in Places(url, word) : First(Places(url, word)) <= i
<1>1. PICK n \in Nat : DOMAIN Text(url) = 1 .. n
  BY TextIsFinite
<1>2. Places(url, word) \in SUBSET (1 .. n)
  BY <1>1 DEF Places
<1>3. ASSUME NEW i \in Places(url, word)
      PROVE  /\ i \in Nat /\ i > 1 /\ i + 1 \in DOMAIN Text(url)
             /\ i \in DOMAIN Text(url) /\ Text(url)[i].word = word
  <2>1. i \in DOMAIN Text(url) /\ i + 1 \in DOMAIN Text(url) /\ Text(url)[i].word = word
    BY DEF Places, Plain
  <2>2. i \in Nat /\ i > 0 /\ (i = 1 => Text(url)[i] = HostSegment(url))
    BY <2>1, TextSegments
  <2>3. HostSegment(url).word # word
    BY HostIsASegment DEF IsLink
  <2> QED BY <2>1, <2>2, <2>3
<1>4. Places(url, word) # {} =>
        /\ First(Places(url, word)) \in Places(url, word)
        /\ \A i \in Places(url, word) : First(Places(url, word)) <= i
  BY <1>2, FirstIs
<1> QED BY <1>3, <1>4

-----------------------------------------------------------------------------
(***************************************************************************)
(* What a bare host names.                                                 *)
(***************************************************************************)

\* Without a path, a query and anything in its fragment, a URL is guessed to be a domain's or
\* nothing's.
LEMMA BareHostIsASite ==
  ASSUME NEW url, IsLink(url), Inert(url.frag), url.path = <<>>, url.query = <<>>
  PROVE  Guess(url) = Unread \/ Guess(url) = <<"domain", Site(url.host)>>
<1>1. Len(url.path) = 0 /\ Len(url.query) = 0
  OBVIOUS
<1>2. ASSUME NEW i \in DOMAIN Text(url), Text(url)[i].word \in Recognized
      PROVE  i = 1 /\ Text(url)[i].word = HostSegment(url).word
  <2>1. Fixed(url, i)
    BY <1>2, RecognizedIsFixed
  <2>2. i = 1
    BY <1>1, <2>1 DEF Fixed
  <2> QED BY <2>2, TextSegments
<1>3. ASSUME NEW word \in {"movie", "tv", "biz"}
      PROVE  Places(url, word) = {}
  <2> SUFFICES ASSUME NEW i \in Places(url, word)
               PROVE  FALSE
    OBVIOUS
  <2>1. i > 1 /\ i \in DOMAIN Text(url) /\ Text(url)[i].word = word /\ i \in Nat
    BY PlaceIs
  <2>2. word \in Recognized
    BY DEF Recognized
  <2> QED BY <1>2, <2>1, <2>2
<1>4. ASSUME NEW name, NEW prefix, name # prefix, name \in Recognized, prefix \in Recognized,
             Mentions(url, name)
      PROVE  Token(url, prefix) = 0
  <2>1. HostSegment(url).word = name
    BY <1>2, <1>4 DEF Mentions
  <2>2. ASSUME NEW i \in Tokens(url, prefix)
        PROVE  FALSE
    BY <1>2, <1>4, <2>1, <2>2 DEF Tokens
  <2> QED BY <2>2, TokenIs
<1>5. Mentions(url, "imdb.com") => Imdb(url) = Unread
  <2>1. "imdb.com" \in Recognized /\ "tt" \in Recognized
    BY DEF Recognized, Services
  <2>2. Mentions(url, "imdb.com") => Token(url, "tt") = 0
    BY <1>4, <2>1
  <2> QED BY <2>2 DEF Imdb
<1>6. Mentions(url, "wikidata.org") => Qid(url) = Unread
  <2>1. "wikidata.org" \in Recognized /\ "q" \in Recognized
    BY DEF Recognized, Services
  <2>2. Mentions(url, "wikidata.org") => Token(url, "q") = 0
    BY <1>4, <2>1
  <2> QED BY <2>2 DEF Qid
<1>7. ~ MatchesTmdb(url) /\ ~ MatchesYelp(url)
  BY <1>3 DEF MatchesTmdb, MatchesYelp
<1>8. PlaceId(url) = Unread
  BY <1>1 DEF PlaceId
<1>9. SpecificUrl(url) = Unread
  BY DEF SpecificUrl
<1>10. Dedicated(url) = Unread
  BY <1>5, <1>6, <1>7, <1>8, GuessUnfolds
<1>11. Domain(url) = Unread \/ Domain(url) = <<"domain", Site(url.host)>>
  BY DEF Domain
<1> QED BY <1>9, <1>10, <1>11, GuessUnfolds

\* A page that has the URL in one field says its site, and the guess or the domain of the URL.
LEMMA HarvestIs ==
  ASSUME NEW url, NEW site, NEW field \in Fields, NEW k \in Harvest(PageOf(site, field, url))
  PROVE  k # Unread /\ (k = <<"domain", site>> \/ k = Guess(url) \/ k = Domain(url))
<1> DEFINE page == PageOf(site, field, url)
<1>1. page.site = site /\ \A f \in Fields : page.links[f] = (IF f = field THEN {url} ELSE {})
  BY DEF PageOf
<1>2. \A f \in Fields : page.links[f] \subseteq {url}
  BY <1>1
<1>3. \A f \in {"sameAs", "url", "canonical"} : page.links[f] \subseteq {url}
  BY <1>2 DEF Fields
<1>4. k \in ({<<"domain", page.site>>}
               \cup {Guess(u) : u \in page.links["sameAs"]}
               \cup {Domain(u) : u \in page.links["url"] \cup page.links["canonical"]})
      /\ k # Unread
  BY DEF Harvest
<1> HIDE DEF page
<1> QED BY <1>1, <1>3, <1>4

\* So a bare host is a site, in a request and in any field of a page.
LEMMA BareHostsNameNoThing ==
  ASSUME IsUrl(text) => IsLink(text) /\ Inert(text.frag)
  PROVE  SitesNameNoThing
<1> SUFFICES ASSUME IsUrl(text), text.path = <<>>, text.query = <<>>
             PROVE  /\ Guess(text) = Unread \/ Guess(text)[1] = "domain"
                    /\ \A site \in Sites, field \in Fields :
                         \A k \in Harvest(PageOf(site, field, text)) : k[1] = "domain"
  BY DEF SitesNameNoThing
<1>1. PICK url : url = text
  OBVIOUS
<1>2. Guess(url) = Unread \/ Guess(url) = <<"domain", Site(url.host)>>
  BY <1>1, BareHostIsASite
<1>3. Domain(url) = Unread \/ Domain(url) = <<"domain", Site(url.host)>>
  BY DEF Domain
<1>4. ASSUME NEW site \in Sites, NEW field \in Fields, NEW k \in Harvest(PageOf(site, field, url))
      PROVE  k[1] = "domain"
  <2>1. k # Unread /\ (k = <<"domain", site>> \/ k = Guess(url) \/ k = Domain(url))
    BY <1>4, HarvestIs
  <2>2. \E h : k = <<"domain", h>>
    BY <1>2, <1>3, <2>1, Zenon
  <2>3. PICK h : k = <<"domain", h>>
    BY <2>2
  <2>4. <<"domain", h>>[1] = "domain"
    OBVIOUS
  <2> QED BY <2>3, <2>4, Zenon
<1>5. Guess(url) = Unread \/ Guess(url)[1] = "domain"
  <2>1. <<"domain", Site(url.host)>>[1] = "domain"
    OBVIOUS
  <2> QED BY <1>2, <2>1, Zenon
<1>6. \A site \in Sites, field \in Fields :
        \A k \in Harvest(PageOf(site, field, url)) : k[1] = "domain"
  BY <1>4
<1> QED BY <1>1, <1>5, <1>6, Zenon

-----------------------------------------------------------------------------
(***************************************************************************)
(* Keys and their URLs.                                                    *)
(***************************************************************************)

\* Each recognizer reads a key of its own kind, or none.
LEMMA ReadingsAreTagged ==
  ASSUME NEW url
  PROVE  /\ PlaceId(url) # Unread => PlaceId(url)[1] = "google_place_id"
         /\ Imdb(url) # Unread => Imdb(url)[1] = "imdb"
         /\ Qid(url) # Unread => Qid(url)[1] = "wikidata"
         /\ Tmdb(url) # Unread => Tmdb(url)[1] = "tmdb"
         /\ Yelp(url) # Unread => Yelp(url)[1] = "yelp"
         /\ SpecificUrl(url) # Unread => SpecificUrl(url)[1] = "url"
         /\ Domain(url) # Unread => Domain(url)[1] = "domain"
<1>1. PlaceId(url) # Unread => PlaceId(url)[1] = "google_place_id"
  BY DEF PlaceId
<1>2. Imdb(url) # Unread => Imdb(url)[1] = "imdb"
  BY DEF Imdb
<1>3. Qid(url) # Unread => Qid(url)[1] = "wikidata"
  BY DEF Qid
<1>4. Tmdb(url) # Unread => Tmdb(url)[1] = "tmdb"
  BY DEF Tmdb
<1>5. Yelp(url) # Unread => Yelp(url)[1] = "yelp"
  BY DEF Yelp
<1>6. SpecificUrl(url) # Unread => SpecificUrl(url)[1] = "url"
  BY DEF SpecificUrl
<1>7. Domain(url) # Unread => Domain(url)[1] = "domain"
  BY DEF Domain
<1> QED BY <1>1, <1>2, <1>3, <1>4, <1>5, <1>6, <1>7

\* A page's key is read by specific_url, a film's where match_tmdb sees a film.
LEMMA GuessIsTagged ==
  ASSUME NEW url, Guess(url) # Unread
  PROVE  /\ Guess(url)[1] = "url" => Guess(url) = SpecificUrl(url)
         /\ Guess(url)[1] = "tmdb" => MatchesTmdb(url)
<1>1. \/ Guess(url) = PlaceId(url)
      \/ Guess(url) = Imdb(url)
      \/ Guess(url) = Qid(url)
      \/ Guess(url) = Tmdb(url) /\ MatchesTmdb(url)
      \/ Guess(url) = Yelp(url)
      \/ Guess(url) = SpecificUrl(url)
      \/ Guess(url) = Domain(url)
  BY GuessUnfolds
<1> QED BY <1>1, ReadingsAreTagged

\* A slug in lower case, and what the query of a place's URL says.
IsSlug(v) == IsSegment(v) /\ v.upper = FALSE /\ v.sep = "/" /\ ~ Plain(v, Nil)
IsPlace(v) ==
  IsSegment(v) /\ v.sep = "=" /\ v.word = "place_id:" /\ ~ Plain(v, "place_id:")

\* What each normalizer returns: a value it would return again.
IsValue(tag, v) ==
  \/ tag = "imdb" /\ v \in Nat \X Nat
  \/ tag = "wikidata" /\ v \in Nat \X Nat /\ v[2] # 0
  \/ tag = "tmdb" /\ v \in Nat \X Nat /\ v[2] # 0 /\ v[1] = 0
  \/ tag = "yelp" /\ IsSlug(v)
  \/ tag = "google_place_id" /\ IsPlace(v)
  \/ tag = "url" /\ v.www = 0 /\ v.host \in Hosts /\ IsRow(v.path) /\ IsRow(v.query)
  \/ tag = "domain"

IsKey(k) == k = <<k[1], k[2]>> /\ IsValue(k[1], k[2])

\* What imdb returns is a key.
LEMMA ImdbReadsAKey ==
  ASSUME NEW url, IsLink(url)
  PROVE  Imdb(url) = Unread \/ IsKey(Imdb(url))
<1>1. PICK i : i = Token(url, "tt")
  OBVIOUS
<1>2. i # 0 => i \in DOMAIN Text(url)
  BY <1>1, TokenIs DEF Tokens
<1>3. i # 0 => Text(url)[i].num = <<>> \/ Text(url)[i].num \in Nat \X Nat
  BY <1>2, TextSegments
<1>4. \/ Imdb(url) = Unread
      \/ Imdb(url) = <<"imdb", Text(url)[i].num>> /\ Text(url)[i].num \in Nat \X Nat
  BY <1>1, <1>3 DEF Imdb
<1> QED BY <1>4 DEF IsKey, IsValue

\* What qid returns is a key.
LEMMA QidReadsAKey ==
  ASSUME NEW url, IsLink(url)
  PROVE  Qid(url) = Unread \/ IsKey(Qid(url))
<1>1. PICK i : i = Token(url, "q")
  OBVIOUS
<1>2. i # 0 => i \in DOMAIN Text(url)
  BY <1>1, TokenIs DEF Tokens
<1>3. i # 0 => Text(url)[i].num = <<>> \/ Text(url)[i].num \in Nat \X Nat
  BY <1>2, TextSegments
<1>4. \/ Qid(url) = Unread
      \/ /\ Qid(url) = <<"wikidata", Text(url)[i].num>>
         /\ Text(url)[i].num \in Nat \X Nat /\ Text(url)[i].num[2] # 0
  BY <1>1, <1>3 DEF Qid
<1> QED BY <1>4 DEF IsKey, IsValue

\* What comes after a word is a segment of the text.
LEMMA AfterIs ==
  ASSUME NEW url, IsLink(url), NEW word \in {"movie", "tv", "biz"}, Places(url, word) # {}
  PROVE  IsSegment(After(url, word)) /\ After(url, word).sep = "/"
<1>1. PICK i : i = First(Places(url, word))
  OBVIOUS
<1>2. i \in Places(url, word)
  BY <1>1, PlaceIs
<1>3. i \in Nat /\ i > 1 /\ i + 1 \in DOMAIN Text(url)
  BY <1>2, PlaceIs
<1>4. Text(url)[i + 1].sep = "/"
  BY <1>2 DEF Places
<1>5. i + 1 > 1
  BY <1>3
<1>6. IsSegment(Text(url)[i + 1])
  BY <1>3, <1>5, TextSegments
<1> QED BY <1>1, <1>4, <1>6 DEF After

\* What tmdb returns is a key: its zeros are gone.
LEMMA TmdbReadsAKey ==
  ASSUME NEW url, IsLink(url)
  PROVE  Tmdb(url) = Unread \/ IsKey(Tmdb(url))
<1>1. PICK word : word = IF Places(url, "movie") # {} THEN "movie" ELSE "tv"
  OBVIOUS
<1>2. word \in {"movie", "tv", "biz"}
  BY <1>1
<1>3. PICK s : s = After(url, word)
  OBVIOUS
<1>4. Places(url, word) # {} => s.num = <<>> \/ s.num \in Nat \X Nat
  BY <1>2, <1>3, AfterIs DEF IsSegment
<1>5. \/ Tmdb(url) = Unread
      \/ /\ Tmdb(url) = <<"tmdb", <<0, s.num[2]>> >>
         /\ s.num \in Nat \X Nat /\ s.num[2] # 0
  BY <1>1, <1>3, <1>4 DEF Tmdb, Canonical
<1>6. ASSUME NEW n \in Nat, n # 0
      PROVE  IsKey(<<"tmdb", <<0, n>> >>)
  BY <1>6 DEF IsKey, IsValue
<1>7. \A m \in Nat \X Nat : m[2] \in Nat
  OBVIOUS
<1> QED BY <1>5, <1>6, <1>7

\* A segment of these parts has them.
HasParts(s, a, b, c, d, e) ==
  s = [sep |-> a, word |-> b, num |-> c, tail |-> d, upper |-> e]

LEMMA PartsOfASegment ==
  ASSUME NEW s, NEW a, NEW b, NEW c, NEW d, NEW e, HasParts(s, a, b, c, d, e)
  PROVE  s.sep = a /\ s.word = b /\ s.num = c /\ s.tail = d /\ s.upper = e
BY DEF HasParts

\* A segment in lower case differs in nothing else.
LEMMA RecasedIs ==
  ASSUME NEW s, IsSegment(s), NEW v, v = [s EXCEPT !.upper = FALSE]
  PROVE  /\ IsSegment(v) /\ v.upper = FALSE /\ v.sep = s.sep
         /\ v.word = s.word /\ v.num = s.num /\ v.tail = s.tail
         /\ s.upper = FALSE => v = s
<1>1. PICK lower : lower = FALSE
  OBVIOUS
<1>2. s = [sep |-> s.sep, word |-> s.word, num |-> s.num, tail |-> s.tail, upper |-> s.upper]
  BY DEF IsSegment
<1>3. PICK a, b, c, d : a = s.sep /\ b = s.word /\ c = s.num /\ d = s.tail
  OBVIOUS
<1>4. v = [sep |-> a, word |-> b, num |-> c, tail |-> d, upper |-> lower]
  BY <1>1, <1>2, <1>3, SeparatorIs, Zenon
<1>5. v.sep = a /\ v.word = b /\ v.num = c /\ v.tail = d /\ v.upper = lower
  <2>1. HasParts(v, a, b, c, d, lower)
    BY <1>4, Zenon DEF HasParts
  <2> QED BY <2>1, PartsOfASegment, Zenon
<1>6. v = [sep |-> v.sep, word |-> v.word, num |-> v.num, tail |-> v.tail, upper |-> v.upper]
  BY <1>4, <1>5, Zenon
<1>7. s.upper = FALSE => v = s
  BY <1>1, <1>2, <1>3, <1>4, Zenon
<1>8. c = <<>> \/ c \in Nat \X Nat
  BY <1>3 DEF IsSegment
<1> QED BY <1>1, <1>3, <1>5, <1>6, <1>7, <1>8, Zenon DEF IsSegment

\* What yelp returns is a key: a slug in lower case.
LEMMA YelpReadsAKey ==
  ASSUME NEW url, IsLink(url)
  PROVE  Yelp(url) = Unread \/ IsKey(Yelp(url))
<1>1. PICK s : s = After(url, "biz")
  OBVIOUS
<1>2. PICK v : v = [s EXCEPT !.upper = FALSE]
  OBVIOUS
<1>3. CASE Places(url, "biz") # {} /\ ~ Plain(s, Nil)
  <2>1. IsSegment(s) /\ s.sep = "/"
    BY <1>1, <1>3, AfterIs
  <2>2. Yelp(url) = <<"yelp", v>>
    BY <1>1, <1>2, <1>3, Zenon DEF Yelp
  <2>3. IsSlug(v)
    BY <1>2, <1>3, <2>1, RecasedIs DEF IsSlug, Plain
  <2> QED BY <2>2, <2>3 DEF IsKey, IsValue
<1>4. CASE ~ (Places(url, "biz") # {} /\ ~ Plain(s, Nil))
  BY <1>1, <1>4 DEF Yelp
<1> QED BY <1>3, <1>4

\* What match_google_place_id returns is a key.
LEMMA PlaceReadsAKey ==
  ASSUME NEW url, IsLink(url)
  PROVE  PlaceId(url) = Unread \/ IsKey(PlaceId(url))
<1>1. Len(url.query) = 2 => IsSegment(url.query[2])
  BY DEF IsLink, IsRow
<1>2. PICK v : v = url.query[2]
  OBVIOUS
<1>3. PlaceId(url) = Unread \/ (PlaceId(url) = <<"google_place_id", v>> /\ IsPlace(v))
  BY <1>1, <1>2 DEF PlaceId, IsPlace
<1> QED BY <1>3 DEF IsKey, IsValue

\* What specific_url returns is a key: no www is left of the one a link has.
LEMMA PageReadsAKey ==
  ASSUME NEW url, IsLink(url)
  PROVE  SpecificUrl(url) = Unread \/ IsKey(SpecificUrl(url))
<1> DEFINE v == [host |-> url.host, www |-> IF url.www > 0 THEN url.www - 1 ELSE 0,
                 path |-> url.path, query |-> url.query]
<1>1. SpecificUrl(url) = Unread \/ SpecificUrl(url) = <<"url", v>>
  BY DEF SpecificUrl
<1>2. url.www \in {0, 1} /\ url.host \in Hosts /\ IsRow(url.path) /\ IsRow(url.query)
  BY DEF IsLink
<1>3. v.www = 0 /\ v.path = url.path /\ v.query = url.query /\ v.host = url.host
  BY <1>2
<1> HIDE DEF v
<1>4. v.host \in Hosts /\ IsRow(v.path) /\ IsRow(v.query)
  BY <1>2, <1>3
<1> QED BY <1>1, <1>3, <1>4 DEF IsKey, IsValue

\* What registrable_domain returns is a key.
LEMMA DomainReadsAKey ==
  ASSUME NEW url
  PROVE  Domain(url) = Unread \/ IsKey(Domain(url))
BY DEF Domain, IsKey, IsValue

\* Whatever is read from a URL is a key, or none.
LEMMA ReadingsAreKeys ==
  ASSUME NEW url, IsLink(url)
  PROVE  /\ Guess(url) = Unread \/ IsKey(Guess(url))
         /\ \A tag \in {"imdb", "wikidata", "tmdb", "yelp", "url", "domain"} :
              Typed(tag, url) = Unread \/ IsKey(Typed(tag, url))
         /\ \A site \in Sites, field \in Fields :
              \A k \in Harvest(PageOf(site, field, url)) : IsKey(k)
<1>1. Guess(url) = Unread \/ IsKey(Guess(url))
  <2>1. \/ Guess(url) = Unread
        \/ Guess(url) = PlaceId(url)
        \/ Guess(url) = Imdb(url)
        \/ Guess(url) = Qid(url)
        \/ Guess(url) = Tmdb(url)
        \/ Guess(url) = Yelp(url)
        \/ Guess(url) = SpecificUrl(url)
        \/ Guess(url) = Domain(url)
    BY GuessUnfolds
  <2>2. /\ PlaceId(url) = Unread \/ IsKey(PlaceId(url))
        /\ Imdb(url) = Unread \/ IsKey(Imdb(url))
        /\ Qid(url) = Unread \/ IsKey(Qid(url))
        /\ Tmdb(url) = Unread \/ IsKey(Tmdb(url))
        /\ Yelp(url) = Unread \/ IsKey(Yelp(url))
        /\ SpecificUrl(url) = Unread \/ IsKey(SpecificUrl(url))
        /\ Domain(url) = Unread \/ IsKey(Domain(url))
    BY ImdbReadsAKey, QidReadsAKey, TmdbReadsAKey, YelpReadsAKey, PlaceReadsAKey,
       PageReadsAKey, DomainReadsAKey
  <2> QED BY <2>1, <2>2
<1>2. ASSUME NEW tag \in {"imdb", "wikidata", "tmdb", "yelp", "url", "domain"}
      PROVE  Typed(tag, url) = Unread \/ IsKey(Typed(tag, url))
  <2>1. Typed(tag, url) \in {Imdb(url), Qid(url), Tmdb(url), Yelp(url), SpecificUrl(url), Domain(url)}
    BY DEF Typed
  <2> QED BY <2>1, ImdbReadsAKey, QidReadsAKey, TmdbReadsAKey, YelpReadsAKey, PageReadsAKey,
             DomainReadsAKey
<1>3. ASSUME NEW site \in Sites, NEW field \in Fields, NEW k \in Harvest(PageOf(site, field, url))
      PROVE  IsKey(k)
  <2>1. k # Unread /\ (k = <<"domain", site>> \/ k = Guess(url) \/ k = Domain(url))
    BY HarvestIs
  <2>2. IsKey(<<"domain", site>>)
    BY DEF IsKey, IsValue
  <2> QED BY <1>1, <2>1, <2>2, DomainReadsAKey
<1> QED BY <1>1, <1>2, <1>3

-----------------------------------------------------------------------------
(***************************************************************************)
(* The URLs of the services.                                               *)
(***************************************************************************)

\* No segments are a row, of nothing that a recognizer looks for.
LEMMA EmptyRow == IsRow(<<>>) /\ Inert(<<>>) /\ Len(<<>>) = 0
<1>1. PICK row : row = <<>>
  OBVIOUS
<1>2. row \in Seq({}) /\ Len(row) = 0
  BY <1>1
<1>3. IsRow(row) /\ Inert(row)
  BY <1>2 DEF IsRow, Inert
<1> QED BY <1>1, <1>2, <1>3, Zenon

\* The parts of a link.
LEMMA PartsOfALink ==
  ASSUME NEW a, NEW b, NEW c, NEW d, NEW e, NEW f, NEW g, NEW h,
         NEW url, url = [scheme |-> a, www |-> b, host |-> c, port |-> d, path |-> e,
                         slash |-> f, query |-> g, frag |-> h]
  PROVE  /\ url.scheme = a /\ url.www = b /\ url.host = c /\ url.path = e /\ url.query = g
         /\ url.port = d /\ url.slash = f /\ url.frag = h
         /\ "scheme" \in DOMAIN url
OBVIOUS

\* A record of such parts is a link.
LEMMA LinkIs ==
  ASSUME NEW a, NEW b \in {0, 1}, NEW c \in Hosts, NEW d, NEW e, NEW f, NEW g, NEW h \in Fragments,
         IsRow(e), IsRow(g),
         NEW url, url = [scheme |-> a, www |-> b, host |-> c, port |-> d, path |-> e,
                         slash |-> f, query |-> g, frag |-> h]
  PROVE  IsUrl(url) /\ IsLink(url)
<1>1. /\ url.scheme = a /\ url.www = b /\ url.host = c /\ url.path = e /\ url.query = g
      /\ url.port = d /\ url.slash = f /\ url.frag = h
      /\ "scheme" \in DOMAIN url
  BY PartsOfALink
<1>2. url = [scheme |-> url.scheme, www |-> url.www, host |-> url.host, port |-> url.port,
             path |-> url.path, slash |-> url.slash, query |-> url.query, frag |-> url.frag]
  BY <1>1, Zenon
<1> QED BY <1>1, <1>2, Zenon DEF IsUrl, IsLink

\* An https URL is a link.
IsHttps(url, host, www, path, slash, query) ==
  /\ host \in Hosts /\ www \in {0, 1} /\ IsRow(path) /\ IsRow(query)
  /\ url = Https(host, www, path, slash, query)

LEMMA HttpsIs ==
  ASSUME NEW url, NEW host, NEW www, NEW path, NEW slash, NEW query,
         IsHttps(url, host, www, path, slash, query)
  PROVE  /\ IsUrl(url) /\ Web(url) /\ IsLink(url) /\ Inert(url.frag)
         /\ url.host = host /\ url.path = path /\ url.query = query /\ url.port = FALSE
<1>1. <<>> \in Fragments
  BY ReferencesAssumption
<1>2. PICK https, no, none : https = "https" /\ no = FALSE /\ none = <<>>
  OBVIOUS
<1>3. url = [scheme |-> https, www |-> www, host |-> host, port |-> no, path |-> path,
             slash |-> slash, query |-> query, frag |-> none]
  BY <1>2, Zenon DEF Https, IsHttps
<1>4. IsUrl(url) /\ IsLink(url)
  <2>1. host \in Hosts /\ www \in {0, 1} /\ IsRow(path) /\ IsRow(query)
    BY DEF IsHttps
  <2> QED BY <1>1, <1>2, <1>3, <2>1, LinkIs
<1>5. /\ url.scheme = https /\ url.host = host /\ url.path = path /\ url.query = query
      /\ url.port = no /\ url.frag = none
  BY <1>3, PartsOfALink
<1>6. Inert(none)
  BY <1>2, EmptyRow, Zenon
<1> QED BY <1>2, <1>4, <1>5, <1>6, Zenon DEF Web

\* A row of two segments.
IsPair(p, a, b) ==
  /\ IsRow(p) /\ IsSegment(a) /\ IsSegment(b)
  /\ Len(p) = 2 /\ p[1] = a /\ p[2] = b

LEMMA PairIs ==
  ASSUME NEW p, NEW a, NEW b, p = <<a, b>>, IsSegment(a), IsSegment(b)
  PROVE  IsPair(p, a, b)
<1>1. Len(p) = 2 /\ p[1] = a /\ p[2] = b
  OBVIOUS
<1>2. p \in Seq({a, b})
  OBVIOUS
<1>3. \A i \in 1 .. Len(p) : i = 1 \/ i = 2
  BY <1>1
<1>4. IsRow(p)
  BY <1>1, <1>2, <1>3 DEF IsRow
<1> QED BY <1>1, <1>4 DEF IsPair

\* A link with such a path and no query.
IsShort(url, a, b) ==
  IsLink(url) /\ Inert(url.frag) /\ IsPair(url.path, a, b) /\ url.query = <<>>

\* Its text: all that is recognized is in the first three segments.
LEMMA ShortText ==
  ASSUME NEW url, NEW a, NEW b, IsShort(url, a, b)
  PROVE  /\ 1 \in DOMAIN Text(url) /\ 2 \in DOMAIN Text(url) /\ 3 \in DOMAIN Text(url)
         /\ Text(url)[1] = HostSegment(url) /\ Text(url)[2] = a /\ Text(url)[3] = b
         /\ \A i \in DOMAIN Text(url) :
              Text(url)[i].word \in Recognized => i = 1 \/ i = 2 \/ i = 3
<1>1. PICK t, n, m, f : /\ t = Text(url) /\ n = Len(url.path) /\ m = Len(url.query)
                        /\ f = Len(url.frag)
  OBVIOUS
<1>2. Inert(url.frag) /\ n = 2 /\ m = 0 /\ url.path[1] = a /\ url.path[2] = b
  BY <1>1, EmptyRow DEF IsShort, IsPair
<1>0. IsLink(url)
  BY DEF IsShort
<1>3. /\ n \in Nat /\ m \in Nat /\ f \in Nat
      /\ DOMAIN t = 1 .. n + m + f + 2
      /\ t[1] = HostSegment(url)
      /\ \A j \in 1 .. n : t[j + 1] = url.path[j]
  BY <1>1, <1>0, TextIs, Zenon
<1>4. 1 \in DOMAIN t /\ 2 \in DOMAIN t /\ 3 \in DOMAIN t
  BY <1>2, <1>3
<1>5. 1 \in 1 .. n /\ 2 \in 1 .. n /\ 1 + 1 = 2 /\ 2 + 1 = 3
  BY <1>2
<1>6. t[2] = a /\ t[3] = b
  BY <1>2, <1>3, <1>5
<1>7. ASSUME NEW i \in DOMAIN Text(url), Text(url)[i].word \in Recognized
      PROVE  i = 1 \/ i = 2 \/ i = 3
  <2>1. Fixed(url, i)
    BY <1>2, <1>0, <1>7, RecognizedIsFixed
  <2>2. i \in 1 .. n + 1 \/ i \in n + 3 .. n + 2 + m
    BY <1>1, <2>1 DEF Fixed
  <2> QED BY <1>2, <2>2
<1> QED BY <1>1, <1>3, <1>4, <1>6, <1>7

\* extract_token where the host and the path's first segment are other words.
LEMMA TokenOfTwo ==
  ASSUME NEW url, NEW a, NEW b, IsShort(url, a, b), NEW prefix \in {"tt", "q"},
         HostSegment(url).word # prefix, a.word # prefix
  PROVE  /\ b.word # prefix => Token(url, prefix) = 0
         /\ b.word = prefix /\ b.num # <<>> => Token(url, prefix) = 3
<1>1. prefix \in Recognized
  BY DEF Recognized
<1>2. /\ 3 \in DOMAIN Text(url)
      /\ Text(url)[1] = HostSegment(url) /\ Text(url)[2] = a /\ Text(url)[3] = b
      /\ \A i \in DOMAIN Text(url) :
           Text(url)[i].word \in Recognized => i = 1 \/ i = 2 \/ i = 3
  BY ShortText
<1>3. \A i \in Tokens(url, prefix) : i = 3 /\ b.word = prefix
  BY <1>1, <1>2 DEF Tokens
<1>4. b.word = prefix /\ b.num # <<>> => 3 \in Tokens(url, prefix)
  BY <1>2 DEF Tokens, Plain
<1>5. IsLink(url)
  BY DEF IsShort
<1> QED BY <1>3, <1>4, <1>5, TokenIs

\* What comes after a word of such a path.
LEMMA PlacesOfTwo ==
  ASSUME NEW url, NEW a, NEW b, IsShort(url, a, b), NEW word \in {"movie", "tv", "biz"},
         a.sep = "/", b.sep = "/"
  PROVE  /\ Plain(a, word) => 2 \in Places(url, word) /\ After(url, word) = b
         /\ a.word # word /\ b.word # word => Places(url, word) = {}
<1>1. word \in Recognized
  BY DEF Recognized
<1>2. /\ 2 \in DOMAIN Text(url) /\ 3 \in DOMAIN Text(url)
      /\ Text(url)[2] = a /\ Text(url)[3] = b
      /\ \A i \in DOMAIN Text(url) :
           Text(url)[i].word \in Recognized => i = 1 \/ i = 2 \/ i = 3
  BY ShortText
<1>3. IsLink(url)
  BY DEF IsShort
<1>4. \A i \in Places(url, word) :
        i > 1 /\ i \in DOMAIN Text(url) /\ Text(url)[i].word = word
  BY <1>3, PlaceIs
<1>5. \A i \in Places(url, word) : (i = 2 /\ a.word = word) \/ (i = 3 /\ b.word = word)
  BY <1>1, <1>2, <1>4
<1>6. ASSUME Plain(a, word)
      PROVE  2 \in Places(url, word) /\ After(url, word) = b
  <2>1. 2 \in Places(url, word)
    BY <1>2, <1>6 DEF Places
  <2>2. First(Places(url, word)) \in Places(url, word) /\ First(Places(url, word)) <= 2
    BY <1>3, <2>1, PlaceIs
  <2>3. First(Places(url, word)) = 2
    BY <1>5, <2>2
  <2>4. First(Places(url, word)) + 1 = 3
    BY <2>3
  <2> QED BY <1>2, <2>1, <2>4 DEF After
<1> QED BY <1>5, <1>6

\* A title's link.
ImdbLink(url, v) ==
  /\ url.host = "imdb.com"
  /\ \E a, b : /\ IsShort(url, a, b)
               /\ a.word = "title"
               /\ b.word = "tt" /\ b.num = v /\ b.tail = Nil

\* An item's.
QidLink(url, v) ==
  /\ url.host = "wikidata.org"
  /\ \E a, b : /\ IsShort(url, a, b)
               /\ a.word = "wiki"
               /\ b.word = "q" /\ b.num = v /\ b.tail = Nil

\* A film's.
TmdbLink(url, v) ==
  /\ url.host = "themoviedb.org"
  /\ \E a, b : /\ IsShort(url, a, b)
               /\ a.sep = "/" /\ Plain(a, "movie")
               /\ b.sep = "/" /\ b.word = Nil /\ b.num = v /\ b.tail = Nil

\* A business's.
YelpLink(url, v) ==
  /\ url.host = "yelp.com" /\ url.port = FALSE
  /\ \E a : IsShort(url, a, v) /\ a.sep = "/" /\ Plain(a, "biz")

\* A place's.
PlaceLink(url, v) ==
  url.host = "google.com" /\ \E q : IsPair(url.query, q, v) /\ q = Q

\* A path whose end no slash turns into the place of a word.
Closed(path) ==
  \A word \in {"movie", "biz"} : Len(path) # 0 => ~ Plain(path[Len(path)], word)

\* The URL of a key is a link.
IsWebLink(url) == IsUrl(url) /\ Web(url) /\ IsLink(url)

IsShortHttps(url, host, a, b, slash) ==
  /\ host \in Services /\ IsSegment(a) /\ IsSegment(b)
  /\ url = Https(host, 1, <<a, b>>, slash, <<>>)

LEMMA ShortUrl ==
  ASSUME NEW url, NEW host, NEW a, NEW b, NEW slash, IsShortHttps(url, host, a, b, slash)
  PROVE  /\ IsWebLink(url) /\ IsShort(url, a, b) /\ url.host = host /\ url.port = FALSE
         /\ b.word \notin {"movie", "biz"} => Closed(url.path)
<1>1. PICK p : p = <<a, b>>
  OBVIOUS
<1>2. PICK none : none = <<>>
  OBVIOUS
<1>3. IsPair(p, a, b)
  BY <1>1, PairIs DEF IsShortHttps
<1>4. IsRow(p) /\ IsRow(none)
  BY <1>2, <1>3, EmptyRow, Zenon DEF IsPair
<1>5. host \in Hosts /\ 1 \in {0, 1}
  BY DEF Hosts, IsShortHttps
<1>6. IsHttps(url, host, 1, p, slash, none)
  BY <1>1, <1>2, <1>4, <1>5, Zenon DEF IsHttps, IsShortHttps
<1>7. /\ IsUrl(url) /\ Web(url) /\ IsLink(url) /\ Inert(url.frag)
      /\ url.host = host /\ url.path = p /\ url.query = none /\ url.port = FALSE
  BY <1>6, HttpsIs, Zenon
<1>8. b.word \notin {"movie", "biz"} => Closed(p)
  BY <1>3 DEF Closed, IsPair, Plain
<1> QED BY <1>2, <1>3, <1>7, <1>8, Zenon DEF IsWebLink, IsShort

-----------------------------------------------------------------------------
(***************************************************************************)
(* A key comes back from its URL.                                          *)
(***************************************************************************)

\* A title's link reads back as the title ...
LEMMA ImdbComesBack ==
  ASSUME NEW v, v # <<>>, NEW url, ImdbLink(url, v), NEW k, k = <<"imdb", v>>, k # Unread
  PROVE  Dedicated(url) = k
<1>1. PICK a, b : /\ IsShort(url, a, b)
                  /\ a.word = "title"
                  /\ b.word = "tt" /\ b.num = v /\ b.tail = Nil
  BY DEF ImdbLink
<1>2. IsLink(url) /\ url.host = "imdb.com" /\ Len(url.query) = 0
  BY <1>1, EmptyRow DEF ImdbLink, IsShort
<1>3. HostSegment(url).word = "imdb.com"
  BY <1>2, HostIsASegment DEF IsLink, Services
<1>4. Token(url, "tt") = 3
  <2>1. "tt" \in {"tt", "q"} /\ HostSegment(url).word # "tt" /\ a.word # "tt" /\ b.num # <<>>
    BY <1>1, <1>3
  <2> QED BY <1>1, <2>1, TokenOfTwo
<1>5. 1 \in DOMAIN Text(url) /\ Text(url)[1] = HostSegment(url) /\ Text(url)[3] = b
  BY <1>1, ShortText
<1>6. Imdb(url) = k
  <2>1. 3 # 0
    OBVIOUS
  <2> QED BY <1>1, <1>4, <1>5, <2>1, Zenon DEF Imdb
<1>7. Mentions(url, "imdb.com")
  BY <1>3, <1>5 DEF Mentions
<1>8. PlaceId(url) = Unread
  BY <1>2 DEF PlaceId
<1> QED BY <1>6, <1>7, <1>8, GuessUnfolds

\* ... an item's as the item ...
LEMMA QidComesBack ==
  ASSUME NEW v, v # <<>>, v[2] # 0, NEW url, QidLink(url, v),
         NEW k, k = <<"wikidata", v>>, k # Unread
  PROVE  Dedicated(url) = k
<1>1. PICK a, b : /\ IsShort(url, a, b)
                  /\ a.word = "wiki"
                  /\ b.word = "q" /\ b.num = v /\ b.tail = Nil
  BY DEF QidLink
<1>2. IsLink(url) /\ url.host = "wikidata.org" /\ Len(url.query) = 0
  BY <1>1, EmptyRow DEF QidLink, IsShort
<1>3. HostSegment(url).word = "wikidata.org"
  BY <1>2, HostIsASegment DEF IsLink, Services
<1>4. Token(url, "q") = 3 /\ Token(url, "tt") = 0
  <2>1. /\ "q" \in {"tt", "q"} /\ HostSegment(url).word # "q" /\ a.word # "q" /\ b.num # <<>>
        /\ "tt" \in {"tt", "q"} /\ HostSegment(url).word # "tt" /\ a.word # "tt" /\ b.word # "tt"
    BY <1>1, <1>3
  <2> QED BY <1>1, <2>1, TokenOfTwo
<1>5. 1 \in DOMAIN Text(url) /\ Text(url)[1] = HostSegment(url) /\ Text(url)[3] = b
  BY <1>1, ShortText
<1>6. Qid(url) = k
  <2>1. 3 # 0
    OBVIOUS
  <2> QED BY <1>1, <1>4, <1>5, <2>1, Zenon DEF Qid
<1>7. Mentions(url, "wikidata.org")
  BY <1>3, <1>5 DEF Mentions
<1>8. PlaceId(url) = Unread /\ Imdb(url) = Unread
  BY <1>2, <1>4 DEF PlaceId, Imdb
<1> QED BY <1>6, <1>7, <1>8, GuessUnfolds

\* ... a film's as the film ...
LEMMA TmdbComesBack ==
  ASSUME NEW v, v # <<>>, v[2] # 0, Canonical(v) = v, NEW url, TmdbLink(url, v),
         NEW k, k = <<"tmdb", v>>, k # Unread
  PROVE  Dedicated(url) = k
<1>1. PICK a, b : /\ IsShort(url, a, b)
                  /\ a.sep = "/" /\ Plain(a, "movie")
                  /\ b.sep = "/" /\ b.word = Nil /\ b.num = v /\ b.tail = Nil
  BY DEF TmdbLink
<1>2. IsLink(url) /\ url.host = "themoviedb.org" /\ Len(url.query) = 0
  BY <1>1, EmptyRow DEF TmdbLink, IsShort
<1>3. HostSegment(url).word = "themoviedb.org"
  BY <1>2, HostIsASegment DEF IsLink, Services
<1>4. Token(url, "q") = 0 /\ Token(url, "tt") = 0
  <2>1. /\ "q" \in {"tt", "q"} /\ HostSegment(url).word # "q" /\ a.word # "q" /\ b.word # "q"
        /\ "tt" \in {"tt", "q"} /\ HostSegment(url).word # "tt" /\ a.word # "tt" /\ b.word # "tt"
    BY <1>1, <1>3 DEF Plain, Nil
  <2> QED BY <1>1, <2>1, TokenOfTwo
<1>5. 1 \in DOMAIN Text(url) /\ Text(url)[1] = HostSegment(url)
  BY <1>1, ShortText
<1>6. Places(url, "movie") # {} /\ After(url, "movie") = b
  <2>1. "movie" \in {"movie", "tv", "biz"}
    OBVIOUS
  <2> QED BY <1>1, <2>1, PlacesOfTwo
<1>7. Tmdb(url) = k
  BY <1>1, <1>6, Zenon DEF Tmdb
<1>8. MatchesTmdb(url)
  BY <1>3, <1>5, <1>6 DEF MatchesTmdb, Mentions
<1>9. PlaceId(url) = Unread /\ Imdb(url) = Unread /\ Qid(url) = Unread
  BY <1>2, <1>4 DEF PlaceId, Imdb, Qid
<1> QED BY <1>7, <1>8, <1>9, GuessUnfolds

\* ... a business's as the business, whatever its slug ...
LEMMA YelpComesBack ==
  ASSUME NEW v, IsSlug(v), NEW url, YelpLink(url, v), NEW k, k = <<"yelp", v>>, k # Unread
  PROVE  Dedicated(url) = k
<1>1. PICK a : IsShort(url, a, v) /\ a.sep = "/" /\ Plain(a, "biz")
  BY DEF YelpLink
<1>2. IsLink(url) /\ url.host = "yelp.com" /\ url.port = FALSE /\ Len(url.query) = 0
  BY <1>1, EmptyRow DEF YelpLink, IsShort
<1>3. HostSegment(url).word = "yelp.com" /\ Plain(HostSegment(url), "yelp.com")
  BY <1>2, HostIsASegment DEF IsLink, Services
<1>4. /\ 1 \in DOMAIN Text(url)
      /\ Text(url)[1] = HostSegment(url) /\ Text(url)[2] = a /\ Text(url)[3] = v
      /\ \A i \in DOMAIN Text(url) :
           Text(url)[i].word \in Recognized => i = 1 \/ i = 2 \/ i = 3
  BY <1>1, ShortText
<1>5. 2 \in Places(url, "biz") /\ After(url, "biz") = v
  <2>1. "biz" \in {"movie", "tv", "biz"} /\ v.sep = "/"
    BY DEF IsSlug
  <2> QED BY <1>1, <2>1, PlacesOfTwo
<1>6. Yelp(url) = k
  <2>1. PICK w : w = [v EXCEPT !.upper = FALSE]
    OBVIOUS
  <2>2. w = v
    BY <2>1, RecasedIs DEF IsSlug
  <2>3. [After(url, "biz") EXCEPT !.upper = FALSE] = v
    BY <1>5, <2>1, <2>2, Zenon
  <2>4. Places(url, "biz") # {} /\ ~ Plain(After(url, "biz"), Nil)
    BY <1>5 DEF IsSlug
  <2> QED BY <2>3, <2>4, Zenon DEF Yelp
<1>7. MatchesYelp(url)
  <2>1. 2 > 1 /\ 2 - 1 = 1
    OBVIOUS
  <2> QED BY <1>3, <1>4, <1>5, <2>1 DEF MatchesYelp
<1>8. ASSUME NEW name \in Recognized, Mentions(url, name)
      PROVE  name = "yelp.com" \/ name = "biz" \/ name = v.word
  BY <1>1, <1>3, <1>4, <1>8 DEF Mentions, Plain
<1>9. ASSUME NEW prefix \in {"tt", "q"}, v.word # prefix
      PROVE  Token(url, prefix) = 0
  <2>1. HostSegment(url).word # prefix /\ a.word # prefix
    BY <1>1, <1>3 DEF Plain
  <2> QED BY <1>1, <1>9, <2>1, TokenOfTwo
<1>10. ~ (Mentions(url, "imdb.com") /\ Imdb(url) # Unread)
  <2>1. Mentions(url, "imdb.com") => v.word = "imdb.com"
    BY <1>8 DEF Recognized, Services
  <2>2. v.word # "tt" => Token(url, "tt") = 0
    BY <1>9
  <2> QED BY <2>1, <2>2 DEF Imdb
<1>11. ~ (Mentions(url, "wikidata.org") /\ Qid(url) # Unread)
  <2>1. Mentions(url, "wikidata.org") => v.word = "wikidata.org"
    BY <1>8 DEF Recognized, Services
  <2>2. v.word # "q" => Token(url, "q") = 0
    BY <1>9
  <2> QED BY <2>1, <2>2 DEF Qid
<1>12. ~ MatchesTmdb(url)
  <2>1. Mentions(url, "themoviedb.org") => v.word = "themoviedb.org"
    BY <1>8 DEF Recognized, Services
  <2>2. v.word # "movie" => Places(url, "movie") = {}
    <3>1. "movie" \in {"movie", "tv", "biz"} /\ v.sep = "/" /\ a.word # "movie"
      BY <1>1 DEF IsSlug, Plain
    <3> QED BY <1>1, <3>1, PlacesOfTwo
  <2> QED BY <2>1, <2>2 DEF MatchesTmdb
<1>13. PlaceId(url) = Unread
  BY <1>2 DEF PlaceId
<1> QED BY <1>6, <1>7, <1>10, <1>11, <1>12, <1>13, GuessUnfolds

\* ... and a place's as the place.
LEMMA PlaceComesBack ==
  ASSUME NEW v, IsPlace(v), NEW url, Web(url), PlaceLink(url, v),
         NEW k, k = <<"google_place_id", v>>, k # Unread
  PROVE  Dedicated(url) = k
<1>1. url.host = "google.com" /\ Len(url.query) = 2 /\ url.query[1] = Q /\ url.query[2] = v
  BY DEF PlaceLink, IsPair
<1>2. v.sep = "=" /\ v.word = "place_id:" /\ ~ Plain(v, "place_id:")
  BY DEF IsPlace
<1>3. PlaceId(url) = k
  BY <1>1, <1>2, Zenon DEF PlaceId
<1> QED BY <1>3, GuessUnfolds

\* A page that no slash makes another, and any other key.
IsSettled(k) == k[1] = "url" => Closed(k[2].path)

\* A link that reads back as a key, unless a social network's name occurs in it.
Returns(url, k) ==
  /\ IsWebLink(url)
  /\ IF k[1] = "yelp" THEN YelpLink(url, k[2]) ELSE IsSettled(k) => Closed(url.path)
  /\ Dedicated(url) = k \/ (Dedicated(url) = Unread /\ SpecificUrl(url) = k)

\* Each kind's URL comes back as its key: IMDb,
LEMMA ImdbKey ==
  ASSUME NEW v, v \in Nat \X Nat, NEW k, k = <<"imdb", v>>, k # Unread
  PROVE  Returns(UrlFor(k), k)
<1>1. PICK a, b : a = Word("title") /\ b = Number("tt", v)
  OBVIOUS
<1>2. PICK url : url = Https("imdb.com", 1, <<a, b>>, TRUE, <<>>)
  OBVIOUS
<1>3. IsSegment(a) /\ a.word = "title" /\ IsSegment(b) /\ b.word = "tt" /\ b.num = v /\ b.tail = Nil
  BY <1>1, WordIs, NumberIs
<1>4. IsWebLink(url) /\ IsShort(url, a, b) /\ url.host = "imdb.com" /\ Closed(url.path)
  <2>1. "imdb.com" \in Services /\ b.word \notin {"movie", "biz"}
    BY <1>3 DEF Services
  <2>2. IsShortHttps(url, "imdb.com", a, b, TRUE)
    BY <1>2, <1>3, <2>1, Zenon DEF IsShortHttps
  <2> QED BY <2>1, <2>2, ShortUrl, Zenon
<1>5. ImdbLink(url, v)
  BY <1>3, <1>4, Zenon DEF ImdbLink
<1>6. k[1] = "imdb" /\ k[2] = v /\ v # <<>>
  OBVIOUS
<1>7. UrlFor(k) = url
  BY <1>1, <1>2, <1>6, Zenon DEF UrlFor
<1>8. Dedicated(url) = k
  BY <1>5, <1>6, ImdbComesBack
<1>9. k[1] # "yelp"
  BY <1>6
<1> QED BY <1>4, <1>7, <1>8, <1>9, Zenon DEF Returns

\* Wikidata,
LEMMA QidKey ==
  ASSUME NEW v, v \in Nat \X Nat, v[2] # 0, NEW k, k = <<"wikidata", v>>, k # Unread
  PROVE  Returns(UrlFor(k), k)
<1>1. PICK a, b : a = Word("wiki") /\ b = Number("q", v)
  OBVIOUS
<1>2. PICK url : url = Https("wikidata.org", 1, <<a, b>>, FALSE, <<>>)
  OBVIOUS
<1>3. IsSegment(a) /\ a.word = "wiki" /\ IsSegment(b) /\ b.word = "q" /\ b.num = v /\ b.tail = Nil
  BY <1>1, WordIs, NumberIs
<1>4. IsWebLink(url) /\ IsShort(url, a, b) /\ url.host = "wikidata.org" /\ Closed(url.path)
  <2>1. "wikidata.org" \in Services /\ b.word \notin {"movie", "biz"}
    BY <1>3 DEF Services
  <2>2. IsShortHttps(url, "wikidata.org", a, b, FALSE)
    BY <1>2, <1>3, <2>1, Zenon DEF IsShortHttps
  <2> QED BY <2>1, <2>2, ShortUrl, Zenon
<1>5. QidLink(url, v)
  BY <1>3, <1>4, Zenon DEF QidLink
<1>6. k[1] = "wikidata" /\ k[2] = v /\ v # <<>>
  OBVIOUS
<1>7. UrlFor(k) = url
  <2>1. k[1] # "imdb"
    BY <1>6
  <2> QED BY <1>1, <1>2, <1>6, <2>1, Zenon DEF UrlFor
<1>8. Dedicated(url) = k
  BY <1>5, <1>6, QidComesBack
<1>9. k[1] # "yelp"
  BY <1>6
<1> QED BY <1>4, <1>7, <1>8, <1>9, Zenon DEF Returns

\* TMDb,
LEMMA PairsOfNumbers ==
  ASSUME NEW v \in Nat \X Nat
  PROVE  v = <<v[1], v[2]>> /\ v # <<>>
OBVIOUS

LEMMA TmdbKey ==
  ASSUME NEW v, v \in Nat \X Nat, v[1] = 0, v[2] # 0, NEW k, k = <<"tmdb", v>>, k # Unread
  PROVE  Returns(UrlFor(k), k)
<1>1. PICK a, b : a = Word("movie") /\ b = Number(Nil, v)
  OBVIOUS
<1>2. PICK url : url = Https("themoviedb.org", 1, <<a, b>>, FALSE, <<>>)
  OBVIOUS
<1>3. /\ IsSegment(a) /\ a.sep = "/" /\ Plain(a, "movie")
      /\ IsSegment(b) /\ b.sep = "/" /\ b.word = Nil /\ b.num = v /\ b.tail = Nil
  BY <1>1, WordIs, NumberIs DEF Plain
<1>4. IsWebLink(url) /\ IsShort(url, a, b) /\ url.host = "themoviedb.org" /\ Closed(url.path)
  <2>1. "themoviedb.org" \in Services /\ b.word \notin {"movie", "biz"}
    BY <1>3 DEF Services, Nil
  <2>2. IsShortHttps(url, "themoviedb.org", a, b, FALSE)
    BY <1>2, <1>3, <2>1, Zenon DEF IsShortHttps
  <2> QED BY <2>1, <2>2, ShortUrl, Zenon
<1>5. TmdbLink(url, v)
  BY <1>3, <1>4, Zenon DEF TmdbLink
<1>6. k[1] = "tmdb" /\ k[2] = v /\ v # <<>> /\ Canonical(v) = v
  <2>1. v = <<v[1], v[2]>> /\ v # <<>>
    BY PairsOfNumbers, Zenon
  <2>2. Canonical(v) = v
    BY <2>1, Zenon DEF Canonical
  <2> QED BY <2>1, <2>2
<1>7. UrlFor(k) = url
  <2>1. k[1] # "imdb" /\ k[1] # "wikidata"
    BY <1>6
  <2> QED BY <1>1, <1>2, <1>6, <2>1, Zenon DEF UrlFor
<1>8. Dedicated(url) = k
  BY <1>5, <1>6, TmdbComesBack
<1>9. k[1] # "yelp"
  BY <1>6
<1> QED BY <1>4, <1>7, <1>8, <1>9, Zenon DEF Returns

\* Yelp,
LEMMA YelpKey ==
  ASSUME NEW v, IsSlug(v), NEW k, k = <<"yelp", v>>, k # Unread, UrlFor(k) # NoText
  PROVE  Returns(UrlFor(k), k)
<1>1. PICK a : a = Word("biz")
  OBVIOUS
<1>2. PICK url : url = Https("yelp.com", 1, <<a, v>>, FALSE, <<>>)
  OBVIOUS
<1>3. IsSegment(a) /\ a.sep = "/" /\ Plain(a, "biz") /\ IsSegment(v)
  BY <1>1, WordIs DEF Plain, IsSlug
<1>4. IsWebLink(url) /\ IsShort(url, a, v) /\ url.host = "yelp.com" /\ url.port = FALSE
  <2>1. "yelp.com" \in Services
    BY DEF Services
  <2>2. IsShortHttps(url, "yelp.com", a, v, FALSE)
    BY <1>2, <1>3, <2>1, Zenon DEF IsShortHttps
  <2> QED BY <2>1, <2>2, ShortUrl, Zenon
<1>5. YelpLink(url, v)
  BY <1>3, <1>4, Zenon DEF YelpLink
<1>6. k[1] = "yelp" /\ k[2] = v
  OBVIOUS
<1>7. UrlFor(k) = url
  <2>1. k[1] # "imdb" /\ k[1] # "wikidata" /\ k[1] # "tmdb"
    BY <1>6
  <2> QED BY <1>1, <1>2, <1>6, <2>1, Zenon DEF UrlFor
<1>8. Dedicated(url) = k
  BY <1>5, YelpComesBack
<1> QED BY <1>4, <1>5, <1>6, <1>7, <1>8, Zenon DEF Returns

\* a place,
LEMMA PlaceKey ==
  ASSUME NEW v, IsPlace(v), NEW k, k = <<"google_place_id", v>>, k # Unread, UrlFor(k) # NoText
  PROVE  Returns(UrlFor(k), k)
<1>1. PICK a, b, q : a = Word("maps") /\ b = Word("place") /\ q = Q
  OBVIOUS
<1>2. PICK p, r : p = <<a, b>> /\ r = <<q, v>>
  OBVIOUS
<1>3. PICK url : url = Https("google.com", 1, p, TRUE, r)
  OBVIOUS
<1>4. IsSegment(a) /\ IsSegment(b) /\ b.word = "place"
  BY <1>1, WordIs
<1>5. IsSegment(q)
  <2>1. PICK w, c : w = Word("q") /\ c = "?"
    OBVIOUS
  <2>2. w = [sep |-> "/", word |-> "q", num |-> <<>>, tail |-> Nil, upper |-> FALSE]
    BY <2>1 DEF Word
  <2>3. q = [sep |-> c, word |-> "q", num |-> <<>>, tail |-> Nil, upper |-> FALSE]
    <3>1. q = [w EXCEPT !.sep = c]
      BY <1>1, <2>1, Zenon DEF Q
    <3> QED BY <2>2, <3>1, SeparatorIs
  <2>4. q.sep = c /\ q.word = "q" /\ q.num = <<>> /\ q.tail = Nil /\ q.upper = FALSE
    BY <2>3
  <2> QED BY <2>3, <2>4 DEF IsSegment
<1>6. IsPair(p, a, b) /\ IsPair(r, q, v)
  BY <1>2, <1>4, <1>5, PairIs DEF IsPlace
<1>7. "google.com" \in Hosts /\ 1 \in {0, 1} /\ IsRow(p) /\ IsRow(r)
  BY <1>6 DEF Hosts, Services, IsPair
<1>8. /\ IsUrl(url) /\ Web(url) /\ IsLink(url)
      /\ url.host = "google.com" /\ url.path = p /\ url.query = r
  <2>1. IsHttps(url, "google.com", 1, p, TRUE, r)
    BY <1>3, <1>7, Zenon DEF IsHttps
  <2> QED BY <2>1, HttpsIs, Zenon
<1>9. PlaceLink(url, v)
  BY <1>1, <1>6, <1>8, Zenon DEF PlaceLink
<1>10. Closed(p)
  BY <1>4, <1>6 DEF Closed, IsPair, Plain
<1>11. k[1] = "google_place_id" /\ k[2] = v
  OBVIOUS
<1>12. UrlFor(k) = url
  <2>1. k[1] # "imdb" /\ k[1] # "wikidata" /\ k[1] # "tmdb" /\ k[1] # "yelp"
    BY <1>11
  <2> QED BY <1>1, <1>2, <1>3, <1>11, <2>1, Zenon DEF UrlFor
<1>13. Dedicated(url) = k
  BY <1>8, <1>9, PlaceComesBack
<1>14. k[1] # "yelp"
  BY <1>11
<1> QED BY <1>8, <1>10, <1>12, <1>13, <1>14, Zenon DEF Returns, IsWebLink

\* and a page, for which url_specific_url looks before it answers.
LEMMA PageKey ==
  ASSUME NEW v, v.www = 0, v.host \in Hosts, IsRow(v.path), IsRow(v.query),
         NEW k, k = <<"url", v>>, UrlFor(k) # NoText
  PROVE  Returns(UrlFor(k), k)
<1>1. k[1] = "url" /\ k[2] = v
  OBVIOUS
<1>2. UrlFor(k) = UrlOfPage(v)
  BY <1>1 DEF UrlFor
<1>3. PICK url : url = Https(v.host, v.www, v.path, FALSE, v.query)
  OBVIOUS
<1>4. UrlOfPage(v) =
        IF ~ Schemed(v) /\ SpecificUrl(url) = <<"url", v>> /\ Dedicated(url) = Unread
          THEN url ELSE NoText
  BY <1>3, Zenon DEF UrlOfPage
<1>5. UrlFor(k) = url /\ SpecificUrl(url) = k /\ Dedicated(url) = Unread
  BY <1>2, <1>4
<1>6. IsUrl(url) /\ Web(url) /\ IsLink(url) /\ url.path = v.path
  <2>1. v.www \in {0, 1}
    OBVIOUS
  <2>2. IsHttps(url, v.host, v.www, v.path, FALSE, v.query)
    BY <1>3, <2>1, Zenon DEF IsHttps
  <2> QED BY <2>2, HttpsIs, Zenon
<1>7. IsSettled(k) => Closed(url.path)
  BY <1>1, <1>6, Zenon DEF IsSettled
<1>8. k[1] # "yelp"
  BY <1>1
<1> QED BY <1>5, <1>6, <1>7, <1>8, Zenon DEF Returns, IsWebLink

\* ... and so for every key: unless a social network's name occurs in its URL.
LEMMA KeysComeBack ==
  ASSUME NEW k, k # Unread, IsKey(k), UrlFor(k) # NoText
  PROVE  /\ IsWebLink(UrlFor(k))
         /\ IF k[1] = "yelp" THEN YelpLink(UrlFor(k), k[2])
            ELSE IsSettled(k) => Closed(UrlFor(k).path)
         /\ Guess(UrlFor(k)) = IF Social(UrlFor(k)) THEN Unread ELSE k
<1>1. PICK tag, v : k = <<tag, v>> /\ IsValue(tag, v)
  BY DEF IsKey
<1>2. Returns(UrlFor(k), k)
  <2>1. CASE tag = "imdb"
    BY <1>1, <2>1, ImdbKey DEF IsValue
  <2>2. CASE tag = "wikidata"
    BY <1>1, <2>2, QidKey DEF IsValue
  <2>3. CASE tag = "tmdb"
    BY <1>1, <2>3, TmdbKey DEF IsValue
  <2>4. CASE tag = "yelp"
    BY <1>1, <2>4, YelpKey DEF IsValue
  <2>5. CASE tag = "google_place_id"
    BY <1>1, <2>5, PlaceKey DEF IsValue
  <2>6. CASE tag = "url"
    BY <1>1, <2>6, PageKey DEF IsValue
  <2>7. CASE tag = "domain"
    <3>1. k[1] = "domain"
      BY <1>1, <2>7
    <3> QED BY <3>1 DEF UrlFor
  <2> QED BY <1>1, <2>1, <2>2, <2>3, <2>4, <2>5, <2>6, <2>7 DEF IsValue
<1>3. IsWebLink(UrlFor(k)) /\ (IF k[1] = "yelp" THEN YelpLink(UrlFor(k), k[2])
                               ELSE IsSettled(k) => Closed(UrlFor(k).path))
  BY <1>2 DEF Returns
<1>4. Dedicated(UrlFor(k)) = k \/ (Dedicated(UrlFor(k)) = Unread /\ SpecificUrl(UrlFor(k)) = k)
  BY <1>2 DEF Returns
<1>5. Web(UrlFor(k))
  BY <1>3 DEF IsWebLink
<1> QED BY <1>3, <1>4, <1>5, GuessUnfolds

-----------------------------------------------------------------------------
(***************************************************************************)
(* A URL written in another way.                                           *)
(***************************************************************************)

\* What people write and what may come in a URL for KeySticks: a fragment has nothing that a
\* recognizer looks for, no path ends in "movie" or "biz", and no other host begins like an id.
FragmentsAreInert == \A frag \in Fragments : Inert(frag)
PathsEndClosed == \A path \in Paths : Closed(path)
HostsAreNoTokens == \A host \in Others : Spelled[host].word \notin {"tt", "q"}

\* A host is no token.
LEMMA HostIsNoToken ==
  ASSUME HostsAreNoTokens, NEW url, IsLink(url)
  PROVE  HostSegment(url).word \notin {"tt", "q"}
<1>1. CASE url.host \in Services
  <2>1. HostSegment(url).word = url.host
    BY <1>1, HostIsASegment DEF IsLink
  <2> QED BY <1>1, <2>1 DEF Services
<1>2. CASE url.host \notin Services
  <2>1. PICK s : s = Spelled[url.host]
    OBVIOUS
  <2>2. url.host \in Others
    BY <1>2 DEF IsLink, Hosts
  <2>3. s.word \notin {"tt", "q"} /\ s \in Segments
    BY <2>1, <2>2, ReferencesAssumption DEF HostsAreNoTokens
  <2>4. s = [sep |-> s.sep, word |-> s.word, num |-> s.num, tail |-> s.tail, upper |-> s.upper]
    BY <2>3 DEF Segments
  <2>5. PICK t : t = [s EXCEPT !.tail = ":port"]
    OBVIOUS
  <2>6. t = [sep |-> s.sep, word |-> s.word, num |-> s.num, tail |-> ":port", upper |-> s.upper]
    BY <2>4, <2>5, SeparatorIs
  <2>7. t.word = s.word
    BY <2>6
  <2>8. HostSegment(url) = IF url.port THEN t ELSE s
    BY <1>2, <2>1, <2>5, Zenon DEF HostSegment
  <2> QED BY <2>3, <2>7, <2>8
<1> QED BY <1>1, <1>2

\* A link, and another to the same page.
SamePage(url, other) ==
  /\ IsLink(url) /\ Inert(url.frag) /\ Closed(url.path) /\ Web(url)
  /\ IsLink(other) /\ Inert(other.frag) /\ Closed(other.path) /\ Web(other)
  /\ Alike(url, other) /\ Alike(other, url)

\* What is recognized in one is recognized in the other, at the same place.
LEMMA RecognizedInBoth ==
  ASSUME NEW url, NEW other, SamePage(url, other),
         NEW i \in DOMAIN Text(url), Text(url)[i].word \in Recognized
  PROVE  Fixed(url, i) /\ i \in DOMAIN Text(other) /\ Text(other)[i] = Text(url)[i]
<1>1. /\ IsLink(url) /\ Inert(url.frag) /\ IsLink(other) /\ Alike(url, other)
  BY DEF SamePage
<1>2. Fixed(url, i)
  BY <1>1, RecognizedIsFixed
<1> QED BY <1>1, <1>2, FixedIsTheSame

\* So is a name,
LEMMA MentionedInBoth ==
  ASSUME NEW url, NEW other, SamePage(url, other), NEW name \in Recognized, Mentions(url, name)
  PROVE  Mentions(other, name)
<1>1. PICK i \in DOMAIN Text(url) : Text(url)[i].word = name
  BY DEF Mentions
<1> QED BY <1>1, RecognizedInBoth DEF Mentions

\* a token,
LEMMA TokensOfBoth ==
  ASSUME HostsAreNoTokens, NEW url, NEW other, SamePage(url, other), NEW prefix \in {"tt", "q"},
         NEW i \in Tokens(url, prefix)
  PROVE  i \in Tokens(other, prefix) /\ Text(other)[i] = Text(url)[i]
<1>1. i \in DOMAIN Text(url) /\ Text(url)[i].word = prefix /\ ~ Plain(Text(url)[i], prefix)
  BY DEF Tokens
<1>2. prefix \in Recognized
  BY DEF Recognized
<1>3. i \in DOMAIN Text(other) /\ Text(other)[i] = Text(url)[i]
  BY <1>1, <1>2, RecognizedInBoth
<1>4. IsLink(url)
  BY DEF SamePage
<1>5. i \in Nat /\ i > 0 /\ (i = 1 => Text(url)[i] = HostSegment(url))
  BY <1>1, <1>4, TextSegments
<1>6. HostSegment(url).word # prefix
  BY <1>4, HostIsNoToken
<1>7. i > 1
  BY <1>1, <1>5, <1>6
<1> QED BY <1>1, <1>3, <1>7 DEF Tokens

\* and a place: a trailing slash makes none, and a fragment begins with no slash.
LEMMA PlacesOfBoth ==
  ASSUME NEW url, NEW other, SamePage(url, other), NEW word \in {"movie", "biz"},
         NEW i \in Places(url, word)
  PROVE  /\ i \in Places(other, word)
         /\ Text(other)[i] = Text(url)[i] /\ Text(other)[i + 1] = Text(url)[i + 1]
<1>1. PICK t, n, m, f : /\ t = Text(url) /\ n = Len(url.path) /\ m = Len(url.query)
                        /\ f = Len(url.frag)
  OBVIOUS
<1>2. IsLink(url) /\ IsLink(other) /\ Alike(url, other) /\ Closed(url.path)
  BY DEF SamePage
<1>3. /\ n \in Nat /\ m \in Nat /\ f \in Nat
      /\ DOMAIN t = 1 .. n + m + f + 2
      /\ \A j \in 1 .. n : t[j + 1] = url.path[j]
      /\ \A j \in 1 .. f : t[n + 2 + m + j] = url.frag[j]
  BY <1>1, <1>2, TextIs, Zenon
<1>4. /\ i \in DOMAIN t /\ t[i].sep = "/" /\ Plain(t[i], word)
      /\ i + 1 \in DOMAIN t /\ t[i + 1].sep = "/"
  BY <1>1 DEF Places
<1>5. i \in Nat /\ i > 1
  BY <1>2, PlaceIs
<1>6. Fixed(url, i) /\ i \in DOMAIN Text(other) /\ Text(other)[i] = Text(url)[i]
  <2>1. Text(url)[i].word \in Recognized
    BY <1>1, <1>4 DEF Plain, Recognized
  <2> QED BY <1>1, <1>4, <2>1, RecognizedInBoth
<1>7. i \in 1 .. n + 1 \/ i \in n + 3 .. n + 2 + m
  BY <1>1, <1>6 DEF Fixed
<1>8. i # n + 1
  <2> SUFFICES ASSUME i = n + 1
               PROVE  FALSE
    OBVIOUS
  <2>1. n \in 1 .. n /\ n # 0
    BY <1>3, <1>5
  <2>2. t[i] = url.path[n]
    BY <1>3, <2>1
  <2> QED BY <1>1, <1>2, <1>4, <2>1, <2>2 DEF Closed
<1>9. i # n + 2 + m
  <2> SUFFICES ASSUME i = n + 2 + m
               PROVE  FALSE
    OBVIOUS
  <2>1. 1 \in 1 .. f /\ n + 2 + m + 1 = i + 1
    BY <1>3, <1>4
  <2>2. t[i + 1] = url.frag[1]
    BY <1>3, <2>1
  <2>3. url.frag[1].sep = "#"
    <3>1. url.frag \in Fragments
      BY <1>2 DEF IsLink
    <3> QED BY <1>1, <2>1, <3>1, FragmentsAreRows
  <2> QED BY <1>4, <2>2, <2>3
<1>10. i + 1 \in 1 .. n + 1 \/ i + 1 \in n + 3 .. n + 2 + m
  BY <1>3, <1>5, <1>7, <1>8, <1>9
<1>11. Fixed(url, i + 1)
  BY <1>1, <1>10 DEF Fixed
<1>12. i + 1 \in DOMAIN Text(other) /\ Text(other)[i + 1] = Text(url)[i + 1]
  BY <1>2, <1>11, FixedIsTheSame
<1> QED BY <1>1, <1>4, <1>6, <1>12 DEF Places

\* So Yelp's pattern is in both or in none.
LEMMA YelpInBoth ==
  ASSUME NEW url, NEW other, SamePage(url, other), MatchesYelp(url)
  PROVE  MatchesYelp(other)
<1>1. PICK i \in Places(url, "biz") : i > 1 /\ Plain(Text(url)[i - 1], "yelp.com")
  BY DEF MatchesYelp
<1>2. i \in Places(other, "biz")
  BY PlacesOfBoth
<1>3. IsLink(url)
  BY DEF SamePage
<1>4. i - 1 \in DOMAIN Text(url)
  <2>1. i \in DOMAIN Text(url) /\ i \in Nat
    BY <1>3, PlaceIs
  <2>2. PICK n \in Nat : DOMAIN Text(url) = 1 .. n
    BY <1>3, TextIsFinite
  <2> QED BY <1>1, <2>1, <2>2
<1>5. Text(url)[i - 1].word \in Recognized
  BY <1>1 DEF Plain, Recognized, Services
<1>6. Text(other)[i - 1] = Text(url)[i - 1]
  BY <1>4, <1>5, RecognizedInBoth
<1> QED BY <1>1, <1>2, <1>6 DEF MatchesYelp

\* Two spellings of a page are guessed to be the same.
LEMMA RespelledReadsTheSame ==
  ASSUME HostsAreNoTokens, NEW url, NEW other, SamePage(url, other)
  PROVE  Guess(other) = Guess(url)
<1>1. SamePage(other, url)
  BY DEF SamePage
<1>2. /\ other.host = url.host /\ other.query = url.query /\ other.path = url.path
      /\ Web(url) /\ Web(other) /\ url.www \in {0, 1} /\ other.www \in {0, 1}
  BY DEF SamePage, Alike, IsLink
<1>3. \A name \in Recognized : Mentions(other, name) <=> Mentions(url, name)
  BY <1>1, MentionedInBoth
<1>4. ASSUME NEW prefix \in {"tt", "q"}
      PROVE  /\ Token(other, prefix) = Token(url, prefix)
             /\ Token(url, prefix) # 0 =>
                  Text(other)[Token(url, prefix)] = Text(url)[Token(url, prefix)]
  <2>1. Tokens(other, prefix) = Tokens(url, prefix)
    BY <1>1, TokensOfBoth
  <2>2. Token(other, prefix) = Token(url, prefix)
    BY <2>1, Zenon DEF Token, Tokens
  <2>3. IsLink(url)
    BY DEF SamePage
  <2>4. Token(url, prefix) # 0 => Token(url, prefix) \in Tokens(url, prefix)
    BY <2>3, TokenIs
  <2> QED BY <2>2, <2>4, TokensOfBoth
<1>5. ASSUME NEW word \in {"movie", "biz"}
      PROVE  /\ Places(other, word) = Places(url, word)
             /\ Places(url, word) # {} => After(other, word) = After(url, word)
  <2>1. Places(other, word) = Places(url, word)
    BY <1>1, PlacesOfBoth
  <2>2. IsLink(url)
    BY DEF SamePage
  <2>3. word \in {"movie", "tv", "biz"}
    OBVIOUS
  <2>4. Places(url, word) # {} => First(Places(url, word)) \in Places(url, word)
    BY <2>2, <2>3, PlaceIs
  <2>5. Places(url, word) # {} =>
          Text(other)[First(Places(url, word)) + 1] = Text(url)[First(Places(url, word)) + 1]
    BY <2>4, PlacesOfBoth
  <2> QED BY <2>1, <2>5, Zenon DEF After
<1>6. Imdb(other) = Imdb(url)
  <2>1. /\ Token(other, "tt") = Token(url, "tt")
        /\ Token(url, "tt") # 0 => Text(other)[Token(url, "tt")] = Text(url)[Token(url, "tt")]
    BY <1>4
  <2> QED BY <2>1 DEF Imdb
<1>7. Qid(other) = Qid(url)
  <2>1. /\ Token(other, "q") = Token(url, "q")
        /\ Token(url, "q") # 0 => Text(other)[Token(url, "q")] = Text(url)[Token(url, "q")]
    BY <1>4
  <2> QED BY <2>1 DEF Qid
<1>8. /\ Places(other, "movie") = Places(url, "movie") /\ Places(other, "biz") = Places(url, "biz")
      /\ Places(url, "movie") # {} => After(other, "movie") = After(url, "movie")
      /\ Places(url, "biz") # {} => After(other, "biz") = After(url, "biz")
  BY <1>5
<1>9. Yelp(other) = Yelp(url)
  BY <1>8, Zenon DEF Yelp
<1>10. "themoviedb.org" \in Recognized /\ "imdb.com" \in Recognized /\ "wikidata.org" \in Recognized
  BY DEF Recognized, Services
<1>11. MatchesTmdb(other) <=> MatchesTmdb(url)
  BY <1>3, <1>8, <1>10 DEF MatchesTmdb
<1>12. MatchesTmdb(url) => Tmdb(other) = Tmdb(url)
  <2>1. ASSUME MatchesTmdb(url)
        PROVE  Tmdb(other) = Tmdb(url)
    <3>1. Places(url, "movie") # {}
      BY <2>1 DEF MatchesTmdb
    <3> QED BY <1>8, <3>1, Zenon DEF Tmdb
  <2> QED BY <2>1
<1>13. MatchesYelp(other) <=> MatchesYelp(url)
  BY <1>1, YelpInBoth
<1>14. PlaceId(other) = PlaceId(url)
  BY <1>2, Zenon DEF PlaceId
<1>15. Dedicated(other) = Dedicated(url)
  BY <1>3, <1>6, <1>7, <1>9, <1>10, <1>11, <1>12, <1>13, <1>14, GuessUnfolds
<1>16. Social(other) <=> Social(url)
  BY <1>3 DEF Social, Recognized
<1>17. SpecificUrl(other) = SpecificUrl(url) /\ Domain(other) = Domain(url)
  <2>1. /\ (IF url.www > 0 THEN url.www - 1 ELSE 0) = 0
        /\ (IF other.www > 0 THEN other.www - 1 ELSE 0) = 0
    BY <1>2
  <2> QED BY <1>2, <2>1 DEF SpecificUrl, Domain
<1> QED BY <1>2, <1>15, <1>16, <1>17, GuessUnfolds

-----------------------------------------------------------------------------
(***************************************************************************)
(* A caller's keys, and the links it holds.                                *)
(***************************************************************************)

\* The caller holds a link or the ref of a key, and what it was read as is a key.
IsRef(t) == t = [ref |-> t.ref] /\ IsKey(t.ref)

KeysAreKeys ==
  /\ key # Unread => IsKey(key)
  /\ home # Unread => IsKey(home)
  /\ \/ IsUrl(text) /\ IsLink(text)
     \/ ~ IsUrl(text) /\ (text = NoText \/ IsRef(text))

\* A ref is no URL.
LEMMA RefIsNoUrl ==
  ASSUME NEW k, NEW t, t = [ref |-> k]
  PROVE  ~ IsUrl(t) /\ t.ref = k /\ t = [ref |-> t.ref]
<1>1. t.ref = k
  OBVIOUS
<1>2. DOMAIN t = {"ref"}
  OBVIOUS
<1>3. "scheme" # "ref"
  OBVIOUS
<1>4. ~ IsUrl(t)
  BY <1>2, <1>3 DEF IsUrl
<1> QED BY <1>1, <1>4

\* Holding nothing is not holding a URL.
LEMMA NoTextIsNoUrl == ~ IsUrl(NoText)
<1>1. PICK t : t = [ref |-> Unread]
  OBVIOUS
<1>2. ~ IsUrl(t)
  BY <1>1, RefIsNoUrl
<1> QED BY <1>1, <1>2, Zenon DEF NoText

\* The URLs people write are links.
LEMMA UrlsAreLinks ==
  ASSUME NEW url \in Urls
  PROVE  IsUrl(url) /\ IsLink(url) /\ url.path \in Paths
<1>1. url \in [scheme : {"https", "ftp"}, www : {1}, host : Hosts, port : BOOLEAN,
               path : Paths, slash : {FALSE}, query : Queries, frag : {<<>>}]
  BY DEF Urls
<1>2. /\ url.www = 1 /\ url.path \in Paths /\ url.query \in Queries /\ url.host \in Hosts
      /\ url.frag = <<>>
  BY <1>1
<1>3. url = [scheme |-> url.scheme, www |-> url.www, host |-> url.host, port |-> url.port,
             path |-> url.path, slash |-> url.slash, query |-> url.query, frag |-> url.frag]
  BY <1>1
<1>4. url.path \in Seq(Segments) /\ url.query \in Seq(Segments) /\ url.frag \in Fragments
  BY <1>2, ReferencesAssumption DEF Separated
<1>5. IsRow(url.path) /\ IsRow(url.query)
  BY <1>4, RowsAreRows
<1>6. url.www \in {0, 1}
  BY <1>2
<1>7. IsUrl(url) /\ IsLink(url)
  BY <1>2, <1>3, <1>4, <1>5, <1>6, LinkIs
<1> QED BY <1>2, <1>7

\* A link with one part replaced.
LEMMA WithAnotherPart ==
  ASSUME NEW a, NEW b, NEW c, NEW d, NEW e, NEW f, NEW g, NEW h, NEW x,
         NEW url, url = [scheme |-> a, www |-> b, host |-> c, port |-> d, path |-> e,
                         slash |-> f, query |-> g, frag |-> h]
  PROVE  /\ [url EXCEPT !.scheme = x] =
              [scheme |-> x, www |-> b, host |-> c, port |-> d, path |-> e,
               slash |-> f, query |-> g, frag |-> h]
         /\ [url EXCEPT !.www = x] =
              [scheme |-> a, www |-> x, host |-> c, port |-> d, path |-> e,
               slash |-> f, query |-> g, frag |-> h]
         /\ [url EXCEPT !.slash = x] =
              [scheme |-> a, www |-> b, host |-> c, port |-> d, path |-> e,
               slash |-> x, query |-> g, frag |-> h]
         /\ [url EXCEPT !.frag = x] =
              [scheme |-> a, www |-> b, host |-> c, port |-> d, path |-> e,
               slash |-> f, query |-> g, frag |-> x]
OBVIOUS

\* A respelled link is a link to the same page.
IsRespelling(url, other) == IsWebLink(other) /\ Alike(url, other)

\* Another scheme, www, slash or fragment is a respelling.
LEMMA RespellingIs ==
  ASSUME NEW url, IsLink(url), NEW a, NEW b, NEW f, NEW h,
         a \in {"http", "https"}, b \in {0, 1}, h \in Fragments,
         NEW other, other = [scheme |-> a, www |-> b, host |-> url.host, port |-> url.port,
                             path |-> url.path, slash |-> f, query |-> url.query, frag |-> h]
  PROVE  IsRespelling(url, other)
<1>1. /\ other.scheme = a /\ other.host = url.host /\ other.path = url.path
      /\ other.query = url.query /\ other.port = url.port
  BY PartsOfALink
<1>2. url.host \in Hosts /\ IsRow(url.path) /\ IsRow(url.query)
  BY DEF IsLink
<1>3. IsUrl(other) /\ IsLink(other)
  BY <1>2, LinkIs
<1> QED BY <1>1, <1>3, Zenon DEF IsRespelling, IsWebLink, Web, Alike

\* The caller's step changes no more than that.
LEMMA RespellIsARespelling ==
  ASSUME IsUrl(text), IsLink(text), Respell
  PROVE  /\ Web(text) /\ IsRespelling(text, text')
         /\ UNCHANGED <<key, home>>
<1> PICK url : url = text
  OBVIOUS
<1> PICK other : other = text'
  OBVIOUS
<1>1. Web(url) /\ UNCHANGED <<key, home>>
  BY DEF Respell
<1>2. PICK x, y, z : /\ x = IF url.scheme = "http" THEN "https" ELSE "http"
                     /\ y = 1 - url.www /\ z = ~ url.slash
  OBVIOUS
<1>3. \/ other = [url EXCEPT !.scheme = x]
      \/ other = [url EXCEPT !.www = y]
      \/ other = [url EXCEPT !.slash = z]
      \/ \E frag \in Fragments : other = [url EXCEPT !.frag = frag]
  BY <1>2 DEF Respell
<1>4. url = [scheme |-> url.scheme, www |-> url.www, host |-> url.host, port |-> url.port,
             path |-> url.path, slash |-> url.slash, query |-> url.query, frag |-> url.frag]
  BY DEF IsLink
<1>5. url.scheme \in {"http", "https"} /\ url.www \in {0, 1} /\ url.frag \in Fragments
  BY <1>1 DEF Web, IsLink
<1>6. x \in {"http", "https"} /\ y \in {0, 1}
  BY <1>2, <1>5
<1>7. IsRespelling(url, other)
  <2>1. CASE other = [url EXCEPT !.scheme = x]
    BY <1>4, <1>5, <1>6, <2>1, WithAnotherPart, RespellingIs
  <2>2. CASE other = [url EXCEPT !.www = y]
    BY <1>4, <1>5, <1>6, <2>2, WithAnotherPart, RespellingIs
  <2>3. CASE other = [url EXCEPT !.slash = z]
    BY <1>4, <1>5, <2>3, WithAnotherPart, RespellingIs
  <2>4. CASE \E frag \in Fragments : other = [url EXCEPT !.frag = frag]
    <3>1. PICK frag \in Fragments : other = [url EXCEPT !.frag = frag]
      BY <2>4
    <3> QED BY <1>4, <1>5, <3>1, WithAnotherPart, RespellingIs
  <2> QED BY <1>3, <2>1, <2>2, <2>3, <2>4, Zenon
<1> QED BY <1>1, <1>7

\* KeysAreKeys holds of what people write ...
LEMMA KeysAreKeysStart == ReferencesInit => KeysAreKeys
<1> SUFFICES ASSUME text \in Urls, key = Unread, home = Unread
             PROVE  KeysAreKeys
  BY DEF ReferencesInit
<1> QED BY UrlsAreLinks DEF KeysAreKeys

\* ... and whatever the caller does keeps it.
LEMMA KeysAreKeysStay == KeysAreKeys /\ [ReferencesNext]_refVars => KeysAreKeys'
<1> SUFFICES ASSUME KeysAreKeys, [ReferencesNext]_refVars
             PROVE  KeysAreKeys'
  OBVIOUS
<1> USE DEF KeysAreKeys
<1>1. ASSUME Read
      PROVE  KeysAreKeys'
  <2>1. text # NoText /\ UNCHANGED text /\ Reads(Parse(text))
    BY <1>1 DEF Read
  <2>2. Parse(text) = Unread \/ IsKey(Parse(text))
    <3>1. CASE IsUrl(text)
      BY <3>1, ReadingsAreKeys DEF Parse
    <3>2. CASE ~ IsUrl(text)
      BY <2>1, <3>2 DEF Parse, IsRef
    <3> QED BY <3>1, <3>2
  <2> QED BY <2>1, <2>2 DEF Reads
<1>2. ASSUME ReadTyped
      PROVE  KeysAreKeys'
  <2>1. PICK tag \in {"imdb", "wikidata", "tmdb", "yelp", "url", "domain"} :
          Typed(tag, text) # Unread /\ Reads(Typed(tag, text))
    BY <1>2 DEF ReadTyped
  <2>2. IsUrl(text) /\ text' = NoText
    BY <1>2 DEF ReadTyped
  <2>3. IsKey(Typed(tag, text))
    BY <2>1, <2>2, ReadingsAreKeys
  <2> QED BY <2>1, <2>2, <2>3, NoTextIsNoUrl DEF Reads
<1>3. ASSUME ReadPage
      PROVE  KeysAreKeys'
  <2>1. PICK site \in Sites, field \in Fields :
          \E k \in Harvest(PageOf(site, field, text)) : Reads(k)
    BY <1>3 DEF ReadPage
  <2>2. PICK k \in Harvest(PageOf(site, field, text)) : Reads(k)
    BY <2>1
  <2>3. IsUrl(text) /\ text' = NoText
    BY <1>3 DEF ReadPage
  <2>4. IsKey(k)
    BY <2>3, <2>2, ReadingsAreKeys
  <2> QED BY <2>2, <2>3, <2>4, NoTextIsNoUrl DEF Reads
<1>4. ASSUME TakeRef
      PROVE  KeysAreKeys'
  <2>1. key # Unread /\ text' = [ref |-> key] /\ UNCHANGED <<key, home>>
    BY <1>4 DEF TakeRef
  <2>2. ~ IsUrl(text') /\ text'.ref = key /\ text' = [ref |-> text'.ref]
    BY <2>1, RefIsNoUrl
  <2> QED BY <2>1, <2>2 DEF IsRef
<1>5. ASSUME TakeUrl
      PROVE  KeysAreKeys'
  <2>1. key # Unread /\ UrlFor(key) # NoText /\ text' = UrlFor(key) /\ UNCHANGED <<key, home>>
    BY <1>5 DEF TakeUrl
  <2>2. IsLink(text') /\ IsUrl(text')
    BY <2>1, KeysComeBack DEF IsWebLink
  <2> QED BY <2>1, <2>2
<1>6. ASSUME Respell
      PROVE  KeysAreKeys'
  <2>1. IsUrl(text)
    BY <1>6 DEF Respell
  <2>2. IsRespelling(text, text') /\ UNCHANGED <<key, home>>
    BY <1>6, <2>1, RespellIsARespelling
  <2> QED BY <2>2 DEF IsRespelling, IsWebLink
<1>7. CASE UNCHANGED refVars
  BY <1>7 DEF refVars
<1> QED BY <1>1, <1>2, <1>3, <1>4, <1>5, <1>6, <1>7 DEF ReferencesNext

\* What the caller reads and keeps is always a key of a kind, or a link.
THEOREM KeysStayKeys == ReferencesSpec => []KeysAreKeys
BY KeysAreKeysStart, KeysAreKeysStay, PTL DEF ReferencesSpec

\* The URL of a key comes back as that key, unless a social network's name occurs in it
\* (url_for_key against guess_id_from_url), for whatever hosts, paths and queries.
THEOREM KeysComeBackFromUrls == ReferencesSpec => []UrlsComeBack
<1>1. KeysAreKeys => UrlsComeBack
  BY KeysComeBack DEF KeysAreKeys, UrlsComeBack
<1> QED BY <1>1, KeysStayKeys, PTL

\* A bare host never names one thing, in a request or in any field of a page (specific_url,
\* "THE guard"), for whatever hosts, and whatever follows a "#" that no recognizer looks for.
THEOREM BareHostsStayUnbound == FragmentsAreInert => (ReferencesSpec => []SitesNameNoThing)
<1> SUFFICES ASSUME FragmentsAreInert PROVE ReferencesSpec => []SitesNameNoThing
  OBVIOUS
<1>1. KeysAreKeys => SitesNameNoThing
  BY BareHostsNameNoThing DEF FragmentsAreInert, KeysAreKeys, IsLink
<1> QED BY <1>1, KeysStayKeys, PTL

-----------------------------------------------------------------------------
(***************************************************************************)
(* The caller's first key.                                                 *)
(***************************************************************************)

\* The caller's link reads as its first key, or as none, however it is respelled: a slug of
\* Yelp's may itself be a word, so such a link is known by its whole path.
StaysHome ==
  /\ key \in {Unread, home}
  /\ home = Unread => IsUrl(text)
  /\ home # Unread => IsSettled(home)
  /\ IsUrl(text) =>
       \/ Closed(text.path) /\ (home # Unread => Guess(text) \in {Unread, home})
       \/ home # Unread /\ home[1] = "yelp" /\ YelpLink(text, home[2])
  /\ ~ IsUrl(text) => text = NoText \/ (text = [ref |-> home] /\ text.ref = home)

\* A link of Yelp's reads as its business.
LEMMA YelpStays ==
  ASSUME NEW k, k # Unread, IsKey(k), k[1] = "yelp", NEW url, YelpLink(url, k[2])
  PROVE  Guess(url) \in {Unread, k}
<1>1. PICK v : v = k[2]
  OBVIOUS
<1>2. k = <<"yelp", v>> /\ IsSlug(v)
  BY <1>1 DEF IsKey, IsValue
<1>3. Dedicated(url) = k
  BY <1>1, <1>2, YelpComesBack
<1> QED BY <1>3, GuessUnfolds

\* ... and so does its respelling.
LEMMA YelpRespelled ==
  ASSUME FragmentsAreInert, NEW v, NEW url, YelpLink(url, v), NEW other, IsRespelling(url, other)
  PROVE  YelpLink(other, v)
<1>1. PICK a : IsShort(url, a, v) /\ a.sep = "/" /\ Plain(a, "biz")
  BY DEF YelpLink
<1>2. IsLink(other) /\ Alike(url, other)
  BY DEF IsRespelling, IsWebLink
<1>3. Inert(other.frag)
  BY <1>2 DEF IsLink, FragmentsAreInert
<1>4. IsShort(other, a, v)
  BY <1>1, <1>2, <1>3, Zenon DEF IsShort, Alike
<1> QED BY <1>1, <1>2, <1>4, Zenon DEF YelpLink, Alike

\* What is read from a closed link is settled.
LEMMA ReadingsSettle ==
  ASSUME NEW url, Closed(url.path)
  PROVE  /\ Guess(url) # Unread => IsSettled(Guess(url))
         /\ \A tag \in {"imdb", "wikidata", "tmdb", "yelp", "url", "domain"} :
              Typed(tag, url) # Unread => IsSettled(Typed(tag, url))
         /\ \A site \in Sites, field \in Fields :
              \A k \in Harvest(PageOf(site, field, url)) : IsSettled(k)
<1>1. SpecificUrl(url) # Unread => IsSettled(SpecificUrl(url))
  <2> DEFINE v == [host |-> url.host, www |-> IF url.www > 0 THEN url.www - 1 ELSE 0,
                   path |-> url.path, query |-> url.query]
  <2>1. SpecificUrl(url) = Unread \/ SpecificUrl(url) = <<"url", v>>
    BY DEF SpecificUrl
  <2>2. v.path = url.path
    OBVIOUS
  <2> HIDE DEF v
  <2>3. <<"url", v>>[2] = v
    OBVIOUS
  <2> QED BY <2>1, <2>2, <2>3, Zenon DEF IsSettled
<1>2. Guess(url) # Unread => IsSettled(Guess(url))
  BY <1>1, GuessIsTagged DEF IsSettled
<1>3. ASSUME NEW tag \in {"imdb", "wikidata", "tmdb", "yelp", "url", "domain"},
             Typed(tag, url) # Unread
      PROVE  IsSettled(Typed(tag, url))
  <2>1. /\ tag = "imdb" => Typed(tag, url) = Imdb(url)
        /\ tag = "wikidata" => Typed(tag, url) = Qid(url)
        /\ tag = "tmdb" => Typed(tag, url) = Tmdb(url)
        /\ tag = "yelp" => Typed(tag, url) = Yelp(url)
        /\ tag = "url" => Typed(tag, url) = SpecificUrl(url)
        /\ tag = "domain" => Typed(tag, url) = Domain(url)
    BY DEF Typed
  <2>2. Typed(tag, url) = SpecificUrl(url) \/ Typed(tag, url)[1] # "url"
    BY <1>3, <2>1, ReadingsAreTagged
  <2> QED BY <1>1, <1>3, <2>2 DEF IsSettled
<1>4. ASSUME NEW site \in Sites, NEW field \in Fields, NEW k \in Harvest(PageOf(site, field, url))
      PROVE  IsSettled(k)
  <2>1. k # Unread /\ (k = <<"domain", site>> \/ k = Guess(url) \/ k = Domain(url))
    BY HarvestIs
  <2>2. CASE k = Guess(url)
    BY <1>2, <2>1, <2>2
  <2>3. CASE k = Domain(url)
    BY <2>1, <2>3, ReadingsAreTagged DEF IsSettled
  <2>4. CASE k = <<"domain", site>>
    BY <2>4 DEF IsSettled
  <2> QED BY <2>1, <2>2, <2>3, <2>4
<1> QED BY <1>2, <1>3, <1>4

\* StaysHome holds of what people write ...
LEMMA StaysHomeStart == PathsEndClosed /\ ReferencesInit => StaysHome
<1> SUFFICES ASSUME PathsEndClosed, text \in Urls, key = Unread, home = Unread
             PROVE  StaysHome
  BY DEF ReferencesInit
<1> QED BY UrlsAreLinks DEF StaysHome, PathsEndClosed

\* ... and whatever the caller does keeps it.
LEMMA StaysHomeStays ==
  FragmentsAreInert /\ HostsAreNoTokens /\ KeysAreKeys /\ StaysHome /\ [ReferencesNext]_refVars
    => StaysHome'
<1> SUFFICES ASSUME FragmentsAreInert, HostsAreNoTokens, KeysAreKeys, StaysHome,
                    [ReferencesNext]_refVars
             PROVE  StaysHome'
  OBVIOUS
<1> USE DEF StaysHome
<1>1. ASSUME Read
      PROVE  StaysHome'
  <2>1. text # NoText /\ UNCHANGED text /\ Reads(Parse(text))
    BY <1>1 DEF Read
  <2>2. CASE IsUrl(text) /\ Closed(text.path) /\ (home # Unread => Guess(text) \in {Unread, home})
    <3>1. Parse(text) = Guess(text)
      BY <2>2 DEF Parse
    <3>2. Guess(text) # Unread => IsSettled(Guess(text))
      BY <2>2, ReadingsSettle
    <3> QED BY <2>1, <2>2, <3>1, <3>2 DEF Reads
  <2>3. CASE IsUrl(text) /\ home # Unread /\ home[1] = "yelp" /\ YelpLink(text, home[2])
    <3>1. Parse(text) = Guess(text)
      BY <2>3 DEF Parse
    <3>2. Guess(text) \in {Unread, home}
      BY <2>3, YelpStays DEF KeysAreKeys
    <3> QED BY <2>1, <2>3, <3>1, <3>2 DEF Reads
  <2>4. CASE ~ IsUrl(text)
    <3>1. home # Unread /\ text.ref = home /\ (Parse(text) = Unread \/ Parse(text) = home)
      BY <2>1, <2>4 DEF Parse
    <3> QED BY <2>1, <2>4, <3>1 DEF Reads
  <2> QED BY <2>2, <2>3, <2>4
<1>2. ASSUME ReadTyped
      PROVE  StaysHome'
  <2>1. PICK tag \in {"imdb", "wikidata", "tmdb", "yelp", "url", "domain"} :
          Typed(tag, text) # Unread /\ Reads(Typed(tag, text))
    BY <1>2 DEF ReadTyped
  <2>2. IsUrl(text) /\ text' = NoText /\ home = Unread
    BY <1>2 DEF ReadTyped
  <2>3. IsSettled(Typed(tag, text))
    BY <2>1, <2>2, ReadingsSettle
  <2> QED BY <2>1, <2>2, <2>3, NoTextIsNoUrl DEF Reads
<1>3. ASSUME ReadPage
      PROVE  StaysHome'
  <2>1. PICK site \in Sites, field \in Fields :
          \E k \in Harvest(PageOf(site, field, text)) : Reads(k)
    BY <1>3 DEF ReadPage
  <2>2. PICK k \in Harvest(PageOf(site, field, text)) : Reads(k)
    BY <2>1
  <2>3. IsUrl(text) /\ text' = NoText /\ home = Unread
    BY <1>3 DEF ReadPage
  <2>4. k # Unread
    BY <2>2, HarvestIs
  <2>5. IsSettled(k)
    BY <2>3, <2>2, ReadingsSettle
  <2> QED BY <2>2, <2>3, <2>4, <2>5, NoTextIsNoUrl DEF Reads
<1>4. ASSUME TakeRef
      PROVE  StaysHome'
  <2>1. key # Unread /\ text' = [ref |-> key] /\ UNCHANGED <<key, home>>
    BY <1>4 DEF TakeRef
  <2>2. ~ IsUrl(text') /\ text'.ref = key
    BY <2>1, RefIsNoUrl
  <2> QED BY <2>1, <2>2
<1>5. ASSUME TakeUrl
      PROVE  StaysHome'
  <2>1. key # Unread /\ UrlFor(key) # NoText /\ text' = UrlFor(key) /\ UNCHANGED <<key, home>>
    BY <1>5 DEF TakeUrl
  <2>2. key = home /\ IsKey(key) /\ IsSettled(key)
    BY <2>1 DEF KeysAreKeys
  <2>3. IsUrl(text') /\ Guess(text') \in {Unread, key}
    BY <2>1, <2>2, KeysComeBack DEF IsWebLink
  <2>4. IF key[1] = "yelp" THEN YelpLink(text', key[2]) ELSE Closed(text'.path)
    BY <2>1, <2>2, KeysComeBack
  <2> QED BY <2>1, <2>2, <2>3, <2>4
<1>6. ASSUME Respell
      PROVE  StaysHome'
  <2>1. IsUrl(text)
    BY <1>6 DEF Respell
  <2>2. IsLink(text)
    BY <2>1 DEF KeysAreKeys
  <2>3. Web(text) /\ IsRespelling(text, text') /\ UNCHANGED <<key, home>>
    BY <1>6, <2>1, <2>2, RespellIsARespelling
  <2>4. /\ IsLink(text') /\ IsUrl(text') /\ Web(text')
        /\ Alike(text, text') /\ text'.path = text.path
    BY <2>3 DEF IsRespelling, IsWebLink, Alike
  <2>5. CASE Closed(text.path) /\ (home # Unread => Guess(text) \in {Unread, home})
    <3>1. Inert(text.frag) /\ Inert(text'.frag)
      BY <2>2, <2>4 DEF IsLink, FragmentsAreInert
    <3>2. Alike(text', text)
      BY <2>4, Zenon DEF Alike
    <3>3. SamePage(text, text')
      BY <2>2, <2>3, <2>4, <2>5, <3>1, <3>2 DEF SamePage
    <3>4. Guess(text') = Guess(text)
      BY <3>3, RespelledReadsTheSame
    <3> QED BY <2>3, <2>4, <2>5, <3>4
  <2>6. CASE home # Unread /\ home[1] = "yelp" /\ YelpLink(text, home[2])
    <3>1. YelpLink(text', home[2])
      BY <2>3, <2>6, YelpRespelled
    <3> QED BY <2>3, <2>4, <2>6, <3>1
  <2> QED BY <2>1, <2>5, <2>6
<1>7. CASE UNCHANGED refVars
  BY <1>7 DEF refVars
<1> QED BY <1>1, <1>2, <1>3, <1>4, <1>5, <1>6, <1>7 DEF ReferencesNext

\* Whatever the caller takes from an answer, respells and sends again is read as the key it
\* had first, or not at all (kind.rs), for whatever queries, where none of the three ways by
\* which MCReferencesRespelled breaks it is open: a fragment, a trailing slash and a "www.".
THEOREM KeysStick ==
  FragmentsAreInert /\ PathsEndClosed /\ HostsAreNoTokens => (ReferencesSpec => []KeySticks)
<1> SUFFICES ASSUME FragmentsAreInert, PathsEndClosed, HostsAreNoTokens
             PROVE  ReferencesSpec => []KeySticks
  OBVIOUS
<1>1. ReferencesInit => StaysHome
  BY StaysHomeStart
<1>2. KeysAreKeys /\ StaysHome /\ [ReferencesNext]_refVars => StaysHome'
  BY StaysHomeStays
<1>3. StaysHome => KeySticks
  BY DEF StaysHome, KeySticks
<1> QED BY <1>1, <1>2, <1>3, KeysStayKeys, PTL DEF ReferencesSpec
=============================================================================
