\* The command line: names, websites and places learned, merged and split, unforced.
SPECIFICATION RequestSpec
CONSTANTS
  t1 = t1  q1 = q1  q2 = q2  d = d  g = g  k = k  u = u  tel = tel
  n = n  x = x  y = y  p1 = p1  p2 = p2  b = b
  NoKey = NoKey
  NoCid = NoCid
  NoTitle = NoTitle
  Identity = {q1, q2, g}
  Affiliation = {d}
  Phones = {tel}
  Titles = {n}
  Tokens = {x}
  Names <- NameKeys
  MaxProbes = 0
  Kind <- KindOnKeys
  Rank <- RankOnKeys
  Pos <- PosOnKeys
  Hash <- HashOnKeys
  Records <- Ingested
  Strict = {FALSE}
  Forced = {FALSE}
  Fronts = {"cli"}
  Clients = {p1}
  Bucket <- OneBucket
  Asks <- CommandAsks
  Limits = {0}
  MaxDay = 0
  MaxLearned = 2
  Configured = {"places", "tmdb", "wikidata"}
  Describes <- Described
  HubRecords = {}
INVARIANTS
  NoDanglingRow
  OneKeyPerKind
  AnswersWereProved
PROPERTIES
  RowsFollowMerges
  SplitForgetsNames
