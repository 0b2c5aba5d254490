\* A film search whose candidates include a series.
SPECIFICATION RequestSpec
CONSTANTS
  t1 = t1  q1 = q1  q2 = q2  d = d  g = g  k = k  u = u  tel = tel
  n = n  x = x  y = y  p1 = p1  p2 = p2  b = b
  NoKey = NoKey
  NoCid = NoCid
  NoTitle = NoTitle
  Identity = {t1, u}
  Affiliation = {}
  Phones = {}
  Titles = {n}
  Tokens = {}
  Names <- NameKeys
  MaxProbes = 0
  Kind <- KindOnKeys
  Rank <- RankOnKeys
  Pos <- PosOnKeys
  Hash <- HashOnKeys
  Records = {}
  Strict = {FALSE}
  Forced = {TRUE}
  Fronts = {"worker"}
  Clients = {p1}
  Bucket <- OneBucket
  Asks <- FilmAsks
  Limits = {1}
  MaxDay = 0
  MaxLearned = 2
  Configured = {"places", "tmdb", "wikidata"}
  Describes <- Described
  HubRecords = {}
INVARIANTS
  EchoResolves
