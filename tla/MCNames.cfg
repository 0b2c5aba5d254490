\* Requests for names and websites, two at a time, on a budget.
SPECIFICATION RequestSpec
CONSTANTS
  t1 = t1  q1 = q1  q2 = q2  d = d  g = g  k = k  u = u  tel = tel
  n = n  x = x  y = y  p1 = p1  p2 = p2  b = b
  NoKey = NoKey
  NoCid = NoCid
  NoTitle = NoTitle
  Identity = {q1, q2}
  Affiliation = {d}
  Phones = {}
  Titles = {n}
  Tokens = {x, y}
  Names <- NameKeys
  MaxProbes = 0
  Kind <- KindOnKeys
  Rank <- RankOnKeys
  Pos <- PosOnKeys
  Hash <- HashOnKeys
  Records = {}
  Strict = {FALSE}
  Forced = {TRUE}
  Fronts = {"worker"}
  Clients = {p1, p2}
  Bucket <- OneBucket
  Asks <- SiteAndNameAsks
  Limits = {0, 1}
  MaxDay = 1
  MaxLearned = 2
  Configured = {"places", "tmdb", "wikidata"}
  Describes <- Described
  HubRecords <- Joins
INVARIANTS
  BudgetHolds
  AnswersWereProved
  NamesNeverPoisoned
  EchoResolves
PROPERTIES
  RepeatsAreLocal
  RequestsEnd
