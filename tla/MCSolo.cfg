\* One request at a time, crashes anywhere, over two films and three domains.
SPECIFICATION SoloSpec
CONSTANTS
  q = q  m1 = m1  m2 = m2  d1 = d1  d2 = d2  d3 = d3  p = p  n = n
  p1 = p1  p2 = p2
  NoKey = NoKey
  NoCid = NoCid
  Identity = {m1, m2}
  Affiliation = {d1, d2, d3}
  Phones = {p}
  Names = {}
  MaxProbes = 0
  Kind <- KindOnKeys
  Rank <- RankOnKeys
  Pos <- PosOnKeys
  Hash <- HashOnKeys
  Records <- SoloRecords
  Strict = {FALSE}
  Forced = {FALSE}
  Requests = {p1}
  GiveUp = FALSE
INVARIANTS
  EntityGrain
  AloneNeverFails
  AnsweredIsWhole
PROPERTIES
  ImplementsCommit
