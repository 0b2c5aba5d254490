\* A completion on its own: nobody else writes.
SPECIFICATION CompletionSpec
CONSTANTS
  q = q  m1 = m1  t = t  g = g  d1 = d1  p = p
  NoKey = NoKey
  NoCid = NoCid
  Identity = {m1, q, t, g}
  Affiliation = {d1}
  Phones = {p}
  Names = {}
  MaxProbes = 0
  Kind <- KindOnKeys
  Rank <- RankOnKeys
  Pos <- PosOnKeys
  Hash <- HashOnKeys
  Records = {}
  Strict = {FALSE}
  Forced = {FALSE}
  Seeds <- SeedRecords
  HubRecords <- Answers
  Callers <- CliAndWorker
  MaxAttempts = 3
INVARIANTS
  BestEffort
