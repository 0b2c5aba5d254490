\* Two requests at once, then repeated one after the other.
SPECIFICATION RaceSpec
CONSTANTS
  q = q  m1 = m1  m2 = m2  d1 = d1  d2 = d2  d3 = d3  p = p  n = n
  p1 = p1  p2 = p2
  NoKey = NoKey
  NoCid = NoCid
  Identity = {q, m1, m2}
  Affiliation = {d1}
  Phones = {}
  Names = {}
  MaxProbes = 0
  Kind <- KindOnKeys
  Rank <- RankOnKeys
  Pos <- PosOnKeys
  Hash <- HashOnKeys
  Records <- PairRecords
  Strict = {FALSE}
  Forced = {FALSE}
  Requests = {p1, p2}
\* When all have ended and been repeated there is nothing left to do.
CHECK_DEADLOCK FALSE
INVARIANTS
  NoDanglingRow
  SameRecordSameAnswer
  RepeatsMend
