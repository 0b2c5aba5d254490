\* Commits over three identity keys and three domains; forced corrections over one domain.
SPECIFICATION FewSpec
CONSTANTS
  q = q  m1 = m1  m2 = m2  d1 = d1  d2 = d2  d3 = d3  p = p  n = n
  NoKey = NoKey
  NoCid = NoCid
  Identity = {q, m1, m2}
  Affiliation = {d1, d2, d3}
  Phones = {}
  Names = {}
  MaxProbes = 1
  Kind <- KindOnKeys
  Rank <- RankOnKeys
  Pos <- PosOnKeys
  Hash <- HashOnKeys
  Records <- SmallRecords
  Strict = {FALSE}
  Forced = {TRUE}
INVARIANTS
  TypeOK
  MintedKeyIsKnown
  AnchorIsCurrent
  EvidenceDecides
PROPERTIES
  NoKeyStolen
  RefinesPartition
