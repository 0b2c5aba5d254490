\* A repeated request over two films and three domains they may share, and a caller with the
\* URL of a page, of any of ten hosts.
SPECIFICATION RepeatsSpec
CONSTANTS
  q = q  m1 = m1  m2 = m2  d1 = d1  d2 = d2  d3 = d3  p = p  n = n
  NoKey = NoKey
  NoCid = NoCid
  Identity = {m1, m2}
  Affiliation = {d1, d2, d3}
  Phones = {p}
  Names = {n}
  MaxProbes = 0
  Kind <- KindOnKeys
  Rank <- RankOnKeys
  Pos <- PosOnKeys
  Hash <- HashOnKeys
  Records <- NoPhonePairs
  Strict = {FALSE}
  Forced = {FALSE}
  Sent <- SmallRecords
  NoRecord = NoRecord
  NoSite = NoSite
  Unread = Unread
  Others <- OtherHosts
  Spelled <- SpelledAs
  SiteOf <- SitesOf
  Paths <- SomePaths
  Queries <- SomeQueries
  Fragments <- InertFragments
INVARIANTS
  DomainConverges
  KeySticks
  UrlsComeBack
  SitesNameNoThing
PROPERTIES
  LookupWritesNothing
  SettlesByTheSecond
