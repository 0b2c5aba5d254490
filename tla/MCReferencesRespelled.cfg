\* A caller who adds to its URL a fragment with a film's path, a slash or a "www.": what is
\* read from it is another key.
SPECIFICATION ReferencesSpec
CONSTANTS
  NoSite = NoSite
  Unread = Unread
  Others <- MarkedHosts
  Spelled <- MarkedSpelled
  SiteOf <- MarkedSites
  Paths <- MarkedPaths
  Queries <- NoQueries
  Fragments <- FilmFragments
INVARIANTS
  KeySticks
