SPECIFICATION DSpec
CONSTANTS
  home = home
  news = news
  feed = feed
  exact = exact
  r1 = r1
  f1 = f1
  f2 = f2
  s1 = s1
  s2 = s2
  d1 = d1
  d2 = d2
  Keys = {home, news}
  Tags = {feed}
  Absent = Absent
  MaxCachedPages = 1
  TagsOf <- MCTagsOf
  Manual = {home}
  Paths = {exact}
  Names <- MCNames
  Requests = {r1}
  Flights = {f1}
  NoFlight = NoFlight
  Own = Own
  MaxVersion = 1
  Saves = {s1, s2}
  Drains = {d1}
  NoFile = NoFile
  ReadErrors = FALSE
  MaxGen = 2
SYMMETRY Symmetry
INVARIANTS
  WholeCopies
  FilesFollowMemory
  NothingComesBack
