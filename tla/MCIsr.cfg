SPECIFICATION Spec
CONSTANTS
  home = home
  news = news
  feed = feed
  exact = exact
  r1 = r1
  r2 = r2
  f1 = f1
  f2 = f2
  Keys = {home, news}
  Tags = {feed}
  Absent = Absent
  MaxCachedPages = 1
  TagsOf <- MCTagsOf
  Manual = {news}
  Paths = {exact}
  Names <- MCNames
  Requests = {r1, r2}
  Flights = {f1, f2}
  NoFlight = NoFlight
  Own = Own
  MaxVersion = 1
SYMMETRY Symmetry
INVARIANTS
  CopiesAreFresh
  OneRenderPerKey
  WaitersHaveAFlight
  RefusalsAreFresh
PROPERTIES
  KeepsPromise
