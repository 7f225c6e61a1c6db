SPECIFICATION PagesSpec
CONSTANTS
  list = list
  detail = detail
  form = form
  Pages = {list, detail}
  Home = list
  PostForms = {form}
  NoForm = NoForm
  Top = Top
  MaxNavs = 3
  MaxKeys = 3
  MaxEntries = 2
  Apps <- MCApps
  Paths <- MCPaths
  Modes <- MCModes
  Targets <- MCTargets
  None = None
  k1 = k1
  k2 = k2
  k3 = k3
  Calls = {k1, k2, k3}
  Kinds <- MCKinds
  Headers <- MCHeaders
  Answers <- MCAnswers
  Expired = Expired
  Retries = 1
  Bytes = {"f", "s", "/", "q"}
  NameBytes = {"f", "s"}
  Needles <- MCNeedles
  Redacted = "#"
  Documents <- MCDocuments
  MaxChunk = 4
CHECK_DEADLOCK FALSE
INVARIANTS
  ScreenMatchesHistory
  DoorsHold
  LoginsReachTheReader
  CutsDoNotShow
PROPERTIES
  CallsEndOnce
