SPECIFICATION AuthoringSpec
CONSTANTS
  None = None
  Files <- MCFiles
  Rules = {"number", "text"}
  Machines <- MCMachines
  Unset = "unset"
  EmptyText = ""
  Finite = {"1", "70000"}
  PortTexts = {"1"}
  BoolTexts = {"1"}
  UrlTexts = {"http"}
  Prefixed = {"PUBLIC"}
  Reserved = {"PORT"}
  GoFields = {"SECRET"}
  MaxSaves = 2
  Sessions = {"s1", "s2", "s3"}
  Directories = {"app", "other"}
  Dir <- MCDir
  Wanted <- MCWanted
  SparePorts = {"p1", "p2"}
  NoFile = NoFile
  Torn = Torn
  NoSession = NoSession
  StringTexts <- MCStrings
  RegexTexts <- MCRegexes
  CommentTexts <- MCComments
  ChunkTexts <- MCChunks
  Statements = {"H", "I", "M", "D", "V"}
  MaxTokens = 4
  Paths <- MCPaths
  Specs <- MCSpecs
  Urls <- MCUrls
  Public <- MCPublic
  Modules <- MCModules
  Hidden <- MCHidden
  Assets <- MCAssets
  Conventions <- MCConventions
  MaxFiles = 2
  MaxRefs = 1
  page1 = page1
  page2 = page2
  TabPages = {page1, page2}
  FirstPage = page1
  PropsMax = 1
  MaxAsked = 3
  MaxPosts = 1
  ExportApps <- MCExportApps
  Coded = {"accented"}
  Unsafe = {"", ".", ".."}
  Begins <- MCBegins
  LocalPorts = {1, 2, 3}
  ShellPort = 0
  EarlierSites <- MCEarlierSites
  Wishes <- MCWishes
  Surroundings <- MCSurroundings
CHECK_DEADLOCK FALSE
INVARIANTS
  EnvMeansOneThing
  SessionsKeepApart
  CodeIsToldFromText
  RefusalsAreRight
  ExportsAreWhole
  SummaryIsTrue
PROPERTIES
  PrefetchesAreSound
