SPECIFICATION ToolchainSpec
CONSTANTS
  b1 = b1
  b2 = b2
  b3 = b3
  Builders = {b1, b2, b3}
  NoFile = NoFile
  Torn = Torn
  HasProcfs = TRUE
  s1 = s1
  s2 = s2
  Shells = {s1, s2}
  Pages = {"home", "posts", "account", "admin", "news"}
  PageKind <- MCPageKind
  None = None
  Alone = TRUE
  MaxEdits = 1
  MaxCommands = 3
  Sources = {"main.go", "env.ts", "app.scss", "home.tsx", "about.tsx"}
  Kind <- MCKind
  Absent = Absent
  MaxSaves = 2
  MaxTroubles = 1
  Contents = {"long", "short", "tiny"}
  SizeOf <- MCSizeOf
  Gone = Gone
  MaxWrites = 2
CHECK_DEADLOCK FALSE
INVARIANTS
  BuildsTakeTurns
  OutputsAreWhole
  SessionIsCurrent
  AnswersAgree
  OneStatusPerUrl
  PinnedIsTheName
PROPERTIES
  WorkGoesOn
