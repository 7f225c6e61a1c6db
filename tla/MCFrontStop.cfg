SPECIFICATION FrontSpec
CONSTANTS
  MaxFrames = 4
  Size <- MCSize
  QueueFrames = 2
  QueueBytes = 4
  c1 = c1
  c2 = c2
  room = room
  news = news
  Topics = {room, news}
  Sockets = {c1, c2}
  Asked <- MCAsked
  MaxEvents = 2
  Launches <- MCLaunches
  Requests = {"r1", "r2"}
  LoosePorts = {"p1", "p2"}
  TakenPorts = {"p9"}
  UnsetText = "unset"
  Noone = Noone
  RefusedSetting = RefusedSetting
  TrueTexts = {"1", "true"}
  FalseTexts = {"0", "false"}
  PolicyTexts = {"own", "torn"}
  BadPolicies = {"torn"}
  NumberTexts = {"100", "70000"}
  TerminalStops = TRUE
  MaxGestures = 2
CHECK_DEADLOCK FALSE
INVARIANTS
  OneStopDrains
