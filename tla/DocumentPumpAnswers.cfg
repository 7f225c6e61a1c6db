SPECIFICATION PumpSpec
CONSTANTS
  Docs = {d1, d2}
  Zlibs = {z1, z2}
  None = None
  Length = 4
  Buffer = 2
  PoolMax = 1
CHECK_DEADLOCK FALSE
PROPERTIES
  AnswersEnd
