SPECIFICATION InterruptsSpec
CONSTANTS
  TickModulus <- MCTickModulus
  LateTicks = 1
  Millis <- MCMillis
  EaxHigh <- MCEaxHigh
  PicBases <- MCPicBases
INVARIANT TicksCountInterrupts
