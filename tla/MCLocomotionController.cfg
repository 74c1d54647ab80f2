SPECIFICATION FairSpec
CONSTANTS
  Command <- SomeCommands
  NonFinite = NonFinite
  Limits <- SomeLimits
  CmdTimeout = 2
  MaxSkew = 2
  MayThrow = TRUE
  Action = {stand, wave}
  BuiltIn = {stand}
  NoAction = NoAction
  MaxHeld = 1
INVARIANTS TypeOK MovesOnlyCommanded OldCommandEnds AxesWithinLimits SpeedWithinLimits KeepsDirection
PROPERTIES NoNeedlessStop StopsInTheEnd
