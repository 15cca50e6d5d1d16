SPECIFICATION ArraySpec
CONSTANTS
  Number <- MCNumber
  FloatResult = {0, 1}
  Slot <- MCSlot
  StringSlot <- MCStringSlot
  NoVar = NoVar
  Programs <- ClrPrograms
  FormatG <- MCFormatG
  Atof <- MCAtof
  MaxCalls = 2
  MaxLoops = 2
INVARIANT NothingLeaks
CHECK_DEADLOCK FALSE
