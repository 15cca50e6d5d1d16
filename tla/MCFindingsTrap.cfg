SPECIFICATION ArraySpec
CONSTANTS
  Number <- MCNumber
  FloatResult = {0, 1}
  Slot <- MCSlot
  StringSlot <- MCStringSlot
  NoVar = NoVar
  Programs <- CaughtPrograms
  FormatG <- MCFormatG
  Atof <- MCAtof
  MaxCalls = 2
  MaxLoops = 2
PROPERTY EntersHandler
CHECK_DEADLOCK FALSE
