SPECIFICATION ArraySpec
CONSTANTS
  Number <- MCNumber
  FloatResult = {0, 1}
  Slot <- MCSlot
  StringSlot <- MCStringSlot
  NoVar = NoVar
  Programs <- StepPrograms
  FormatG <- MCFormatG
  Atof <- MCAtof
  MaxCalls = 2
  MaxLoops = 2
INVARIANT StepHonoured
CHECK_DEADLOCK FALSE
