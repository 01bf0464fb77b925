\* The span of homing against its documentation.
CONSTANTS
  PwmMax = 512
  Travel = 5
  MinStep = 1
  MaxStep = 2
  CountAtStop <- MCCountAtStop
  StaleCommands <- MCStaleCommands
  HomingPwm = 128
  Window = 3
  Threshold = 3
  MaxSamples = 6
  Settle = 2
  GarbageCounts <- MCGarbageCounts
  Unset = Unset
SPECIFICATION HomingSpec
INVARIANT SpanIsMeasured
