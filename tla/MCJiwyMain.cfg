\* The whole program: signals, failing exchanges, camera frames.
CONSTANTS
  PwmMax = 512
  Travel = 5
  MinStep = 1
  MaxStep = 2
  CountAtStop <- MCCountAtStop
  StaleCommands <- MCStaleCommands
  HomingPwm = 128
  Window = 3
  Threshold = 3
  MaxSamples = 6
  Settle = 2
  GarbageCounts <- MCGarbageCounts
  Unset = Unset
  Outputs <- MCOutputs
  HoldTargets <- MCHoldTargets
  Errors <- MCErrors
  MaxFrames = 2
SPECIFICATION Spec
INVARIANTS
  MainTypeOK OneMotorAtATime StopsAreReal QuietReturn QuietExit ControlNeedsHoming
  FrameUsedOnce AtMostOneLateDrive
PROPERTIES
  StopBetweenPushes ImplementsMotorSafety HomingEnds SignalEndsRun
