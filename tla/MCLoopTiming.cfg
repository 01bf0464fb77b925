\* Samples of a quarter of a second around second boundaries.
CONSTANTS
  Period = 250000
  WorkTimes <- MCWorkTimes
  Latencies <- MCLatencies
  StartTimes <- MCStartTimes
  MaxSamples = 5
  Hold1 = 500000
  Hold2 = 250000
  Repeat = TRUE
SPECIFICATION Spec
INVARIANTS NeverEarly NoDrift SwitchesOnTime
