\* Both controllers, with any target and position in every sample.
CONSTANTS
  Derivative <- MCDerivative
  Integral <- MCIntegral
  CorrGain = 0
  OutputMin <- MCOutputMin
  OutputMax <- MCOutputMax
  Targets <- MCTargets
  Positions <- MCPositions
  MaxError = 2
SPECIFICATION Spec
INVARIANTS IntegratorBounded
PROPERTIES NoDerivativeKick Unwinds
