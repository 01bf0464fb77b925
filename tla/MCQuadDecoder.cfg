\* Turns and bounces with resets in any clock.
CONSTANTS
  Modulus = 8
  Positions <- MCPositions
SPECIFICATION Spec
INVARIANTS CountFollows
