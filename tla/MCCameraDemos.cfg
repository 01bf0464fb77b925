\* Two objects at different places, one speck that is too small, nothing.
CONSTANTS
  Frames <- MCFrames
  MinGreen = 2
  QueueSize = 1
SPECIFICATION Spec
INVARIANTS DotIsOfOneFrame LockOutlivesCallbacks
PROPERTIES EndsWhenAsked
