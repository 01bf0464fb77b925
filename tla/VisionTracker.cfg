\* The tracker's threads, with a camera that may fail at any point.
CONSTANT MaxFrames = 3
SPECIFICATION Spec
INVARIANTS
  CallbackHasItsData StreamOutlivesFrames FailedStartLeavesNothing
  FreedOnlyAfterCameraEnded
PROPERTIES StartReturns CameraEndEndsThread StopReturnsOnceLooping
