\* vision_tracker_stop against its documentation.
CONSTANT MaxFrames = 3
SPECIFICATION Spec
PROPERTY StopEndsCamera
