\* vision_stream_stop, as part of vision_tracker_stop, against its documentation.
CONSTANTS
  MaxSequence = 3
  MaxClients = 2
SPECIFICATION StreamSpec
PROPERTY StreamStopReturns
CHECK_DEADLOCK FALSE
