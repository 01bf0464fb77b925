\* Two clients, three frames, and a stop that may come at any point.
CONSTANTS
  MaxSequence = 3
  MaxClients = 2
SPECIFICATION StreamSpec
INVARIANTS NoDescriptorLeaks
PROPERTIES FramesAdvance ClientNeverBlocksCamera StopReturnsIfHeard
CHECK_DEADLOCK FALSE
