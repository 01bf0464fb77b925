\* Frames, aborted and longer frames, and resets, at the shortest hold time that
\* works.
CONSTANTS
  FrameBits = 5
  MaxBits = 7
  Words <- MCWords
  Counts <- MCCounts
  MinHold = 3
  Nothing = Nothing
  First = 0
  DutyBits = 3
  Period = 5
  MaxCounter = 7
SPECIFICATION FpgaSpec
INVARIANTS ReplyIsOneFreshSample DutyIsExact
PROPERTY ImplementsLink
