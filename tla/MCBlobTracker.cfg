\* Blobs of two pixels and more are valid unless they are thin or hollow, and a
\* corner is out of reach of the opposite one.
CONSTANTS
  Width = 3
  Height = 3
  Frames <- MCFrames
  Scale = 2
  PixelWeight = 4
  MinPixels = 2
  MinSide = 1
  MaxAspect = 200
  MinFill = 70
  MaxJump = 3
  ResetFrames = 2
SPECIFICATION Spec
INVARIANTS QueueFits BlobIsComponent NothingMissed
PROPERTY LostObjectIsFound
